----------------------------- MODULE NetworkPool -----------------------------
(***************************************************************************)
(* Connections between the accept loop, the pool of HTTP workers and the   *)
(* list Impl::connections (src/src/server.cpp): class NetworkPool, the     *)
(* connection handler and the pool factory of run(), requestStopLocked,    *)
(* watchGrace and the end of run(), for one run of the listener.           *)
(*                                                                         *)
(* A step is one critical section of Impl::mutex or NetworkPool::mutex_,   *)
(* or one piece of code between two of them.  cpp-httplib is external: its *)
(* accept loop gives a new connection to the handler, then to enqueue, and *)
(* closes the socket when enqueue refuses it; a worker's task reads one    *)
(* request after another until the connection ends; cancel() makes every   *)
(* read and write of the connection fail.  Clients owe nothing: a request  *)
(* may never be completed and a connection may stay idle.                  *)
(***************************************************************************)
EXTENDS Naturals, Sequences, FiniteSets, SequencesExt

CONSTANTS Workers,  \* threads_ of the pool, workerThreads many
          Conns,    \* connections a client may open
          QueueCap, \* cap_: maxQueuedConnections
          None      \* no connection

ASSUME PoolAssumption ==
  /\ IsFiniteSet(Workers) /\ Workers # {}
  /\ QueueCap \in Nat \ {0}
  /\ None \notin Conns

VARIABLES
  state,       \* Impl::state of a started server
  listening,   \* the listener has not been told to stop
  networkDone, \* Impl::networkDone
  connections, \* Impl::connections
  loop,        \* the network thread: accept loop, pool shutdown, end of run
  hand,        \* the connection the accept loop has in hand
  queue,       \* queue_, by the connection of each task
  closing,     \* closing_
  worker,      \* each worker: waiting, serving or gone
  task,        \* the connection it serves
  sock,        \* each connection
  cancelled,   \* the connections that have been cancelled
  dog          \* the watchdog

implVars == <<state, listening, networkDone, connections>>
poolVars == <<queue, closing, worker, task>>
vars == <<implVars, poolVars, loop, hand, sock, cancelled, dog>>

Init ==
  /\ state = "running" /\ listening = TRUE /\ networkDone = FALSE
  /\ connections = {} /\ loop = "accept" /\ hand = None
  /\ queue = <<>> /\ closing = FALSE
  /\ worker = [w \in Workers |-> "wait"] /\ task = [w \in Workers |-> None]
  /\ sock = [c \in Conns |-> "none"] /\ cancelled = {} /\ dog = "wait"

Closed == {c \in Conns : sock[c] = "closed"}
Active == {c \in Conns : sock[c] = "active"}

CapacityNoSpare == Cardinality(Workers) + QueueCap

(* connections.reserve in Server::start.                                   *)
Capacity == Cardinality(Workers) + QueueCap + 1

----------------------------------------------------------------------------
(* Impl::requestStopLocked: idle and queued connections are cancelled, a   *)
(* request that is being served is left to the grace period.               *)
RequestStopLocked ==
  IF state = "running"
  THEN /\ state' = "stopping" /\ listening' = FALSE
       /\ cancelled' = cancelled \cup (connections \ Active)
  ELSE UNCHANGED <<state, listening, cancelled>>

RequestStop ==
  /\ state = "running" /\ RequestStopLocked
  /\ UNCHANGED <<networkDone, connections, poolVars, loop, hand, sock, dog>>

(* A client connects and the accept loop takes the socket.                 *)
Accept ==
  /\ loop = "accept" /\ listening
  /\ \E c \in Conns : /\ sock[c] = "none"
                      /\ sock' = [sock EXCEPT ![c] = "open"]
                      /\ hand' = c
  /\ loop' = "handler"
  /\ UNCHANGED <<implVars, poolVars, cancelled, dog>>

(* No room or not running, seen by the connection handler.                 *)
Unwelcome(list) == state # "running" \/ Cardinality(list) >= Capacity

HandlerForgets ==
  /\ loop = "handler" /\ loop' = "enqueue"
  /\ LET list == connections \ Closed
     IN  connections' = IF Unwelcome(list) THEN list ELSE list \cup {hand}
  /\ UNCHANGED <<state, listening, networkDone, poolVars, hand, sock, cancelled, dog>>

(* The connection handler forgets closed connections and tracks the new    *)
(* one, or cancels it.                                                     *)
Handler ==
  /\ loop = "handler" /\ loop' = "enqueue"
  /\ LET list == connections \ Closed
     IN  IF Unwelcome(list)
         THEN connections' = list /\ cancelled' = cancelled \cup {hand}
         ELSE connections' = list \cup {hand} /\ UNCHANGED cancelled
  /\ UNCHANGED <<state, listening, networkDone, poolVars, hand, sock, dog>>

(* NetworkPool::enqueue; a refused socket is closed.                       *)
Enqueue ==
  /\ loop = "enqueue" /\ loop' = "accept" /\ hand' = None
  /\ IF closing \/ Len(queue) >= QueueCap
     THEN sock' = [sock EXCEPT ![hand] = "closed"] /\ UNCHANGED queue
     ELSE queue' = Append(queue, hand) /\ UNCHANGED sock
  /\ UNCHANGED <<implVars, closing, worker, task, cancelled, dog>>

----------------------------------------------------------------------------
(* NetworkPool::shutdown, called when the accept loop ends, told to or by  *)
(* an error of its own: onShutdown_, ...                                   *)
PoolOnShutdown ==
  /\ loop = "accept" /\ loop' = "clear"
  /\ RequestStopLocked
  /\ UNCHANGED <<networkDone, connections, poolVars, hand, sock, dog>>

(* ... closing_ and the queue, whose tasks close their sockets, ...        *)
PoolClear ==
  /\ loop = "clear" /\ loop' = "join"
  /\ closing' = TRUE /\ queue' = <<>>
  /\ sock' = [c \in Conns |-> IF c \in ToSet(queue) THEN "closed" ELSE sock[c]]
  /\ UNCHANGED <<implVars, worker, task, hand, cancelled, dog>>

(* ... and the join of its threads.                                        *)
PoolJoin ==
  /\ loop = "join" /\ \A w \in Workers : worker[w] = "exited"
  /\ loop' = "close"
  /\ UNCHANGED <<implVars, poolVars, hand, sock, cancelled, dog>>

(* run() after listen_after_bind: networkDone; then, with the watchdog     *)
(* joined, state stopped.                                                  *)
RunClose ==
  /\ loop = "close" /\ loop' = "reap"
  /\ networkDone' = TRUE /\ connections' = {}
  /\ UNCHANGED <<state, listening, poolVars, hand, sock, cancelled, dog>>

RunExit ==
  /\ loop = "reap" /\ dog = "exited"
  /\ loop' = "exited" /\ state' = "stopped"
  /\ UNCHANGED <<listening, networkDone, connections, poolVars, hand, sock,
                 cancelled, dog>>

(* Impl::watchGrace.                                                       *)
DogWake ==
  /\ dog = "wait" /\ (networkDone \/ state = "stopping")
  /\ dog' = IF networkDone THEN "exited" ELSE "grace"
  /\ UNCHANGED <<implVars, poolVars, loop, hand, sock, cancelled>>

DogExpireInactive ==
  /\ dog = "grace" /\ dog' = "exited"
  /\ cancelled' = IF networkDone THEN cancelled
                  ELSE cancelled \cup (connections \ Active)
  /\ UNCHANGED <<implVars, poolVars, loop, hand, sock>>

(* The network is done, or the grace period over: then every connection is *)
(* cancelled.                                                              *)
DogExpire ==
  /\ dog = "grace" /\ dog' = "exited"
  /\ cancelled' = IF networkDone THEN cancelled ELSE cancelled \cup connections
  /\ UNCHANGED <<implVars, poolVars, loop, hand, sock>>

----------------------------------------------------------------------------
(* NetworkPool::work: take a task, ...                                     *)
Take(w) ==
  /\ worker[w] = "wait" /\ ~closing /\ queue # <<>>
  /\ worker' = [worker EXCEPT ![w] = "serve"]
  /\ task' = [task EXCEPT ![w] = Head(queue)]
  /\ queue' = Tail(queue)
  /\ UNCHANGED <<implVars, closing, loop, hand, sock, cancelled, dog>>

Leave(w) ==
  /\ worker[w] = "wait" /\ closing
  /\ worker' = [worker EXCEPT ![w] = "exited"]
  /\ UNCHANGED <<implVars, queue, closing, task, loop, hand, sock, cancelled, dog>>

(* ... read a request on it, ...                                           *)
Request(w) ==
  /\ worker[w] = "serve" /\ sock[task[w]] = "open" /\ task[w] \notin cancelled
  /\ sock' = [sock EXCEPT ![task[w]] = "active"]
  /\ UNCHANGED <<implVars, poolVars, loop, hand, cancelled, dog>>

(* ... answer it and wait for the next, ...                                *)
Answer(w) ==
  /\ worker[w] = "serve" /\ sock[task[w]] = "active"
  /\ sock' = [sock EXCEPT ![task[w]] = "open"]
  /\ UNCHANGED <<implVars, poolVars, loop, hand, cancelled, dog>>

(* The task ends and closes its socket.                                    *)
Finish(w) ==
  /\ sock' = [sock EXCEPT ![task[w]] = "closed"]
  /\ task' = [task EXCEPT ![w] = None]
  /\ worker' = [worker EXCEPT ![w] = "wait"]
  /\ UNCHANGED <<implVars, queue, closing, loop, hand, cancelled, dog>>

(* ... until the client or a socket timeout ends it, or a cancellation.    *)
Hangup(w) == worker[w] = "serve" /\ task[w] \notin cancelled /\ Finish(w)
Aborted(w) == worker[w] = "serve" /\ task[w] \in cancelled /\ Finish(w)

----------------------------------------------------------------------------
Network ==
  \/ Handler \/ Enqueue \/ PoolClear \/ PoolJoin \/ RunClose \/ RunExit
  \/ ~listening /\ PoolOnShutdown

Watchdog == DogWake \/ DogExpire

Work(w) == Take(w) \/ Leave(w) \/ Aborted(w)

Client(w) == Request(w) \/ Answer(w) \/ Hangup(w)

Next ==
  \/ RequestStop \/ Accept \/ PoolOnShutdown \/ Network \/ Watchdog
  \/ \E w \in Workers : Work(w) \/ Client(w)

Spec == Init /\ [][Next]_vars

(* Threads are scheduled and the grace period ends; clients are not fair.  *)
FairSpec ==
  Spec /\ WF_vars(Network) /\ WF_vars(Watchdog) /\ \A w \in Workers : WF_vars(Work(w))

----------------------------------------------------------------------------
(* Properties.                                                             *)

(* Every variable has the type of the member or program counter it is, and *)
(* a worker has a task while it serves and the loop a connection in hand   *)
(* between accept and enqueue.                                             *)
TypeOK ==
  /\ state \in {"running", "stopping", "stopped"}
  /\ listening \in BOOLEAN /\ networkDone \in BOOLEAN /\ closing \in BOOLEAN
  /\ connections \subseteq Conns /\ cancelled \subseteq Conns
  /\ loop \in {"accept", "handler", "enqueue", "clear", "join", "close",
               "reap", "exited"}
  /\ hand \in Conns \cup {None} /\ queue \in Seq(Conns)
  /\ worker \in [Workers -> {"wait", "serve", "exited"}]
  /\ task \in [Workers -> Conns \cup {None}]
  /\ sock \in [Conns -> {"none", "open", "active", "closed"}]
  /\ dog \in {"wait", "grace", "exited"}
  /\ \A w \in Workers : worker[w] = "serve" <=> task[w] # None
  /\ loop \in {"handler", "enqueue"} <=> hand # None

Holders(c) == {w \in Workers : task[w] = c}
Places(c) == {i \in DOMAIN queue : queue[i] = c}

(* A socket that is open has exactly one owner, the accept loop, a place   *)
(* in the queue or a worker, and the queue keeps to its bound: no socket   *)
(* leaks and none is served twice.                                         *)
OneOwner ==
  /\ Len(queue) <= QueueCap
  /\ \A c \in Conns :
       Cardinality(Holders(c)) + Cardinality(Places(c)) + (IF hand = c THEN 1 ELSE 0)
         = IF sock[c] \in {"open", "active"} THEN 1 ELSE 0

(* The list of connections never turns away one that the pool could take:  *)
(* with the closed ones forgotten it has room whenever the accept loop     *)
(* brings another, however workers, queue and closing sockets interleave.  *)
RoomForAccepted ==
  loop = "handler" => Cardinality(connections \ Closed) < Capacity

(* No connection escapes a stop: one that the handler has seen and nobody  *)
(* has cancelled is on the list the watchdog goes through, and after the   *)
(* request for the stop every connection in the queue is cancelled.        *)
StopReachesAll ==
  /\ \A c \in Conns :
       sock[c] \in {"open", "active"} /\ (hand = c => loop = "enqueue") =>
         c \in connections \cup cancelled
  /\ state # "running" => \A i \in DOMAIN queue : queue[i] \in cancelled

(* When the state says stopped every socket is closed and no thread of the *)
(* pool is left.                                                           *)
StoppedClosed ==
  state = "stopped" => /\ \A c \in Conns : sock[c] \in {"none", "closed"}
                       /\ \A w \in Workers : worker[w] = "exited"
                       /\ connections = {}

(* What the pool and the list of connections take in, somebody owns, and   *)
(* what they turn away is only what they cannot take.                      *)
ConnectionsOwned == TypeOK /\ OneOwner /\ RoomForAccepted

(* A stop covers every connection, also one between two owners, and leaves *)
(* nothing behind.                                                         *)
StopComplete == StopReachesAll /\ StoppedClosed

(* A stop ends, whatever the clients do: they may keep their connections   *)
(* and their requests open for ever.                                       *)
StopEnds == state = "stopping" ~> state = "stopped"
=============================================================================
