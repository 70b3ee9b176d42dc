-------------------------- MODULE NetworkPoolProofs --------------------------
(***************************************************************************)
(* Proofs about NetworkPool, for any number of workers and connections and *)
(* any bound of the queue.                                                 *)
(***************************************************************************)
EXTENDS NetworkPool, FiniteSetTheorems, TLAPS

----------------------------------------------------------------------------
(* The queue of the pool.                                                  *)

(* The queue of a pool that starts or has been shut down.                  *)
LEMMA QueueEmpty == ToSet(<<>>) = {} /\ IsInjective(<<>>)
BY DEF ToSet, IsInjective

(* enqueue appends a connection that is not in the queue.                  *)
LEMMA QueueAppend ==
  ASSUME NEW s \in Seq(Conns), NEW c \in Conns
  PROVE  /\ Append(s, c) \in Seq(Conns)
         /\ Len(Append(s, c)) = Len(s) + 1
         /\ ToSet(Append(s, c)) = ToSet(s) \cup {c}
         /\ IsInjective(s) /\ c \notin ToSet(s) => IsInjective(Append(s, c))
<1> DEFINE t == Append(s, c)
<1>1. /\ t \in Seq(Conns) /\ Len(t) = Len(s) + 1 /\ Len(s) \in Nat
      /\ DOMAIN t = 1 .. (Len(s) + 1) /\ DOMAIN s = 1 .. Len(s)
      /\ t[Len(s) + 1] = c /\ \A i \in 1 .. Len(s) : t[i] = s[i]
  OBVIOUS
<1> HIDE DEF t
<1>2. ToSet(t) = ToSet(s) \cup {c}
  BY <1>1 DEF ToSet
<1>3. IsInjective(s) /\ c \notin ToSet(s) => IsInjective(t)
  BY <1>1 DEF ToSet, IsInjective
<1> QED
  BY <1>1, <1>2, <1>3 DEF t

(* A worker takes the front of the queue and leaves the others.            *)
LEMMA QueueTail ==
  ASSUME NEW s \in Seq(Conns), s # <<>>, IsInjective(s)
  PROVE  /\ Head(s) \in Conns /\ Head(s) \in ToSet(s)
         /\ Tail(s) \in Seq(Conns) /\ Len(Tail(s)) <= Len(s)
         /\ ToSet(Tail(s)) = ToSet(s) \ {Head(s)}
         /\ IsInjective(Tail(s))
<1> DEFINE t == Tail(s)
<1>1. /\ t \in Seq(Conns) /\ Len(s) \in Nat \ {0} /\ Len(t) = Len(s) - 1
      /\ DOMAIN t = 1 .. (Len(s) - 1) /\ DOMAIN s = 1 .. Len(s)
      /\ Head(s) = s[1] /\ s[1] \in Conns
      /\ \A i \in 1 .. (Len(s) - 1) : t[i] = s[i + 1]
  OBVIOUS
<1> HIDE DEF t
<1>2. ASSUME NEW i \in DOMAIN t, NEW j \in DOMAIN t, t[i] = t[j] PROVE i = j
  <2>1. i + 1 \in DOMAIN s /\ j + 1 \in DOMAIN s /\ s[i + 1] = s[j + 1]
    BY <1>1, <1>2
  <2>2. i + 1 = j + 1
    BY <2>1 DEF IsInjective
  <2> QED
    BY <1>1, <2>2
<1>3. ASSUME NEW c \in ToSet(t) PROVE c \in ToSet(s) \ {Head(s)}
  <2>1. PICK i \in 1 .. (Len(s) - 1) : c = s[i + 1]
    BY <1>1, <1>3 DEF ToSet
  <2>2. i + 1 \in DOMAIN s /\ 1 \in DOMAIN s /\ i + 1 # 1
    BY <1>1
  <2> QED
    BY <1>1, <2>1, <2>2 DEF ToSet, IsInjective
<1>4. ASSUME NEW c \in ToSet(s) \ {Head(s)} PROVE c \in ToSet(t)
  <2>1. PICK i \in 1 .. Len(s) : c = s[i]
    BY <1>1, <1>4 DEF ToSet
  <2>2. i - 1 \in 1 .. (Len(s) - 1) /\ (i - 1) + 1 = i
    BY <1>1, <1>4, <2>1
  <2> QED
    BY <1>1, <2>1, <2>2 DEF ToSet
<1>5. Head(s) \in ToSet(s)
  BY <1>1 DEF ToSet
<1>6. ToSet(t) = ToSet(s) \ {Head(s)}
  BY <1>3, <1>4
<1>7. IsInjective(t)
  BY <1>2 DEF IsInjective
<1> QED
  BY <1>1, <1>5, <1>6, <1>7 DEF t

(* A queue holds no more connections than it is long.                      *)
LEMMA QueueSize ==
  ASSUME NEW s \in Seq(Conns)
  PROVE  IsFiniteSet(ToSet(s)) /\ Cardinality(ToSet(s)) <= Len(s)
<1>1. Len(s) \in Nat /\ DOMAIN s = 1 .. Len(s)
  OBVIOUS
<1>2. s \in Surjection(1 .. Len(s), ToSet(s))
  BY <1>1 DEF Surjection, ToSet
<1>3. IsFiniteSet(1 .. Len(s)) /\ Cardinality(1 .. Len(s)) = Len(s)
  BY <1>1, FS_Interval, SMTT(30)
<1> QED
  BY <1>2, <1>3, FS_Surjection

----------------------------------------------------------------------------
(* The inductive invariant.                                                *)

Serves(c) == \E w \in Workers : task[w] = c
Opened(c) == sock[c] \in {"open", "active"}

(* A connection is in hand, queued or served, once, exactly while its      *)
(* socket is open; a request is only read on one that is served.           *)
OwnerInv ==
  /\ Len(queue) <= QueueCap /\ IsInjective(queue)
  /\ \A w, v \in Workers : task[w] = task[v] /\ task[w] # None => w = v
  /\ \A w \in Workers : task[w] # None => task[w] # hand /\ task[w] \notin ToSet(queue)
  /\ hand \notin ToSet(queue)
  /\ \A c \in Conns : Opened(c) <=> c = hand \/ c \in ToSet(queue) \/ Serves(c)
  /\ \A c \in Conns : sock[c] = "active" => Serves(c)

(* The list holds connections that were opened, not yet the one the        *)
(* handler is about to track, and with the cancelled ones every open one.  *)
ListInv ==
  /\ \A c \in connections : sock[c] # "none"
  /\ loop = "handler" => hand \notin connections
  /\ \A c \in Conns : Opened(c) /\ (c = hand => loop = "enqueue") => c \in connections \cup cancelled

(* Once a stop is requested what is queued, or about to be, is cancelled.  *)
StopInv ==
  state # "running" => /\ ToSet(queue) \subseteq cancelled
                       /\ loop = "enqueue" => hand \in cancelled

(* What the end of the loop has left behind.                               *)
EndInv ==
  /\ loop \in {"join", "close", "reap", "exited"} => closing /\ queue = <<>>
  /\ loop \in {"close", "reap", "exited"} => \A w \in Workers : worker[w] = "exited"
  /\ loop \in {"reap", "exited"} => connections = {}
  /\ state = "stopped" => loop = "exited"

IInv == TypeOK /\ OwnerInv /\ ListInv /\ StopInv /\ EndInv

(* The server has started and nobody has connected.                        *)
LEMMA InitInv == Init => IInv
<1> SUFFICES ASSUME Init PROVE IInv
  OBVIOUS
<1> USE PoolAssumption DEF Init
<1>1. TypeOK
  <2>1. queue \in Seq(Conns)
    OBVIOUS
  <2>2. /\ worker \in [Workers -> {"wait", "serve", "exited"}]
        /\ task \in [Workers -> Conns \cup {None}]
        /\ sock \in [Conns -> {"none", "open", "active", "closed"}]
    OBVIOUS
  <2>3. \A w \in Workers : worker[w] = "serve" <=> task[w] # None
    OBVIOUS
  <2>4. /\ state \in {"running", "stopping", "stopped"} /\ hand \in Conns \cup {None}
        /\ connections \subseteq Conns /\ cancelled \subseteq Conns
        /\ loop \in {"accept", "handler", "enqueue", "clear", "join", "close", "reap", "exited"}
        /\ loop \in {"handler", "enqueue"} <=> hand # None
        /\ dog \in {"wait", "grace", "exited"}
    OBVIOUS
  <2>5. listening \in BOOLEAN /\ networkDone \in BOOLEAN /\ closing \in BOOLEAN
    OBVIOUS
  <2> QED
    BY <2>1, <2>2, <2>3, <2>4, <2>5 DEF TypeOK
<1>2. OwnerInv
  BY QueueEmpty DEF OwnerInv, Serves, Opened
<1>3. ListInv /\ StopInv /\ EndInv
  BY QueueEmpty DEF ListInv, StopInv, EndInv, Opened
<1> QED
  BY <1>1, <1>2, <1>3 DEF IInv

(* Every step of the network thread, the watchdog and a worker keeps it.   *)
LEMMA StepInv == IInv /\ [Next]_vars => IInv'
<1> SUFFICES ASSUME IInv, [Next]_vars PROVE IInv'
  OBVIOUS
<1> USE PoolAssumption DEF IInv
<1>q. ToSet(queue) \subseteq Conns
  BY DEF TypeOK, ToSet
<1>s. /\ ToSet(queue) \subseteq (connections \ Active) \cup cancelled
      /\ loop = "enqueue" => hand \in (connections \ Active) \cup cancelled
  BY <1>q DEF TypeOK, OwnerInv, ListInv, Serves, Opened, Active
<1>1. ASSUME RequestStop PROVE IInv'
  <2>1. TypeOK'
    BY <1>1 DEF TypeOK, RequestStop, RequestStopLocked, Active, implVars, poolVars
  <2>2. OwnerInv'
    BY <1>1 DEF OwnerInv, TypeOK, Serves, Opened, RequestStop, RequestStopLocked, Active, implVars, poolVars
  <2>3. ListInv'
    BY <1>1 DEF ListInv, TypeOK, OwnerInv, Serves, Opened, RequestStop, RequestStopLocked, Active, implVars, poolVars
  <2>4. StopInv'
    BY <1>1, <1>s DEF StopInv, RequestStop, RequestStopLocked, poolVars
  <2>5. EndInv'
    BY <1>1 DEF EndInv, TypeOK, OwnerInv, Serves, RequestStop, RequestStopLocked, Active, implVars, poolVars
  <2> QED
    BY <2>1, <2>2, <2>3, <2>4, <2>5
<1>2. ASSUME Accept PROVE IInv'
  <2>1. TypeOK'
    BY <1>2 DEF TypeOK, Accept, implVars, poolVars
  <2>2. OwnerInv'
    BY <1>2 DEF OwnerInv, TypeOK, Serves, Opened, Accept, implVars, poolVars
  <2>3. ListInv'
    BY <1>2 DEF ListInv, TypeOK, OwnerInv, Serves, Opened, Accept, implVars, poolVars
  <2>4. StopInv'
    BY <1>2 DEF StopInv, TypeOK, OwnerInv, ListInv, Serves, Opened, Accept, implVars, poolVars
  <2>5. EndInv'
    BY <1>2 DEF EndInv, TypeOK, OwnerInv, Serves, Accept, implVars, poolVars
  <2> QED
    BY <2>1, <2>2, <2>3, <2>4, <2>5
<1>3. ASSUME Handler PROVE IInv'
  <2>1. TypeOK'
    BY <1>3 DEF TypeOK, Handler, Unwelcome, Closed, implVars, poolVars
  <2>2. OwnerInv'
    BY <1>3 DEF OwnerInv, TypeOK, Serves, Opened, Handler, Unwelcome, Closed, implVars, poolVars
  <2>3. ListInv'
    BY <1>3 DEF ListInv, TypeOK, OwnerInv, Serves, Opened, Handler, Unwelcome, Closed, implVars, poolVars
  <2>4. StopInv'
    BY <1>3 DEF StopInv, TypeOK, OwnerInv, ListInv, Serves, Opened, Handler, Unwelcome, Closed, implVars, poolVars
  <2>5. EndInv'
    BY <1>3 DEF EndInv, TypeOK, OwnerInv, Serves, Handler, Unwelcome, Closed, implVars, poolVars
  <2> QED
    BY <2>1, <2>2, <2>3, <2>4, <2>5
<1>4. ASSUME Enqueue PROVE IInv'
  <2>0. /\ hand \in Conns /\ hand \notin ToSet(queue) /\ None \notin ToSet(queue)
        /\ queue \in Seq(Conns) /\ IsInjective(queue)
    BY <1>4, <1>q DEF Enqueue, TypeOK, OwnerInv
  <2>1. TypeOK'
    <3>1. queue' \in Seq(Conns)
      BY <1>4, <2>0, QueueAppend DEF Enqueue
    <3> QED
      BY <1>4, <3>1 DEF TypeOK, Enqueue, implVars
  <2>2. OwnerInv'
    <3>1. CASE closing \/ Len(queue) >= QueueCap
      BY <1>4, <2>0, <3>1 DEF TypeOK, OwnerInv, Enqueue, Serves, Opened
    <3>2. CASE ~(closing \/ Len(queue) >= QueueCap)
      <4>1. /\ ToSet(queue') = ToSet(queue) \cup {hand}
            /\ Len(queue') = Len(queue) + 1 /\ IsInjective(queue')
        BY <1>4, <2>0, <3>2, QueueAppend DEF Enqueue
      <4>2. Len(queue') <= QueueCap
        BY <3>2, <4>1 DEF TypeOK
      <4> QED
        BY <1>4, <2>0, <3>2, <4>1, <4>2 DEF TypeOK, OwnerInv, Enqueue, Serves, Opened
    <3> QED
      BY <3>1, <3>2
  <2>3. ListInv'
    BY <1>4 DEF ListInv, TypeOK, OwnerInv, Opened, Enqueue, implVars
  <2>4. StopInv'
    <3>1. ToSet(queue') \subseteq ToSet(queue) \cup {hand}
      BY <1>4, <2>0, QueueAppend DEF Enqueue
    <3> QED
      BY <1>4, <3>1 DEF StopInv, Enqueue, implVars
  <2>5. EndInv'
    BY <1>4 DEF EndInv, TypeOK, Enqueue, implVars
  <2> QED
    BY <2>1, <2>2, <2>3, <2>4, <2>5
<1>5. ASSUME PoolOnShutdown PROVE IInv'
  <2>1. TypeOK'
    BY <1>5 DEF TypeOK, PoolOnShutdown, RequestStopLocked, Active, implVars, poolVars
  <2>2. OwnerInv'
    BY <1>5 DEF OwnerInv, TypeOK, Serves, Opened, PoolOnShutdown, RequestStopLocked, Active, implVars, poolVars
  <2>3. ListInv'
    BY <1>5 DEF ListInv, TypeOK, OwnerInv, Serves, Opened, PoolOnShutdown, RequestStopLocked, Active, implVars, poolVars
  <2>4. StopInv'
    BY <1>5, <1>s DEF StopInv, PoolOnShutdown, RequestStopLocked, poolVars
  <2>5. EndInv'
    BY <1>5 DEF EndInv, TypeOK, OwnerInv, Serves, PoolOnShutdown, RequestStopLocked, Active, implVars, poolVars
  <2> QED
    BY <2>1, <2>2, <2>3, <2>4, <2>5
<1>6. ASSUME PoolClear PROVE IInv'
  <2>1. TypeOK'
    BY <1>6 DEF TypeOK, PoolClear, implVars, poolVars
  <2>2. OwnerInv'
    BY <1>6, <1>q, QueueEmpty DEF OwnerInv, TypeOK, Serves, Opened, PoolClear
  <2>3. ListInv'
    BY <1>6 DEF ListInv, TypeOK, OwnerInv, Serves, Opened, PoolClear, implVars, poolVars
  <2>4. StopInv'
    BY <1>6, QueueEmpty DEF StopInv, PoolClear
  <2>5. EndInv'
    BY <1>6 DEF EndInv, TypeOK, OwnerInv, Serves, PoolClear, implVars, poolVars
  <2> QED
    BY <2>1, <2>2, <2>3, <2>4, <2>5
<1>7. ASSUME PoolJoin PROVE IInv'
  <2>1. TypeOK'
    BY <1>7 DEF TypeOK, PoolJoin, implVars, poolVars
  <2>2. OwnerInv'
    BY <1>7 DEF OwnerInv, TypeOK, Serves, Opened, PoolJoin, implVars, poolVars
  <2>3. ListInv'
    BY <1>7 DEF ListInv, TypeOK, OwnerInv, Serves, Opened, PoolJoin, implVars, poolVars
  <2>4. StopInv'
    BY <1>7 DEF StopInv, TypeOK, OwnerInv, ListInv, Serves, Opened, PoolJoin, implVars, poolVars
  <2>5. EndInv'
    BY <1>7 DEF EndInv, TypeOK, OwnerInv, Serves, PoolJoin, implVars, poolVars
  <2> QED
    BY <2>1, <2>2, <2>3, <2>4, <2>5
<1>8. ASSUME RunClose PROVE IInv'
  <2>1. TypeOK'
    BY <1>8 DEF TypeOK, RunClose, implVars, poolVars
  <2>2. OwnerInv'
    BY <1>8 DEF OwnerInv, TypeOK, Serves, Opened, RunClose, implVars, poolVars
  <2>3. ListInv'
    <3>1. \A c \in Conns : ~Opened(c)
      BY <1>8, QueueEmpty DEF EndInv, TypeOK, OwnerInv, Serves, RunClose
    <3> QED
      BY <1>8, <3>1 DEF ListInv, Opened, RunClose
  <2>4. StopInv'
    BY <1>8 DEF StopInv, TypeOK, OwnerInv, ListInv, Serves, Opened, RunClose, implVars, poolVars
  <2>5. EndInv'
    BY <1>8 DEF EndInv, TypeOK, OwnerInv, Serves, RunClose, implVars, poolVars
  <2> QED
    BY <2>1, <2>2, <2>3, <2>4, <2>5
<1>9. ASSUME RunExit PROVE IInv'
  <2>1. TypeOK'
    BY <1>9 DEF TypeOK, RunExit, implVars, poolVars
  <2>2. OwnerInv'
    BY <1>9 DEF OwnerInv, TypeOK, Serves, Opened, RunExit, implVars, poolVars
  <2>3. ListInv'
    BY <1>9 DEF ListInv, TypeOK, OwnerInv, Serves, Opened, RunExit, implVars, poolVars
  <2>4. StopInv'
    BY <1>9, QueueEmpty DEF StopInv, EndInv, RunExit, poolVars
  <2>5. EndInv'
    BY <1>9 DEF EndInv, TypeOK, OwnerInv, Serves, RunExit, implVars, poolVars
  <2> QED
    BY <2>1, <2>2, <2>3, <2>4, <2>5
<1>10. ASSUME DogWake PROVE IInv'
  <2>1. TypeOK'
    BY <1>10 DEF TypeOK, DogWake, implVars, poolVars
  <2>2. OwnerInv'
    BY <1>10 DEF OwnerInv, TypeOK, Serves, Opened, DogWake, implVars, poolVars
  <2>3. ListInv'
    BY <1>10 DEF ListInv, TypeOK, OwnerInv, Serves, Opened, DogWake, implVars, poolVars
  <2>4. StopInv'
    BY <1>10 DEF StopInv, TypeOK, OwnerInv, ListInv, Serves, Opened, DogWake, implVars, poolVars
  <2>5. EndInv'
    BY <1>10 DEF EndInv, TypeOK, OwnerInv, Serves, DogWake, implVars, poolVars
  <2> QED
    BY <2>1, <2>2, <2>3, <2>4, <2>5
<1>11. ASSUME DogExpire PROVE IInv'
  <2>1. TypeOK'
    BY <1>11 DEF TypeOK, DogExpire, implVars, poolVars
  <2>2. OwnerInv'
    BY <1>11 DEF OwnerInv, TypeOK, Serves, Opened, DogExpire, implVars, poolVars
  <2>3. ListInv'
    BY <1>11 DEF ListInv, TypeOK, OwnerInv, Serves, Opened, DogExpire, implVars, poolVars
  <2>4. StopInv'
    BY <1>11 DEF StopInv, TypeOK, OwnerInv, ListInv, Serves, Opened, DogExpire, implVars, poolVars
  <2>5. EndInv'
    BY <1>11 DEF EndInv, TypeOK, OwnerInv, Serves, DogExpire, implVars, poolVars
  <2> QED
    BY <2>1, <2>2, <2>3, <2>4, <2>5
<1>12. ASSUME NEW w \in Workers, Take(w) PROVE IInv'
  <2>0. queue \in Seq(Conns) /\ queue # <<>> /\ IsInjective(queue) /\ queue' = Tail(queue)
    BY <1>12 DEF Take, TypeOK, OwnerInv
  <2>1. /\ queue' \in Seq(Conns) /\ IsInjective(queue') /\ Len(queue') <= Len(queue)
        /\ Head(queue) \in Conns /\ Head(queue) \in ToSet(queue)
        /\ ToSet(queue') = ToSet(queue) \ {Head(queue)}
    BY <2>0, QueueTail
  <2>2. TypeOK'
    BY <1>12, <2>1 DEF TypeOK, Take, implVars
  <2>3. OwnerInv'
    <3>1. Len(queue') <= QueueCap
      BY <2>0, <2>1 DEF OwnerInv
    <3>2. /\ task'[w] = Head(queue) /\ task[w] = None
          /\ \A v \in Workers \ {w} : task'[v] = task[v]
      BY <1>12 DEF Take, TypeOK
    <3>3. \A c \in Conns : Serves(c)' <=> Serves(c) \/ c = Head(queue)
      BY <3>2 DEF Serves
    <3>4. hand' = hand /\ sock' = sock
      BY <1>12 DEF Take
    <3> HIDE DEF IInv
    <3>5. OwnerInv
      BY DEF IInv
    <3> QED
      BY <2>1, <3>1, <3>2, <3>3, <3>4, <3>5 DEF OwnerInv, Opened
  <2>4. ListInv'
    BY <1>12 DEF ListInv, Opened, Take, implVars
  <2>5. StopInv'
    BY <1>12, <2>1 DEF StopInv, Take, implVars
  <2>6. EndInv'
    BY <1>12 DEF EndInv, TypeOK, Take, implVars
  <2> QED
    BY <2>2, <2>3, <2>4, <2>5, <2>6
<1>13. ASSUME NEW w \in Workers, Leave(w) PROVE IInv'
  <2>1. TypeOK'
    BY <1>13 DEF TypeOK, Leave, implVars, poolVars
  <2>2. OwnerInv'
    BY <1>13 DEF OwnerInv, TypeOK, Serves, Opened, Leave, implVars, poolVars
  <2>3. ListInv'
    BY <1>13 DEF ListInv, TypeOK, OwnerInv, Serves, Opened, Leave, implVars, poolVars
  <2>4. StopInv'
    BY <1>13 DEF StopInv, TypeOK, OwnerInv, ListInv, Serves, Opened, Leave, implVars, poolVars
  <2>5. EndInv'
    BY <1>13 DEF EndInv, TypeOK, OwnerInv, Serves, Leave, implVars, poolVars
  <2> QED
    BY <2>1, <2>2, <2>3, <2>4, <2>5
<1>14. ASSUME NEW w \in Workers, Request(w) PROVE IInv'
  <2>1. TypeOK'
    BY <1>14 DEF TypeOK, Request, implVars, poolVars
  <2>2. OwnerInv'
    BY <1>14 DEF OwnerInv, TypeOK, Serves, Opened, Request, implVars, poolVars
  <2>3. ListInv'
    BY <1>14 DEF ListInv, TypeOK, OwnerInv, Serves, Opened, Request, implVars, poolVars
  <2>4. StopInv'
    BY <1>14 DEF StopInv, TypeOK, OwnerInv, ListInv, Serves, Opened, Request, implVars, poolVars
  <2>5. EndInv'
    BY <1>14 DEF EndInv, TypeOK, OwnerInv, Serves, Request, implVars, poolVars
  <2> QED
    BY <2>1, <2>2, <2>3, <2>4, <2>5
<1>15. ASSUME NEW w \in Workers, Answer(w) PROVE IInv'
  <2>1. TypeOK'
    BY <1>15 DEF TypeOK, Answer, implVars, poolVars
  <2>2. OwnerInv'
    BY <1>15 DEF OwnerInv, TypeOK, Serves, Opened, Answer, implVars, poolVars
  <2>3. ListInv'
    BY <1>15 DEF ListInv, TypeOK, OwnerInv, Serves, Opened, Answer, implVars, poolVars
  <2>4. StopInv'
    BY <1>15 DEF StopInv, TypeOK, OwnerInv, ListInv, Serves, Opened, Answer, implVars, poolVars
  <2>5. EndInv'
    BY <1>15 DEF EndInv, TypeOK, OwnerInv, Serves, Answer, implVars, poolVars
  <2> QED
    BY <2>1, <2>2, <2>3, <2>4, <2>5
<1>16. ASSUME NEW w \in Workers, Hangup(w) PROVE IInv'
  <2>1. TypeOK'
    BY <1>16 DEF TypeOK, Hangup, Finish, implVars, poolVars
  <2>2. OwnerInv'
    BY <1>16 DEF OwnerInv, TypeOK, Serves, Opened, Hangup, Finish, implVars, poolVars
  <2>3. ListInv'
    BY <1>16 DEF ListInv, TypeOK, OwnerInv, Serves, Opened, Hangup, Finish, implVars, poolVars
  <2>4. StopInv'
    BY <1>16 DEF StopInv, TypeOK, OwnerInv, ListInv, Serves, Opened, Hangup, Finish, implVars, poolVars
  <2>5. EndInv'
    BY <1>16 DEF EndInv, TypeOK, OwnerInv, Serves, Hangup, Finish, implVars, poolVars
  <2> QED
    BY <2>1, <2>2, <2>3, <2>4, <2>5
<1>17. ASSUME NEW w \in Workers, Aborted(w) PROVE IInv'
  <2>1. TypeOK'
    BY <1>17 DEF TypeOK, Aborted, Finish, implVars, poolVars
  <2>2. OwnerInv'
    BY <1>17 DEF OwnerInv, TypeOK, Serves, Opened, Aborted, Finish, implVars, poolVars
  <2>3. ListInv'
    BY <1>17 DEF ListInv, TypeOK, OwnerInv, Serves, Opened, Aborted, Finish, implVars, poolVars
  <2>4. StopInv'
    BY <1>17 DEF StopInv, TypeOK, OwnerInv, ListInv, Serves, Opened, Aborted, Finish, implVars, poolVars
  <2>5. EndInv'
    BY <1>17 DEF EndInv, TypeOK, OwnerInv, Serves, Aborted, Finish, implVars, poolVars
  <2> QED
    BY <2>1, <2>2, <2>3, <2>4, <2>5
<1>18. CASE UNCHANGED vars
  BY <1>18 DEF vars, implVars, poolVars, TypeOK, OwnerInv, ListInv, StopInv, EndInv, Serves, Opened
<1> QED
  BY <1>1, <1>2, <1>3, <1>4, <1>5, <1>6, <1>7, <1>8, <1>9, <1>10, <1>11, <1>12, <1>13, <1>14, <1>15, <1>16, <1>17, <1>18 DEF Next, Network, Watchdog, Work, Client

----------------------------------------------------------------------------
(* The theorems.                                                           *)

(* The inductive invariant holds throughout.                               *)
THEOREM InvariantHolds == Spec => []IInv
<1>1. Init => IInv
  BY InitInv
<1>2. IInv /\ [Next]_vars => IInv'
  BY StepInv
<1> QED
  BY <1>1, <1>2, PTL DEF Spec

(* The one owner of a connection, counted.                                 *)
LEMMA OwnersCounted == IInv => OneOwner
<1> SUFFICES ASSUME IInv, NEW c \in Conns
             PROVE  Cardinality(Holders(c)) + Cardinality(Places(c)) + (IF hand = c THEN 1 ELSE 0)
                      = IF sock[c] \in {"open", "active"} THEN 1 ELSE 0
  BY DEF OneOwner, IInv, OwnerInv
<1> USE PoolAssumption DEF IInv
<1>0. c # None /\ Cardinality({}) = 0 /\ \A x : Cardinality({x}) = 1
  BY FS_EmptySet, FS_Singleton
<1>1. c \notin ToSet(queue) => Places(c) = {}
  BY DEF Places, ToSet
<1>2. c \in ToSet(queue) => \E i \in DOMAIN queue : Places(c) = {i}
  <2>1. ASSUME c \in ToSet(queue) PROVE \E i \in DOMAIN queue : Places(c) = {i}
    <3>1. PICK i \in DOMAIN queue : queue[i] = c
      BY <2>1 DEF ToSet
    <3>2. \A j \in DOMAIN queue : queue[j] = c => j = i
      BY <3>1 DEF OwnerInv, IsInjective
    <3> QED
      BY <3>1, <3>2 DEF Places
  <2> QED
    BY <2>1
<1>3. ~Serves(c) => Holders(c) = {}
  BY DEF Serves, Holders
<1>4. Serves(c) => \E w \in Workers : Holders(c) = {w}
  <2>1. ASSUME Serves(c) PROVE \E w \in Workers : Holders(c) = {w}
    <3>1. PICK w \in Workers : task[w] = c
      BY <2>1 DEF Serves
    <3>2. \A v \in Workers : task[v] = c => v = w
      BY <1>0, <3>1 DEF OwnerInv
    <3> QED
      BY <3>1, <3>2 DEF Holders
  <2> QED
    BY <2>1
<1>5. Cardinality(Places(c)) = IF c \in ToSet(queue) THEN 1 ELSE 0
  BY <1>0, <1>1, <1>2
<1>6. Cardinality(Holders(c)) = IF Serves(c) THEN 1 ELSE 0
  BY <1>0, <1>3, <1>4
<1>7. /\ ~(Serves(c) /\ c = hand) /\ ~(Serves(c) /\ c \in ToSet(queue))
      /\ ~(c = hand /\ c \in ToSet(queue))
      /\ Opened(c) <=> c = hand \/ c \in ToSet(queue) \/ Serves(c)
  BY <1>0 DEF OwnerInv, Serves
<1> QED
  BY <1>5, <1>6, <1>7 DEF Opened

(* The connections of the list that are open are queued or served while    *)
(* the handler has another in hand: fewer than the room reserved for them. *)
LEMMA RoomInList == IInv => RoomForAccepted
<1> SUFFICES ASSUME IInv, loop = "handler"
             PROVE  Cardinality(connections \ Closed) < Capacity
  BY DEF RoomForAccepted
<1> USE PoolAssumption DEF IInv
<1> DEFINE list == connections \ Closed
           served == {task[w] : w \in Workers}
<1>1. list \subseteq ToSet(queue) \cup served
  <2> SUFFICES ASSUME NEW c \in list PROVE c \in ToSet(queue) \cup served
    OBVIOUS
  <2>1. c \in Conns /\ c # hand /\ Opened(c)
    BY DEF TypeOK, ListInv, Closed, Opened
  <2> QED
    BY <2>1 DEF OwnerInv, Serves
<1>2. IsFiniteSet(served) /\ Cardinality(served) <= Cardinality(Workers)
  <2>1. [w \in Workers |-> task[w]] \in Surjection(Workers, served)
    BY DEF Surjection
  <2> QED
    BY <2>1, FS_Surjection
<1>3. IsFiniteSet(ToSet(queue)) /\ Cardinality(ToSet(queue)) <= Len(queue)
  BY QueueSize DEF TypeOK
<1> HIDE DEF list, served
<1>4. /\ IsFiniteSet(ToSet(queue) \cup served)
      /\ Cardinality(ToSet(queue) \cup served)
           = Cardinality(ToSet(queue)) + Cardinality(served) - Cardinality(ToSet(queue) \cap served)
  BY <1>2, <1>3, FS_Union
<1>5. Cardinality(list) <= Cardinality(ToSet(queue) \cup served)
  BY <1>1, <1>4, FS_Subset
<1>6. /\ Cardinality(Workers) \in Nat /\ Cardinality(ToSet(queue)) \in Nat
      /\ Cardinality(served) \in Nat
      /\ Cardinality(ToSet(queue) \cap served) \in Nat /\ Cardinality(list) \in Nat
  <2>1. IsFiniteSet(ToSet(queue) \cap served) /\ IsFiniteSet(list)
    BY <1>1, <1>2, <1>4, FS_Intersection, FS_Subset
  <2> QED
    BY <1>2, <1>3, <2>1, FS_CardinalityType
<1>7. Len(queue) \in Nat /\ Len(queue) <= QueueCap /\ QueueCap \in Nat
  BY DEF TypeOK, OwnerInv
<1>8. Cardinality(list) <= Cardinality(Workers) + QueueCap
  BY <1>2, <1>3, <1>4, <1>5, <1>6, <1>7
<1> QED
  BY <1>6, <1>7, <1>8 DEF Capacity, list

(* enqueue, work and shutdown hand every accepted socket from one owner to *)
(* the next, so that it is closed once and served once, and the room       *)
(* reserved by Server::start suffices for the list of connections.         *)
THEOREM OwnedConnections == Spec => []ConnectionsOwned
<1>1. IInv => ConnectionsOwned
  BY OwnersCounted, RoomInList DEF IInv, ConnectionsOwned
<1> QED
  BY <1>1, InvariantHolds, PTL

(* No connection escapes a stop: the handler, requestStopLocked and the    *)
(* grace period between them reach every open one, and when the state says *)
(* stopped no socket and no thread of the pool is left.                    *)
THEOREM StopsCompletely == Spec => []StopComplete
<1>1. IInv => StopReachesAll
  <2> SUFFICES ASSUME IInv PROVE StopReachesAll
    OBVIOUS
  <2>1. \A i \in DOMAIN queue : queue[i] \in ToSet(queue)
    BY DEF ToSet
  <2> QED
    BY <2>1 DEF IInv, ListInv, StopInv, Opened, StopReachesAll
<1>2. IInv => StoppedClosed
  <2> SUFFICES ASSUME IInv, state = "stopped" PROVE StoppedClosed
    BY DEF StoppedClosed
  <2>1. loop = "exited" /\ queue = <<>> /\ connections = {} /\ \A w \in Workers : worker[w] = "exited"
    BY DEF IInv, EndInv
  <2>2. hand = None /\ \A w \in Workers : task[w] = None
    BY <2>1 DEF IInv, TypeOK
  <2>3. \A c \in Conns : ~Opened(c)
    BY <2>1, <2>2, QueueEmpty, PoolAssumption DEF IInv, OwnerInv, Serves
  <2> QED
    BY <2>1, <2>3 DEF IInv, TypeOK, Opened, StoppedClosed
<1> QED
  BY <1>1, <1>2, InvariantHolds, PTL DEF StopComplete
=============================================================================
