-------------------------- MODULE OperationExecutor --------------------------
(***************************************************************************)
(* The bounded execution of RTT operations behind POST requests: the       *)
(* OperationExecutor of src/src/operation_executor.cpp (worker threads,    *)
(* the reaper thread, drain and shutdown), the part of                     *)
(* Server::Impl::handle in src/src/server.cpp that prepares, admits and    *)
(* awaits an invocation, and the component engine that runs OwnThread      *)
(* operations (external: RTT).                                             *)
(*                                                                         *)
(* A step is one critical section of the code, or one call into RTT made   *)
(* outside every lock.  An element of Ops is one POST request and the      *)
(* Invocation it owns; time is abstracted: a deadline, a closed client     *)
(* connection or an expired grace period may end a wait at any moment.     *)
(***************************************************************************)
EXTENDS Naturals, Sequences, SequencesExt

CONSTANTS Ops,       \* the requests, each with its own Invocation
          OwnThread, \* those whose operation has RTT's OwnThread policy
          Workers,   \* the worker threads: workers_, width_ of them
          Cap,       \* ServerOptions::maxPendingOperations
          NoOp       \* the null shared_ptr<Invocation>

ASSUME ExecutorAssumption ==
  /\ OwnThread \subseteq Ops
  /\ NoOp \notin Ops
  /\ Workers # {}          \* validateOptions: workerThreads is positive
  /\ Cap \in Nat \ {0}     \* validateOptions: maxPendingOperations is positive

VARIABLES
  open,     \* Impl::state == running && !finalShutdown
  request,  \* the HTTP worker handling o: "new", "prepared", "waiting", "answered"
  answer,   \* what it answered
  send,     \* Invocation::send is not null
  queue,    \* queue_
  pending,  \* pending_
  shutdown, \* shutdown_
  asleep,   \* workers blocked in wake_.wait
  worker,   \* each worker's program counter
  wop,      \* each worker's local `invocation`
  wresult,  \* each worker's local `status`, the argument of finish
  reaper,   \* the reaper's program counter
  index,    \* the reaper's local `index`
  cand,     \* the reaper's local `candidate`
  rresult,  \* the status the reaper passes to finish
  sent,     \* Invocation::sent
  complete, \* Invocation::complete
  status,   \* Invocation::status
  app,      \* what RTT and the component do with the call
  runs,     \* how often the application's function was entered
  closer    \* the thread in finishShutdown: OperationExecutor::shutdown

netVars == <<open, request, answer, send>>
execVars == <<queue, pending, shutdown, asleep>>
workerVars == <<worker, wop, wresult>>
reaperVars == <<reaper, index, cand, rresult>>
invVars == <<sent, complete, status>>
appVars == <<app, runs>>
vars == <<netVars, execVars, workerVars, reaperVars, invVars, appVars, closer>>

(* HTTP statuses: ok 200, error 500, unavailable 503, timeout 504,         *)
(* mismatch 422; capacity and closed are the 503s of the admission gate.   *)
Results == {"ok", "error", "unavailable"}
Answers == Results \cup {"none", "timeout", "mismatch", "capacity", "closed"}

Init ==
  /\ open = TRUE
  /\ request = [o \in Ops |-> "new"]
  /\ answer = [o \in Ops |-> "none"]
  /\ send = [o \in Ops |-> FALSE]
  /\ queue = <<>> /\ pending = <<>> /\ shutdown = FALSE /\ asleep = {}
  /\ worker = [w \in Workers |-> "wait"]
  /\ wop = [w \in Workers |-> NoOp]
  /\ wresult = [w \in Workers |-> "error"]
  /\ reaper = "fetch" /\ index = 0 /\ cand = NoOp /\ rresult = "error"
  /\ sent = [o \in Ops |-> FALSE]
  /\ complete = [o \in Ops |-> FALSE]
  /\ status = [o \in Ops |-> "ok"]
  /\ app = [o \in Ops |-> "none"]
  /\ runs = [o \in Ops |-> 0]
  /\ closer = "idle"

----------------------------------------------------------------------------
(* Server::Impl::handle, one request.                                      *)

Answer(o, a) ==
  /\ request' = [request EXCEPT ![o] = "answered"]
  /\ answer' = [answer EXCEPT ![o] = a]

(* A request that passed preflight: prepareInvocation builds every RTT     *)
(* object without dispatching; only an OwnThread operation can get a send  *)
(* data source, and need not.                                              *)
Prepare(o) ==
  /\ request[o] = "new" /\ open
  /\ request' = [request EXCEPT ![o] = "prepared"]
  /\ \E s \in IF o \in OwnThread THEN BOOLEAN ELSE {FALSE} :
        send' = [send EXCEPT ![o] = s]
  /\ UNCHANGED <<open, answer, execVars, workerVars, reaperVars, invVars,
                 appVars, closer>>

(* Bad arguments (422), RTT objects that are not ready (503), or an        *)
(* exception (500).                                                        *)
PrepareFails(o) ==
  /\ request[o] = "new" /\ open
  /\ \E a \in {"mismatch", "unavailable", "error"} : Answer(o, a)
  /\ UNCHANGED <<open, send, execVars, workerVars, reaperVars, invVars,
                 appVars, closer>>

FullOffByOne == Len(pending) > Cap

Full == Len(pending) >= Cap

(* A notify_one that reaches the reaper or drain() instead of a worker.    *)
NotifyMisses == UNCHANGED asleep

(* notify_all: every sleeping worker evaluates its predicate again.        *)
NotifyAll == asleep' = {}

(* The admission boundary, under Impl::mutex and then mutex_.              *)
Admit(o) ==
  /\ request[o] = "prepared" /\ open
  /\ ~shutdown /\ ~Full
  /\ pending' = Append(pending, o)
  /\ queue' = Append(queue, o)
  /\ NotifyAll
  /\ request' = [request EXCEPT ![o] = "waiting"]
  /\ UNCHANGED <<open, answer, send, shutdown, workerVars, reaperVars,
                 invVars, appVars, closer>>

RefuseCapacity(o) ==
  /\ request[o] = "prepared" /\ open
  /\ shutdown \/ Full
  /\ Answer(o, "capacity")
  /\ UNCHANGED <<open, send, execVars, workerVars, reaperVars, invVars,
                 appVars, closer>>

(* 503 in preflight or at the boundary.                                    *)
RefuseClosed(o) ==
  /\ request[o] \in {"new", "prepared"} /\ ~open
  /\ Answer(o, "closed")
  /\ UNCHANGED <<open, send, execVars, workerVars, reaperVars, invVars,
                 appVars, closer>>

AdmitThrowsKeeps(o) ==
  /\ request[o] = "prepared" /\ open
  /\ ~shutdown /\ ~Full
  /\ pending' = Append(pending, o)
  /\ Answer(o, "error")
  /\ UNCHANGED <<open, send, queue, shutdown, asleep, workerVars, reaperVars,
                 invVars, appVars, closer>>

(* queue_.push_back throws: pending_ is restored and handle answers 500.   *)
AdmitThrows(o) ==
  /\ request[o] = "prepared" /\ open
  /\ ~shutdown /\ ~Full
  /\ Answer(o, "error")
  /\ UNCHANGED <<open, send, execVars, workerVars, reaperVars, invVars,
                 appVars, closer>>

(* The wait loop holds Invocation::mutex from the test of `complete` to    *)
(* the answer; a successful call whose values cannot be encoded is a 500,  *)
(* and so is any exception on the way.                                     *)
Respond(o) ==
  /\ request[o] = "waiting" /\ complete[o]
  /\ \E a \in {status[o], "error"} : Answer(o, a)
  /\ UNCHANGED <<open, send, execVars, workerVars, reaperVars, invVars,
                 appVars, closer>>

(* std::erase(pending_, o); pending_ holds an invocation at most once.     *)
Erase(s, o) ==
  IF \E i \in DOMAIN s : s[i] = o
  THEN RemoveAt(s, CHOOSE i \in DOMAIN s : s[i] = o)
  ELSE s

TimeOutReleases(o) ==
  /\ request[o] = "waiting" /\ ~complete[o]
  /\ Answer(o, "timeout")
  /\ pending' = Erase(pending, o)
  /\ UNCHANGED <<open, send, queue, shutdown, asleep, workerVars, reaperVars,
                 invVars, appVars, closer>>

(* 504, or 500 when the wait throws: the call is neither cancelled nor     *)
(* released.                                                               *)
TimeOut(o) ==
  /\ request[o] = "waiting" /\ ~complete[o]
  /\ \E a \in {"timeout", "error"} : Answer(o, a)
  /\ UNCHANGED <<open, send, execVars, workerVars, reaperVars, invVars,
                 appVars, closer>>

Handler(o) ==
  \/ Prepare(o) \/ PrepareFails(o) \/ Admit(o) \/ RefuseCapacity(o)
  \/ RefuseClosed(o) \/ AdmitThrows(o) \/ Respond(o) \/ TimeOut(o)

----------------------------------------------------------------------------
(* OperationExecutor::finish: two critical sections, first the             *)
(* invocation's, then the executor's, and the notifications.               *)

SetComplete(o, s) ==
  /\ status' = [status EXCEPT ![o] = s]
  /\ complete' = [complete EXCEPT ![o] = TRUE]

Release(o) ==
  /\ pending' = Erase(pending, o)
  /\ NotifyAll
  /\ UNCHANGED <<queue, shutdown>>

----------------------------------------------------------------------------
(* OperationExecutor::worker.                                              *)

WorkerSleep(w) ==
  /\ worker[w] = "wait" /\ w \notin asleep
  /\ queue = <<>> /\ ~shutdown
  /\ asleep' = asleep \cup {w}
  /\ UNCHANGED <<netVars, queue, pending, shutdown, workerVars, reaperVars,
                 invVars, appVars, closer>>

WorkerExit(w) ==
  /\ worker[w] = "wait" /\ w \notin asleep
  /\ shutdown /\ queue = <<>>
  /\ worker' = [worker EXCEPT ![w] = "exited"]
  /\ UNCHANGED <<netVars, execVars, wop, wresult, reaperVars, invVars,
                 appVars, closer>>

WorkerTakeKeeps(w) ==
  /\ worker[w] = "wait" /\ w \notin asleep
  /\ queue # <<>>
  /\ wop' = [wop EXCEPT ![w] = Head(queue)]
  /\ worker' = [worker EXCEPT ![w] = IF send[Head(queue)] THEN "send" ELSE "call"]
  /\ UNCHANGED <<netVars, execVars, wresult, reaperVars, invVars, appVars,
                 closer>>

WorkerTake(w) ==
  /\ worker[w] = "wait" /\ w \notin asleep
  /\ queue # <<>>
  /\ wop' = [wop EXCEPT ![w] = Head(queue)]
  /\ worker' = [worker EXCEPT ![w] = IF send[Head(queue)] THEN "send" ELSE "call"]
  /\ queue' = Tail(queue)
  /\ UNCHANGED <<netVars, pending, shutdown, asleep, wresult, reaperVars,
                 invVars, appVars, closer>>

(* caller->call() enters the application's function in this thread.        *)
CallEnter(w) ==
  /\ worker[w] = "call"
  /\ app' = [app EXCEPT ![wop[w]] = "running"]
  /\ runs' = [runs EXCEPT ![wop[w]] = @ + 1]
  /\ worker' = [worker EXCEPT ![w] = "inside"]
  /\ UNCHANGED <<netVars, execVars, wop, wresult, reaperVars, invVars, closer>>

(* It returns (200) or throws (500).                                       *)
CallReturn(w) ==
  /\ worker[w] = "inside"
  /\ \E r \in {"ok", "error"} :
       /\ app' = [app EXCEPT ![wop[w]] = IF r = "ok" THEN "returned" ELSE "threw"]
       /\ wresult' = [wresult EXCEPT ![w] = r]
  /\ worker' = [worker EXCEPT ![w] = "finish"]
  /\ UNCHANGED <<netVars, execVars, wop, reaperVars, invVars, runs, closer>>

(* call() returns false or throws a SendStatus: nothing was executed.      *)
CallRefused(w) ==
  /\ worker[w] = "call"
  /\ app' = [app EXCEPT ![wop[w]] = "failed"]
  /\ wresult' = [wresult EXCEPT ![w] = "unavailable"]
  /\ worker' = [worker EXCEPT ![w] = "finish"]
  /\ UNCHANGED <<netVars, execVars, wop, reaperVars, invVars, runs, closer>>

WorkerComplete(w) ==
  /\ worker[w] = "finish"
  /\ SetComplete(wop[w], wresult[w])
  /\ worker' = [worker EXCEPT ![w] = "release"]
  /\ UNCHANGED <<netVars, execVars, wop, wresult, reaperVars, sent, appVars,
                 closer>>

WorkerRelease(w) ==
  /\ worker[w] = "release"
  /\ Release(wop[w])
  /\ worker' = [worker EXCEPT ![w] = "wait"]
  /\ wop' = [wop EXCEPT ![w] = NoOp]
  /\ wresult' = [wresult EXCEPT ![w] = "error"]
  /\ UNCHANGED <<netVars, reaperVars, invVars, appVars, closer>>

(* send->evaluate(): the component's engine accepts the call or not, and   *)
(* in either case the evaluation may throw, which records a 500.           *)
Send(w) ==
  /\ worker[w] = "send"
  /\ \E accepted, throws \in BOOLEAN :
       /\ app' = [app EXCEPT ![wop[w]] = IF accepted THEN "queued" ELSE "failed"]
       /\ status' = [status EXCEPT ![wop[w]] = IF throws THEN "error" ELSE @]
  /\ worker' = [worker EXCEPT ![w] = "sent"]
  /\ UNCHANGED <<netVars, execVars, wop, wresult, reaperVars, sent, complete,
                 runs, closer>>

MarkSentFinishes(w) ==
  /\ worker[w] = "sent"
  /\ sent' = [sent EXCEPT ![wop[w]] = TRUE]
  /\ NotifyAll
  /\ worker' = [worker EXCEPT ![w] = "finish"]
  /\ UNCHANGED <<netVars, queue, pending, shutdown, wop, wresult, reaperVars,
                 complete, status, appVars, closer>>

MarkSent(w) ==
  /\ worker[w] = "sent"
  /\ sent' = [sent EXCEPT ![wop[w]] = TRUE]
  /\ NotifyAll
  /\ worker' = [worker EXCEPT ![w] = "wait"]
  /\ wop' = [wop EXCEPT ![w] = NoOp]
  /\ UNCHANGED <<netVars, queue, pending, shutdown, wresult, reaperVars,
                 complete, status, appVars, closer>>

Worker(w) ==
  \/ WorkerSleep(w) \/ WorkerExit(w) \/ WorkerTake(w)
  \/ CallEnter(w) \/ CallReturn(w) \/ CallRefused(w)
  \/ WorkerComplete(w) \/ WorkerRelease(w)
  \/ Send(w) \/ MarkSent(w)

----------------------------------------------------------------------------
(* The component's ExecutionEngine (external: RTT).                        *)

EngineEnter(o) ==
  /\ app[o] = "queued"
  /\ app' = [app EXCEPT ![o] = "running"]
  /\ runs' = [runs EXCEPT ![o] = @ + 1]
  /\ UNCHANGED <<netVars, execVars, workerVars, reaperVars, invVars, closer>>

EngineReturn(o) ==
  /\ send[o] /\ app[o] = "running"
  /\ \E r \in {"returned", "threw"} : app' = [app EXCEPT ![o] = r]
  /\ UNCHANGED <<netVars, execVars, workerVars, reaperVars, invVars, runs,
                 closer>>

Engine(o) == EngineEnter(o) \/ EngineReturn(o)

----------------------------------------------------------------------------
(* OperationExecutor::reap.                                                *)

(* pending_[index++]; pending_ may have shrunk since the last look at it.  *)
ReapFetch ==
  /\ reaper = "fetch" /\ index < Len(pending)
  /\ cand' = pending[index + 1]
  /\ index' = index + 1
  /\ reaper' = "check"
  /\ UNCHANGED <<netVars, execVars, workerVars, rresult, invVars, appVars,
                 closer>>

ReapScanned ==
  /\ reaper = "fetch" /\ index >= Len(pending)
  /\ reaper' = "rest"
  /\ UNCHANGED <<netVars, execVars, workerVars, index, cand, rresult, invVars,
                 appVars, closer>>

(* Back to the loop's head, where `candidate` is dead until it is set.     *)
NextCandidate == reaper' = "fetch" /\ cand' = NoOp

ReapCheck ==
  /\ reaper = "check"
  /\ IF sent[cand] /\ ~complete[cand]
     THEN reaper' = "collect" /\ UNCHANGED cand
     ELSE NextCandidate
  /\ UNCHANGED <<netVars, execVars, workerVars, index, rresult, invVars,
                 appVars, closer>>

CollectAnyway ==
  /\ reaper = "collect"
  /\ rresult' = IF status[cand] = "error" THEN "error" ELSE "ok"
  /\ reaper' = "finish"
  /\ UNCHANGED <<netVars, execVars, workerVars, index, cand, invVars, appVars,
                 closer>>

CollectNotReady ==
  /\ reaper = "collect" /\ app[cand] \in {"queued", "running"}
  /\ NextCandidate
  /\ UNCHANGED <<netVars, execVars, workerVars, index, rresult, invVars,
                 appVars, closer>>

(* collectIfDone: success copies the outputs; a call that was never        *)
(* dispatched or threw reports a failure or throws in turn.                *)
CollectDone ==
  /\ reaper = "collect" /\ app[cand] \in {"returned", "threw", "failed"}
  /\ \E r \in IF app[cand] = "returned" THEN {"ok"} ELSE {"unavailable", "error"} :
        rresult' = IF status[cand] = "error" THEN "error" ELSE r
  /\ reaper' = "finish"
  /\ UNCHANGED <<netVars, execVars, workerVars, index, cand, invVars, appVars,
                 closer>>

ReapComplete ==
  /\ reaper = "finish"
  /\ SetComplete(cand, rresult)
  /\ reaper' = "release"
  /\ UNCHANGED <<netVars, execVars, workerVars, index, cand, rresult, sent,
                 appVars, closer>>

ReapRelease ==
  /\ reaper = "release"
  /\ Release(cand)
  /\ NextCandidate
  /\ rresult' = "error"
  /\ UNCHANGED <<netVars, workerVars, index, invVars, appVars, closer>>

(* shutdown_ is tested once per scan; otherwise a 2 ms timed wait.         *)
ReapRest ==
  /\ reaper = "rest"
  /\ reaper' = IF shutdown THEN "exited" ELSE "fetch"
  /\ index' = 0
  /\ UNCHANGED <<netVars, execVars, workerVars, cand, rresult, invVars,
                 appVars, closer>>

Reaper ==
  \/ ReapFetch \/ ReapScanned \/ ReapCheck \/ CollectNotReady \/ CollectDone
  \/ ReapComplete \/ ReapRelease \/ ReapRest

----------------------------------------------------------------------------
(* The server around the executor, and OperationExecutor::shutdown.        *)

(* requestStop and beginShutdown close admission at any time.              *)
CloseAdmission ==
  /\ open
  /\ open' = FALSE
  /\ UNCHANGED <<request, answer, send, execVars, workerVars, reaperVars,
                 invVars, appVars, closer>>

(* The network threads are joined: no request is between preflight and     *)
(* its answer.                                                             *)
NetworkJoined == ~open /\ \A o \in Ops : request[o] \in {"new", "answered"}

(* start() with the same executor width: the executor and its unfinished   *)
(* calls are kept.                                                         *)
Restart ==
  /\ NetworkJoined /\ closer = "idle"
  /\ open' = TRUE
  /\ UNCHANGED <<request, answer, send, execVars, workerVars, reaperVars,
                 invVars, appVars, closer>>

(* finishShutdown calls executor->shutdown() after stop() has joined.      *)
ShutdownBegin ==
  /\ NetworkJoined /\ closer = "idle"
  /\ closer' = "drain"
  /\ UNCHANGED <<netVars, execVars, workerVars, reaperVars, invVars, appVars>>

DrainedQueue ==
  /\ closer = "drain" /\ queue = <<>>
  /\ closer' = "flag"
  /\ UNCHANGED <<netVars, execVars, workerVars, reaperVars, invVars, appVars>>

Drained ==
  /\ closer = "drain" /\ pending = <<>>
  /\ closer' = "flag"
  /\ UNCHANGED <<netVars, execVars, workerVars, reaperVars, invVars, appVars>>

SetShutdownSilent ==
  /\ closer = "flag"
  /\ shutdown' = TRUE
  /\ closer' = "join"
  /\ UNCHANGED <<netVars, queue, pending, asleep, workerVars, reaperVars,
                 invVars, appVars>>

SetShutdown ==
  /\ closer = "flag"
  /\ shutdown' = TRUE
  /\ NotifyAll
  /\ closer' = "join"
  /\ UNCHANGED <<netVars, queue, pending, workerVars, reaperVars, invVars,
                 appVars>>

Joined ==
  /\ closer = "join"
  /\ reaper = "exited" /\ \A w \in Workers : worker[w] = "exited"
  /\ closer' = "done"
  /\ UNCHANGED <<netVars, execVars, workerVars, reaperVars, invVars, appVars>>

Closer == Drained \/ SetShutdown \/ Joined

----------------------------------------------------------------------------
Next ==
  \/ \E o \in Ops : Handler(o) \/ Engine(o)
  \/ \E w \in Workers : Worker(w)
  \/ Reaper
  \/ CloseAdmission \/ Restart \/ ShutdownBegin \/ Closer

Spec == Init /\ [][Next]_vars

(* Every thread is scheduled; the application's functions return, which    *)
(* the README requires for a clean shutdown; a deadline is finite.         *)
Fairness ==
  /\ \A o \in Ops : /\ WF_vars(Respond(o)) /\ WF_vars(TimeOut(o))
                    /\ WF_vars(Engine(o))
  /\ \A w \in Workers : WF_vars(Worker(w))
  /\ WF_vars(Reaper)
  /\ WF_vars(Closer)

FairSpec == Spec /\ Fairness
----------------------------------------------------------------------------
(* Properties.                                                             *)

Busy == {"call", "inside", "send", "sent", "finish", "release"}

(* Every variable has the type of the C++ member or local it stands for.   *)
TypeOK ==
  /\ open \in BOOLEAN
  /\ request \in [Ops -> {"new", "prepared", "waiting", "answered"}]
  /\ answer \in [Ops -> Answers]
  /\ send \in [Ops -> BOOLEAN]
  /\ queue \in Seq(Ops) /\ pending \in Seq(Ops)
  /\ shutdown \in BOOLEAN /\ asleep \subseteq Workers
  /\ worker \in [Workers -> Busy \cup {"wait", "exited"}]
  /\ wop \in [Workers -> Ops \cup {NoOp}]
  /\ wresult \in [Workers -> Results]
  /\ reaper \in {"fetch", "check", "collect", "finish", "release", "rest", "exited"}
  /\ index \in Nat /\ cand \in Ops \cup {NoOp} /\ rresult \in Results
  /\ sent \in [Ops -> BOOLEAN] /\ complete \in [Ops -> BOOLEAN]
  /\ status \in [Ops -> Results]
  /\ app \in [Ops -> {"none", "queued", "running", "returned", "threw", "failed"}]
  /\ runs \in [Ops -> Nat]
  /\ closer \in {"idle", "drain", "flag", "join", "done"}

(* pending_ holds at most maxPendingOperations calls, each once, and every *)
(* queued call is among them: admit's size test is the only thing between  *)
(* any number of requests and the bound, across timeouts and restarts.     *)
CapacityBound ==
  /\ Len(pending) <= Cap
  /\ IsInjective(pending) /\ IsInjective(queue)
  /\ ToSet(queue) \subseteq ToSet(pending)

(* While RTT may still write into an Invocation's argument and result      *)
(* storage the executor keeps the Invocation (pending_), although its      *)
(* client was answered 504, its connection closed, the evaluation of the   *)
(* send threw, or HTTP was stopped and started again.                      *)
Retention == \A o \in Ops : app[o] \in {"queued", "running"} => o \in ToSet(pending)

(* No replay: whatever happens, the application's function is entered at   *)
(* most once per request, and never for a request refused at admission.    *)
AtMostOnce ==
  \A o \in Ops : /\ runs[o] <= 1
                 /\ answer[o] \in {"mismatch", "capacity", "closed"} => runs[o] = 0

(* A client told 200 got the outputs of a call that ran and returned; the  *)
(* status that finish() stored is never "ok" for any other call.           *)
HonestAnswer ==
  \A o \in Ops : answer[o] = "ok" \/ (complete[o] /\ status[o] = "ok")
                   => app[o] = "returned" /\ runs[o] = 1

(* finish() runs once per call: between a worker and the reaper nobody     *)
(* completes a call again or changes the status a client may have read.    *)
CompletionFinal ==
  [][\A o \in Ops : complete[o] => complete'[o] /\ status'[o] = status[o]]_vars

(* Once shutdown() sets shutdown_, nothing is pending, queued or running   *)
(* inside the application, so the threads it joins leave no call behind    *)
(* and the component engines may go.                                       *)
DrainSafe ==
  closer \in {"join", "done"} =>
    /\ pending = <<>> /\ queue = <<>>
    /\ \A o \in Ops : app[o] \notin {"queued", "running"}

(* Every admitted call is completed and gives up its place, though the     *)
(* single condition variable is shared by workers, reaper and drain and    *)
(* the reaper's index scan may skip entries of a shrinking pending_.       *)
EveryCallReleased ==
  \A o \in Ops : o \in ToSet(pending) ~> o \notin ToSet(pending)

(* shutdown() returns: the drain ends and every thread it joins exits.     *)
ShutdownTerminates == closer = "drain" ~> closer = "done"

(* README: "Admitted calls keep capacity [...] until completion", and the  *)
(* contract test posts one call after the other with room for one: no      *)
(* request is refused for capacity that only calls answered 200 still use. *)
CapacityUntilCompletion ==
  [][\A o \in Ops : answer[o] = "none" /\ answer'[o] = "capacity" =>
       \E p \in ToSet(pending) : answer[p] # "ok"]_vars

(* The abstract life of a call.                                            *)
Phase(o) ==
  CASE app[o] = "none" -> IF o \in ToSet(pending) THEN "accepted"
                          ELSE IF request[o] = "answered" THEN "refused" ELSE "new"
    [] app[o] = "queued" -> "accepted"
    [] app[o] = "running" -> "started"
    [] OTHER -> app[o]

Contract == INSTANCE CallContract
              WITH phase <- [o \in Ops |-> Phase(o)],
                   held <- ToSet(pending),
                   final <- closer \in {"flag", "join", "done"}

(* The threads, queues and flags of the executor implement the contract    *)
(* of CallContract.                                                        *)
ImplementsContract == Contract!Spec
----------------------------------------------------------------------------
(* The inductive invariant behind the safety properties: who owns a call   *)
(* at each moment of its life.                                             *)

Final == {"returned", "threw", "failed"}

(* Nothing was done for the call yet.                                      *)
Fresh(o) ==
  app[o] = "none" /\ runs[o] = 0 /\ ~sent[o] /\ ~complete[o] /\ status[o] = "ok"

QueueInv ==
  /\ CapacityBound
  /\ \A o \in Ops : o \in ToSet(queue) => Fresh(o)

RequestInv ==
  \A o \in Ops :
    /\ request[o] \in {"new", "prepared"} => Fresh(o) /\ o \notin ToSet(pending)
    /\ answer[o] \in {"mismatch", "capacity", "closed"} =>
         Fresh(o) /\ o \notin ToSet(pending)
    /\ request[o] # "answered" => answer[o] = "none"
    /\ answer[o] = "ok" => app[o] = "returned"
    /\ request[o] = "waiting" => o \in ToSet(pending) \/ app[o] # "none"

(* A worker owns the call it took, alone, until finish or until `sent`.    *)
WorkerInv ==
  \A w \in Workers :
    /\ worker[w] \in Busy <=> wop[w] \in Ops
    /\ worker[w] \in Busy =>
         /\ wop[w] \in ToSet(pending) /\ wop[w] \notin ToSet(queue)
         /\ ~sent[wop[w]]
         /\ \A v \in Workers : wop[v] = wop[w] => v = w
    /\ worker[w] \in {"call", "send"} => Fresh(wop[w])
    /\ worker[w] \in {"send", "sent"} <=> worker[w] \in Busy /\ send[wop[w]]
    /\ worker[w] = "inside" => app[wop[w]] = "running"
    /\ worker[w] = "sent" => app[wop[w]] # "none"
    /\ worker[w] = "finish" =>
         /\ app[wop[w]] \in Final
         /\ (wresult[w] = "ok" => app[wop[w]] = "returned")
         /\ (wresult[w] = "unavailable" => app[wop[w]] # "returned")
    /\ worker[w] \in Busy => (complete[wop[w]] <=> worker[w] = "release")

(* From `sent` on only the reaper completes the call.                      *)
ReaperInv ==
  /\ reaper \in {"check", "collect", "finish", "release"} <=> cand \in Ops
  /\ reaper \in {"collect", "finish", "release"} => sent[cand]
  /\ reaper \in {"collect", "finish"} => ~complete[cand]
  /\ reaper = "finish" =>
       /\ app[cand] \in Final
       /\ (rresult = "ok" => app[cand] = "returned")
       /\ (rresult = "unavailable" => app[cand] # "returned")
  /\ reaper = "release" => complete[cand]

AppInv ==
  /\ Retention
  /\ \A o \in Ops :
       /\ runs[o] = IF app[o] \in {"running", "returned", "threw"} THEN 1 ELSE 0
       /\ app[o] = "queued" => send[o]
       /\ sent[o] => send[o] /\ app[o] # "none"
       /\ complete[o] => /\ app[o] \in Final
                         /\ (status[o] = "ok" => app[o] = "returned")
                         /\ (status[o] = "unavailable" => app[o] # "returned")

CloserInv ==
  /\ closer # "idle" => NetworkJoined
  /\ closer \in {"flag", "join", "done"} => pending = <<>>

(* Every call has at most one owner among queue, workers and reaper, the   *)
(* owner knows what RTT did with it, and it stays in pending_ until its    *)
(* owner completed it.                                                     *)
IInv ==
  TypeOK /\ QueueInv /\ RequestInv /\ WorkerInv /\ ReaperInv /\ AppInv /\ CloserInv
=============================================================================
