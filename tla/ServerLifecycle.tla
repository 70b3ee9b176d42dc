--------------------------- MODULE ServerLifecycle ---------------------------
(***************************************************************************)
(* The life cycle of RTT::http::Server (src/src/server.cpp): start, stop,  *)
(* publishComponent, requestStop, beginShutdown and finishShutdown called  *)
(* from any threads, the network thread run(), the watchdog watchGrace(),  *)
(* and the HTTP workers as far as they touch the shared state: preflight,  *)
(* the admission boundary and live access.                                 *)
(*                                                                         *)
(* A step is one critical section of Impl::mutex, one wait, or one piece   *)
(* of code between two of them.  An element of Calls is one call of the    *)
(* public API; Impl::control serialises start, stop, publishComponent and  *)
(* finishShutdown.  The executor is its width and the number of its        *)
(* unfinished calls (module OperationExecutor); time is abstracted.        *)
(***************************************************************************)
EXTENDS Naturals

CONSTANTS Calls,    \* calls of the public API, from any threads
          Handlers, \* the HTTP worker threads of the network pool
          Widths,   \* values of ServerOptions::workerThreads
          Caps,     \* values of ServerOptions::maxPendingOperations
          NoCall,   \* Impl::control is free
          NoWidth   \* a null shared_ptr<OperationExecutor>

ASSUME LifecycleAssumption ==
  /\ NoCall \notin Calls
  /\ NoWidth \notin Widths
  /\ Caps \subseteq Nat \ {0}

VARIABLES
  state, finalShutdown, networkDone, graceExpired, \* members of Impl
  width, cap, \* Impl::options: workerThreads, maxPendingOperations
  model,      \* Impl::model is not null
  published,  \* the component is published in it
  executor,   \* Impl::executor: its width, or NoWidth
  calls,      \* the executor's count(): unfinished operation calls
  listener,   \* Impl::listener is not null
  accepting,  \* httplib's accept loop has not been told to stop
  control,    \* the owner of Impl::control
  pc, kind,   \* each API call: where it is, and which function it is
  net,        \* the network thread, "none" when it is not joinable
  dog,        \* the watchdog thread
  handler     \* each HTTP worker

implVars == <<state, finalShutdown, networkDone, graceExpired, width, cap>>
objVars == <<model, published, executor, calls>>
netVars == <<listener, accepting, net, dog, handler>>
apiVars == <<control, pc, kind>>
vars == <<implVars, objVars, netVars, apiVars>>

Init ==
  /\ state = "stopped" /\ finalShutdown = FALSE
  /\ networkDone = TRUE /\ graceExpired = FALSE
  /\ width \in Widths /\ cap \in Caps
  /\ model = FALSE /\ published = FALSE /\ executor = NoWidth /\ calls = 0
  /\ listener = FALSE /\ accepting = FALSE
  /\ control = NoCall
  /\ pc = [c \in Calls |-> "new"] /\ kind = [c \in Calls |-> "none"]
  /\ net = "none" /\ dog = "none"
  /\ handler = [h \in Handlers |-> "idle"]

----------------------------------------------------------------------------
(* Impl::requestStopLocked.  listener->stop() ends an accept loop that has *)
(* begun and does nothing to one that has not (external: cpp-httplib).     *)
RequestStopLocked ==
  IF state \in {"stopped", "stopping"} THEN UNCHANGED <<state, accepting>>
  ELSE /\ state' = "stopping"
       /\ accepting' = (accepting /\ ~listener)

Goto(c, l) == pc' = [pc EXCEPT ![c] = l]

(* A call returns; whoever holds Impl::control gives it up.                *)
Return(c) ==
  /\ Goto(c, "done")
  /\ control' = NoCall
  /\ UNCHANGED kind

(* std::lock_guard control(impl_->control).                                *)
Lock(c, k, l) ==
  /\ control = NoCall
  /\ control' = c
  /\ kind' = [kind EXCEPT ![c] = k]
  /\ Goto(c, l)

----------------------------------------------------------------------------
(* Server::start.                                                          *)

StartLock(c) ==
  /\ pc[c] = "new"
  /\ Lock(c, "start", "check")
  /\ UNCHANGED <<implVars, objVars, netVars>>

(* Fails when shutting down or not cleaned up; succeeds when running.      *)
StartCheck(c) ==
  /\ pc[c] = "check"
  /\ IF finalShutdown \/ state # "stopped"
     THEN Return(c)
     ELSE Goto(c, "join") /\ UNCHANGED <<control, kind>>
  /\ UNCHANGED <<implVars, objVars, netVars>>

(* Joins the network thread of the last run; then validateOptions.         *)
StartJoin(c) ==
  /\ pc[c] = "join" /\ net \in {"none", "exited"}
  /\ net' = "none"
  /\ \/ Goto(c, "config") /\ UNCHANGED <<control, kind>>
     \/ Return(c)
  /\ UNCHANGED <<implVars, objVars, listener, accepting, dog, handler>>

RefusedAnyCap(w, k) == executor # NoWidth /\ calls > 0 /\ w # executor

(* The new options are compared with the calls the executor still retains. *)
Refused(w, k) ==
  executor # NoWidth /\ (k < calls \/ (calls > 0 /\ w # executor))

StartConfigKeepsGrace(c) ==
  /\ pc[c] = "config"
  /\ \E w \in Widths, k \in Caps :
       IF Refused(w, k)
       THEN Return(c) /\ UNCHANGED implVars
       ELSE /\ width' = w /\ cap' = k
            /\ state' = "starting"
            /\ Goto(c, "model")
            /\ UNCHANGED <<finalShutdown, networkDone, graceExpired, control, kind>>
  /\ UNCHANGED <<objVars, netVars>>

StartConfig(c) ==
  /\ pc[c] = "config"
  /\ \E w \in Widths, k \in Caps :
       IF Refused(w, k)
       THEN Return(c) /\ UNCHANGED implVars
       ELSE /\ width' = w /\ cap' = k
            /\ state' = "starting" /\ graceExpired' = FALSE
            /\ Goto(c, "model")
            /\ UNCHANGED <<finalShutdown, networkDone, control, kind>>
  /\ UNCHANGED <<objVars, netVars>>

(* The type catalog and the object model, unless a run before made them.   *)
StartModel(c) ==
  /\ pc[c] = "model"
  /\ \/ model' = TRUE /\ Goto(c, "executor")
     \/ ~model /\ Goto(c, "catch") /\ UNCHANGED model
  /\ UNCHANGED <<implVars, published, executor, calls, netVars, control, kind>>

(* An executor of another width is taken out of Impl and shut down.        *)
StartExecutor(c) ==
  /\ pc[c] = "executor"
  /\ IF executor = width
     THEN Goto(c, "launch") /\ UNCHANGED executor
     ELSE Goto(c, "replace") /\ executor' = NoWidth
  /\ UNCHANGED <<implVars, model, published, calls, netVars, control, kind>>

(* old->shutdown() drains; then the new executor's threads start or throw. *)
StartReplace(c) ==
  /\ pc[c] = "replace" /\ calls = 0
  /\ \/ executor' = width /\ Goto(c, "launch")
     \/ Goto(c, "catch") /\ UNCHANGED executor
  /\ UNCHANGED <<implVars, model, published, calls, netVars, control, kind>>

StartLaunchForgets(c) ==
  /\ pc[c] = "launch"
  /\ IF state # "starting" \/ finalShutdown
     THEN Return(c) /\ UNCHANGED networkDone
     ELSE networkDone' = FALSE /\ Goto(c, "spawn") /\ UNCHANGED <<control, kind>>
  /\ UNCHANGED <<state, finalShutdown, graceExpired, width, cap, objVars, netVars>>

(* A stop or shutdown that came in meanwhile ends the start here.          *)
StartLaunch(c) ==
  /\ pc[c] = "launch"
  /\ IF state # "starting" \/ finalShutdown
     THEN /\ state' = "stopped" /\ Return(c)
          /\ UNCHANGED networkDone
     ELSE /\ networkDone' = FALSE /\ Goto(c, "spawn")
          /\ UNCHANGED <<state, control, kind>>
  /\ UNCHANGED <<finalShutdown, graceExpired, width, cap, objVars, netVars>>

StartSpawn(c) ==
  /\ pc[c] = "spawn"
  /\ \/ net' = "setup" /\ Goto(c, "await")
     \/ Goto(c, "catch") /\ UNCHANGED net
  /\ UNCHANGED <<implVars, objVars, listener, accepting, dog, handler, control,
                 kind>>

StartAwait(c) ==
  /\ pc[c] = "await" /\ state \in {"running", "stopped"}
  /\ Return(c)
  /\ UNCHANGED <<implVars, objVars, netVars>>

StartCatch(c) ==
  /\ pc[c] = "catch"
  /\ state' = "stopped" /\ networkDone' = TRUE
  /\ Return(c)
  /\ UNCHANGED <<finalShutdown, graceExpired, width, cap, objVars, netVars>>

Start(c) ==
  \/ StartCheck(c) \/ StartJoin(c) \/ StartConfig(c) \/ StartModel(c)
  \/ StartExecutor(c) \/ StartReplace(c) \/ StartLaunch(c) \/ StartSpawn(c)
  \/ StartAwait(c) \/ StartCatch(c)

----------------------------------------------------------------------------
(* Server::requestStop and Server::stop.                                   *)

RequestStop ==
  /\ RequestStopLocked
  /\ UNCHANGED <<finalShutdown, networkDone, graceExpired, width, cap, objVars,
                 listener, net, dog, handler, apiVars>>

(* stop() asks before it waits for control, to interrupt a start().        *)
StopRequest(c) ==
  /\ pc[c] = "new"
  /\ RequestStopLocked
  /\ Goto(c, "stop") /\ kind' = [kind EXCEPT ![c] = "stop"]
  /\ UNCHANGED <<finalShutdown, networkDone, graceExpired, width, cap, objVars,
                 listener, net, dog, handler, control>>

(* And again once it holds control: a start() may have come between.       *)
StopLock(c) ==
  /\ pc[c] = "stop"
  /\ Lock(c, kind[c], "halt")
  /\ RequestStopLocked
  /\ UNCHANGED <<finalShutdown, networkDone, graceExpired, width, cap, objVars,
                 listener, net, dog, handler>>

StopJoin(c) ==
  /\ pc[c] = "halt" /\ net \in {"none", "exited"}
  /\ net' = "none"
  /\ control' = NoCall
  /\ Goto(c, IF kind[c] = "finish" THEN "final" ELSE "done")
  /\ UNCHANGED <<implVars, objVars, listener, accepting, dog, handler, kind>>

Stop(c) == StopLock(c) \/ StopJoin(c)

----------------------------------------------------------------------------
(* Server::beginShutdown and Server::finishShutdown.                       *)

BeginShutdown ==
  /\ finalShutdown' = TRUE
  /\ RequestStopLocked
  /\ UNCHANGED <<networkDone, graceExpired, width, cap, objVars, listener, net,
                 dog, handler, apiVars>>

(* finishShutdown: beginShutdown, ...                                      *)
FinishBegin(c) ==
  /\ pc[c] = "new"
  /\ finalShutdown' = TRUE
  /\ RequestStopLocked
  /\ Goto(c, "request") /\ kind' = [kind EXCEPT ![c] = "finish"]
  /\ UNCHANGED <<networkDone, graceExpired, width, cap, objVars, listener, net,
                 dog, handler, control>>

(* ... then stop, ...                                                      *)
FinishStop(c) ==
  /\ pc[c] = "request"
  /\ RequestStopLocked
  /\ Goto(c, "stop")
  /\ UNCHANGED <<finalShutdown, networkDone, graceExpired, width, cap, objVars,
                 listener, net, dog, handler, control, kind>>

(* ... then, under control again, the executor is taken out of Impl.       *)
FinishLock(c) ==
  /\ pc[c] = "final"
  /\ Lock(c, "finish", "drain")
  /\ executor' = NoWidth
  /\ UNCHANGED <<implVars, model, published, calls, netVars>>

FinishNoDrain(c) ==
  /\ pc[c] = "drain"
  /\ model' = FALSE /\ published' = FALSE
  /\ Return(c)
  /\ UNCHANGED <<implVars, executor, calls, netVars>>

(* executor->shutdown() drains; the object model goes last.                *)
FinishDrain(c) ==
  /\ pc[c] = "drain" /\ calls = 0
  /\ model' = FALSE /\ published' = FALSE
  /\ Return(c)
  /\ UNCHANGED <<implVars, executor, calls, netVars>>

Finish(c) == FinishStop(c) \/ FinishLock(c) \/ FinishDrain(c)

----------------------------------------------------------------------------
(* Server::publishComponent: check, stage without Impl::mutex, check       *)
(* again and commit.                                                       *)

PublishLock(c) ==
  /\ pc[c] = "new"
  /\ Lock(c, "publish", "admit")
  /\ UNCHANGED <<implVars, objVars, netVars>>

PublishCheck(c) ==
  /\ pc[c] = "admit"
  /\ IF state # "running" \/ finalShutdown \/ published
     THEN Return(c)
     ELSE Goto(c, "stage") /\ UNCHANGED <<control, kind>>
  /\ UNCHANGED <<implVars, objVars, netVars>>

PublishStageUncontrolled(c) ==
  /\ pc[c] = "stage"
  /\ \/ Goto(c, "commit") /\ control' = NoCall /\ UNCHANGED kind
     \/ Return(c)
  /\ UNCHANGED <<implVars, objVars, netVars>>

(* stage() may throw; commit() may refuse the staged publication.          *)
PublishStage(c) ==
  /\ pc[c] = "stage"
  /\ \/ Goto(c, "commit") /\ UNCHANGED <<control, kind>>
     \/ Return(c)
  /\ UNCHANGED <<implVars, objVars, netVars>>

PublishCommit(c) ==
  /\ pc[c] = "commit"
  /\ published' \in IF state = "running" /\ ~finalShutdown
                    THEN {published, TRUE} ELSE {published}
  /\ Return(c)
  /\ UNCHANGED <<implVars, model, executor, calls, netVars>>

Publish(c) == PublishCheck(c) \/ PublishStage(c) \/ PublishCommit(c)

----------------------------------------------------------------------------
(* Impl::run, the network thread.                                          *)

(* Everything up to bind_to_port.                                          *)
NetSetup ==
  /\ net = "setup"
  /\ net' \in {"bound", "failed"}
  /\ UNCHANGED <<implVars, objVars, listener, accepting, dog, handler, apiVars>>

(* listener->stop() of a server that is not to start has no effect yet:    *)
(* the start handler tests the state again.                                *)
NetPublish ==
  /\ net = "bound"
  /\ listener' = TRUE
  /\ net' = "watch"
  /\ UNCHANGED <<implVars, objVars, accepting, dog, handler, apiVars>>

(* The watchdog thread, then listen_after_bind: from here on               *)
(* listener->stop() has an effect.                                         *)
NetWatch ==
  /\ net = "watch"
  /\ \/ /\ dog' = "wait" /\ accepting' = TRUE /\ net' = "onStart"
     \/ /\ net' = "failed" /\ UNCHANGED <<dog, accepting>>
  /\ UNCHANGED <<implVars, objVars, listener, handler, apiVars>>

NetOnStartNoStop ==
  /\ net = "onStart"
  /\ state' = IF state = "starting" /\ ~finalShutdown THEN "running" ELSE state
  /\ net' \in {"accept", "failed"}
  /\ UNCHANGED <<finalShutdown, networkDone, graceExpired, width, cap, objVars,
                 listener, accepting, dog, handler, apiVars>>

(* The start handler; then the network pool's threads, which may throw.    *)
NetOnStart ==
  /\ net = "onStart"
  /\ IF state = "starting" /\ ~finalShutdown
     THEN state' = "running" /\ UNCHANGED accepting
     ELSE UNCHANGED state /\ accepting' = FALSE
  /\ net' \in {"accept", "failed"}
  /\ UNCHANGED <<finalShutdown, networkDone, graceExpired, width, cap, objVars,
                 listener, dog, handler, apiVars>>

(* The accept loop ends: it was told to stop.                              *)
NetStopped ==
  /\ net = "accept" /\ ~accepting
  /\ net' = "pool"
  /\ UNCHANGED <<implVars, objVars, listener, accepting, dog, handler, apiVars>>

(* Or it ends by an error of its own.                                      *)
NetError ==
  /\ net = "accept" /\ accepting
  /\ net' = "pool"
  /\ UNCHANGED <<implVars, objVars, listener, accepting, dog, handler, apiVars>>

(* NetworkPool::shutdown: onShutdown_ requests the stop; ...               *)
NetPoolClose ==
  /\ net = "pool"
  /\ RequestStopLocked
  /\ net' = "joining"
  /\ UNCHANGED <<finalShutdown, networkDone, graceExpired, width, cap, objVars,
                 listener, dog, handler, apiVars>>

NetPoolLeave ==
  /\ net = "joining"
  /\ net' = "close"
  /\ UNCHANGED <<implVars, objVars, listener, accepting, dog, handler, apiVars>>

(* ... then its threads are joined, each after its current task.           *)
NetPoolJoin ==
  /\ net = "joining" /\ \A h \in Handlers : handler[h] = "idle"
  /\ net' = "close"
  /\ UNCHANGED <<implVars, objVars, listener, accepting, dog, handler, apiVars>>

(* The catch clauses of run.                                               *)
NetCatch ==
  /\ net = "failed"
  /\ RequestStopLocked
  /\ net' = "close"
  /\ UNCHANGED <<finalShutdown, networkDone, graceExpired, width, cap, objVars,
                 listener, dog, handler, apiVars>>

NetClose ==
  /\ net = "close"
  /\ listener' = FALSE /\ networkDone' = TRUE
  /\ net' = "reap"
  /\ UNCHANGED <<state, finalShutdown, graceExpired, width, cap, objVars,
                 accepting, dog, handler, apiVars>>

(* Joins the watchdog, then state = stopped, the thread's last act.        *)
NetExit ==
  /\ net = "reap" /\ dog \in {"none", "exited"}
  /\ dog' = "none"
  /\ state' = "stopped"
  /\ net' = "exited"
  /\ UNCHANGED <<finalShutdown, networkDone, graceExpired, width, cap, objVars,
                 listener, accepting, handler, apiVars>>

Network ==
  \/ NetSetup \/ NetPublish \/ NetWatch \/ NetOnStart \/ NetStopped
  \/ NetPoolClose \/ NetPoolJoin \/ NetCatch \/ NetClose \/ NetExit

(* Impl::watchGrace.                                                       *)

DogWake ==
  /\ dog = "wait" /\ (networkDone \/ state = "stopping")
  /\ dog' = IF networkDone THEN "exited" ELSE "grace"
  /\ UNCHANGED <<implVars, objVars, listener, accepting, net, handler, apiVars>>

DogDone ==
  /\ dog = "grace" /\ networkDone
  /\ dog' = "exited"
  /\ UNCHANGED <<implVars, objVars, listener, accepting, net, handler, apiVars>>

(* The deadline passes: every connection is cancelled.                     *)
DogExpire ==
  /\ dog = "grace" /\ ~networkDone
  /\ graceExpired' = TRUE
  /\ dog' = "exited"
  /\ UNCHANGED <<state, finalShutdown, networkDone, width, cap, objVars,
                 listener, accepting, net, handler, apiVars>>

Watchdog == DogWake \/ DogDone \/ DogExpire

----------------------------------------------------------------------------
(* An HTTP worker.                                                         *)

(* preflight lets a request through while the server runs.                 *)
Preflight(h) ==
  /\ net \in {"accept", "pool"} /\ handler[h] = "idle"
  /\ state = "running" /\ ~finalShutdown
  /\ handler' = [handler EXCEPT ![h] = "routed"]
  /\ UNCHANGED <<implVars, objVars, listener, accepting, net, dog, apiVars>>

(* The admission boundary of handle: refused, granted live access to a     *)
(* property, attribute or port, or an operation admitted by the executor.  *)
Admission(h) ==
  /\ handler[h] = "routed"
  /\ \/ /\ handler' = [handler EXCEPT ![h] = "idle"]
        /\ UNCHANGED calls
     \/ /\ state = "running" /\ ~finalShutdown
        /\ handler' = [handler EXCEPT ![h] = "live"]
        /\ calls' \in {calls} \cup (IF calls < cap THEN {calls + 1} ELSE {})
  /\ UNCHANGED <<implVars, model, published, executor, listener, accepting,
                 net, dog, apiVars>>

(* The access ends, or the wait for the operation does.                    *)
Respond(h) ==
  /\ handler[h] = "live"
  /\ handler' = [handler EXCEPT ![h] = "idle"]
  /\ UNCHANGED <<implVars, objVars, listener, accepting, net, dog, apiVars>>

Handler(h) == Preflight(h) \/ Admission(h) \/ Respond(h)

(* An operation call ends (module OperationExecutor).                      *)
CallEnds ==
  /\ calls > 0
  /\ calls' = calls - 1
  /\ UNCHANGED <<implVars, model, published, executor, netVars, apiVars>>

----------------------------------------------------------------------------
Api(c) == Start(c) \/ Stop(c) \/ Finish(c) \/ Publish(c)

Enter(c) == StartLock(c) \/ StopRequest(c) \/ FinishBegin(c) \/ PublishLock(c)

Next ==
  \/ \E c \in Calls : Enter(c) \/ Api(c)
  \/ RequestStop \/ BeginShutdown
  \/ Network \/ NetError \/ Watchdog
  \/ \E h \in Handlers : Handler(h)
  \/ CallEnds

Spec == Init /\ [][Next]_vars

(* Threads are scheduled, HTTP workers end their task (socket and          *)
(* operation timeouts are finite), operation calls end.                    *)
Fairness ==
  /\ \A c \in Calls : WF_vars(Api(c))
  /\ WF_vars(Network) /\ WF_vars(Watchdog) /\ WF_vars(CallEnds)
  /\ \A h \in Handlers : WF_vars(Admission(h) \/ Respond(h))

FairSpec == Spec /\ Fairness
----------------------------------------------------------------------------
(* Properties.                                                             *)

StartSteps == {"check", "join", "config", "model", "executor", "replace",
               "launch", "spawn", "await", "catch"}
Owning == StartSteps \cup {"halt", "drain", "admit", "stage", "commit"}

(* Every variable has the type of the member or program counter it is.     *)
TypeOK ==
  /\ state \in {"stopped", "starting", "running", "stopping"}
  /\ finalShutdown \in BOOLEAN /\ networkDone \in BOOLEAN /\ graceExpired \in BOOLEAN
  /\ width \in Widths /\ cap \in Caps
  /\ model \in BOOLEAN /\ published \in BOOLEAN
  /\ executor \in Widths \cup {NoWidth} /\ calls \in Nat
  /\ listener \in BOOLEAN /\ accepting \in BOOLEAN
  /\ control \in Calls \cup {NoCall}
  /\ pc \in [Calls -> Owning \cup {"new", "request", "stop", "final", "done"}]
  /\ kind \in [Calls -> {"none", "start", "stop", "finish", "publish"}]
  /\ net \in {"none", "setup", "bound", "watch", "onStart", "accept", "pool",
              "joining", "failed", "close", "reap", "exited"}
  /\ dog \in {"none", "wait", "grace", "exited"}
  /\ handler \in [Handlers -> {"idle", "routed", "live"}]

(* A running server has everything a request needs: its object model, an   *)
(* executor of the configured width and a listener; no grace period of an  *)
(* earlier run cuts its waits short, and it is not being shut down.        *)
ServingReady ==
  state = "running" =>
    /\ model /\ executor = width /\ listener
    /\ ~networkDone /\ ~graceExpired /\ ~finalShutdown
    /\ net \in {"accept", "failed", "pool"}

(* While an HTTP worker is past preflight, where it reads model, executor  *)
(* and options without a lock, they exist and no call of start or          *)
(* finishShutdown is at a step that replaces them.                         *)
HandlersCovered ==
  (\E h \in Handlers : handler[h] # "idle") =>
    /\ model /\ executor # NoWidth
    /\ \A c \in Calls : pc[c] \notin (StartSteps \ {"check", "await"}) \cup {"final", "drain"}

(* In state stopped the network is gone: no listener, no watchdog that     *)
(* could still expire the next run's grace, no HTTP worker in a request.   *)
StoppedIsQuiet ==
  state = "stopped" =>
    /\ ~listener /\ networkDone /\ dog = "none"
    /\ net \in {"none", "exited"}
    /\ \A h \in Handlers : handler[h] = "idle"

(* Operation calls the executor retains stay within the configured         *)
(* capacity over every restart, and outlive neither executor nor model.    *)
RetainedCalls ==
  calls > 0 =>
    /\ calls <= cap
    /\ model
    /\ executor # NoWidth \/ \E c \in Calls : pc[c] = "drain"

(* start() never waits for operation calls: when it replaces the executor  *)
(* the old one has none.                                                   *)
ReplaceNeverWaits == \A c \in Calls : pc[c] = "replace" => calls = 0

(* Retained calls bound the executor that holds them and never hold up a   *)
(* start.                                                                  *)
CallsRetained == RetainedCalls /\ ReplaceNeverWaits

(* The state of the server says what is there: everything in running,      *)
(* nothing in stopped.                                                     *)
StateHonest == TypeOK /\ ServingReady /\ StoppedIsQuiet

(* After finishShutdown has returned nothing is left and nothing comes     *)
(* back, whatever start, stop or publish calls raced with it.              *)
ShutdownFinal ==
  (\E c \in Calls : kind[c] = "finish" /\ pc[c] = "done") =>
    /\ state = "stopped" /\ net = "none" /\ executor = NoWidth
    /\ ~model /\ ~published /\ calls = 0

(* When stop() has joined, the service is in state stopped, also when it   *)
(* interrupted a start() or raced with one.                                *)
StopEffective ==
  [][\A c \in Calls : pc[c] = "halt" /\ pc'[c] # "halt" => state' = "stopped"]_vars

(* publishComponent stages without Impl::mutex, and stops, starts, other   *)
(* publications and final shutdowns may come meanwhile: until it commits,  *)
(* the object model it stages into is there, the component it found not    *)
(* published is still not, and the run it was admitted in has not been     *)
(* joined, so that the second test of the state is about the same run.     *)
PublicationCovered ==
  \A c \in Calls : pc[c] \in {"stage", "commit"} => model /\ ~published /\ net # "none"

(* start, stop, publishComponent and finishShutdown return.                *)
EveryCallReturns == \A c \in Calls : pc[c] # "new" ~> pc[c] = "done"
=============================================================================
