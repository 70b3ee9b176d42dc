------------------------ MODULE ServerLifecycleProofs ------------------------
(***************************************************************************)
(* Proofs about ServerLifecycle, for any calls of the public API, HTTP     *)
(* workers, executor widths and capacities.                                *)
(***************************************************************************)
EXTENDS ServerLifecycle, TLAPS

----------------------------------------------------------------------------
(* The inductive invariant.                                                *)

(* Steps of start() after the options were taken, before run() exists.     *)
Preparing == {"model", "executor", "replace", "launch", "spawn", "catch"}

(* Where run() is between its creation and its last act.                   *)
NetLive == {"setup", "bound", "watch", "onStart", "accept", "pool", "joining",
            "failed", "close", "reap"}

(* A call is inside a control section exactly when it owns Impl::control.  *)
OwnerInv == \A c \in Calls : pc[c] \in Owning <=> control = c

(* Where a call of finishShutdown may be, and that it has begun one.       *)
KindInv ==
  \A c \in Calls :
    /\ kind[c] = "finish" =>
         pc[c] \in {"request", "stop", "halt", "final", "drain", "done"} /\ finalShutdown
    /\ pc[c] \in {"request", "final", "drain"} => kind[c] = "finish"

(* What there is while run() is at a step, and what the state then is.     *)
NetInv ==
  /\ net = "exited" => state = "stopped"
  /\ net \in NetLive =>
       /\ state # "stopped" /\ model /\ executor = width
       /\ finalShutdown => state = "stopping"
  /\ state = "running" => net \in {"accept", "failed", "pool"} /\ listener
  /\ net \in {"accept", "pool"} => state # "starting"
  /\ net \in {"joining", "close", "reap"} => state = "stopping"
  /\ net \in {"watch", "onStart"} => listener
  /\ net \in {"none", "reap", "exited"} => ~listener
  /\ net \in NetLive \ {"reap"} => ~networkDone
  /\ net \in {"reap", "exited"} => networkDone

(* The watchdog belongs to one run of the network and has seen its stop    *)
(* before it may expire the grace period.                                  *)
DogInv ==
  /\ net \in {"none", "setup", "bound", "watch", "exited"} => dog = "none"
  /\ dog = "grace" => state = "stopping"
  /\ state \in {"starting", "running"} => ~graceExpired

(* HTTP workers are in a request only while the pool has them.             *)
WorkerInv == (\E h \in Handlers : handler[h] # "idle") => net \in {"accept", "pool", "joining"}

(* How far start() has come, and that nothing else runs meanwhile.         *)
StartInv ==
  \A c \in Calls :
    /\ pc[c] \in {"join", "config"} => state = "stopped"
    /\ pc[c] \in {"config"} \cup Preparing => net = "none"
    /\ pc[c] \in Preparing => state \in {"starting", "stopping"}
    /\ pc[c] \in {"executor", "replace", "launch", "spawn"} => model
    /\ pc[c] \in {"launch", "spawn"} => executor = width
    /\ pc[c] = "spawn" => ~networkDone /\ (finalShutdown => state = "stopping")
    /\ pc[c] \in {"model", "executor"} /\ calls > 0 => executor = width

(* Without run(), only a start() explains a state that is not stopped.     *)
IdleInv ==
  /\ net = "none" /\ state # "stopped" => \E c \in Calls : pc[c] \in Preparing
  /\ net = "none" /\ ~networkDone => \E c \in Calls : pc[c] \in {"spawn", "catch"}

(* Once finishShutdown has joined, no start() gets past its first check.   *)
Finishing(c) == pc[c] \in {"final", "drain"} \/ (kind[c] = "finish" /\ pc[c] = "done")

FinalInv ==
  \A c \in Calls :
    /\ Finishing(c) =>
         /\ state = "stopped" /\ net = "none"
         /\ \A d \in Calls : pc[d] \notin StartSteps \ {"check"}
    /\ pc[c] = "drain" => executor = NoWidth

(* The executor's calls refer to the model.                                *)
ModelInv == executor # NoWidth => model

IInv ==
  /\ TypeOK /\ OwnerInv /\ KindInv /\ NetInv /\ DogInv /\ WorkerInv
  /\ StartInv /\ IdleInv /\ FinalInv /\ ModelInv /\ CallsRetained /\ ShutdownFinal

(* A server that was never started.                                        *)
LEMMA InitInv == Init => IInv
<1> SUFFICES ASSUME Init PROVE IInv
  OBVIOUS
<1>1. TypeOK
  BY LifecycleAssumption DEF Init, TypeOK
<1>2. OwnerInv /\ KindInv /\ NetInv /\ DogInv /\ WorkerInv
  BY LifecycleAssumption DEF Init, OwnerInv, KindInv, NetInv, DogInv, WorkerInv, Owning, StartSteps, NetLive
<1>3. StartInv /\ IdleInv /\ FinalInv /\ ModelInv /\ CallsRetained /\ ShutdownFinal
  BY LifecycleAssumption DEF Init, StartInv, IdleInv, FinalInv, Finishing, ModelInv, CallsRetained, RetainedCalls,
     ReplaceNeverWaits, ShutdownFinal, Preparing
<1> QED
  BY <1>1, <1>2, <1>3 DEF IInv

(* requestStopLocked leaves a state and a flag.                            *)
LEMMA StopTypes ==
  ASSUME TypeOK, RequestStopLocked
  PROVE  state' \in {"stopped", "stopping"} /\ accepting' \in BOOLEAN
<1>1. accepting \in BOOLEAN /\ (accepting' = accepting \/ accepting' = (accepting /\ ~listener))
  BY Zenon DEF TypeOK, RequestStopLocked
<1>2. accepting' \in BOOLEAN
  BY <1>1, Zenon
<1>3. state' \in {"stopped", "stopping"}
  BY DEF TypeOK, RequestStopLocked
<1> QED
  BY <1>2, <1>3

(* A step of start() keeps the invariant.                                  *)
LEMMA StartKeeps ==
  ASSUME IInv, NEW c \in Calls, StartLock(c) \/ Start(c)
  PROVE  IInv'
<1> USE DEF IInv, implVars, objVars, netVars, apiVars
<1>1. ASSUME StartLock(c) PROVE IInv'
  <2>1. TypeOK'
    BY <1>1, LifecycleAssumption DEF TypeOK, StartLock, Lock, Goto, Owning,
       StartSteps
  <2>2. OwnerInv' /\ KindInv'
    BY <1>1, LifecycleAssumption DEF TypeOK, OwnerInv, KindInv, StartLock, Lock,
       Goto, Owning, StartSteps, Preparing, NetLive
  <2>3. NetInv' /\ DogInv' /\ WorkerInv'
    BY <1>1, LifecycleAssumption DEF TypeOK, OwnerInv, NetInv, DogInv,
       WorkerInv, StartInv, FinalInv, Finishing, StartLock, Lock, Goto, Owning,
       StartSteps, Preparing, NetLive
  <2>4. StartInv' /\ IdleInv' /\ FinalInv'
    BY <1>1, LifecycleAssumption DEF TypeOK, OwnerInv, KindInv, NetInv,
       StartInv, IdleInv, FinalInv, DogInv, WorkerInv, Finishing, CallsRetained,
       RetainedCalls, ReplaceNeverWaits, StartLock, Lock, Goto, Owning,
       StartSteps, Preparing, NetLive
  <2>5. ModelInv' /\ CallsRetained' /\ ShutdownFinal'
    BY <1>1, LifecycleAssumption DEF TypeOK, OwnerInv, KindInv, NetInv,
       StartInv, FinalInv, Finishing, ModelInv, CallsRetained, RetainedCalls,
       ReplaceNeverWaits, ShutdownFinal, WorkerInv, StartLock, Lock, Goto,
       Owning, StartSteps, Preparing, NetLive
  <2> QED
    BY <2>1, <2>2, <2>3, <2>4, <2>5
<1>2. ASSUME StartCheck(c) PROVE IInv'
  <2>1. TypeOK'
    BY <1>2, LifecycleAssumption DEF TypeOK, StartCheck, Return, Goto, Owning,
       StartSteps
  <2>2. OwnerInv' /\ KindInv'
    BY <1>2, LifecycleAssumption DEF TypeOK, OwnerInv, KindInv, StartCheck,
       Return, Goto, Owning, StartSteps, Preparing, NetLive
  <2>3. NetInv' /\ DogInv' /\ WorkerInv'
    BY <1>2, LifecycleAssumption DEF TypeOK, OwnerInv, NetInv, DogInv,
       WorkerInv, StartInv, FinalInv, Finishing, StartCheck, Return, Goto,
       Owning, StartSteps, Preparing, NetLive
  <2>4. StartInv' /\ IdleInv' /\ FinalInv'
    BY <1>2, LifecycleAssumption DEF TypeOK, OwnerInv, KindInv, NetInv,
       StartInv, IdleInv, FinalInv, DogInv, WorkerInv, Finishing, CallsRetained,
       RetainedCalls, ReplaceNeverWaits, StartCheck, Return, Goto, Owning,
       StartSteps, Preparing, NetLive
  <2>5. ModelInv' /\ CallsRetained' /\ ShutdownFinal'
    BY <1>2, LifecycleAssumption DEF TypeOK, OwnerInv, KindInv, NetInv,
       StartInv, FinalInv, Finishing, ModelInv, CallsRetained, RetainedCalls,
       ReplaceNeverWaits, ShutdownFinal, WorkerInv, StartCheck, Return, Goto,
       Owning, StartSteps, Preparing, NetLive
  <2> QED
    BY <2>1, <2>2, <2>3, <2>4, <2>5
<1>3. ASSUME StartJoin(c) PROVE IInv'
  <2>1. TypeOK'
    BY <1>3, LifecycleAssumption DEF TypeOK, StartJoin, Return, Goto, Owning,
       StartSteps
  <2>2. OwnerInv' /\ KindInv'
    BY <1>3, LifecycleAssumption DEF TypeOK, OwnerInv, KindInv, StartJoin,
       Return, Goto, Owning, StartSteps, Preparing, NetLive
  <2>3. NetInv' /\ DogInv' /\ WorkerInv'
    BY <1>3, LifecycleAssumption DEF TypeOK, OwnerInv, NetInv, DogInv,
       WorkerInv, StartInv, FinalInv, Finishing, StartJoin, Return, Goto,
       Owning, StartSteps, Preparing, NetLive
  <2>4. StartInv' /\ IdleInv' /\ FinalInv'
    BY <1>3, LifecycleAssumption DEF TypeOK, OwnerInv, KindInv, NetInv,
       StartInv, IdleInv, FinalInv, DogInv, WorkerInv, Finishing, CallsRetained,
       RetainedCalls, ReplaceNeverWaits, StartJoin, Return, Goto, Owning,
       StartSteps, Preparing, NetLive
  <2>5. ModelInv' /\ CallsRetained' /\ ShutdownFinal'
    BY <1>3, LifecycleAssumption DEF TypeOK, OwnerInv, KindInv, NetInv,
       StartInv, FinalInv, Finishing, ModelInv, CallsRetained, RetainedCalls,
       ReplaceNeverWaits, ShutdownFinal, WorkerInv, StartJoin, Return, Goto,
       Owning, StartSteps, Preparing, NetLive
  <2> QED
    BY <2>1, <2>2, <2>3, <2>4, <2>5
<1>4. ASSUME StartConfig(c) PROVE IInv'
  <2>1. TypeOK'
    <3>1. graceExpired' \in {graceExpired, TRUE, FALSE}
      BY <1>4 DEF StartConfig, Return, Goto, Refused
    <3>2. graceExpired' \in BOOLEAN
      BY <3>1, Zenon DEF TypeOK
    <3> QED
      BY <1>4, <3>2 DEF TypeOK, StartConfig, Return, Goto, Refused, Owning, StartSteps
  <2>2. OwnerInv' /\ KindInv'
    BY <1>4, LifecycleAssumption DEF TypeOK, OwnerInv, KindInv, StartConfig,
       Return, Goto, Refused, Owning, StartSteps, Preparing, NetLive
  <2>3. NetInv' /\ DogInv' /\ WorkerInv'
    BY <1>4, LifecycleAssumption DEF TypeOK, OwnerInv, NetInv, DogInv,
       WorkerInv, StartInv, FinalInv, Finishing, StartConfig, Return, Goto,
       Refused, Owning, StartSteps, Preparing, NetLive
  <2>4. StartInv' /\ IdleInv' /\ FinalInv'
    BY <1>4, LifecycleAssumption DEF TypeOK, OwnerInv, KindInv, NetInv,
       StartInv, IdleInv, FinalInv, DogInv, WorkerInv, Finishing, CallsRetained,
       RetainedCalls, ReplaceNeverWaits, StartConfig, Return, Goto, Refused,
       Owning, StartSteps, Preparing, NetLive
  <2>5. ModelInv' /\ CallsRetained' /\ ShutdownFinal'
    BY <1>4, LifecycleAssumption DEF TypeOK, OwnerInv, KindInv, NetInv,
       StartInv, FinalInv, Finishing, ModelInv, CallsRetained, RetainedCalls,
       ReplaceNeverWaits, ShutdownFinal, WorkerInv, StartConfig, Return, Goto,
       Refused, Owning, StartSteps, Preparing, NetLive
  <2> QED
    BY <2>1, <2>2, <2>3, <2>4, <2>5
<1>5. ASSUME StartModel(c) PROVE IInv'
  <2>1. TypeOK'
    <3>1. model' \in {model, TRUE, FALSE}
      BY <1>5 DEF StartModel, Goto
    <3>2. model' \in BOOLEAN
      BY <3>1, Zenon DEF TypeOK
    <3> QED
      BY <1>5, <3>2 DEF TypeOK, StartModel, Goto, Owning, StartSteps
  <2>2. OwnerInv' /\ KindInv'
    BY <1>5, LifecycleAssumption DEF TypeOK, OwnerInv, KindInv, StartModel,
       Goto, Owning, StartSteps, Preparing, NetLive
  <2>3. NetInv' /\ DogInv' /\ WorkerInv'
    BY <1>5, LifecycleAssumption DEF TypeOK, OwnerInv, NetInv, DogInv,
       WorkerInv, StartInv, FinalInv, Finishing, StartModel, Goto, Owning,
       StartSteps, Preparing, NetLive
  <2>4. StartInv' /\ IdleInv' /\ FinalInv'
    BY <1>5, LifecycleAssumption DEF TypeOK, OwnerInv, KindInv, NetInv,
       StartInv, IdleInv, FinalInv, DogInv, WorkerInv, Finishing, CallsRetained,
       RetainedCalls, ReplaceNeverWaits, StartModel, Goto, Owning, StartSteps,
       Preparing, NetLive
  <2>5. ModelInv' /\ CallsRetained' /\ ShutdownFinal'
    BY <1>5, LifecycleAssumption DEF TypeOK, OwnerInv, KindInv, NetInv,
       StartInv, FinalInv, Finishing, ModelInv, CallsRetained, RetainedCalls,
       ReplaceNeverWaits, ShutdownFinal, WorkerInv, StartModel, Goto, Owning,
       StartSteps, Preparing, NetLive
  <2> QED
    BY <2>1, <2>2, <2>3, <2>4, <2>5
<1>6. ASSUME StartExecutor(c) PROVE IInv'
  <2>1. TypeOK'
    BY <1>6, LifecycleAssumption DEF TypeOK, StartExecutor, Goto, Owning,
       StartSteps
  <2>2. OwnerInv' /\ KindInv'
    BY <1>6, LifecycleAssumption DEF TypeOK, OwnerInv, KindInv, StartExecutor,
       Goto, Owning, StartSteps, Preparing, NetLive
  <2>3. NetInv' /\ DogInv' /\ WorkerInv'
    BY <1>6, LifecycleAssumption DEF TypeOK, OwnerInv, NetInv, DogInv,
       WorkerInv, StartInv, FinalInv, Finishing, StartExecutor, Goto, Owning,
       StartSteps, Preparing, NetLive
  <2>4. StartInv' /\ IdleInv' /\ FinalInv'
    BY <1>6, LifecycleAssumption DEF TypeOK, OwnerInv, KindInv, NetInv,
       StartInv, IdleInv, FinalInv, DogInv, WorkerInv, Finishing, CallsRetained,
       RetainedCalls, ReplaceNeverWaits, StartExecutor, Goto, Owning,
       StartSteps, Preparing, NetLive
  <2>5. ModelInv' /\ CallsRetained' /\ ShutdownFinal'
    BY <1>6, LifecycleAssumption DEF TypeOK, OwnerInv, KindInv, NetInv,
       StartInv, FinalInv, Finishing, ModelInv, CallsRetained, RetainedCalls,
       ReplaceNeverWaits, ShutdownFinal, WorkerInv, StartExecutor, Goto, Owning,
       StartSteps, Preparing, NetLive
  <2> QED
    BY <2>1, <2>2, <2>3, <2>4, <2>5
<1>7. ASSUME StartReplace(c) PROVE IInv'
  <2>1. TypeOK'
    BY <1>7, LifecycleAssumption DEF TypeOK, StartReplace, Goto, Owning,
       StartSteps
  <2>2. OwnerInv' /\ KindInv'
    BY <1>7, LifecycleAssumption DEF TypeOK, OwnerInv, KindInv, StartReplace,
       Goto, Owning, StartSteps, Preparing, NetLive
  <2>3. NetInv' /\ DogInv' /\ WorkerInv'
    BY <1>7, LifecycleAssumption DEF TypeOK, OwnerInv, NetInv, DogInv,
       WorkerInv, StartInv, FinalInv, Finishing, StartReplace, Goto, Owning,
       StartSteps, Preparing, NetLive
  <2>4. StartInv' /\ IdleInv' /\ FinalInv'
    BY <1>7, LifecycleAssumption DEF TypeOK, OwnerInv, KindInv, NetInv,
       StartInv, IdleInv, FinalInv, DogInv, WorkerInv, Finishing, CallsRetained,
       RetainedCalls, ReplaceNeverWaits, StartReplace, Goto, Owning, StartSteps,
       Preparing, NetLive
  <2>5. ModelInv' /\ CallsRetained' /\ ShutdownFinal'
    BY <1>7, LifecycleAssumption DEF TypeOK, OwnerInv, KindInv, NetInv,
       StartInv, FinalInv, Finishing, ModelInv, CallsRetained, RetainedCalls,
       ReplaceNeverWaits, ShutdownFinal, WorkerInv, StartReplace, Goto, Owning,
       StartSteps, Preparing, NetLive
  <2> QED
    BY <2>1, <2>2, <2>3, <2>4, <2>5
<1>8. ASSUME StartLaunch(c) PROVE IInv'
  <2>1. TypeOK'
    <3>1. networkDone' \in {networkDone, TRUE, FALSE}
      BY <1>8 DEF StartLaunch, Return, Goto
    <3>2. networkDone' \in BOOLEAN
      BY <3>1, Zenon DEF TypeOK
    <3> QED
      BY <1>8, <3>2 DEF TypeOK, StartLaunch, Return, Goto, Owning, StartSteps
  <2>2. OwnerInv' /\ KindInv'
    BY <1>8, LifecycleAssumption DEF TypeOK, OwnerInv, KindInv, StartLaunch,
       Return, Goto, Owning, StartSteps, Preparing, NetLive
  <2>3. NetInv' /\ DogInv' /\ WorkerInv'
    BY <1>8, LifecycleAssumption DEF TypeOK, OwnerInv, NetInv, DogInv,
       WorkerInv, StartInv, FinalInv, Finishing, StartLaunch, Return, Goto,
       Owning, StartSteps, Preparing, NetLive
  <2>4. StartInv' /\ IdleInv' /\ FinalInv'
    BY <1>8, LifecycleAssumption DEF TypeOK, OwnerInv, KindInv, NetInv,
       StartInv, IdleInv, FinalInv, DogInv, WorkerInv, Finishing, CallsRetained,
       RetainedCalls, ReplaceNeverWaits, StartLaunch, Return, Goto, Owning,
       StartSteps, Preparing, NetLive
  <2>5. ModelInv' /\ CallsRetained' /\ ShutdownFinal'
    BY <1>8, LifecycleAssumption DEF TypeOK, OwnerInv, KindInv, NetInv,
       StartInv, FinalInv, Finishing, ModelInv, CallsRetained, RetainedCalls,
       ReplaceNeverWaits, ShutdownFinal, WorkerInv, StartLaunch, Return, Goto,
       Owning, StartSteps, Preparing, NetLive
  <2> QED
    BY <2>1, <2>2, <2>3, <2>4, <2>5
<1>9. ASSUME StartSpawn(c) PROVE IInv'
  <2>1. TypeOK'
    BY <1>9, LifecycleAssumption DEF TypeOK, StartSpawn, Goto, Owning,
       StartSteps
  <2>2. OwnerInv' /\ KindInv'
    BY <1>9, LifecycleAssumption DEF TypeOK, OwnerInv, KindInv, StartSpawn,
       Goto, Owning, StartSteps, Preparing, NetLive
  <2>3. NetInv' /\ DogInv' /\ WorkerInv'
    BY <1>9, LifecycleAssumption DEF TypeOK, OwnerInv, NetInv, DogInv,
       WorkerInv, StartInv, FinalInv, Finishing, StartSpawn, Goto, Owning,
       StartSteps, Preparing, NetLive
  <2>4. StartInv' /\ IdleInv' /\ FinalInv'
    BY <1>9, LifecycleAssumption DEF TypeOK, OwnerInv, KindInv, NetInv,
       StartInv, IdleInv, FinalInv, DogInv, WorkerInv, Finishing, CallsRetained,
       RetainedCalls, ReplaceNeverWaits, StartSpawn, Goto, Owning, StartSteps,
       Preparing, NetLive
  <2>5. ModelInv' /\ CallsRetained' /\ ShutdownFinal'
    BY <1>9, LifecycleAssumption DEF TypeOK, OwnerInv, KindInv, NetInv,
       StartInv, FinalInv, Finishing, ModelInv, CallsRetained, RetainedCalls,
       ReplaceNeverWaits, ShutdownFinal, WorkerInv, StartSpawn, Goto, Owning,
       StartSteps, Preparing, NetLive
  <2> QED
    BY <2>1, <2>2, <2>3, <2>4, <2>5
<1>10. ASSUME StartAwait(c) PROVE IInv'
  <2>1. TypeOK'
    BY <1>10, LifecycleAssumption DEF TypeOK, StartAwait, Return, Goto, Owning,
       StartSteps
  <2>2. OwnerInv' /\ KindInv'
    BY <1>10, LifecycleAssumption DEF TypeOK, OwnerInv, KindInv, StartAwait,
       Return, Goto, Owning, StartSteps, Preparing, NetLive
  <2>3. NetInv' /\ DogInv' /\ WorkerInv'
    BY <1>10, LifecycleAssumption DEF TypeOK, OwnerInv, NetInv, DogInv,
       WorkerInv, StartInv, FinalInv, Finishing, StartAwait, Return, Goto,
       Owning, StartSteps, Preparing, NetLive
  <2>4. StartInv' /\ IdleInv' /\ FinalInv'
    BY <1>10, LifecycleAssumption DEF TypeOK, OwnerInv, KindInv, NetInv,
       StartInv, IdleInv, FinalInv, DogInv, WorkerInv, Finishing, CallsRetained,
       RetainedCalls, ReplaceNeverWaits, StartAwait, Return, Goto, Owning,
       StartSteps, Preparing, NetLive
  <2>5. ModelInv' /\ CallsRetained' /\ ShutdownFinal'
    BY <1>10, LifecycleAssumption DEF TypeOK, OwnerInv, KindInv, NetInv,
       StartInv, FinalInv, Finishing, ModelInv, CallsRetained, RetainedCalls,
       ReplaceNeverWaits, ShutdownFinal, WorkerInv, StartAwait, Return, Goto,
       Owning, StartSteps, Preparing, NetLive
  <2> QED
    BY <2>1, <2>2, <2>3, <2>4, <2>5
<1>11. ASSUME StartCatch(c) PROVE IInv'
  <2>1. TypeOK'
    BY <1>11, LifecycleAssumption DEF TypeOK, StartCatch, Return, Goto, Owning,
       StartSteps
  <2>2. OwnerInv' /\ KindInv'
    BY <1>11, LifecycleAssumption DEF TypeOK, OwnerInv, KindInv, StartCatch,
       Return, Goto, Owning, StartSteps, Preparing, NetLive
  <2>3. NetInv' /\ DogInv' /\ WorkerInv'
    BY <1>11, LifecycleAssumption DEF TypeOK, OwnerInv, NetInv, DogInv,
       WorkerInv, StartInv, FinalInv, Finishing, StartCatch, Return, Goto,
       Owning, StartSteps, Preparing, NetLive
  <2>4. StartInv' /\ IdleInv' /\ FinalInv'
    BY <1>11, LifecycleAssumption DEF TypeOK, OwnerInv, KindInv, NetInv,
       StartInv, IdleInv, FinalInv, DogInv, WorkerInv, Finishing, CallsRetained,
       RetainedCalls, ReplaceNeverWaits, StartCatch, Return, Goto, Owning,
       StartSteps, Preparing, NetLive
  <2>5. ModelInv' /\ CallsRetained' /\ ShutdownFinal'
    BY <1>11, LifecycleAssumption DEF TypeOK, OwnerInv, KindInv, NetInv,
       StartInv, FinalInv, Finishing, ModelInv, CallsRetained, RetainedCalls,
       ReplaceNeverWaits, ShutdownFinal, WorkerInv, StartCatch, Return, Goto,
       Owning, StartSteps, Preparing, NetLive
  <2> QED
    BY <2>1, <2>2, <2>3, <2>4, <2>5
<1> QED
  BY <1>1, <1>2, <1>3, <1>4, <1>5, <1>6, <1>7, <1>8, <1>9, <1>10, <1>11 DEF Start

(* A step of stop() and of finishShutdown() keeps it.                      *)
LEMMA StopKeeps ==
  ASSUME IInv, NEW c \in Calls, StopRequest(c) \/ Stop(c) \/ FinishBegin(c) \/ Finish(c)
  PROVE  IInv'
<1> USE DEF IInv, implVars, objVars, netVars, apiVars
<1>1. ASSUME StopRequest(c) PROVE IInv'
  <2>1. TypeOK'
    <3>1. state' \in {"stopped", "stopping"} /\ accepting' \in BOOLEAN
      BY <1>1, StopTypes DEF StopRequest
    <3> QED
      BY <1>1, <3>1 DEF TypeOK, StopRequest, Goto, Owning, StartSteps
  <2>2. OwnerInv' /\ KindInv'
    BY <1>1, LifecycleAssumption DEF TypeOK, OwnerInv, KindInv, StopRequest,
       Goto, RequestStopLocked, Owning, StartSteps, Preparing, NetLive
  <2>3. NetInv' /\ DogInv' /\ WorkerInv'
    BY <1>1, LifecycleAssumption DEF TypeOK, OwnerInv, NetInv, DogInv,
       WorkerInv, StartInv, FinalInv, Finishing, StopRequest, Goto,
       RequestStopLocked, Owning, StartSteps, Preparing, NetLive
  <2>4. StartInv' /\ IdleInv' /\ FinalInv'
    BY <1>1, LifecycleAssumption DEF TypeOK, OwnerInv, KindInv, NetInv,
       StartInv, IdleInv, FinalInv, DogInv, WorkerInv, Finishing, CallsRetained,
       RetainedCalls, ReplaceNeverWaits, StopRequest, Goto, RequestStopLocked,
       Owning, StartSteps, Preparing, NetLive
  <2>5. ModelInv' /\ CallsRetained' /\ ShutdownFinal'
    BY <1>1, LifecycleAssumption DEF TypeOK, OwnerInv, KindInv, NetInv,
       StartInv, FinalInv, Finishing, ModelInv, CallsRetained, RetainedCalls,
       ReplaceNeverWaits, ShutdownFinal, WorkerInv, StopRequest, Goto,
       RequestStopLocked, Owning, StartSteps, Preparing, NetLive
  <2> QED
    BY <2>1, <2>2, <2>3, <2>4, <2>5
<1>2. ASSUME StopLock(c) PROVE IInv'
  <2>1. TypeOK'
    <3>1. state' \in {"stopped", "stopping"} /\ accepting' \in BOOLEAN
      BY <1>2, StopTypes DEF StopLock
    <3> QED
      BY <1>2, <3>1 DEF TypeOK, StopLock, Lock, Goto, Owning, StartSteps
  <2>2. OwnerInv' /\ KindInv'
    BY <1>2, LifecycleAssumption DEF TypeOK, OwnerInv, KindInv, StopLock, Lock,
       Goto, RequestStopLocked, Owning, StartSteps, Preparing, NetLive
  <2>3. NetInv' /\ DogInv' /\ WorkerInv'
    BY <1>2, LifecycleAssumption DEF TypeOK, OwnerInv, NetInv, DogInv,
       WorkerInv, StartInv, FinalInv, Finishing, StopLock, Lock, Goto,
       RequestStopLocked, Owning, StartSteps, Preparing, NetLive
  <2>4. StartInv' /\ IdleInv' /\ FinalInv'
    BY <1>2, LifecycleAssumption DEF TypeOK, OwnerInv, KindInv, NetInv,
       StartInv, IdleInv, FinalInv, DogInv, WorkerInv, Finishing, CallsRetained,
       RetainedCalls, ReplaceNeverWaits, StopLock, Lock, Goto,
       RequestStopLocked, Owning, StartSteps, Preparing, NetLive
  <2>5. ModelInv' /\ CallsRetained' /\ ShutdownFinal'
    BY <1>2, LifecycleAssumption DEF TypeOK, OwnerInv, KindInv, NetInv,
       StartInv, FinalInv, Finishing, ModelInv, CallsRetained, RetainedCalls,
       ReplaceNeverWaits, ShutdownFinal, WorkerInv, StopLock, Lock, Goto,
       RequestStopLocked, Owning, StartSteps, Preparing, NetLive
  <2> QED
    BY <2>1, <2>2, <2>3, <2>4, <2>5
<1>3. ASSUME StopJoin(c) PROVE IInv'
  <2>1. TypeOK'
    BY <1>3, LifecycleAssumption DEF TypeOK, StopJoin, Goto, Owning, StartSteps
  <2>2. OwnerInv' /\ KindInv'
    BY <1>3, LifecycleAssumption DEF TypeOK, OwnerInv, KindInv, StopJoin, Goto,
       Owning, StartSteps, Preparing, NetLive
  <2>3. NetInv' /\ DogInv' /\ WorkerInv'
    BY <1>3, LifecycleAssumption DEF TypeOK, OwnerInv, NetInv, DogInv,
       WorkerInv, StartInv, FinalInv, Finishing, StopJoin, Goto, Owning,
       StartSteps, Preparing, NetLive
  <2>4. StartInv' /\ IdleInv' /\ FinalInv'
    BY <1>3, LifecycleAssumption DEF TypeOK, OwnerInv, KindInv, NetInv,
       StartInv, IdleInv, FinalInv, DogInv, WorkerInv, Finishing, CallsRetained,
       RetainedCalls, ReplaceNeverWaits, StopJoin, Goto, Owning, StartSteps,
       Preparing, NetLive
  <2>5. ModelInv' /\ CallsRetained' /\ ShutdownFinal'
    BY <1>3, LifecycleAssumption DEF TypeOK, OwnerInv, KindInv, NetInv,
       StartInv, FinalInv, Finishing, ModelInv, CallsRetained, RetainedCalls,
       ReplaceNeverWaits, ShutdownFinal, WorkerInv, StopJoin, Goto, Owning,
       StartSteps, Preparing, NetLive
  <2> QED
    BY <2>1, <2>2, <2>3, <2>4, <2>5
<1>4. ASSUME FinishBegin(c) PROVE IInv'
  <2>1. TypeOK'
    <3>1. finalShutdown' \in {finalShutdown, TRUE, FALSE}
      BY <1>4 DEF FinishBegin, Goto
    <3>2. finalShutdown' \in BOOLEAN
      BY <3>1, Zenon DEF TypeOK
    <3>3. state' \in {"stopped", "stopping"} /\ accepting' \in BOOLEAN
      BY <1>4, StopTypes DEF FinishBegin
    <3> QED
      BY <1>4, <3>2, <3>3 DEF TypeOK, FinishBegin, Goto, Owning, StartSteps
  <2>2. OwnerInv' /\ KindInv'
    BY <1>4, LifecycleAssumption DEF TypeOK, OwnerInv, KindInv, FinishBegin,
       Goto, RequestStopLocked, Owning, StartSteps, Preparing, NetLive
  <2>3. NetInv' /\ DogInv' /\ WorkerInv'
    BY <1>4, LifecycleAssumption DEF TypeOK, OwnerInv, NetInv, DogInv,
       WorkerInv, StartInv, FinalInv, Finishing, FinishBegin, Goto,
       RequestStopLocked, Owning, StartSteps, Preparing, NetLive
  <2>4. StartInv' /\ IdleInv' /\ FinalInv'
    BY <1>4, LifecycleAssumption DEF TypeOK, OwnerInv, KindInv, NetInv,
       StartInv, IdleInv, FinalInv, DogInv, WorkerInv, Finishing, CallsRetained,
       RetainedCalls, ReplaceNeverWaits, FinishBegin, Goto, RequestStopLocked,
       Owning, StartSteps, Preparing, NetLive
  <2>5. ModelInv' /\ CallsRetained' /\ ShutdownFinal'
    BY <1>4, LifecycleAssumption DEF TypeOK, OwnerInv, KindInv, NetInv,
       StartInv, FinalInv, Finishing, ModelInv, CallsRetained, RetainedCalls,
       ReplaceNeverWaits, ShutdownFinal, WorkerInv, FinishBegin, Goto,
       RequestStopLocked, Owning, StartSteps, Preparing, NetLive
  <2> QED
    BY <2>1, <2>2, <2>3, <2>4, <2>5
<1>5. ASSUME FinishStop(c) PROVE IInv'
  <2>1. TypeOK'
    <3>1. state' \in {"stopped", "stopping"} /\ accepting' \in BOOLEAN
      BY <1>5, StopTypes DEF FinishStop
    <3> QED
      BY <1>5, <3>1 DEF TypeOK, FinishStop, Goto, Owning, StartSteps
  <2>2. OwnerInv' /\ KindInv'
    BY <1>5, LifecycleAssumption DEF TypeOK, OwnerInv, KindInv, FinishStop,
       Goto, RequestStopLocked, Owning, StartSteps, Preparing, NetLive
  <2>3. NetInv' /\ DogInv' /\ WorkerInv'
    BY <1>5, LifecycleAssumption DEF TypeOK, OwnerInv, NetInv, DogInv,
       WorkerInv, StartInv, FinalInv, Finishing, FinishStop, Goto,
       RequestStopLocked, Owning, StartSteps, Preparing, NetLive
  <2>4. StartInv' /\ IdleInv' /\ FinalInv'
    BY <1>5, LifecycleAssumption DEF TypeOK, OwnerInv, KindInv, NetInv,
       StartInv, IdleInv, FinalInv, DogInv, WorkerInv, Finishing, CallsRetained,
       RetainedCalls, ReplaceNeverWaits, FinishStop, Goto, RequestStopLocked,
       Owning, StartSteps, Preparing, NetLive
  <2>5. ModelInv' /\ CallsRetained' /\ ShutdownFinal'
    BY <1>5, LifecycleAssumption DEF TypeOK, OwnerInv, KindInv, NetInv,
       StartInv, FinalInv, Finishing, ModelInv, CallsRetained, RetainedCalls,
       ReplaceNeverWaits, ShutdownFinal, WorkerInv, FinishStop, Goto,
       RequestStopLocked, Owning, StartSteps, Preparing, NetLive
  <2> QED
    BY <2>1, <2>2, <2>3, <2>4, <2>5
<1>6. ASSUME FinishLock(c) PROVE IInv'
  <2>1. TypeOK'
    BY <1>6, LifecycleAssumption DEF TypeOK, FinishLock, Lock, Goto, Owning,
       StartSteps
  <2>2. OwnerInv' /\ KindInv'
    BY <1>6, LifecycleAssumption DEF TypeOK, OwnerInv, KindInv, FinishLock,
       Lock, Goto, Owning, StartSteps, Preparing, NetLive
  <2>3. NetInv' /\ DogInv' /\ WorkerInv'
    BY <1>6, LifecycleAssumption DEF TypeOK, OwnerInv, NetInv, DogInv,
       WorkerInv, StartInv, FinalInv, Finishing, FinishLock, Lock, Goto, Owning,
       StartSteps, Preparing, NetLive
  <2>4. StartInv' /\ IdleInv' /\ FinalInv'
    BY <1>6, LifecycleAssumption DEF TypeOK, OwnerInv, KindInv, NetInv,
       StartInv, IdleInv, FinalInv, DogInv, WorkerInv, Finishing, CallsRetained,
       RetainedCalls, ReplaceNeverWaits, FinishLock, Lock, Goto, Owning,
       StartSteps, Preparing, NetLive
  <2>5. ModelInv' /\ CallsRetained' /\ ShutdownFinal'
    BY <1>6, LifecycleAssumption DEF TypeOK, OwnerInv, KindInv, NetInv,
       StartInv, FinalInv, Finishing, ModelInv, CallsRetained, RetainedCalls,
       ReplaceNeverWaits, ShutdownFinal, WorkerInv, FinishLock, Lock, Goto,
       Owning, StartSteps, Preparing, NetLive
  <2> QED
    BY <2>1, <2>2, <2>3, <2>4, <2>5
<1>7. ASSUME FinishDrain(c) PROVE IInv'
  <2>1. TypeOK'
    <3>1. model' \in {model, TRUE, FALSE}
      BY <1>7 DEF FinishDrain, Return, Goto
    <3>2. model' \in BOOLEAN
      BY <3>1, Zenon DEF TypeOK
    <3>3. published' \in {published, TRUE, FALSE}
      BY <1>7 DEF FinishDrain, Return, Goto
    <3>4. published' \in BOOLEAN
      BY <3>3, Zenon DEF TypeOK
    <3> QED
      BY <1>7, <3>2, <3>4 DEF TypeOK, FinishDrain, Return, Goto, Owning, StartSteps
  <2>2. OwnerInv' /\ KindInv'
    BY <1>7, LifecycleAssumption DEF TypeOK, OwnerInv, KindInv, FinishDrain,
       Return, Goto, Owning, StartSteps, Preparing, NetLive
  <2>3. NetInv' /\ DogInv' /\ WorkerInv'
    BY <1>7, LifecycleAssumption DEF TypeOK, OwnerInv, NetInv, DogInv,
       WorkerInv, StartInv, FinalInv, Finishing, FinishDrain, Return, Goto,
       Owning, StartSteps, Preparing, NetLive
  <2>4. StartInv' /\ IdleInv' /\ FinalInv'
    BY <1>7, LifecycleAssumption DEF TypeOK, OwnerInv, KindInv, NetInv,
       StartInv, IdleInv, FinalInv, DogInv, WorkerInv, Finishing, CallsRetained,
       RetainedCalls, ReplaceNeverWaits, FinishDrain, Return, Goto, Owning,
       StartSteps, Preparing, NetLive
  <2>5. ModelInv' /\ CallsRetained' /\ ShutdownFinal'
    BY <1>7, LifecycleAssumption DEF TypeOK, OwnerInv, KindInv, NetInv,
       StartInv, FinalInv, Finishing, ModelInv, CallsRetained, RetainedCalls,
       ReplaceNeverWaits, ShutdownFinal, WorkerInv, FinishDrain, Return, Goto,
       Owning, StartSteps, Preparing, NetLive
  <2> QED
    BY <2>1, <2>2, <2>3, <2>4, <2>5
<1> QED
  BY <1>1, <1>2, <1>3, <1>4, <1>5, <1>6, <1>7 DEF Stop, Finish

(* A step of publishComponent() keeps it.                                  *)
LEMMA PublishKeeps ==
  ASSUME IInv, NEW c \in Calls, PublishLock(c) \/ Publish(c)
  PROVE  IInv'
<1> USE DEF IInv, implVars, objVars, netVars, apiVars
<1>1. ASSUME PublishLock(c) PROVE IInv'
  <2>1. TypeOK'
    BY <1>1, LifecycleAssumption DEF TypeOK, PublishLock, Lock, Goto, Owning,
       StartSteps
  <2>2. OwnerInv' /\ KindInv'
    BY <1>1, LifecycleAssumption DEF TypeOK, OwnerInv, KindInv, PublishLock,
       Lock, Goto, Owning, StartSteps, Preparing, NetLive
  <2>3. NetInv' /\ DogInv' /\ WorkerInv'
    BY <1>1, LifecycleAssumption DEF TypeOK, OwnerInv, NetInv, DogInv,
       WorkerInv, StartInv, FinalInv, Finishing, PublishLock, Lock, Goto,
       Owning, StartSteps, Preparing, NetLive
  <2>4. StartInv' /\ IdleInv' /\ FinalInv'
    BY <1>1, LifecycleAssumption DEF TypeOK, OwnerInv, KindInv, NetInv,
       StartInv, IdleInv, FinalInv, DogInv, WorkerInv, Finishing, CallsRetained,
       RetainedCalls, ReplaceNeverWaits, PublishLock, Lock, Goto, Owning,
       StartSteps, Preparing, NetLive
  <2>5. ModelInv' /\ CallsRetained' /\ ShutdownFinal'
    BY <1>1, LifecycleAssumption DEF TypeOK, OwnerInv, KindInv, NetInv,
       StartInv, FinalInv, Finishing, ModelInv, CallsRetained, RetainedCalls,
       ReplaceNeverWaits, ShutdownFinal, WorkerInv, PublishLock, Lock, Goto,
       Owning, StartSteps, Preparing, NetLive
  <2> QED
    BY <2>1, <2>2, <2>3, <2>4, <2>5
<1>2. ASSUME PublishCheck(c) PROVE IInv'
  <2>1. TypeOK'
    BY <1>2, LifecycleAssumption DEF TypeOK, PublishCheck, Return, Goto, Owning,
       StartSteps
  <2>2. OwnerInv' /\ KindInv'
    BY <1>2, LifecycleAssumption DEF TypeOK, OwnerInv, KindInv, PublishCheck,
       Return, Goto, Owning, StartSteps, Preparing, NetLive
  <2>3. NetInv' /\ DogInv' /\ WorkerInv'
    BY <1>2, LifecycleAssumption DEF TypeOK, OwnerInv, NetInv, DogInv,
       WorkerInv, StartInv, FinalInv, Finishing, PublishCheck, Return, Goto,
       Owning, StartSteps, Preparing, NetLive
  <2>4. StartInv' /\ IdleInv' /\ FinalInv'
    BY <1>2, LifecycleAssumption DEF TypeOK, OwnerInv, KindInv, NetInv,
       StartInv, IdleInv, FinalInv, DogInv, WorkerInv, Finishing, CallsRetained,
       RetainedCalls, ReplaceNeverWaits, PublishCheck, Return, Goto, Owning,
       StartSteps, Preparing, NetLive
  <2>5. ModelInv' /\ CallsRetained' /\ ShutdownFinal'
    BY <1>2, LifecycleAssumption DEF TypeOK, OwnerInv, KindInv, NetInv,
       StartInv, FinalInv, Finishing, ModelInv, CallsRetained, RetainedCalls,
       ReplaceNeverWaits, ShutdownFinal, WorkerInv, PublishCheck, Return, Goto,
       Owning, StartSteps, Preparing, NetLive
  <2> QED
    BY <2>1, <2>2, <2>3, <2>4, <2>5
<1>3. ASSUME PublishStage(c) PROVE IInv'
  <2>1. TypeOK'
    BY <1>3, LifecycleAssumption DEF TypeOK, PublishStage, Return, Goto, Owning,
       StartSteps
  <2>2. OwnerInv' /\ KindInv'
    BY <1>3, LifecycleAssumption DEF TypeOK, OwnerInv, KindInv, PublishStage,
       Return, Goto, Owning, StartSteps, Preparing, NetLive
  <2>3. NetInv' /\ DogInv' /\ WorkerInv'
    BY <1>3, LifecycleAssumption DEF TypeOK, OwnerInv, NetInv, DogInv,
       WorkerInv, StartInv, FinalInv, Finishing, PublishStage, Return, Goto,
       Owning, StartSteps, Preparing, NetLive
  <2>4. StartInv' /\ IdleInv' /\ FinalInv'
    BY <1>3, LifecycleAssumption DEF TypeOK, OwnerInv, KindInv, NetInv,
       StartInv, IdleInv, FinalInv, DogInv, WorkerInv, Finishing, CallsRetained,
       RetainedCalls, ReplaceNeverWaits, PublishStage, Return, Goto, Owning,
       StartSteps, Preparing, NetLive
  <2>5. ModelInv' /\ CallsRetained' /\ ShutdownFinal'
    BY <1>3, LifecycleAssumption DEF TypeOK, OwnerInv, KindInv, NetInv,
       StartInv, FinalInv, Finishing, ModelInv, CallsRetained, RetainedCalls,
       ReplaceNeverWaits, ShutdownFinal, WorkerInv, PublishStage, Return, Goto,
       Owning, StartSteps, Preparing, NetLive
  <2> QED
    BY <2>1, <2>2, <2>3, <2>4, <2>5
<1>4. ASSUME PublishCommit(c) PROVE IInv'
  <2>1. TypeOK'
    <3>1. published' \in {published, TRUE, FALSE}
      BY <1>4 DEF PublishCommit, Return, Goto
    <3>2. published' \in BOOLEAN
      BY <3>1, Zenon DEF TypeOK
    <3> QED
      BY <1>4, <3>2 DEF TypeOK, PublishCommit, Return, Goto, Owning, StartSteps
  <2>2. OwnerInv' /\ KindInv'
    BY <1>4, LifecycleAssumption DEF TypeOK, OwnerInv, KindInv, PublishCommit,
       Return, Goto, Owning, StartSteps, Preparing, NetLive
  <2>3. NetInv' /\ DogInv' /\ WorkerInv'
    BY <1>4, LifecycleAssumption DEF TypeOK, OwnerInv, NetInv, DogInv,
       WorkerInv, StartInv, FinalInv, Finishing, PublishCommit, Return, Goto,
       Owning, StartSteps, Preparing, NetLive
  <2>4. StartInv' /\ IdleInv' /\ FinalInv'
    BY <1>4, LifecycleAssumption DEF TypeOK, OwnerInv, KindInv, NetInv,
       StartInv, IdleInv, FinalInv, DogInv, WorkerInv, Finishing, CallsRetained,
       RetainedCalls, ReplaceNeverWaits, PublishCommit, Return, Goto, Owning,
       StartSteps, Preparing, NetLive
  <2>5. ModelInv' /\ CallsRetained' /\ ShutdownFinal'
    BY <1>4, LifecycleAssumption, ZenonT(40) DEF TypeOK, OwnerInv, KindInv, NetInv,
       StartInv, FinalInv, Finishing, ModelInv, CallsRetained, RetainedCalls,
       ReplaceNeverWaits, ShutdownFinal, WorkerInv, PublishCommit, Return, Goto,
       Owning, StartSteps, Preparing, NetLive
  <2> QED
    BY <2>1, <2>2, <2>3, <2>4, <2>5
<1> QED
  BY <1>1, <1>2, <1>3, <1>4 DEF Publish

(* A step of run() keeps it.                                               *)
LEMMA NetworkKeeps ==
  ASSUME IInv, Network \/ NetError
  PROVE  IInv'
<1> USE DEF IInv, implVars, objVars, netVars, apiVars
<1>1. ASSUME NetSetup PROVE IInv'
  <2>1. TypeOK'
    BY <1>1, LifecycleAssumption DEF TypeOK, NetSetup, Owning, StartSteps
  <2>2. OwnerInv' /\ KindInv'
    BY <1>1, LifecycleAssumption DEF TypeOK, OwnerInv, KindInv, NetSetup,
       Owning, StartSteps, Preparing, NetLive
  <2>3. NetInv' /\ DogInv' /\ WorkerInv'
    BY <1>1, LifecycleAssumption DEF TypeOK, OwnerInv, NetInv, DogInv,
       WorkerInv, StartInv, FinalInv, Finishing, NetSetup, Owning, StartSteps,
       Preparing, NetLive
  <2>4. StartInv' /\ IdleInv' /\ FinalInv'
    BY <1>1, LifecycleAssumption DEF TypeOK, OwnerInv, KindInv, NetInv,
       StartInv, IdleInv, FinalInv, DogInv, WorkerInv, Finishing, CallsRetained,
       RetainedCalls, ReplaceNeverWaits, NetSetup, Owning, StartSteps,
       Preparing, NetLive
  <2>5. ModelInv' /\ CallsRetained' /\ ShutdownFinal'
    BY <1>1, LifecycleAssumption DEF TypeOK, OwnerInv, KindInv, NetInv,
       StartInv, FinalInv, Finishing, ModelInv, CallsRetained, RetainedCalls,
       ReplaceNeverWaits, ShutdownFinal, WorkerInv, NetSetup, Owning,
       StartSteps, Preparing, NetLive
  <2> QED
    BY <2>1, <2>2, <2>3, <2>4, <2>5
<1>2. ASSUME NetPublish PROVE IInv'
  <2>1. TypeOK'
    BY <1>2, LifecycleAssumption DEF TypeOK, NetPublish, Owning, StartSteps
  <2>2. OwnerInv' /\ KindInv'
    BY <1>2, LifecycleAssumption DEF TypeOK, OwnerInv, KindInv, NetPublish,
       Owning, StartSteps, Preparing, NetLive
  <2>3. NetInv' /\ DogInv' /\ WorkerInv'
    BY <1>2, LifecycleAssumption DEF TypeOK, OwnerInv, NetInv, DogInv,
       WorkerInv, StartInv, FinalInv, Finishing, NetPublish, Owning, StartSteps,
       Preparing, NetLive
  <2>4. StartInv' /\ IdleInv' /\ FinalInv'
    BY <1>2, LifecycleAssumption DEF TypeOK, OwnerInv, KindInv, NetInv,
       StartInv, IdleInv, FinalInv, DogInv, WorkerInv, Finishing, CallsRetained,
       RetainedCalls, ReplaceNeverWaits, NetPublish, Owning, StartSteps,
       Preparing, NetLive
  <2>5. ModelInv' /\ CallsRetained' /\ ShutdownFinal'
    BY <1>2, LifecycleAssumption DEF TypeOK, OwnerInv, KindInv, NetInv,
       StartInv, FinalInv, Finishing, ModelInv, CallsRetained, RetainedCalls,
       ReplaceNeverWaits, ShutdownFinal, WorkerInv, NetPublish, Owning,
       StartSteps, Preparing, NetLive
  <2> QED
    BY <2>1, <2>2, <2>3, <2>4, <2>5
<1>3. ASSUME NetWatch PROVE IInv'
  <2>1. TypeOK'
    <3>1. accepting' \in {accepting, TRUE, FALSE}
      BY <1>3 DEF NetWatch
    <3>2. accepting' \in BOOLEAN
      BY <3>1, Zenon DEF TypeOK
    <3> QED
      BY <1>3, <3>2 DEF TypeOK, NetWatch, Owning, StartSteps
  <2>2. OwnerInv' /\ KindInv'
    BY <1>3, LifecycleAssumption DEF TypeOK, OwnerInv, KindInv, NetWatch,
       Owning, StartSteps, Preparing, NetLive
  <2>3. NetInv' /\ DogInv' /\ WorkerInv'
    BY <1>3, LifecycleAssumption DEF TypeOK, OwnerInv, NetInv, DogInv,
       WorkerInv, StartInv, FinalInv, Finishing, NetWatch, Owning, StartSteps,
       Preparing, NetLive
  <2>4. StartInv' /\ IdleInv' /\ FinalInv'
    BY <1>3, LifecycleAssumption DEF TypeOK, OwnerInv, KindInv, NetInv,
       StartInv, IdleInv, FinalInv, DogInv, WorkerInv, Finishing, CallsRetained,
       RetainedCalls, ReplaceNeverWaits, NetWatch, Owning, StartSteps,
       Preparing, NetLive
  <2>5. ModelInv' /\ CallsRetained' /\ ShutdownFinal'
    BY <1>3, LifecycleAssumption DEF TypeOK, OwnerInv, KindInv, NetInv,
       StartInv, FinalInv, Finishing, ModelInv, CallsRetained, RetainedCalls,
       ReplaceNeverWaits, ShutdownFinal, WorkerInv, NetWatch, Owning,
       StartSteps, Preparing, NetLive
  <2> QED
    BY <2>1, <2>2, <2>3, <2>4, <2>5
<1>4. ASSUME NetOnStart PROVE IInv'
  <2>1. TypeOK'
    <3>1. accepting' \in {accepting, TRUE, FALSE}
      BY <1>4 DEF NetOnStart
    <3>2. accepting' \in BOOLEAN
      BY <3>1, Zenon DEF TypeOK
    <3> QED
      BY <1>4, <3>2 DEF TypeOK, NetOnStart, Owning, StartSteps
  <2>2. OwnerInv' /\ KindInv'
    BY <1>4, LifecycleAssumption DEF TypeOK, OwnerInv, KindInv, NetOnStart,
       Owning, StartSteps, Preparing, NetLive
  <2>3. NetInv' /\ DogInv' /\ WorkerInv'
    BY <1>4, LifecycleAssumption DEF TypeOK, OwnerInv, NetInv, DogInv,
       WorkerInv, StartInv, FinalInv, Finishing, NetOnStart, Owning, StartSteps,
       Preparing, NetLive
  <2>4. StartInv' /\ IdleInv' /\ FinalInv'
    BY <1>4, LifecycleAssumption DEF TypeOK, OwnerInv, KindInv, NetInv,
       StartInv, IdleInv, FinalInv, DogInv, WorkerInv, Finishing, CallsRetained,
       RetainedCalls, ReplaceNeverWaits, NetOnStart, Owning, StartSteps,
       Preparing, NetLive
  <2>5. ModelInv' /\ CallsRetained' /\ ShutdownFinal'
    BY <1>4, LifecycleAssumption DEF TypeOK, OwnerInv, KindInv, NetInv,
       StartInv, FinalInv, Finishing, ModelInv, CallsRetained, RetainedCalls,
       ReplaceNeverWaits, ShutdownFinal, WorkerInv, NetOnStart, Owning,
       StartSteps, Preparing, NetLive
  <2> QED
    BY <2>1, <2>2, <2>3, <2>4, <2>5
<1>5. ASSUME NetStopped PROVE IInv'
  <2>1. TypeOK'
    BY <1>5, LifecycleAssumption DEF TypeOK, NetStopped, Owning, StartSteps
  <2>2. OwnerInv' /\ KindInv'
    BY <1>5, LifecycleAssumption DEF TypeOK, OwnerInv, KindInv, NetStopped,
       Owning, StartSteps, Preparing, NetLive
  <2>3. NetInv' /\ DogInv' /\ WorkerInv'
    BY <1>5, LifecycleAssumption DEF TypeOK, OwnerInv, NetInv, DogInv,
       WorkerInv, StartInv, FinalInv, Finishing, NetStopped, Owning, StartSteps,
       Preparing, NetLive
  <2>4. StartInv' /\ IdleInv' /\ FinalInv'
    BY <1>5, LifecycleAssumption DEF TypeOK, OwnerInv, KindInv, NetInv,
       StartInv, IdleInv, FinalInv, DogInv, WorkerInv, Finishing, CallsRetained,
       RetainedCalls, ReplaceNeverWaits, NetStopped, Owning, StartSteps,
       Preparing, NetLive
  <2>5. ModelInv' /\ CallsRetained' /\ ShutdownFinal'
    BY <1>5, LifecycleAssumption DEF TypeOK, OwnerInv, KindInv, NetInv,
       StartInv, FinalInv, Finishing, ModelInv, CallsRetained, RetainedCalls,
       ReplaceNeverWaits, ShutdownFinal, WorkerInv, NetStopped, Owning,
       StartSteps, Preparing, NetLive
  <2> QED
    BY <2>1, <2>2, <2>3, <2>4, <2>5
<1>6. ASSUME NetError PROVE IInv'
  <2>1. TypeOK'
    BY <1>6, LifecycleAssumption DEF TypeOK, NetError, Owning, StartSteps
  <2>2. OwnerInv' /\ KindInv'
    BY <1>6, LifecycleAssumption DEF TypeOK, OwnerInv, KindInv, NetError,
       Owning, StartSteps, Preparing, NetLive
  <2>3. NetInv' /\ DogInv' /\ WorkerInv'
    BY <1>6, LifecycleAssumption DEF TypeOK, OwnerInv, NetInv, DogInv,
       WorkerInv, StartInv, FinalInv, Finishing, NetError, Owning, StartSteps,
       Preparing, NetLive
  <2>4. StartInv' /\ IdleInv' /\ FinalInv'
    BY <1>6, LifecycleAssumption DEF TypeOK, OwnerInv, KindInv, NetInv,
       StartInv, IdleInv, FinalInv, DogInv, WorkerInv, Finishing, CallsRetained,
       RetainedCalls, ReplaceNeverWaits, NetError, Owning, StartSteps,
       Preparing, NetLive
  <2>5. ModelInv' /\ CallsRetained' /\ ShutdownFinal'
    BY <1>6, LifecycleAssumption DEF TypeOK, OwnerInv, KindInv, NetInv,
       StartInv, FinalInv, Finishing, ModelInv, CallsRetained, RetainedCalls,
       ReplaceNeverWaits, ShutdownFinal, WorkerInv, NetError, Owning,
       StartSteps, Preparing, NetLive
  <2> QED
    BY <2>1, <2>2, <2>3, <2>4, <2>5
<1>7. ASSUME NetPoolClose PROVE IInv'
  <2>1. TypeOK'
    <3>1. state' \in {"stopped", "stopping"} /\ accepting' \in BOOLEAN
      BY <1>7, StopTypes DEF NetPoolClose
    <3> QED
      BY <1>7, <3>1 DEF TypeOK, NetPoolClose, Owning, StartSteps
  <2>2. OwnerInv' /\ KindInv'
    BY <1>7, LifecycleAssumption DEF TypeOK, OwnerInv, KindInv, NetPoolClose,
       RequestStopLocked, Owning, StartSteps, Preparing, NetLive
  <2>3. NetInv' /\ DogInv' /\ WorkerInv'
    BY <1>7, LifecycleAssumption DEF TypeOK, OwnerInv, NetInv, DogInv,
       WorkerInv, StartInv, FinalInv, Finishing, NetPoolClose,
       RequestStopLocked, Owning, StartSteps, Preparing, NetLive
  <2>4. StartInv' /\ IdleInv' /\ FinalInv'
    BY <1>7, LifecycleAssumption DEF TypeOK, OwnerInv, KindInv, NetInv,
       StartInv, IdleInv, FinalInv, DogInv, WorkerInv, Finishing, CallsRetained,
       RetainedCalls, ReplaceNeverWaits, NetPoolClose, RequestStopLocked,
       Owning, StartSteps, Preparing, NetLive
  <2>5. ModelInv' /\ CallsRetained' /\ ShutdownFinal'
    BY <1>7, LifecycleAssumption DEF TypeOK, OwnerInv, KindInv, NetInv,
       StartInv, FinalInv, Finishing, ModelInv, CallsRetained, RetainedCalls,
       ReplaceNeverWaits, ShutdownFinal, WorkerInv, NetPoolClose,
       RequestStopLocked, Owning, StartSteps, Preparing, NetLive
  <2> QED
    BY <2>1, <2>2, <2>3, <2>4, <2>5
<1>8. ASSUME NetPoolJoin PROVE IInv'
  <2>1. TypeOK'
    BY <1>8, LifecycleAssumption DEF TypeOK, NetPoolJoin, Owning, StartSteps
  <2>2. OwnerInv' /\ KindInv'
    BY <1>8, LifecycleAssumption DEF TypeOK, OwnerInv, KindInv, NetPoolJoin,
       Owning, StartSteps, Preparing, NetLive
  <2>3. NetInv' /\ DogInv' /\ WorkerInv'
    BY <1>8, LifecycleAssumption DEF TypeOK, OwnerInv, NetInv, DogInv,
       WorkerInv, StartInv, FinalInv, Finishing, NetPoolJoin, Owning,
       StartSteps, Preparing, NetLive
  <2>4. StartInv' /\ IdleInv' /\ FinalInv'
    BY <1>8, LifecycleAssumption DEF TypeOK, OwnerInv, KindInv, NetInv,
       StartInv, IdleInv, FinalInv, DogInv, WorkerInv, Finishing, CallsRetained,
       RetainedCalls, ReplaceNeverWaits, NetPoolJoin, Owning, StartSteps,
       Preparing, NetLive
  <2>5. ModelInv' /\ CallsRetained' /\ ShutdownFinal'
    BY <1>8, LifecycleAssumption DEF TypeOK, OwnerInv, KindInv, NetInv,
       StartInv, FinalInv, Finishing, ModelInv, CallsRetained, RetainedCalls,
       ReplaceNeverWaits, ShutdownFinal, WorkerInv, NetPoolJoin, Owning,
       StartSteps, Preparing, NetLive
  <2> QED
    BY <2>1, <2>2, <2>3, <2>4, <2>5
<1>9. ASSUME NetCatch PROVE IInv'
  <2>1. TypeOK'
    <3>1. state' \in {"stopped", "stopping"} /\ accepting' \in BOOLEAN
      BY <1>9, StopTypes DEF NetCatch
    <3> QED
      BY <1>9, <3>1 DEF TypeOK, NetCatch, Owning, StartSteps
  <2>2. OwnerInv' /\ KindInv'
    BY <1>9, LifecycleAssumption DEF TypeOK, OwnerInv, KindInv, NetCatch,
       RequestStopLocked, Owning, StartSteps, Preparing, NetLive
  <2>3. NetInv' /\ DogInv' /\ WorkerInv'
    BY <1>9, LifecycleAssumption DEF TypeOK, OwnerInv, NetInv, DogInv,
       WorkerInv, StartInv, FinalInv, Finishing, NetCatch, RequestStopLocked,
       Owning, StartSteps, Preparing, NetLive
  <2>4. StartInv' /\ IdleInv' /\ FinalInv'
    BY <1>9, LifecycleAssumption DEF TypeOK, OwnerInv, KindInv, NetInv,
       StartInv, IdleInv, FinalInv, DogInv, WorkerInv, Finishing, CallsRetained,
       RetainedCalls, ReplaceNeverWaits, NetCatch, RequestStopLocked, Owning,
       StartSteps, Preparing, NetLive
  <2>5. ModelInv' /\ CallsRetained' /\ ShutdownFinal'
    BY <1>9, LifecycleAssumption DEF TypeOK, OwnerInv, KindInv, NetInv,
       StartInv, FinalInv, Finishing, ModelInv, CallsRetained, RetainedCalls,
       ReplaceNeverWaits, ShutdownFinal, WorkerInv, NetCatch, RequestStopLocked,
       Owning, StartSteps, Preparing, NetLive
  <2> QED
    BY <2>1, <2>2, <2>3, <2>4, <2>5
<1>10. ASSUME NetClose PROVE IInv'
  <2>1. TypeOK'
    BY <1>10, LifecycleAssumption, ZenonT(40) DEF TypeOK, NetClose, Owning, StartSteps
  <2>2. OwnerInv' /\ KindInv'
    BY <1>10, LifecycleAssumption DEF TypeOK, OwnerInv, KindInv, NetClose,
       Owning, StartSteps, Preparing, NetLive
  <2>3. NetInv' /\ DogInv' /\ WorkerInv'
    BY <1>10, LifecycleAssumption DEF TypeOK, OwnerInv, NetInv, DogInv,
       WorkerInv, StartInv, FinalInv, Finishing, NetClose, Owning, StartSteps,
       Preparing, NetLive
  <2>4. StartInv' /\ IdleInv' /\ FinalInv'
    BY <1>10, LifecycleAssumption DEF TypeOK, OwnerInv, KindInv, NetInv,
       StartInv, IdleInv, FinalInv, DogInv, WorkerInv, Finishing, CallsRetained,
       RetainedCalls, ReplaceNeverWaits, NetClose, Owning, StartSteps,
       Preparing, NetLive
  <2>5. ModelInv' /\ CallsRetained' /\ ShutdownFinal'
    BY <1>10, LifecycleAssumption DEF TypeOK, OwnerInv, KindInv, NetInv,
       StartInv, FinalInv, Finishing, ModelInv, CallsRetained, RetainedCalls,
       ReplaceNeverWaits, ShutdownFinal, WorkerInv, NetClose, Owning,
       StartSteps, Preparing, NetLive
  <2> QED
    BY <2>1, <2>2, <2>3, <2>4, <2>5
<1>11. ASSUME NetExit PROVE IInv'
  <2>1. TypeOK'
    BY <1>11, LifecycleAssumption DEF TypeOK, NetExit, Owning, StartSteps
  <2>2. OwnerInv' /\ KindInv'
    BY <1>11, LifecycleAssumption DEF TypeOK, OwnerInv, KindInv, NetExit,
       Owning, StartSteps, Preparing, NetLive
  <2>3. NetInv' /\ DogInv' /\ WorkerInv'
    BY <1>11, LifecycleAssumption DEF TypeOK, OwnerInv, NetInv, DogInv,
       WorkerInv, StartInv, FinalInv, Finishing, NetExit, Owning, StartSteps,
       Preparing, NetLive
  <2>4. StartInv' /\ IdleInv' /\ FinalInv'
    BY <1>11, LifecycleAssumption DEF TypeOK, OwnerInv, KindInv, NetInv,
       StartInv, IdleInv, FinalInv, DogInv, WorkerInv, Finishing, CallsRetained,
       RetainedCalls, ReplaceNeverWaits, NetExit, Owning, StartSteps, Preparing,
       NetLive
  <2>5. ModelInv' /\ CallsRetained' /\ ShutdownFinal'
    BY <1>11, LifecycleAssumption DEF TypeOK, OwnerInv, KindInv, NetInv,
       StartInv, FinalInv, Finishing, ModelInv, CallsRetained, RetainedCalls,
       ReplaceNeverWaits, ShutdownFinal, WorkerInv, NetExit, Owning, StartSteps,
       Preparing, NetLive
  <2> QED
    BY <2>1, <2>2, <2>3, <2>4, <2>5
<1> QED
  BY <1>1, <1>2, <1>3, <1>4, <1>5, <1>6, <1>7, <1>8, <1>9, <1>10, <1>11 DEF Network

(* A step of the watchdog keeps it.                                        *)
LEMMA WatchdogKeeps ==
  ASSUME IInv, Watchdog
  PROVE  IInv'
<1> USE DEF IInv, implVars, objVars, netVars, apiVars
<1>1. ASSUME DogWake PROVE IInv'
  <2>1. TypeOK'
    BY <1>1, LifecycleAssumption DEF TypeOK, DogWake, Owning, StartSteps
  <2>2. OwnerInv' /\ KindInv'
    BY <1>1, LifecycleAssumption DEF TypeOK, OwnerInv, KindInv, DogWake, Owning,
       StartSteps, Preparing, NetLive
  <2>3. NetInv' /\ DogInv' /\ WorkerInv'
    BY <1>1, LifecycleAssumption DEF TypeOK, OwnerInv, NetInv, DogInv,
       WorkerInv, StartInv, FinalInv, Finishing, DogWake, Owning, StartSteps,
       Preparing, NetLive
  <2>4. StartInv' /\ IdleInv' /\ FinalInv'
    BY <1>1, LifecycleAssumption DEF TypeOK, OwnerInv, KindInv, NetInv,
       StartInv, IdleInv, FinalInv, DogInv, WorkerInv, Finishing, CallsRetained,
       RetainedCalls, ReplaceNeverWaits, DogWake, Owning, StartSteps, Preparing,
       NetLive
  <2>5. ModelInv' /\ CallsRetained' /\ ShutdownFinal'
    BY <1>1, LifecycleAssumption DEF TypeOK, OwnerInv, KindInv, NetInv,
       StartInv, FinalInv, Finishing, ModelInv, CallsRetained, RetainedCalls,
       ReplaceNeverWaits, ShutdownFinal, WorkerInv, DogWake, Owning, StartSteps,
       Preparing, NetLive
  <2> QED
    BY <2>1, <2>2, <2>3, <2>4, <2>5
<1>2. ASSUME DogDone PROVE IInv'
  <2>1. TypeOK'
    BY <1>2, LifecycleAssumption DEF TypeOK, DogDone, Owning, StartSteps
  <2>2. OwnerInv' /\ KindInv'
    BY <1>2, LifecycleAssumption DEF TypeOK, OwnerInv, KindInv, DogDone, Owning,
       StartSteps, Preparing, NetLive
  <2>3. NetInv' /\ DogInv' /\ WorkerInv'
    BY <1>2, LifecycleAssumption DEF TypeOK, OwnerInv, NetInv, DogInv,
       WorkerInv, StartInv, FinalInv, Finishing, DogDone, Owning, StartSteps,
       Preparing, NetLive
  <2>4. StartInv' /\ IdleInv' /\ FinalInv'
    BY <1>2, LifecycleAssumption DEF TypeOK, OwnerInv, KindInv, NetInv,
       StartInv, IdleInv, FinalInv, DogInv, WorkerInv, Finishing, CallsRetained,
       RetainedCalls, ReplaceNeverWaits, DogDone, Owning, StartSteps, Preparing,
       NetLive
  <2>5. ModelInv' /\ CallsRetained' /\ ShutdownFinal'
    BY <1>2, LifecycleAssumption DEF TypeOK, OwnerInv, KindInv, NetInv,
       StartInv, FinalInv, Finishing, ModelInv, CallsRetained, RetainedCalls,
       ReplaceNeverWaits, ShutdownFinal, WorkerInv, DogDone, Owning, StartSteps,
       Preparing, NetLive
  <2> QED
    BY <2>1, <2>2, <2>3, <2>4, <2>5
<1>3. ASSUME DogExpire PROVE IInv'
  <2>1. TypeOK'
    BY <1>3, LifecycleAssumption DEF TypeOK, DogExpire, Owning, StartSteps
  <2>2. OwnerInv' /\ KindInv'
    BY <1>3, LifecycleAssumption DEF TypeOK, OwnerInv, KindInv, DogExpire,
       Owning, StartSteps, Preparing, NetLive
  <2>3. NetInv' /\ DogInv' /\ WorkerInv'
    BY <1>3, LifecycleAssumption DEF TypeOK, OwnerInv, NetInv, DogInv,
       WorkerInv, StartInv, FinalInv, Finishing, DogExpire, Owning, StartSteps,
       Preparing, NetLive
  <2>4. StartInv' /\ IdleInv' /\ FinalInv'
    BY <1>3, LifecycleAssumption DEF TypeOK, OwnerInv, KindInv, NetInv,
       StartInv, IdleInv, FinalInv, DogInv, WorkerInv, Finishing, CallsRetained,
       RetainedCalls, ReplaceNeverWaits, DogExpire, Owning, StartSteps,
       Preparing, NetLive
  <2>5. ModelInv' /\ CallsRetained' /\ ShutdownFinal'
    BY <1>3, LifecycleAssumption DEF TypeOK, OwnerInv, KindInv, NetInv,
       StartInv, FinalInv, Finishing, ModelInv, CallsRetained, RetainedCalls,
       ReplaceNeverWaits, ShutdownFinal, WorkerInv, DogExpire, Owning,
       StartSteps, Preparing, NetLive
  <2> QED
    BY <2>1, <2>2, <2>3, <2>4, <2>5
<1> QED
  BY <1>1, <1>2, <1>3 DEF Watchdog

(* A step of an HTTP worker keeps it.                                      *)
LEMMA HandlerKeeps ==
  ASSUME IInv, NEW h \in Handlers, Handler(h)
  PROVE  IInv'
<1> USE DEF IInv, implVars, objVars, netVars, apiVars
<1>1. ASSUME Preflight(h) PROVE IInv'
  <2>1. TypeOK'
    BY <1>1, LifecycleAssumption DEF TypeOK, Preflight, Owning, StartSteps
  <2>2. OwnerInv' /\ KindInv'
    BY <1>1, LifecycleAssumption DEF TypeOK, OwnerInv, KindInv, Preflight,
       Owning, StartSteps, Preparing, NetLive
  <2>3. NetInv' /\ DogInv' /\ WorkerInv'
    BY <1>1, LifecycleAssumption DEF TypeOK, OwnerInv, NetInv, DogInv,
       WorkerInv, StartInv, FinalInv, Finishing, Preflight, Owning, StartSteps,
       Preparing, NetLive
  <2>4. StartInv' /\ IdleInv' /\ FinalInv'
    BY <1>1, LifecycleAssumption DEF TypeOK, OwnerInv, KindInv, NetInv,
       StartInv, IdleInv, FinalInv, DogInv, WorkerInv, Finishing, CallsRetained,
       RetainedCalls, ReplaceNeverWaits, Preflight, Owning, StartSteps,
       Preparing, NetLive
  <2>5. ModelInv' /\ CallsRetained' /\ ShutdownFinal'
    BY <1>1, LifecycleAssumption DEF TypeOK, OwnerInv, KindInv, NetInv,
       StartInv, FinalInv, Finishing, ModelInv, CallsRetained, RetainedCalls,
       ReplaceNeverWaits, ShutdownFinal, WorkerInv, Preflight, Owning,
       StartSteps, Preparing, NetLive
  <2> QED
    BY <2>1, <2>2, <2>3, <2>4, <2>5
<1>2. ASSUME Admission(h) PROVE IInv'
  <2>1. TypeOK'
    BY <1>2, LifecycleAssumption DEF TypeOK, Admission, Owning, StartSteps
  <2>2. OwnerInv' /\ KindInv'
    BY <1>2, LifecycleAssumption DEF TypeOK, OwnerInv, KindInv, Admission,
       Owning, StartSteps, Preparing, NetLive
  <2>3. NetInv' /\ DogInv' /\ WorkerInv'
    BY <1>2, LifecycleAssumption DEF TypeOK, OwnerInv, NetInv, DogInv,
       WorkerInv, StartInv, FinalInv, Finishing, Admission, Owning, StartSteps,
       Preparing, NetLive
  <2>4. StartInv' /\ IdleInv' /\ FinalInv'
    BY <1>2, LifecycleAssumption DEF TypeOK, OwnerInv, KindInv, NetInv,
       StartInv, IdleInv, FinalInv, DogInv, WorkerInv, Finishing, CallsRetained,
       RetainedCalls, ReplaceNeverWaits, Admission, Owning, StartSteps,
       Preparing, NetLive
  <2>5. ModelInv' /\ CallsRetained' /\ ShutdownFinal'
    BY <1>2, LifecycleAssumption DEF TypeOK, OwnerInv, KindInv, NetInv,
       StartInv, FinalInv, Finishing, ModelInv, CallsRetained, RetainedCalls,
       ReplaceNeverWaits, ShutdownFinal, WorkerInv, Admission, Owning,
       StartSteps, Preparing, NetLive
  <2> QED
    BY <2>1, <2>2, <2>3, <2>4, <2>5
<1>3. ASSUME Respond(h) PROVE IInv'
  <2>1. TypeOK'
    BY <1>3, LifecycleAssumption DEF TypeOK, Respond, Owning, StartSteps
  <2>2. OwnerInv' /\ KindInv'
    BY <1>3, LifecycleAssumption DEF TypeOK, OwnerInv, KindInv, Respond, Owning,
       StartSteps, Preparing, NetLive
  <2>3. NetInv' /\ DogInv' /\ WorkerInv'
    BY <1>3, LifecycleAssumption DEF TypeOK, OwnerInv, NetInv, DogInv,
       WorkerInv, StartInv, FinalInv, Finishing, Respond, Owning, StartSteps,
       Preparing, NetLive
  <2>4. StartInv' /\ IdleInv' /\ FinalInv'
    BY <1>3, LifecycleAssumption DEF TypeOK, OwnerInv, KindInv, NetInv,
       StartInv, IdleInv, FinalInv, DogInv, WorkerInv, Finishing, CallsRetained,
       RetainedCalls, ReplaceNeverWaits, Respond, Owning, StartSteps, Preparing,
       NetLive
  <2>5. ModelInv' /\ CallsRetained' /\ ShutdownFinal'
    BY <1>3, LifecycleAssumption DEF TypeOK, OwnerInv, KindInv, NetInv,
       StartInv, FinalInv, Finishing, ModelInv, CallsRetained, RetainedCalls,
       ReplaceNeverWaits, ShutdownFinal, WorkerInv, Respond, Owning, StartSteps,
       Preparing, NetLive
  <2> QED
    BY <2>1, <2>2, <2>3, <2>4, <2>5
<1> QED
  BY <1>1, <1>2, <1>3 DEF Handler

(* The calls that take no control, and the end of an operation call.       *)
LEMMA OtherKeeps ==
  ASSUME IInv, RequestStop \/ BeginShutdown \/ CallEnds
  PROVE  IInv'
<1> USE DEF IInv, implVars, objVars, netVars, apiVars
<1>1. ASSUME RequestStop PROVE IInv'
  <2>1. TypeOK'
    <3>1. state' \in {"stopped", "stopping"} /\ accepting' \in BOOLEAN
      BY <1>1, StopTypes DEF RequestStop
    <3> QED
      BY <1>1, <3>1 DEF TypeOK, RequestStop, Owning, StartSteps
  <2>2. OwnerInv' /\ KindInv'
    BY <1>1, LifecycleAssumption DEF TypeOK, OwnerInv, KindInv, RequestStop,
       RequestStopLocked, Owning, StartSteps, Preparing, NetLive
  <2>3. NetInv' /\ DogInv' /\ WorkerInv'
    BY <1>1, LifecycleAssumption DEF TypeOK, OwnerInv, NetInv, DogInv,
       WorkerInv, StartInv, FinalInv, Finishing, RequestStop, RequestStopLocked,
       Owning, StartSteps, Preparing, NetLive
  <2>4. StartInv' /\ IdleInv' /\ FinalInv'
    BY <1>1, LifecycleAssumption DEF TypeOK, OwnerInv, KindInv, NetInv,
       StartInv, IdleInv, FinalInv, DogInv, WorkerInv, Finishing, CallsRetained,
       RetainedCalls, ReplaceNeverWaits, RequestStop, RequestStopLocked, Owning,
       StartSteps, Preparing, NetLive
  <2>5. ModelInv' /\ CallsRetained' /\ ShutdownFinal'
    BY <1>1, LifecycleAssumption DEF TypeOK, OwnerInv, KindInv, NetInv,
       StartInv, FinalInv, Finishing, ModelInv, CallsRetained, RetainedCalls,
       ReplaceNeverWaits, ShutdownFinal, WorkerInv, RequestStop,
       RequestStopLocked, Owning, StartSteps, Preparing, NetLive
  <2> QED
    BY <2>1, <2>2, <2>3, <2>4, <2>5
<1>2. ASSUME BeginShutdown PROVE IInv'
  <2>1. TypeOK'
    <3>1. finalShutdown' \in {finalShutdown, TRUE, FALSE}
      BY <1>2 DEF BeginShutdown
    <3>2. finalShutdown' \in BOOLEAN
      BY <3>1, Zenon DEF TypeOK
    <3>3. state' \in {"stopped", "stopping"} /\ accepting' \in BOOLEAN
      BY <1>2, StopTypes DEF BeginShutdown
    <3> QED
      BY <1>2, <3>2, <3>3 DEF TypeOK, BeginShutdown, Owning, StartSteps
  <2>2. OwnerInv' /\ KindInv'
    BY <1>2, LifecycleAssumption DEF TypeOK, OwnerInv, KindInv, BeginShutdown,
       RequestStopLocked, Owning, StartSteps, Preparing, NetLive
  <2>3. NetInv' /\ DogInv' /\ WorkerInv'
    BY <1>2, LifecycleAssumption DEF TypeOK, OwnerInv, NetInv, DogInv,
       WorkerInv, StartInv, FinalInv, Finishing, BeginShutdown,
       RequestStopLocked, Owning, StartSteps, Preparing, NetLive
  <2>4. StartInv' /\ IdleInv' /\ FinalInv'
    BY <1>2, LifecycleAssumption DEF TypeOK, OwnerInv, KindInv, NetInv,
       StartInv, IdleInv, FinalInv, DogInv, WorkerInv, Finishing, CallsRetained,
       RetainedCalls, ReplaceNeverWaits, BeginShutdown, RequestStopLocked,
       Owning, StartSteps, Preparing, NetLive
  <2>5. ModelInv' /\ CallsRetained' /\ ShutdownFinal'
    BY <1>2, LifecycleAssumption DEF TypeOK, OwnerInv, KindInv, NetInv,
       StartInv, FinalInv, Finishing, ModelInv, CallsRetained, RetainedCalls,
       ReplaceNeverWaits, ShutdownFinal, WorkerInv, BeginShutdown,
       RequestStopLocked, Owning, StartSteps, Preparing, NetLive
  <2> QED
    BY <2>1, <2>2, <2>3, <2>4, <2>5
<1>3. ASSUME CallEnds PROVE IInv'
  <2>1. TypeOK'
    BY <1>3, LifecycleAssumption DEF TypeOK, CallEnds, Owning, StartSteps
  <2>2. OwnerInv' /\ KindInv'
    BY <1>3, LifecycleAssumption DEF TypeOK, OwnerInv, KindInv, CallEnds,
       Owning, StartSteps, Preparing, NetLive
  <2>3. NetInv' /\ DogInv' /\ WorkerInv'
    BY <1>3, LifecycleAssumption DEF TypeOK, OwnerInv, NetInv, DogInv,
       WorkerInv, StartInv, FinalInv, Finishing, CallEnds, Owning, StartSteps,
       Preparing, NetLive
  <2>4. StartInv' /\ IdleInv' /\ FinalInv'
    BY <1>3, LifecycleAssumption DEF TypeOK, OwnerInv, KindInv, NetInv,
       StartInv, IdleInv, FinalInv, DogInv, WorkerInv, Finishing, CallsRetained,
       RetainedCalls, ReplaceNeverWaits, CallEnds, Owning, StartSteps,
       Preparing, NetLive
  <2>5. ModelInv' /\ CallsRetained' /\ ShutdownFinal'
    BY <1>3, LifecycleAssumption DEF TypeOK, OwnerInv, KindInv, NetInv,
       StartInv, FinalInv, Finishing, ModelInv, CallsRetained, RetainedCalls,
       ReplaceNeverWaits, ShutdownFinal, WorkerInv, CallEnds, Owning,
       StartSteps, Preparing, NetLive
  <2> QED
    BY <2>1, <2>2, <2>3, <2>4, <2>5
<1> QED
  BY <1>1, <1>2, <1>3

(* Every step of the server, its threads and its callers keeps it.         *)
LEMMA StepInv == IInv /\ [Next]_vars => IInv'
<1> SUFFICES ASSUME IInv, [Next]_vars PROVE IInv'
  OBVIOUS
<1>1. ASSUME NEW c \in Calls, Enter(c) \/ Api(c) PROVE IInv'
  BY <1>1, StartKeeps, StopKeeps, PublishKeeps DEF Enter, Api
<1>2. CASE UNCHANGED vars
  <2>1. TypeOK' /\ OwnerInv' /\ KindInv' /\ NetInv' /\ DogInv' /\ WorkerInv'
    BY <1>2 DEF IInv, vars, implVars, objVars, netVars, apiVars, TypeOK, OwnerInv,
       KindInv, NetInv, DogInv, WorkerInv
  <2>2. StartInv' /\ IdleInv' /\ FinalInv' /\ ModelInv' /\ CallsRetained' /\ ShutdownFinal'
    BY <1>2 DEF IInv, vars, implVars, objVars, netVars, apiVars, StartInv, IdleInv, FinalInv,
       Finishing, ModelInv, CallsRetained, RetainedCalls, ReplaceNeverWaits, ShutdownFinal
  <2> QED
    BY <2>1, <2>2 DEF IInv
<1> QED
  BY <1>1, <1>2, NetworkKeeps, WatchdogKeeps, HandlerKeeps, OtherKeeps DEF Next

(* The invariant holds in every run, with any number of calls and threads. *)
THEOREM InvariantHolds == Spec => []IInv
BY InitInv, StepInv, PTL DEF Spec

(* The state never lies: a running server has its object model, an         *)
(* executor of the configured width and a listener, a stopped one has no   *)
(* network left, however start, stop and shutdown interleave.              *)
THEOREM StateIsHonest == Spec => []StateHonest
<1>1. IInv => ServingReady
  BY DEF IInv, NetInv, DogInv, ServingReady, NetLive
<1>2. IInv => StoppedIsQuiet
  <2> SUFFICES ASSUME IInv, state = "stopped" PROVE StoppedIsQuiet
    BY DEF StoppedIsQuiet
  <2>1. net \in {"none", "exited"}
    BY DEF IInv, TypeOK, NetInv, NetLive
  <2>2. ~listener /\ dog = "none" /\ \A h \in Handlers : handler[h] = "idle"
    BY <2>1 DEF IInv, NetInv, DogInv, WorkerInv
  <2>3. networkDone
    BY <2>1 DEF IInv, NetInv, IdleInv, StartInv, Preparing
  <2> QED
    BY <2>1, <2>2, <2>3 DEF StoppedIsQuiet
<1> QED
  BY <1>1, <1>2, InvariantHolds, PTL DEF StateHonest, IInv

(* What a request handler reads without a lock is there and not being      *)
(* replaced: start() and finishShutdown() wait for the network to end.     *)
THEOREM HandlersAreCovered == Spec => []HandlersCovered
<1>1. IInv => HandlersCovered
  <2> SUFFICES ASSUME IInv, net \in {"accept", "pool", "joining"}
               PROVE  /\ model /\ executor # NoWidth
                      /\ \A c \in Calls :
                           pc[c] \notin (StartSteps \ {"check", "await"}) \cup {"final", "drain"}
    BY DEF IInv, WorkerInv, HandlersCovered
  <2>1. model /\ executor = width /\ width \in Widths /\ state # "stopped"
    BY DEF IInv, NetInv, NetLive, TypeOK
  <2>2. \A c \in Calls : pc[c] \notin {"join", "config"} \cup Preparing
    BY <2>1 DEF IInv, StartInv, Preparing
  <2>3. \A c \in Calls : pc[c] \notin {"final", "drain"}
    BY <2>1 DEF IInv, FinalInv, Finishing
  <2> QED
    BY <2>1, <2>2, <2>3, LifecycleAssumption DEF StartSteps, Preparing
<1> QED
  BY <1>1, InvariantHolds, PTL

(* Operation calls that outlive a stop stay within the capacity of every   *)
(* later start, and no start waits for them.                               *)
THEOREM CallsAreRetained == Spec => []CallsRetained
BY InvariantHolds, PTL DEF IInv

(* After finishShutdown has returned nothing is left and nothing comes     *)
(* back.                                                                   *)
THEOREM ShutdownIsFinal == Spec => []ShutdownFinal
BY InvariantHolds, PTL DEF IInv

(* stop() leaves its join only in state stopped: only start() could have   *)
(* changed the state without a network thread, and it does not own         *)
(* Impl::control.                                                          *)
THEOREM StopIsEffective == Spec => StopEffective
<1>1. ASSUME IInv, [Next]_vars, NEW c \in Calls, pc[c] = "halt", pc'[c] # "halt"
      PROVE  state' = "stopped"
  <2>1. StopJoin(c)
    <3> USE DEF implVars, objVars, netVars, apiVars
    <3>1. pc \in [Calls -> Owning \cup {"new", "request", "stop", "final", "done"}] /\ control = c
      BY <1>1 DEF IInv, TypeOK, OwnerInv, Owning
    <3>2. UNCHANGED pc => FALSE
      BY <1>1
    <3>3. ASSUME NEW d \in Calls, Enter(d) PROVE FALSE
      BY <1>1, <3>1, <3>3, LifecycleAssumption
         DEF Enter, StartLock, StopRequest, FinishBegin, PublishLock, Lock, Goto
    <3>4. ASSUME NEW d \in Calls, Start(d) PROVE FALSE
      BY <1>1, <3>1, <3>4 DEF Start, StartCheck, StartJoin, StartConfig, StartModel, StartExecutor,
         StartReplace, StartLaunch, StartSpawn, StartAwait, StartCatch, Return, Goto
    <3>5. ASSUME NEW d \in Calls, Finish(d) \/ Publish(d) \/ StopLock(d) PROVE FALSE
      BY <1>1, <3>1, <3>5, LifecycleAssumption DEF Finish, FinishStop, FinishLock, FinishDrain,
         Publish, PublishCheck, PublishStage, PublishCommit, StopLock, Return, Lock, Goto
    <3>6. ASSUME NEW d \in Calls, StopJoin(d) PROVE d = c
      BY <1>1, <3>1, <3>6 DEF StopJoin, Goto
    <3>7. Network \/ NetError \/ Watchdog \/ RequestStop \/ BeginShutdown \/ CallEnds => UNCHANGED pc
      BY DEF Network, NetSetup, NetPublish, NetWatch, NetOnStart, NetStopped, NetPoolClose,
         NetPoolJoin, NetCatch, NetClose, NetExit, NetError, Watchdog, DogWake, DogDone, DogExpire,
         RequestStop, BeginShutdown, CallEnds
    <3>8. ASSUME NEW h \in Handlers, Handler(h) PROVE UNCHANGED pc
      BY <3>8 DEF Handler, Preflight, Admission, Respond
    <3>9. UNCHANGED vars => UNCHANGED pc
      BY DEF vars
    <3> QED
      BY <1>1, <3>2, <3>3, <3>4, <3>5, <3>6, <3>7, <3>8, <3>9 DEF Next, Api, Stop
  <2>2. \A d \in Calls : pc[d] \notin Preparing
    BY <1>1 DEF IInv, OwnerInv, Owning, StartSteps, Preparing
  <2>3. state = "stopped"
    BY <1>1, <2>1, <2>2 DEF IInv, StopJoin, NetInv, IdleInv
  <2> QED
    BY <2>1, <2>3 DEF StopJoin, implVars
<1>2. IInv /\ [Next]_vars =>
        [\A c \in Calls : pc[c] = "halt" /\ pc'[c] # "halt" => state' = "stopped"]_vars
  BY <1>1
<1> QED
  BY <1>2, InvariantHolds, PTL DEF Spec, StopEffective

(* Nobody else owns Impl::control between the check of publishComponent    *)
(* and its commit, so what the check found stays: a running server has a   *)
(* model and a network thread, only finishShutdown drops the one and only  *)
(* a join the other, and only a commit publishes.                          *)
THEOREM PublicationIsCovered == Spec => []PublicationCovered
<1> DEFINE Staged(c) == pc[c] \in {"stage", "commit"}
<1>1. Init => PublicationCovered
  BY DEF Init, PublicationCovered
<1>2. ASSUME IInv, PublicationCovered, [Next]_vars, NEW c \in Calls, Staged(c)'
      PROVE  model' /\ ~published' /\ net' # "none"
  <2> USE DEF implVars, objVars, netVars, apiVars
  <2>1. /\ pc \in [Calls -> Owning \cup {"new", "request", "stop", "final", "done"}]
        /\ \A d \in Calls : pc[d] \in Owning => control = d
    BY <1>2 DEF IInv, TypeOK, OwnerInv
  <2>2. Staged(c) => /\ model /\ ~published /\ net # "none"
                     /\ \A d \in Calls : d # c => pc[d] \notin Owning
    BY <1>2, <2>1 DEF PublicationCovered, Owning
  <2>3. ASSUME NEW d \in Calls, StartLock(d) \/ Start(d)
        PROVE  model' /\ ~published' /\ net' # "none"
    <3>1. pc[d] \in Owning \cup {"new"} /\ ~Staged(d) /\ published' = published
      BY <2>3 DEF StartLock, Start, StartCheck, StartJoin, StartConfig, StartModel, StartExecutor,
         StartReplace, StartLaunch, StartSpawn, StartAwait, StartCatch, Owning, StartSteps
    <3>2. Staged(c) /\ d # c
      BY <1>2, <2>1, <2>3 DEF StartLock, Start, StartCheck, StartJoin, StartConfig, StartModel,
         StartExecutor, StartReplace, StartLaunch, StartSpawn, StartAwait, StartCatch, Return, Lock, Goto
    <3>3. StartLock(d)
      BY <2>2, <2>3, <3>2 DEF Start, StartCheck, StartJoin, StartConfig, StartModel, StartExecutor,
         StartReplace, StartLaunch, StartSpawn, StartAwait, StartCatch, Owning, StartSteps
    <3> QED
      BY <2>2, <3>2, <3>3 DEF StartLock
  <2>4. ASSUME NEW d \in Calls, StopRequest(d) \/ Stop(d) \/ FinishBegin(d) \/ Finish(d)
        PROVE  model' /\ ~published' /\ net' # "none"
    <3>1. Staged(c) /\ d # c
      BY <1>2, <2>1, <2>4 DEF StopRequest, Stop, StopLock, StopJoin, FinishBegin, Finish, FinishStop,
         FinishLock, FinishDrain, Return, Lock, Goto
    <3>2. ~StopJoin(d) /\ ~FinishDrain(d)
      BY <2>2, <3>1 DEF StopJoin, FinishDrain, Owning
    <3> QED
      BY <2>2, <2>4, <3>1, <3>2 DEF StopRequest, Stop, StopLock, FinishBegin, Finish, FinishStop, FinishLock
  <2>5. ASSUME NEW d \in Calls, PublishLock(d) \/ PublishStage(d) \/ PublishCommit(d)
        PROVE  model' /\ ~published' /\ net' # "none"
    <3>1. Staged(c)
      BY <1>2, <2>1, <2>5 DEF PublishLock, PublishStage, PublishCommit, Return, Lock, Goto
    <3>2. ~PublishCommit(d)
      BY <1>2, <2>1, <2>2, <3>1 DEF PublishCommit, Return, Goto, Owning
    <3> QED
      BY <2>2, <2>5, <3>1, <3>2 DEF PublishLock, PublishStage
  <2>6. ASSUME NEW d \in Calls, PublishCheck(d)
        PROVE  model' /\ ~published' /\ net' # "none"
    <3>1. CASE Staged(c)
      BY <2>2, <2>6, <3>1 DEF PublishCheck
    <3>2. CASE ~Staged(c)
      <4>1. d = c /\ state = "running" /\ ~published
        BY <1>2, <2>1, <2>6, <3>2 DEF PublishCheck, Return, Goto
      <4>2. model /\ net # "none"
        BY <1>2, <4>1 DEF IInv, NetInv, NetLive
      <4> QED
        BY <2>6, <4>1, <4>2 DEF PublishCheck
    <3> QED
      BY <3>1, <3>2
  <2>7. ASSUME Network \/ NetError \/ Watchdog \/ RequestStop \/ BeginShutdown \/ CallEnds
        PROVE  pc' = pc /\ model' = model /\ published' = published /\ (net # "none" => net' # "none")
    BY <2>7 DEF Network, NetSetup, NetPublish, NetWatch, NetOnStart, NetStopped, NetPoolClose,
       NetPoolJoin, NetCatch, NetClose, NetExit, NetError, Watchdog, DogWake, DogDone, DogExpire,
       RequestStop, BeginShutdown, CallEnds
  <2>8. ASSUME NEW h \in Handlers, Handler(h)
        PROVE  pc' = pc /\ model' = model /\ published' = published /\ net' = net
    BY <2>8 DEF Handler, Preflight, Admission, Respond
  <2>9. UNCHANGED vars => pc' = pc /\ model' = model /\ published' = published /\ net' = net
    BY DEF vars
  <2> QED
    BY <1>2, <2>2, <2>3, <2>4, <2>5, <2>6, <2>7, <2>8, <2>9 DEF Next, Enter, Api, Publish
<1>3. IInv /\ PublicationCovered /\ [Next]_vars => PublicationCovered'
  BY <1>2 DEF PublicationCovered
<1> QED
  BY <1>1, <1>3, InvariantHolds, PTL DEF Spec
=============================================================================
