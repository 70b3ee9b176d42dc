----------------------------- MODULE MCExecutor -----------------------------
(* OperationExecutor on a small instance: an OwnThread call, which the     *)
(* component's engine runs and the reaper collects, next to a ClientThread *)
(* call that a worker runs itself; two workers with room for one call, or  *)
(* one worker with room for both.                                          *)
EXTENDS OperationExecutor, TLC

CONSTANTS own, client, w1, w2

MCOps == {own, client}
MCOwnThread == {own}
MCWorkers == {w1, w2}
MCOneWorker == {w1}

(* The workers are alike.                                                  *)
MCSymmetry == Permutations(MCWorkers)
=============================================================================
