SPECIFICATION FairSpec
CONSTANTS
  own = own
  client = client
  w1 = w1
  w2 = w2
  NoOp = NoOp
  Ops <- MCOps
  OwnThread <- MCOwnThread
  Workers <- MCOneWorker
  Cap = 2
CHECK_DEADLOCK FALSE
INVARIANTS
  Retention
  AtMostOnce
  HonestAnswer
  DrainSafe
PROPERTIES
  CompletionFinal
  EveryCallReleased
  ShutdownTerminates
