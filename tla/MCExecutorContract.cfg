SPECIFICATION Spec
CONSTANTS
  own = own
  client = client
  w1 = w1
  w2 = w2
  NoOp = NoOp
  Ops <- MCOps
  OwnThread <- MCOwnThread
  Workers <- MCWorkers
  Cap = 1
SYMMETRY MCSymmetry
CHECK_DEADLOCK FALSE
INVARIANTS
  CapacityBound
PROPERTIES
  ImplementsContract
