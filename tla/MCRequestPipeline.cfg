SPECIFICATION FairSpec
CONSTANTS
  c1 = c1
  c2 = c2
  robot = robot
  None = None
  Conns = {c1, c2}
  Components = {robot}
  Resources <- MCResources
  Requests <- MCRequests
  MaxRequests = 2
CHECK_DEADLOCK FALSE
INVARIANTS
  AccessJustified
  NoSmuggling
PROPERTIES
  EveryRequestAnswered
