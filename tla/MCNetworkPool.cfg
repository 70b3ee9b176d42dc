SPECIFICATION FairSpec
CONSTANTS
  w1 = w1
  w2 = w2
  c1 = c1
  c2 = c2
  c3 = c3
  c4 = c4
  c5 = c5
  None = None
  Workers <- MCWorkers
  Conns <- MCConns
  QueueCap = 1
CHECK_DEADLOCK FALSE
INVARIANTS
  ConnectionsOwned
  StopComplete
PROPERTIES
  StopEnds
