SPECIFICATION FairSpec
CONSTANTS
  N = 3
CHECK_DEADLOCK FALSE
INVARIANTS
  FreezeCorrect
PROPERTIES
  Terminates
