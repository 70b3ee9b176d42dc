SPECIFICATION Spec
CONSTANTS
  arm = arm
  arm2 = arm2
  base = base
  armName = armName
  baseName = baseName
  s1 = s1
  s2 = s2
  s3 = s3
  s4 = s4
  c1 = c1
  c2 = c2
  c3 = c3
  None = None
  Components <- MCComponents
  Name <- MCName
  Root <- MCRoot
  Services <- MCServices
  Graphs <- MCGraphs
  WithPort <- MCWithPort
  MaxDepth = 2
  Calls <- MCCalls
SYMMETRY MCSymmetry
CHECK_DEADLOCK FALSE
INVARIANTS
  NoLeakedLink
  PublishedExactly
PROPERTIES
  PublicationStable
