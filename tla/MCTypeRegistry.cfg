SPECIFICATION FairSpec
CONSTANTS
  int = int
  array = array
  struct = struct
  seq = seq
  node = node
  s1 = s1
  s2 = s2
  None = None
  Types <- MCTypes
  Canonical <- MCCanonical
  CanonicalDefs <- MCCanonicalDefs
  Members <- MCMembers
  Custom <- MCCustom
  Foreign <- MCForeign
  Servers <- MCServers
CHECK_DEADLOCK FALSE
INVARIANTS
  RegistrySound
  FailsOnlyForCause
  ReflectionComplete
PROPERTIES
  DiscoveryEnds
