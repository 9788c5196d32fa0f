\* Two calls that may overlap, two servers.
SPECIFICATION FairSpec
CONSTANTS
  Servers = {s1, s2}
  Inits = {i1, i2}
  Nobody = Nobody
INVARIANTS
  RunningServersAreInHand
  CleanSlate
PROPERTIES
  InitializationEnds
CHECK_DEADLOCK FALSE
