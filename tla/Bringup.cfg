SPECIFICATION FairSpec
CONSTANTS
  Workers = {1, 2}
  Leader = 0
  Cluster = "home"
  Expected = 2
  Foreign <- MCForeign
  Reaches <- MCReaches
  Hosts <- MCHosts
  MaxCrashes = 2
  MaxRotations = 1
  None = None
  Missing = Missing
  Cut = Cut
INVARIANTS
  FingerprintStable
  JoinedAsAnnounced
PROPERTIES
  ComesUp
CHECK_DEADLOCK FALSE
