SPECIFICATION FairSpec
CONSTANTS
  Config <- MCConfig
  DIAL_ATTEMPTS = 2
  MaxRetries = 2
  MaxFaults = 1
  None = None
INVARIANTS
  FullMesh
  OnePerPair
PROPERTIES
  Settles
CHECK_DEADLOCK FALSE
