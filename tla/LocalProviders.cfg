SPECIFICATION LocalSpec
CONSTANTS
  r1 = r1
  r2 = r2
  r3 = r3
  r4 = r4
  Requests <- MCRequests
  Asks <- MCAsks
  RustyAsks <- MCRustyAsks
  NumReplicas = 2
  Panics = TRUE
  None = None
INVARIANTS
  LocalTypeOK
  OneModelOneCall
  NoLockLost
PROPERTIES
  ImplementsGeneration
  EveryCallEnds
CHECK_DEADLOCK FALSE
