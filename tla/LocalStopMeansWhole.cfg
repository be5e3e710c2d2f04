SPECIFICATION LocalSpec
CONSTANTS
  r1 = r1
  r2 = r2
  r3 = r3
  r4 = r4
  Requests <- MCRequests
  Asks <- MCAsks
  RustyAsks <- MCRustyAsks
  NumReplicas = 2
  Panics = FALSE
  None = None
INVARIANTS
  StopMeansWhole
CHECK_DEADLOCK FALSE
