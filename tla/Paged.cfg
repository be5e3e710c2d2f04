SPECIFICATION FairSpec
CONSTANTS
  r1 = r1
  r2 = r2
  Requests <- MCRequests
  Asks <- MCAsks
  None = None
  NumBlocks = 3
  BlockSize = 2
  MaxNumSeqs = 2
  MaxSeq = 4
INVARIANTS
  TypeOK
  BlocksConserved
  BlocksFollowSequences
  LocateInBounds
  KvIsolated
PROPERTIES
  EveryRequestEnds
  ImplementsGeneration
CHECK_DEADLOCK FALSE
