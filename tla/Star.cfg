SPECIFICATION FairSpec
CONSTANTS
  NLayers = 2
  LayerBytes = 1
  EmbedBytes = 1
  OverheadBytes = 1
  Err = Err
  None = None
  r1 = r1
  r2 = r2
  Override = None
  Caps <- SortedCaps
  Requests = {r1, r2}
  MaxPos = 2
  PromptLens <- MCPromptLens
  ChannelCap = 1
  TokenLimits = {2}
INVARIANTS
  TypeOK
  CacheInStep
  WholePass
PROPERTIES
  ImplementsGeneration
  EverySessionEnds
CHECK_DEADLOCK FALSE
