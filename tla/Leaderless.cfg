SPECIFICATION FairSpec
CONSTANTS
  NLayers = 3
  LayerBytes = 1
  EmbedBytes = 1
  OverheadBytes = 1
  Err = Err
  None = None
  Caps <- MCCaps
  Override = None
  Ingress = {3}
  r1 = r1
  r2 = r2
  Requests = {r1, r2}
  MaxPos = 2
  PromptLens <- MCPromptLens
  TokenLimits = {2}
  MaxFaults = 1
INVARIANTS
  CacheInStep
  WholePass
PROPERTIES
  ImplementsGeneration
  EverySessionEnds
CHECK_DEADLOCK FALSE
