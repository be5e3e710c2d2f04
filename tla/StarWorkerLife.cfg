SPECIFICATION Spec
CONSTANTS
  NLayers = 3
  LayerBytes = 1
  EmbedBytes = 1
  OverheadBytes = 1
  Err = Err
  None = None
  r1 = r1
  r2 = r2
  Override = None
  Caps <- SortedCaps
  Requests = {r1}
  MaxPos = 3
  PromptLens <- MCPromptLens
  ChannelCap = 1
  TokenLimits = {0, 3}
INVARIANTS
  WorkerOutlivesRequests
CHECK_DEADLOCK FALSE
