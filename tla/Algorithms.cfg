SPECIFICATION AlgorithmsSpec
CONSTANTS
  NLayers = 3
  LayerBytes = 1
  EmbedBytes = 1
  OverheadBytes = 1
  Err = Err
  MaxNodes = 3
  Mems = {1, 2, 4}
  Scores = {1, 3, 1700}
  MaxRanges = 2
  MaxBytes = 6
  MaxCuts = 2
INVARIANTS
  PlanOptimal
  AgreementOrderFree
  RingInLayerOrder
  EventsOfBody
  MergeAddsOnly
CHECK_DEADLOCK FALSE
