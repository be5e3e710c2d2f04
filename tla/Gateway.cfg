SPECIFICATION FairSpec
CONSTANTS
  Requests = {r1, r2}
  Providers = {p1, p2}
  Models = {m, x}
  m = m
  x = x
  p1 = p1
  p2 = p2
  r1 = r1
  None = None
  Partial = Partial
  ErrorKinds = {}
  Statuses = {400, 503}
  Asks <- MCAsks
  Pipelines <- MCPipelines
  Rules <- MCRules
  MaxReloads = 1
  MaxTokens = 1
  MaxEvents = 2
  ActivityCap = 1
INVARIANTS
  TypeOK
  LoadExact
  AtMostOncePerProvider
  FailoverComplete
  RequestsAccounted
  TokensCredited
PROPERTIES
  EveryRequestAnswered
CHECK_DEADLOCK FALSE
