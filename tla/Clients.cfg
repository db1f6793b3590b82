SPECIFICATION ClientsSpec
CONSTANTS
  NumProviders = 3
  NumTasks = 2
  Threshold = 2
  NumEndpoints = 2
  PageLimit = 2
  MaxLedger = 3
  MaxRestarts = 1
INVARIANTS
  FailuresBounded
  NoGapsBehindCursor
PROPERTIES
  EachProviderOnce
  RequestsReturn
  RpcCallsEnd
CHECK_DEADLOCK FALSE
