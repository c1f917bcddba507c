CONSTANTS
  g1 = g1
  s1 = s1
  NoTask = NoTask
  Unary <- OneUnary
  Streaming <- NoCalls
  Lifetime = 3
  MaxTokens = 2
  Faults <- NoFaults
SPECIFICATION Spec
INVARIANT RetryRefreshes
CHECK_DEADLOCK FALSE
