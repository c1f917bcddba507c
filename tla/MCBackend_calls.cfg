CONSTANTS
  g1 = g1
  s1 = s1
  NoTask = NoTask
  Unary <- OneUnary
  Streaming <- OneStreaming
  Lifetime = 2
  MaxTokens = 4
  Faults <- RequestFaults
  c1 = c1
  c2 = c2
  c3 = c3
  Nobody = Nobody
  Callbacks <- ThreeCallbacks
  MaxStarts = 2
  Throwing <- AnyThrows
SPECIFICATION BackendSpec
INVARIANTS OneRequest BurstBounded NoOverlap
PROPERTIES EveryCallEnds StoppedFallsQuiet KeepsExecuting
CHECK_DEADLOCK FALSE
