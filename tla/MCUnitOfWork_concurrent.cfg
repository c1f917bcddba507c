CONSTANTS
  r1 = r1
  r2 = r2
  c1 = c1
  c2 = c2
  NoFlow = NoFlow
  Flows <- FlowsTwoRequests
  Roots <- TwoRequests
  MaxUow = 3
  MaxScopes = 1
  Options <- BothBranches
  Concurrent = TRUE
  Faults <- AllFaults
SPECIFICATION Spec
CHECK_DEADLOCK FALSE
INVARIANT RequestsIsolated
