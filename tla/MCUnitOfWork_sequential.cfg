CONSTANTS
  r1 = r1
  r2 = r2
  c1 = c1
  c2 = c2
  NoFlow = NoFlow
  Flows <- FlowsOneRequest
  Roots <- OneRequest
  MaxUow = 3
  MaxScopes = 2
  Options <- BothBranches
  Concurrent = FALSE
  Faults <- AllFaults
SPECIFICATION Spec
CHECK_DEADLOCK FALSE
INVARIANTS CurrentIsActive NothingLeftUndisposed
PROPERTY ImplementsAmbientScopes
