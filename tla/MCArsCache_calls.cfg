CONSTANTS
  g1 = g1
  g2 = g2
  g3 = g3
  p1 = p1
  p2 = p2
  k1 = k1
  k2 = k2
  NoKey = NoKey
  NoCaller = NoCaller
  Callers <- ThreeCallers
  Processes <- TwoProcesses
  ProcessOf <- InTwo
  Keys <- TwoKeys
  Unborn <- SecondKey
  IsReference = TRUE
  MaxVersion = 1
  MaxGone = 1
  FaultSets <- Troubles
SPECIFICATION FairSpec
CHECK_DEADLOCK FALSE
INVARIANTS LoadsBounded FindsOrMakes
PROPERTY EveryCallReturns
