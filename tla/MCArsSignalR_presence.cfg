CONSTANTS
  c1 = c1
  c2 = c2
  web = web
  android = android
  s1 = s1
  s2 = s2
  NoClient = NoClient
  Clients <- TwoClients
  Terminals <- WebAndAndroid
  TerminalOf <- Mixed
  Sweeps <- TwoSweeps
  RefreshEvery = 3
  DisLine = 6
  SweepEvery = 2
  Slack = 1
  MaxPass = 2
  CacheTypes = {0, 1}
  Serial = TRUE
SPECIFICATION Spec
INVARIANTS TypeOK ConnectedAreOnline GoneAreForgotten GoneAreNoticed
CHECK_DEADLOCK FALSE
SYMMETRY SweepsAlike
