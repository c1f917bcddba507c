CONSTANTS
  MaxTasks = 3
  MaxStops = 2
  Retries = 2
  Setups <- PagesAndCaller
SPECIFICATION FairSpec
CHECK_DEADLOCK FALSE
INVARIANTS TypeOK ConnectedIsWatched NothingLeftOver
PROPERTIES StopDisconnects ImplementsLifecycle EverythingEnds
