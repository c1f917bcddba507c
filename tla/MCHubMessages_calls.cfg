CONSTANTS
  MaxLives = 2
  MaxItems = 1
  MaxCalls = 2
  MaxAsks = 2
  MaxMethods = 2
  Setups <- MessageSetups
  MaxEncodeDepth = 100
  MaxLengthPerKey = 1
  Batches <- All
SPECIFICATION ClientSpec
CHECK_DEADLOCK FALSE
INVARIANTS ClientTypeOK CallbacksArePending StreamsInOrder ReadsWhatWasSent
PROPERTIES ImplementsRemoteCalls EverythingSettles
