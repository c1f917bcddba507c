CONSTANTS
  MaxStarts = 2
  MaxTransports = 6
  MaxStops = 2
  MaxRedirects = 2
  Setups <- AllSetups
SPECIFICATION FairSpec
CHECK_DEADLOCK FALSE
INVARIANTS TransportWhenConnected NoTransportForgotten
PROPERTIES ImplementsConnection EveryCallEnds
