SPECIFICATION FairSpec
CONSTANTS
  App = App
  n1 = n1
  n2 = n2
  k1 = k1
  NoCallback = NoCallback
  Calls <- MCCalls
  Callbacks <- MCCallbacks
  Ports <- MCPorts
  MaxSessions = 2
  StopFirst = TRUE
  CallbacksStop = TRUE
INVARIANTS
  TypeOK
  EndpointReaches
  
  CallbacksUseLiveClient
PROPERTIES
  StopEnds
  CallbacksDoNotBlockOthers
  ReentrantStopIsFinal
CHECK_DEADLOCK FALSE
