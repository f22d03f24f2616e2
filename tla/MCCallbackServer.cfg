SPECIFICATION Spec
CONSTANTS
  owner = owner
  n1 = n1
  n2 = n2
  k1 = k1
  k2 = k2
  NoCallback = NoCallback
  Callers <- MCCallers
  Calls <- MCCalls
  Callbacks <- MCCallbacks
  Ports <- MCPorts
  MaxStarts = 2
SYMMETRY Symmetry
INVARIANTS
  TypeOK
  NeverAborts
  HandlersUseLiveService
  CallbackInEffect
  RunningMeansServing
  QuietWhenStopped
  EndpointIsBound
  StartedMeansServing
