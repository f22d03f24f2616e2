SPECIFICATION FairSpec
CONSTANTS
  owner = owner
  n1 = n1
  n2 = n2
  k1 = k1
  k2 = k2
  NoCallback = NoCallback
  Callers <- MCCallers
  Calls <- MCOneCall
  Callbacks <- MCCallbacks
  Ports <- MCOnePort
  MaxStarts = 2
PROPERTIES
  CallsReturn
  PushesAreAnswered
  ImplementsService
