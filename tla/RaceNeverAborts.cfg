SPECIFICATION Spec
CONSTANTS
  c1 = c1
  c2 = c2
  n1 = n1
  k1 = k1
  k2 = k2
  NoCallback = NoCallback
  Callers <- MCCallers
  Calls <- MCCalls
  Callbacks <- MCCallbacks
  Ports <- MCPorts
  MaxStarts = 2
SYMMETRY Symmetry
INVARIANT NeverAborts
