SPECIFICATION Spec
CONSTANTS
  Functions = {"NavigationTo"}
  MaxCalls = 1
INVARIANT IncompleteNeverSent
CHECK_DEADLOCK FALSE
