SPECIFICATION Spec
CONSTANTS
  Poll = 2
  Timeouts = {3}
INVARIANT ReadyWithinTimeoutIsReported
CHECK_DEADLOCK FALSE
