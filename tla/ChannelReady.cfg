SPECIFICATION Spec
CONSTANTS
  Poll = 2
  Timeouts = {0, 1, 2, 3, 5}
INVARIANTS
  TypeOK
  FailsOnlyAtDeadline
  OvershootBounded
  SuccessIsRecent
  MissIsRecent
PROPERTIES
  Returns
CHECK_DEADLOCK FALSE
