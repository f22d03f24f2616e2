SPECIFICATION Spec
CONSTANTS
  a1 = a1
  a2 = a2
  r1 = r1
  r2 = r2
  Apps <- MCOneApp
  Requests <- MCOneRequest
  Endings = {"OK"}
  Owners = {"shared"}
  Exclusive = FALSE
  MaxConnects = 1
INVARIANT CallsUseLiveStub
CHECK_DEADLOCK FALSE
