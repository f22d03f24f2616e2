SPECIFICATION Spec
CONSTANTS
  a1 = a1
  a2 = a2
  r1 = r1
  r2 = r2
  Apps <- MCApps
  Requests <- MCRequests
  Endings = {"OK", "CANCELLED", "UNAVAILABLE"}
  Owners = {"shared"}
  Exclusive = TRUE
  MaxConnects = 2
SYMMETRY Symmetry
INVARIANTS
  TypeOK
  CallsUseLiveStub
  ClientOutlivesUse
  ConnectedIsUsable
  StatusTellsOutcome
  QueryKeepsItsConnection
CHECK_DEADLOCK FALSE
