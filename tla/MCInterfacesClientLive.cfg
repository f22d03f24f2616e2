SPECIFICATION FairSpec
CONSTANTS
  a1 = a1
  a2 = a2
  r1 = r1
  r2 = r2
  Apps <- MCOneApp
  Requests <- MCRequests
  Endings = {"OK", "UNAVAILABLE"}
  Owners = {"shared", "unique"}
  Exclusive = TRUE
  MaxConnects = 1
PROPERTIES
  ImplementsQuery
  CallsReturn
CHECK_DEADLOCK FALSE
