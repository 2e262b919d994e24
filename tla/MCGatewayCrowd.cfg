SPECIFICATION Spec
CONSTANTS
  p1 = p1  p2 = p2
  a1 = a1  a2 = a2  b1 = b1
  Principals <- MCPrincipals
  Requests <- MCRequests3
  Owner <- MCOwner3
  ConcurrencyLimit = 1
  MaxQueued = 2
  MaxQueuedPerPrincipal = 1
  ArrivingKinds = {"generation"}
  Answers = {"body"}
INVARIANTS WithinLimit
