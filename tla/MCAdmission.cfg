SPECIFICATION FairSpec
CONSTANTS
  p1 = p1  p2 = p2  p3 = p3
  a1 = a1  a2 = a2  a3 = a3  a4 = a4  b1 = b1  c1 = c1
  Principals <- MCPrincipals
  Requests <- MCRequests
  Owner <- MCOwner
  ConcurrencyLimit = 2
  MaxQueued = 3
  MaxQueuedPerPrincipal = 2
INVARIANTS BooksAgree WorkConserving
PROPERTIES RoundRobin ImplementsFairSlots NoStarvation
