SPECIFICATION FairSpec
CONSTANTS
  p1 = p1  p2 = p2
  a1 = a1  a2 = a2  b1 = b1
  Principals <- MCPrincipals
  Requests <- MCRequests
  Owner <- MCOwner
  ConcurrencyLimit = 1
  MaxQueued = 1
  MaxQueuedPerPrincipal = 1
  ArrivingKinds = {"generation", "discovery", "routing_rejection"}
  Answers = {"empty", "error", "body"}
INVARIANTS TypeOK EventsTellAStory NothingLeaks AbortReachesBackend
PROPERTIES BlameIsRight EveryRequestEnds
