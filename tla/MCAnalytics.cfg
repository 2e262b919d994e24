SPECIFICATION FairSpec
CONSTANTS
  q1 = q1
  q2 = q2
  Requests <- MCRequests
  Hours <- MCHours
  MaxPendingEntries = 3
  MaxCounts = 4
INVARIANTS
  NothingMiscounted
  TimerWhilePending
  BooksBalance
PROPERTY
  EventuallyFlushed
CHECK_DEADLOCK FALSE
