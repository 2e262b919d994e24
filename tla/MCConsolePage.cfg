SPECIFICATION FairPageSpec
CONSTANTS
  p1 = p1
  Principals = {p1}
  Streams = {1, 2}
  Owner <- MCOwner
  MaxPending = 2
  Interval = 1
  MaxEvents = 3
  MaxTime = 2
  Emitted <- MCEmitted
  MaxLines = 2
  Lifetimes = {2}
INVARIANTS LinesAreExact SourcesAreTended
PROPERTIES EventsAreSeen
CHECK_DEADLOCK FALSE
