SPECIFICATION Spec
CONSTANTS
  p1 = p1  s1 = s1  s2 = s2
  Principals = {p1}
  Streams = {s1, s2}
  Owner <- MCTwoTabs
  MaxPending = 2
  Interval = 2
  MaxEvents = 4
  MaxTime = 4
SYMMETRY MCTabs
INVARIANTS LossIsExact SlowReaderIsBounded StreamsAreTended SessionOutlivesStream
