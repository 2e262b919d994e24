SPECIFICATION ObserverSpec
CONSTANTS
  MaxFrame = 4
  MaxChunk = 3
  MaxText = 9
  Backends <- MCBackends
INVARIANTS
  EventsIndependentOfChunks
  MetricsAreTrue
CHECK_DEADLOCK FALSE
