SPECIFICATION Spec
CONSTANTS
  MaxTurns = 2
  MaxDeltas = 3
  MaxChunk = 2
INVARIANTS
  TranscriptIsExact
  BusyWhileStreaming
  OnlyFailuresLeaveBodies
CHECK_DEADLOCK FALSE
