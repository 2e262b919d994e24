SPECIFICATION RepliesSpec
CONSTANTS
  Errors <- MCErrors
  MaxErrorBody = 3
  MaxText = 6
  MaxEvent = 6
INVARIANTS RepliesSpeakProtocol FailureIsSeen
CHECK_DEADLOCK FALSE
