SPECIFICATION Spec
CONSTANTS
  MaxReq = 2
  Nothing = Nothing
CHECK_DEADLOCK FALSE
INVARIANTS PendingExact SentInSync
PROPERTIES Implements StuckOnlyByLift
