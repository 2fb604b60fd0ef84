SPECIFICATION Safety
CONSTANTS
  MaxReq = 2
  Nothing = Nothing
CHECK_DEADLOCK FALSE
INVARIANTS ReadInSync
