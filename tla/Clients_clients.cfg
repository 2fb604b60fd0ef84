SPECIFICATION Spec
CONSTANTS
  p1 = p1
  p2 = p2
  Users <- MCUsers
  NoOne = NoOne
  Kinds <- MCKinds
  MaxClients = 3
  MaxOps = 4
  ChanCap = 1
INVARIANTS ClosedNotServed OneClientMade SequentialSafe
PROPERTIES OperationsEnd
CHECK_DEADLOCK FALSE
