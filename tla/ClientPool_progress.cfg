SPECIFICATION Spec
CONSTANTS
  p1 = p1
  p2 = p2
  p3 = p3
  NoClient = NoClient
  Clients = {1,2,3,4}
  FirstClients <- MCFirst1
  Callers = {p1,p2}
  InitCap = 1
  MaxCap = 1
  MinGetMax = 0
  ChCap = 1
  ReqAge = 1
  IdleAge = 1
  MaxAge = 1
  DialMayFail = FALSE
  CloseMayFail = FALSE
  MaxGets = 2
  MaxTicks = 1
INVARIANTS RecycleBounded RefExact
PROPERTIES CallersLeave CloseReturns RetiredLeave
