SPECIFICATION Safety
CONSTANTS
  p1 = p1
  p2 = p2
  p3 = p3
  NoClient = NoClient
  Clients = {1,2,3,4,5}
  FirstClients <- MCFirst2
  Callers = {p1,p2}
  InitCap = 1
  MaxCap = 2
  MinGetMax = 100
  ChCap = 1
  ReqAge = 1
  IdleAge = 2
  MaxAge = 2
  DialMayFail = TRUE
  CloseMayFail = TRUE
  MaxGets = 2
  MaxTicks = 1
SYMMETRY MCSymmetry
VIEW MCView
INVARIANTS TypeOK SlotsApart SlotsRegistered RefCoversHolders ClosedForGood
PROPERTIES StrandedByDrop
