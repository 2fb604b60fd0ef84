SPECIFICATION GSafety
CONSTANTS
  p1 = p1
  p2 = p2
  a1 = a1
  a2 = a2
  Pools = {1,2,3}
  NoPool = NoPool
  Addrs = {a1,a2}
  AnyAddr = AnyAddr
  First <- MCFirst
  FirstAddr <- MCFirstAddr
  Callers = {p1,p2}
  NoOne = NoOne
  Closer = Closer
  RetryTimes = 2
  MaxOps = 2
  IndexSpan = 3
  LeastRoundMax = 20
CHECK_DEADLOCK FALSE
SYMMETRY MCSymmetry
VIEW MCView
INVARIANTS OnePoolPerAddr
PROPERTIES Safety PicksConnected
