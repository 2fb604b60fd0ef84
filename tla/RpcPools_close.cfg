SPECIFICATION Spec
CONSTANTS
  p1 = p1
  p2 = p2
  a1 = a1
  a2 = a2
  Pools = {1,2}
  NoPool = NoPool
  Addrs = {a1}
  AnyAddr = AnyAddr
  First <- MCNone
  FirstAddr <- MCNone
  Callers = {p1,p2}
  NoOne = NoOne
  Closer = Closer
  RetryTimes = 1
  MaxOps = 1
CHECK_DEADLOCK FALSE
PROPERTIES CloseReturns
