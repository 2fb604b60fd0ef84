SPECIFICATION Spec
CONSTANTS
  p1 = p1
  p2 = p2
  a1 = a1
  a2 = a2
  Pools = {1,2}
  NoPool = NoPool
  Addrs = {a1,a2}
  AnyAddr = AnyAddr
  First <- MCFirst
  FirstAddr <- MCFirstAddr
  Callers = {p1,p2}
  NoOne = NoOne
  Closer = Closer
  RetryTimes = 2
  MaxOps = 2
CHECK_DEADLOCK FALSE
INVARIANTS PoolsAgree OpenListed CallsExact ClosedForGood
PROPERTIES CallsReturn UnusedLeave
