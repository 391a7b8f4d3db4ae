\* Two children, two clients, every failure except sendmsg(): what main accepts
\* is delivered in order, once, whole, and never lost.
CONSTANTS
  c1 = c1  c2 = c2
  Conns = {c1, c2}
  w1 = w1  w2 = w2
  Workers = {w1, w2}
  Main = Main
  NoPid = NoPid
  NoConn = NoConn
  LISTEN_NUM = 2
  ReqLen = 3
  ChanCap = 2
  Faults = {"fork", "listen", "accept", "recvmsg", "signal"}
  NPROC_MAX_NUM = 2
  MAX_FD_NUM = 2
  MainFdRoom = 2
  READ_COUNT = 2
  MaxNleft = 3
  EPOLLEVENTS = 2
  ChildFdRoom = 2
  Target <- AllPages
SPECIFICATION Spec
SYMMETRY BothSymmetry
INVARIANTS TypeOK ServedOnce ChildHasRoom OnlyWholeRequests PoolHoldsEveryChild
PROPERTY ImplementsDelivery
CHECK_DEADLOCK FALSE
