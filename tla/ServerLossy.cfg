\* Two children, one client, sendmsg() may fail: duplicated hand-overs, full
\* descriptor tables, requests split over two descriptors, any target.
CONSTANTS
  c1 = c1  c2 = c2
  Conns = {c1}
  w1 = w1  w2 = w2
  Workers = {w1, w2}
  Main = Main
  NoPid = NoPid
  NoConn = NoConn
  LISTEN_NUM = 2
  ReqLen = 2
  ChanCap = 2
  Faults = {"sendmsg"}
  NPROC_MAX_NUM = 2
  MAX_FD_NUM = 2
  MainFdRoom = 2
  READ_COUNT = 1
  MaxNleft = 2
  EPOLLEVENTS = 1
  ChildFdRoom = 2
  Target <- AllPages
SPECIFICATION Spec
SYMMETRY WorkerSymmetry
INVARIANTS NothingLost BytesReadOnce
CHECK_DEADLOCK FALSE
