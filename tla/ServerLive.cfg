\* Two children, two clients and fair processes; main may be signalled.
CONSTANTS
  c1 = c1  c2 = c2
  Conns = {c1, c2}
  w1 = w1  w2 = w2
  Workers = {w1, w2}
  Main = Main
  NoPid = NoPid
  NoConn = NoConn
  LISTEN_NUM = 1
  ReqLen = 1
  ChanCap = 1
  Faults = {"signal"}
  NPROC_MAX_NUM = 2
  MAX_FD_NUM = 2
  MainFdRoom = 3
  READ_COUNT = 1
  MaxNleft = 2
  EPOLLEVENTS = 3
  ChildFdRoom = 3
  Target <- AllPages
SPECIFICATION FairSpec
PROPERTIES OrphansExit BacklogDelivered
CHECK_DEADLOCK FALSE
