\* One child, two clients, no failure: which socket is polled for the answer?
CONSTANTS
  c1 = c1  c2 = c2
  Conns = {c1, c2}
  w1 = w1  w2 = w2
  Workers = {w1}
  Main = Main
  NoPid = NoPid
  NoConn = NoConn
  LISTEN_NUM = 2
  ReqLen = 1
  ChanCap = 2
  Faults = {}
  NPROC_MAX_NUM = 1
  MAX_FD_NUM = 2
  MainFdRoom = 2
  READ_COUNT = 1
  MaxNleft = 2
  EPOLLEVENTS = 2
  ChildFdRoom = 3
  Target <- AllPages
SPECIFICATION Spec
INVARIANT PolledForItsOwnRequest
CHECK_DEADLOCK FALSE
