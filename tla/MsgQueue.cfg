\* Two processes, one of which is started again.
CONSTANTS
  Procs = {p1, p2}
  Types = {1, 2}
  RcvTypes <- AskedTypes
  Used = {2, 3}
  QCap = 1
  MaxIds = 6
  MaxMsgs = 2
  MaxStarts = 3
SPECIFICATION FairSpec
INVARIANTS TypeOK QueuesShared MessagesKept PeekHolds AllOrNone
PROPERTY DestroyReleases
CHECK_DEADLOCK FALSE
