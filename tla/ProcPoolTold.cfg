\* Three children and every operation of the table, cross_ok() among them.
CONSTANTS
  NPROC_MAX_NUM = 3
  MAX_FD_NUM = 2
  NoPid <- Unused
  FirstPid = 5
  MaxPid = 9
  MaxNotices = 4
SPECIFICATION Spec
INVARIANT Told
CHECK_DEADLOCK FALSE
