\* Three children, two replacements, four calls of notice_child().
CONSTANTS
  NPROC_MAX_NUM = 3
  MAX_FD_NUM = 2
  NoPid <- Unused
  FirstPid = 5
  MaxPid = 9
  MaxNotices = 4
SPECIFICATION Spec
INVARIANTS TypeOK TableReliable Balanced
CHECK_DEADLOCK FALSE
