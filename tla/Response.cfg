\* One response; the file may change twice.  Is it right, and does it end?
CONSTANTS
  PARTSIZE = 8
  Lengths <- RequestLengths
  BUFFER_SIZE = 2
  SockCap = 10
  Sizes <- FileSizes
  MaxChanges = 2
SPECIFICATION FairSpec
INVARIANTS TypeOK Received CrashesExplained
PROPERTY Finishes
CHECK_DEADLOCK FALSE
