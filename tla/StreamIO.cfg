\* A stream of five bytes, buffers of three and four, three failing calls.
CONSTANTS
  StreamLen = 5
  NewLines <- Lines
  sz = 3
  RIO_BUFSIZE = 4
  MaxErrors = 3
SPECIFICATION Spec
INVARIANTS TypeOK Conserved ReadsStop RioExact Write_sClaim
CHECK_DEADLOCK FALSE
