\* Requests of up to two header lines, in pieces of any length.
CONSTANTS
  RequestLines <- SomeRequestLines
  HeaderLines <- SomeHeaderLines
  Bodies <- SomeBodies
  BUFSIZE = 26
  maxlen = 9
  MaxHeaders = 2
  MaxHeap = 2
SPECIFICATION Spec
INVARIANTS TypeOK ParsedRight CrashIsIllFormed NheadFits LinesAsSent
CHECK_DEADLOCK FALSE
