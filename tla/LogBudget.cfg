CONSTANTS
  LOGSIZE = 10
  NBUF = 10
  NDIRECT = 2
  NINDIRECT = 4
  BSIZE = 2
  BPB = 9
  MaxBlocks = 16
  First = {0}
SPECIFICATION Spec
INVARIANT WriteFitsInLog
CHECK_DEADLOCK FALSE
