SPECIFICATION Spec
CONSTANTS
  Kinds = {"write", "flush"}
  RingSize = 3
  MaxRec = 2
  MaxPackPb = 0
  IoBulk = 2
  PackBulk = 2
  FlushIntervalPb = 2
  ErrorBeforeOverflow = FALSE
  MaxBio = 3
  MaxOldest = 0
  MaxIoFail = 0
  MaxFlushFail = 0
  MaxNoMem = 0
INVARIANTS RingNotOverrun SuperBlockCovers FlushDurable LogContiguous
CHECK_DEADLOCK FALSE
