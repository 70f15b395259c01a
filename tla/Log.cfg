SPECIFICATION Spec
CONSTANTS
  Kinds = {"write", "flush", "preflush", "fua", "preflush_fua", "discard"}
  RingSize = 3
  MaxRec = 2
  MaxPackPb = 0
  IoBulk = 2
  PackBulk = 2
  FlushIntervalPb = 2
  ErrorBeforeOverflow = TRUE
  MaxBio = 2
  MaxOldest = 2
  MaxIoFail = 0
  MaxFlushFail = 0
  MaxNoMem = 0
INVARIANTS LsidOrder WriteAheadLog FuaDurable
CHECK_DEADLOCK FALSE
