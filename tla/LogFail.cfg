SPECIFICATION FairSpec
CONSTANTS
  Kinds = {"write", "fua"}
  RingSize = 3
  MaxRec = 2
  MaxPackPb = 0
  IoBulk = 2
  PackBulk = 2
  FlushIntervalPb = 2
  ErrorBeforeOverflow = FALSE
  MaxBio = 2
  MaxOldest = 0
  MaxIoFail = 1
  MaxFlushFail = 1
  MaxNoMem = 1
INVARIANT AnsweredPrefix
PROPERTIES LsidsMonotone EveryBioAnswered EveryPackCollected
CHECK_DEADLOCK FALSE
