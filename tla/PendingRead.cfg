SPECIFICATION Spec
CONSTANTS
  NSectors = 4
  WriteIos <- Inside
  ReadIos <- Reads
  Chunk = 0
  MaxWrites = 2
INVARIANT ReadFresh
CHECK_DEADLOCK FALSE
