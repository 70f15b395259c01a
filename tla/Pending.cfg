SPECIFICATION Spec
CONSTANTS
  NSectors = 4
  WriteIos <- Nested
  ReadIos <- Reads
  Chunk = 3
  MaxWrites = 3
INVARIANTS ReadFresh PendingExact
CHECK_DEADLOCK FALSE
