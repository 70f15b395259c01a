SPECIFICATION FairSpec
CONSTANTS
  MaxPos = 3
  MaxLen = 2
  MaxBiow = 3
  IoBulk = 2
  MaxNoMem = 1
PROPERTIES ImplementsSerial EveryWriteDone
INVARIANTS
  TypeOK
  OverlappedInOrder
  SubmittedWaitsForNobody
  NOverlappedExact
CHECK_DEADLOCK FALSE
