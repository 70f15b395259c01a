SPECIFICATION FairSpec
CONSTANTS
  Pos = {p1}
  RingSize = 4
  MaxRec = 2
  InFlight = 2
  MaxWrite = 3
  MaxCrash = 2
  MaxFail = 1
INVARIANTS NothingLost NoResurrection LogIntact
PROPERTY RedoEnds
CHECK_DEADLOCK FALSE
