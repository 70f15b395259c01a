SPECIFICATION FairSpec
CONSTANTS
  Threads = {t1, t2}
  Ops = {"take_checkpoint", "set_interval", "resize", "freeze", "freeze_timeout", "melt"}
  MaxIoctl = 3
  MaxLsid = 1
  MaxFail = 0
INVARIANTS CheckpointSurvives FrozenAgrees
PROPERTIES EveryIoctlReturns TimeoutMelts
CHECK_DEADLOCK FALSE
