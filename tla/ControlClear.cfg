SPECIFICATION Spec
CONSTANTS
  Threads = {t1}
  Ops = {"take_checkpoint", "set_interval", "resize", "clear_log", "freeze", "freeze_timeout", "melt"}
  MaxIoctl = 3
  MaxLsid = 2
  MaxFail = 1
INVARIANTS SuperBlockAgrees
CHECK_DEADLOCK FALSE
