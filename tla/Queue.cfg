SPECIFICATION Spec
CONSTANTS
  Lens = {3}
  DiscardLens = {4}
  NIoBulk = 2
  MaxPending = 3
  MinPending = 2
  Timeouts = TRUE
  Freezes = TRUE
  MaxWrites = 2
  MaxFaults = 1
INVARIANTS PendingExact FrozenQuiet FifoOrder
PROPERTIES QueueDrains FreezeReturns
