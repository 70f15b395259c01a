SPECIFICATION Spec
CONSTANTS
  MaxKey = 3
  Vals = {v1, v2}
  InvalidVal = InvalidVal
INVARIANTS CursorValid PoolExact
PROPERTY ImplementsMultimap
