SPECIFICATION InputFairSpec
CONSTANTS
  Borders = {0, 1, 3, 4, 6}
  ChunkBytes = 4
  MinChunk = 2
  MaxQueued = 5
  BusyRetries = 1
  MaxResets = 2
INVARIANTS
  InTypedOrder
  NothingDropped
PROPERTIES
  KeysLeave
CHECK_DEADLOCK FALSE
