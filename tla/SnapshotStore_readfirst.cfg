CONSTANTS
  Writers = {w1}
  Readers = {r1}
  Isolated = FALSE
  CheckpointInterval = 2
  Epoch = 4
  CacheSize = 2
  MaxHeight = 3
  MaxRewinds = 0
  MaxRestarts = 0
SPECIFICATION Spec
INVARIANTS InsertedHandled
CHECK_DEADLOCK FALSE
