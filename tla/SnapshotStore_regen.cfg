CONSTANTS
  Writers = {w1}
  Readers = {}
  Isolated = TRUE
  CheckpointInterval = 2
  Epoch = 8
  CacheSize = 2
  MaxHeight = 5
  MaxRewinds = 1
  MaxRestarts = 0
SPECIFICATION Spec
INVARIANTS RegenRestores
CHECK_DEADLOCK FALSE
