CONSTANTS
  Writers = {w1, w2}
  Readers = {r1}
  Isolated = TRUE
  CheckpointInterval = 2
  Epoch = 4
  CacheSize = 2
  MaxHeight = 4
  MaxRewinds = 1
  MaxRestarts = 1
SYMMETRY Symmetry
SPECIFICATION Spec
INVARIANTS TypeOK SnapshotsFaithful InsertedHandled
CHECK_DEADLOCK FALSE
