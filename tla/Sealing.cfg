SPECIFICATION Spec
CONSTANTS
  MaxTasks = 3
  MaxHeight = 1
  MaxStops = 1
  MaxPending = 1
INVARIANTS LoopsMatchSignals SupersededStopped SealedIsDecided ProposedByHolder
PROPERTIES  WorkerLockReleased
CHECK_DEADLOCK FALSE
