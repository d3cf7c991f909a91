SPECIFICATION Spec
CONSTANTS
  Validators <- Four
  Index <- FourIndex
  NoAddress = NoAddress
  Nodes = {"v1"}
  Restartable = {"v1"}
  Block = {"A", "C"}
  Genesis = "G"
  NoBlock = NoBlock
  Number <- BlockNumber
  Parent <- BlockParent
  Author <- BlockAuthor
  ValidBlock = {"A", "C"}
  BadBlock = {}
  FutureBlock = {"A"}
  EnvMessage <- RestartMessages
  Evicts = TRUE
  MaxRound = 0
  MaxHeight = 2
INVARIANTS BacklogReleased SealsMatchDigests TimerPending
CHECK_DEADLOCK FALSE
