SPECIFICATION Spec
CONSTANTS
  Validators <- Two
  Index <- TwoIndex
  NoAddress = NoAddress
  Nodes = {"v0", "v1"}
  Restartable = {}
  Block = {"A", "B"}
  Genesis = "G"
  NoBlock = NoBlock
  Number <- BlockNumber
  Parent <- BlockParent
  Author <- BlockAuthor
  ValidBlock = {"A", "B"}
  BadBlock = {}
  FutureBlock = {}
  EnvMessage = {}
  Evicts = FALSE
  MaxRound = 1
  MaxHeight = 1
INVARIANTS TypeOK Agreement OnlyProposerProposes TimerPending
PROPERTIES ImplementsVoting
CHECK_DEADLOCK FALSE
