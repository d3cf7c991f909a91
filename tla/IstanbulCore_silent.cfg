SPECIFICATION FairSpec
CONSTANTS
  Validators <- Three
  Index <- ThreeIndex
  NoAddress = NoAddress
  Nodes = {"v0", "v1"}
  Restartable = {}
  Block = {"B"}
  Genesis = "G"
  NoBlock = NoBlock
  Number <- BlockNumber
  Parent <- BlockParent
  Author <- BlockAuthor
  ValidBlock = {"B"}
  BadBlock = {}
  FutureBlock = {}
  EnvMessage <- ThirdValidator
  Evicts = FALSE
  MaxRound = 1
  MaxHeight = 1
PROPERTIES RoundCompletes
CHECK_DEADLOCK FALSE
