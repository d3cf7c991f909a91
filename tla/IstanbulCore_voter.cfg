SPECIFICATION Spec
CONSTANTS
  Validators <- Four
  Index <- FourIndex
  NoAddress = NoAddress
  Nodes = {"v2"}
  Restartable = {}
  Block = {"A", "B", "D"}
  Genesis = "G"
  NoBlock = NoBlock
  Number <- BlockNumber
  Parent <- BlockParent
  Author <- BlockAuthor
  ValidBlock = {"A", "B"}
  BadBlock = {"B"}
  FutureBlock = {}
  EnvMessage <- VoterMessages
  Evicts = TRUE
  MaxRound = 2
  MaxHeight = 1
INVARIANTS OneVotePerView  BacklogReleased TimerPending
PROPERTIES ViewsAdvance 
CHECK_DEADLOCK FALSE
