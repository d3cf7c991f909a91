SPECIFICATION Spec
CONSTANTS
  Handlers = {h1, h2}
  BlockChannelSize = 1
  JobChannelSize = 1
  Ranges <- OneRange
  FirstHead = 1
  MaxHead = 2
  MaxCalls = 2
  MaxFaults = 1
INVARIANTS TypeOK CheckpointSound 
  
CHECK_DEADLOCK FALSE
