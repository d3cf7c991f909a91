SPECIFICATION Spec
CONSTANTS
  Accounts = {"a", "b"}
  Tx <- SomeTx
  Batches <- SomeBatches
  Heads <- SomeHeads
  Genesis <- GenesisHead
  ExecSlotsAccount = 1
  ExecSlotsAll = 3
  NonExecSlotsAccount = 2
  NonExecSlotsAll = 2
  FullValidationLimit = 1
  FeedSize = 1
  HeadSize = 1
  KeepLocals = TRUE
  UnitPrices = {2}
  MaxFaults = 1
INVARIANTS Consistent Executable Limited
PROPERTIES LocalsKept 
