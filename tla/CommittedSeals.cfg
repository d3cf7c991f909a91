SPECIFICATION Spec
CONSTANTS
  Validators <- Addresses
  Index <- AddressIndex
  NoAddress = NoAddress
  SubGroupSize = 4
  Outsider = Outsider
  Malformed = Malformed
  MaxSeals = 4
INVARIANTS AcceptedBySigners CommittedIsAccepted
CHECK_DEADLOCK FALSE
