SPECIFICATION Spec
CONSTANTS
  v0 = v0
  v1 = v1
  v2 = v2
  v3 = v3
  A = A
  B = B
  D = D
  Validators <- Four
  Index <- FourIndex
  NoAddress = NoAddress
  Correct = {v0, v1, v2}
  Block = {A, B, D}
  NoBlock = NoBlock
  Number <- HeightOne
  BadBlock = {D}
  MaxRound = 1
SYMMETRY Symmetry
INVARIANTS Agreement IInv
CHECK_DEADLOCK FALSE
