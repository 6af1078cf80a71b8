CONSTANTS
  A = A
  B = B
  C = C
  NoOne = NoOne
  Transfers = {A, B, C}
  NumChunks <- ThreeCalls
  NumSlots = 2
  Credit = 2
  MaxRetries = 0
  Pieces = 1
SPECIFICATION Spec
INVARIANTS
  CleanSlot
PROPERTIES
  KeepsPromise
CHECK_DEADLOCK FALSE
