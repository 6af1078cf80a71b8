CONSTANTS
  A = A
  B = B
  C = C
  NoOne = NoOne
  Transfers = {A}
  NumChunks <- OneCall
  NumSlots = 2
  Credit = 2
  MaxRetries = 1
  Pieces = 2
SPECIFICATION Spec
INVARIANTS
  TypeOK
  ChunkAccounting
  NoInternalError
  WaitsForSomething
  OneChargePerFault
  WithinCredit
  FailureHasAReason
PROPERTIES
  KeepsPromise
CHECK_DEADLOCK FALSE
