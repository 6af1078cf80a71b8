CONSTANTS
  Word = 16
  NaN = NaN
  Inputs <- SmallInputs
  Requests <- SmallRequests
  BLOCK_BYTES = 20
  MaxBytes = 24
SPECIFICATION ReduceSpec
INVARIANTS
  OdometerInStep
  ReducesLikeNumpy
