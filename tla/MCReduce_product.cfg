CONSTANTS
  Word = 16
  NaN = NaN
  Inputs <- Infinities
  Requests <- Products
  BLOCK_BYTES = 20
  MaxBytes = 24
SPECIFICATION ReduceSpec
INVARIANT
  ProductOfReals
