\* One transfer, nothing fails.
CONSTANTS
  c1 = c1
  c2 = c2
  Conns = {c1, c2}
  Family = "cut"
  Cases <- AllCases
  Credit = 2
  MaxRetries = 1
  MIN_CHUNK_BYTES = 1
  MaxFaults = 0
  MaxAxis = 16
  Word = 1024
SPECIFICATION Spec
INVARIANT
  AnyCutServed
CHECK_DEADLOCK FALSE
