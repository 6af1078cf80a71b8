\* Two connections, one fault.
CONSTANTS
  c1 = c1
  c2 = c2
  Conns = {c1, c2}
  Family = "mixed"
  Cases <- AllCases
  Credit = 2
  MaxRetries = 2
  MIN_CHUNK_BYTES = 1
  MaxFaults = 2
  MaxAxis = 16
  Word = 1024
SPECIFICATION Spec
INVARIANTS
  ClaimsMatch
  LandsInPlace
  Understood
  BlocksFollowRows
  BackInStep
PROPERTIES
  Delivers
CHECK_DEADLOCK FALSE
