CONSTANTS
  k1 = k1
  k2 = k2
  k3 = k3
  k4 = k4
  r1 = r1
  r2 = r2
  NoBuffer = NoBuffer
  NoKey = NoKey
  Readers = {r1, r2}
  Keys = {k1, k2, k3, k4}
  Size <- Sizes
  Capacity = 2
  MaxSpares = 1
  Buffers = {1, 2, 3, 4, 5, 6}
SPECIFICATION Spec
INVARIANTS
  TypeOK
  ChunksIntact
  BytesExact
SYMMETRY Symmetry
