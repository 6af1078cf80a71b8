\* Two threads, small stores of every format.
CONSTANTS
  t1 = t1
  t2 = t2
  Threads = {t1, t2}
  Files <- AllFiles
  Word = 1024
  MAX_CHUNKS = 8
  PERIOD_MULTIPLE = 4
  MAX_ATTR_BYTES = 32
  WireMax = 9
  Nesting = 3
SPECIFICATION Spec
SYMMETRY ThreadSymmetry
INVARIANTS
  TypeOK
  ReadsArray
  OneKeyPerArray
  IndexBeforeReads
  ListsServed
PROPERTY FailsForAReason
