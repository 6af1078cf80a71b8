CONSTANTS
  s1 = s1
  t1 = t1
  SessionIds = {s1}
  Session = s1
  Callers = {t1}
  NumItems = 3
  MaxBatches = 2
  MaxPlans = 12
  MaxTime = 2
  MaxTransfers = 2
  Ttl = 1
  IdModulus = 14
  MaxSessions = 1
  MaxStreams = 1
  DefaultStreams = 1
  IdleTimeout = 1
SPECIFICATION Spec
INVARIANTS
  RightData
PROPERTIES
  BatchEnds
CHECK_DEADLOCK FALSE
