CONSTANTS
  s1 = s1
  s2 = s2
  w1 = w1
  w2 = w2
  c1 = c1
  c2 = c2
  NoSession = NoSession
  SessionIds = {s1}
  Workers = {w1}
  Conns = {c1}
  MaxSessions = 2
  MaxStreams = 1
  DefaultStreams = 2
  Desired = {0}
  IdleTimeout = 1
  MaxTransfers = 1
  Ttl = 1
  IdModulus = 4
  MaxPlans = 0
  MaxTime = 2
SPECIFICATION Spec
INVARIANTS
  CountsExactly
