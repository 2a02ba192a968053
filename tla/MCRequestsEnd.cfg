\* Two processes: one with two request threads, one with a single thread.
SPECIFICATION AllSpec
CONSTANTS
  t1 = t1
  t2 = t2
  t3 = t3
  i1 = i1
  i2 = i2
  r1 = r1
  r2 = r2
  j1 = j1
  k1 = k1
  c1 = c1
  c2 = c2
  s1 = s1
  bob = bob
  op = op
  Body = Body
  None = None
  Threads = {t1, t2, t3}
  Instances = {i1, i2}
  Inst <- WithReplica
  MaxInFlight = 2
  Nobody = Nobody
  NoToken = NoToken
INVARIANTS
  LocksSound
PROPERTIES
  ReplicaUnaffected
  RequestEnds
CHECK_DEADLOCK FALSE
