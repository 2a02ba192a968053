\* Two Cores, a crash or a change of the host twice.
SPECIFICATION HostSpec
CONSTANTS
  i1 = i1  i2 = i2  t1 = t1  t2 = t2  coreA = coreA  coreB = coreB
  Threads = {t1, t2}
  CoreOf <- MCTwoCores
  Inodes = {i1, i2}
  Outcomes = {text}
  None = None
  MaxConnections = 3
  MaxFaults = 2
INVARIANTS
  OneDispatcher
  PayloadSafe
  WalkSound
  FilterVerdict
CHECK_DEADLOCK FALSE
SYMMETRY MCSymmetry
