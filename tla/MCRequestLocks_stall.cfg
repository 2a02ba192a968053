\* Two request threads of one process, as the concurrency test runs them.
\* A stalled process takes no further step.
SPECIFICATION FairSpec
CONSTANTS
  t1 = t1
  t2 = t2
  t3 = t3
  i1 = i1
  i2 = i2
  Threads = {t1, t2}
  Instances = {i1}
  Inst <- OneProcess
  MaxInFlight = 2
  Nobody = Nobody
PROPERTIES
  EveryRequestEnds
CHECK_DEADLOCK FALSE
