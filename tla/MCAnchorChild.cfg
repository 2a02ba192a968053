\* A state file over two lives of the service; three starts of a server and two of
\* the operator's command.
SPECIFICATION FilesSpec
CONSTANTS
  Events = {e1, e2}
  MaxDelta = 1
  Threads = {t1, t2}
  None = None
  Durable = TRUE
  MaxCount = 2
  MaxLives = 2
  MaxExchanges = 3
  Servers = {s1, s2, s3}
  Askers = {a1, a2}
  Keys = {k1, k2}
  Nothing = Nothing
INVARIANTS
  OwnAnswer
  StateKept
  OneIdentity
CHECK_DEADLOCK FALSE
SYMMETRY FilesSymmetry
