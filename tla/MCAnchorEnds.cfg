\* Only ordinary stops for the served anchor.
SPECIFICATION FormsSpec
CONSTANTS
  Events = {e1}
  Clients = {c1, c2}
  Servers = {s1}
  Nobody = Nobody
  Stale = Stale
  Faults = {}
  Backlog = 2
  MaxDelta = 1
  MaxCount = 2
  Threads = {t1, t2}
  None = None
INVARIANTS
  Restartable
PROPERTIES
  NoSilentReset
  AnchorServes
CHECK_DEADLOCK FALSE
