\* A line read back from a file it was never synced to.
SPECIFICATION Spec
CONSTANTS
  Events = {e1}
  Clients = {c1}
  Servers = {s1}
  Nobody = Nobody
  Stale = Stale
  Faults = {"kill", "power"}
  Backlog = 1
  MaxDelta = 1
  MaxCount = 1
INVARIANTS
  ToldSurvives
