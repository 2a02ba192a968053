SPECIFICATION StreamsSpec
CONSTANTS
  None = None
  Body = Body
  Nobody = Nobody
  p1 = p1
  p2 = p2
  n1 = n1
  n2 = n2
  c1 = c1
  c2 = c2
  c3 = c3
  s1 = s1
  Clients <- AllClients
  Subjects <- AllSubjects
  Requests <- AllRequests
  Procs <- AllProcs
  Pids <- AllPids
  Limit = 2
  MaxBytes = 5
  MaxQueued = 2
  MaxRights = 1
  MaxSlots = 2
  MaxInFlight = 1
  Rate = 1
  Cost = 2
  Burst = 3
  MaxClock = 3
  MaxRequests = 3
INVARIANTS
  StreamAuthentic
  LostOnlyByHead
  WithinBudget
  SlotsConserved
CHECK_DEADLOCK FALSE
SYMMETRY Symmetry
