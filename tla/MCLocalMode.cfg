SPECIFICATION ScenarioSpec
CONSTANTS
  None = None
  t1 = t1
  t2 = t2
  j1 = j1
  j2 = j2
  j3 = j3
  bob = bob
  op = op
  Threads <- AllThreads
  Jobs <- AllJobs
  Subjects <- AllSubjects
  Bound <- AllBound
  Approvers <- AllApprovers
  MaxPending = 1
  MaxJobs = 2
  MaxAccepted = 1
  HandoffTtl = 2
  ApprovalTtl = 1
  MaxClock = 2
  MaxHandoffs = 3
  MaxGrants = 2
  MaxCompletes = 2
  MaxFailures = 1
INVARIANTS
  RunsOnEvidence
  QueueKept
CHECK_DEADLOCK FALSE
SYMMETRY Symmetry
