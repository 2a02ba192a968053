\* One approval-bound job, two instances: replayed completions, grants replaced
\* after expiry, crashes, lost anchor answers, clocks that disagree.
SPECIFICATION Spec
CONSTANTS
  r1 = r1
  r2 = r2
  i1 = i1
  i2 = i2
  Jobs = {j1}
  Bound = {j1}
  Requests = {r1, r2}
  Instances = {i1, i2}
  Inst <- Replicas
  Modes = {"routed"}
  Tokens = {k1, k2}
  NoToken = NoToken
  Nobody = Nobody
  Times = {1, 2}
  HandoffTTL = 2
  ApprovalTTL = 1
  MaxPending = 1
  MaxRecords = 5
SYMMETRY TokenSymmetry
INVARIANTS
  TypeOK
  IInv
  EffectEvidence
  StoresSound
PROPERTIES
  OrphanNeverRuns
  ImplementsLifecycle
