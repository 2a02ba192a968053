\* Two approval-bound jobs and two without; times 1 and 3, before and after expiry.
SPECIFICATION Spec
CONSTANTS
  r1 = r1
  r2 = r2
  i1 = i1
  b1 = b1
  b2 = b2
  p1 = p1
  p2 = p2
  Jobs = {b1, b2, p1, p2}
  Bound = {b1, b2}
  Requests = {r1, r2}
  Instances = {i1}
  Inst <- OneInstance
  Modes = {"routed", "unrouted"}
  Tokens = {k1}
  NoToken = NoToken
  Nobody = Nobody
  Times = {1, 3}
  HandoffTTL = 2
  ApprovalTTL = 1
  MaxPending = 1
  MaxRecords = 5
CONSTRAINT JobMix
SYMMETRY Symmetry
INVARIANTS
  HistorySound
  Evidence
  SlotsBounded
