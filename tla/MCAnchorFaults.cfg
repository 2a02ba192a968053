\* Kills and failing disks; rival heads after a restored backup.
SPECIFICATION HostsSpec
CONSTANTS
  Events = {e1, e2}
  Clients = {c1}
  p1 = p1
  p2 = p2
  Servers = {s1}
  Nobody = Nobody
  Stale = Stale
  Faults = {"kill", "disk"}
  Backlog = 2
  MaxDelta = 1
  MaxCount = 2
SYMMETRY HostsSymmetry
INVARIANTS
  TypeOK
  StateFileRises
  ToldSurvives
  AnchorInv
  PowerInv
PROPERTIES
  ImplementsWitness
