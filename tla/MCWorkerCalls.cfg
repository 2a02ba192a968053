SPECIFICATION CallsSpec
CONSTANTS
  Forbidden = {"process", "file", "tcp"}
  Pieces = 2
  MaxPieces = 2
  OwnKinds = {"ok"}
  MaxTries = 2
  None = None
  t1 = t1
  t2 = t2
  coreA = coreA
  i1 = i1
  i2 = i2
INVARIANTS
  Confined
  RunClean
  PassJustified
  TargetsSafe
PROPERTIES
  CallersReturn
CHECK_DEADLOCK FALSE
