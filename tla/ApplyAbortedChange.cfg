SPECIFICATION Spec
CONSTANTS
  p1 = p1
  p2 = p2
  u1 = u1
  u2 = u2
  Proc <- OneProc
  User <- OneUser
  NTag = 1
  BadKeys = {}
  NoProc = NoProc
  NoConfig = NoConfig
  Faults = {"abort"}
  MaxFaults = 1
  MaxOps = 3
  MaxUuid = 1
  MaxKeys = 2
SYMMETRY ProcAndUserSymmetry
INVARIANTS
  OkMeansLive
CHECK_DEADLOCK FALSE
