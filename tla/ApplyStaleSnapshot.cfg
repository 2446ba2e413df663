SPECIFICATION Spec
CONSTANTS
  p1 = p1
  p2 = p2
  u1 = u1
  u2 = u2
  Proc <- TwoProcs
  User <- OneUser
  NTag = 1
  BadKeys = {}
  NoProc = NoProc
  NoConfig = NoConfig
  Faults = {}
  MaxFaults = 0
  MaxOps = 2
  MaxUuid = 1
  MaxKeys = 1
SYMMETRY ProcAndUserSymmetry
INVARIANTS
  FileMatchesDatabase
CHECK_DEADLOCK FALSE
