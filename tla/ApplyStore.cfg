SPECIFICATION Spec
CONSTANTS
  p1 = p1
  p2 = p2
  u1 = u1
  u2 = u2
  Proc <- TwoProcs
  User <- OneUser
  NTag = 1
  BadKeys = {2}
  NoProc = NoProc
  NoConfig = NoConfig
  Faults = {"api", "invalid", "refuse", "silent", "nostart", "timeout", "crash", "tool", "abort", "redeploy"}
  MaxFaults = 2
  MaxOps = 3
  MaxUuid = 2
  MaxKeys = 3
SYMMETRY ProcAndUserSymmetry
INVARIANTS
  StoreInv
  OneApplyAtATime
  FileIsValid
  OkMeansAccountsLive
PROPERTIES
  ImplementsStore
CHECK_DEADLOCK FALSE
