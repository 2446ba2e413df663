SPECIFICATION FairSpec
CONSTANTS
  p1 = p1
  p2 = p2
  u1 = u1
  u2 = u2
  Proc <- TwoProcs
  User <- OneUser
  NTag = 2
  BadKeys = {}
  NoProc = NoProc
  NoConfig = NoConfig
  Faults = {"api", "invalid", "timeout", "crash", "tool", "redeploy"}
  MaxFaults = 2
  MaxOps = 2
  MaxUuid = 2
  MaxKeys = 2
INVARIANTS
  LiveInv
  OkMeansLive
PROPERTIES
  OperationsEnd
  Converges
  SyncNeedsNoRestart
CHECK_DEADLOCK FALSE
