SPECIFICATION FairSpec
CONSTANTS
  s1 = s1
  s2 = s2
  bob = bob
  Bob = Bob
  Session <- TwoSessions
  Name <- TwoNames
  Fold <- LowerCase
  Days = {1}
  Dates = {0, 1, 4}
  MaxId = 3
  MaxTime = 1
  Horizon = 3
  MaxUuid = 1
  MaxOps = 4
  NoRow = NoRow
  NoJob = NoJob
INVARIANTS
  AccountsInv
  UniqueNames
  UpdateHitsItsAccount
PROPERTIES
  ExpiredIsDisabled
  OldUuidStaysDead
CHECK_DEADLOCK FALSE
