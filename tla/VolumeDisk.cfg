SPECIFICATION Spec
CONSTANTS
  container = container
  shell = shell
  Proc <- TwoProcs
  Cli <- OneShell
  Faults = {"kill", "redeploy", "space"}
  MaxGen = 4
  MaxChange = 2
  MaxOps = 6
  MaxFaults = 2
  NoArchive = NoArchive
INVARIANTS
  VolumeInv
  KeysMatch
  Recoverable
PROPERTIES
  KeysKept
CHECK_DEADLOCK FALSE
