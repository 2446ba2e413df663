SPECIFICATION Spec
CONSTANTS
  container = container
  shell = shell
  Proc <- TwoProcs
  Cli <- OneShell
  Faults = {"redeploy"}
  MaxGen = 3
  MaxChange = 1
  MaxOps = 5
  MaxFaults = 1
  NoArchive = NoArchive
PROPERTIES
  RedeployKeepsVolume
CHECK_DEADLOCK FALSE
