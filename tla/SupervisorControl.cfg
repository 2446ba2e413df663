SPECIFICATION FairSpec
CONSTANTS
  h1 = h1
  h2 = h2
  Handler <- TwoHandlers
  Commands = {"restart", "stop", "start"}
  Targets = {"xray"}
  CrashLimit = 1
  MaxCommands = 2
  MaxFaults = 1
INVARIANTS
  OneChild
  RestartKeepsWanted
  GivesUpOnCrashes
PROPERTIES
  RestartIsFresh
  KeptAlive
  ShutdownEnds
CHECK_DEADLOCK FALSE
