SPECIFICATION Spec
CONSTANTS
  c1 = c1
  c2 = c2
  Client <- OneClient
  Environments <- TwoEnvironments
  MaxDeploys = 3
  MaxOps = 3
  MaxFaults = 0
  MaxPath = 3
  MaxKeys = 2
  MaxProxy = 2
PROPERTIES
  NewLinksAdmitted
CHECK_DEADLOCK FALSE
