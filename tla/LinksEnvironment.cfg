SPECIFICATION Spec
CONSTANTS
  c1 = c1
  c2 = c2
  Client <- TwoClients
  Environments <- AllEnvironments
  MaxDeploys = 3
  MaxOps = 3
  MaxFaults = 1
  MaxPath = 3
  MaxKeys = 2
  MaxProxy = 2
SYMMETRY ClientSymmetry
INVARIANTS
  LinksTyped
  IssuedLinksLast
PROPERTIES
  PathKept
CHECK_DEADLOCK FALSE
