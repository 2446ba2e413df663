SPECIFICATION Spec
CONSTANTS
  w1 = w1
  w2 = w2
  c1 = c1
  c2 = c2
  t1 = t1
  t2 = t2
  Thread <- Threads
  Client <- Clients
  Token <- Tokens
  MaxAttempts = 2
  Window = 1
  Lockout = 2
  MaxClients = 1
  Ttl = 2
  Ephemeral = TRUE
  MaxTime = 3
  MaxRequests = 5
  MaxVisits = 2
  MaxFaults = 1
INVARIANTS
  PanelInv
  SignedOutStaysOut
  SessionsLast
  FailuresBounded
PROPERTIES
  LockHolds
SYMMETRY Alike
CHECK_DEADLOCK FALSE
