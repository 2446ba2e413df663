SPECIFICATION FairSpec
CONSTANTS
  Cap = 2
  MaxData = 3
INVARIANTS
  GatewayTyped
  NothingLeft
  DownComplete
  UpComplete
PROPERTIES
  HandlerEnds
  BothFlow
CHECK_DEADLOCK FALSE
