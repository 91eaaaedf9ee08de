CONSTANTS
  N = 4
  Setups <- PromiseSetups
  Defaults <- PromiseDefaults
  Routes <- PromiseRoutes
  ReplyTTL = 2
  ProbeTTL = 1
  ProbeTimeout <- MCProbeTimeout
  Grace = 1
  ForceExit = 3
  Thrown = {"P2024"}
  Horizon = 6
  None = None
SPECIFICATION Spec
CHECK_DEADLOCK FALSE
PROPERTY
  LimiterPromises
