CONSTANTS
  N = 3
  Setups <- MCSetups
  Defaults <- MCDefaults
  Routes <- MCRoutes
  ReplyTTL = 2
  ProbeTTL = 1
  ProbeTimeout <- MCProbeTimeout
  Grace = 1
  ForceExit = 3
  Thrown = {"P2024"}
  Horizon = 4
  None = None
SPECIFICATION Spec
CHECK_DEADLOCK FALSE
INVARIANTS
  TypeOK
  LayersHold
  LimitHolds
PROPERTIES
  RetriesReplayed
  ReadinessHonest
  Drains
