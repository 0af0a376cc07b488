SPECIFICATION Spec
CONSTANTS
  Agents = 2
  MarketMetrics = TRUE
  BatchSize = 1
  DrainLimit = 2
  CommandKinds = {"steer"}
  NoSequence = NoSequence
  Reconsiders = TRUE
  Operations = 2
  Commands = 2
  MaxCrashes = 1
  MaxPauses = 1
  MaxResets = 1
INVARIANTS CheckpointFollowsEffects PausesAreHarmless
PROPERTY ImplementsHistory
\* The caller stops after its last operation.
CHECK_DEADLOCK FALSE
