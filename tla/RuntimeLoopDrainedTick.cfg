SPECIFICATION Spec
CONSTANTS
  Agents = 1
  MarketMetrics = FALSE
  BatchSize = 1
  DrainLimit = 1
  CommandKinds = {"register"}
  NoSequence = NoSequence
  Reconsiders = FALSE
  Operations = 1
  Commands = 1
  MaxCrashes = 1
  MaxPauses = 0
  MaxResets = 0
INVARIANT RecoveryIsExact
\* The caller stops after its last operation.
CHECK_DEADLOCK FALSE
