SPECIFICATION Spec
CONSTANTS
  Agents = 1
  MarketMetrics = TRUE
  BatchSize = 2
  DrainLimit = 2
  CommandKinds = {"note"}
  NoSequence = NoSequence
  Reconsiders = FALSE
  Operations = 2
  Commands = 2
  MaxCrashes = 2
  MaxPauses = 0
  MaxResets = 0
INVARIANTS TypeOK DerivedStateIsPrefix OperationAdvancesOnce RecoveryIsExact LossesBoundedByKills
PROPERTIES EventuallyCompletes
\* The caller stops after its last operation.
CHECK_DEADLOCK FALSE
