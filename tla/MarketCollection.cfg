SPECIFICATION FairSpec
CONSTANTS
  ShardCount = 2
  EpochCount = 2
  EpochCycleCount = 2
  LeaseDuration = 2
  MaxAttempts = 4
  MaxParallelShards = 2
  SingleSociety = TRUE
  MaxFaults = 3
INVARIANTS SocietyInStep EpochsRunOnce SharedOnlyWhenAbandoned
PROPERTY EventuallyFrozen
\* A frozen collection stops; so does one whose retries are exhausted.
CHECK_DEADLOCK FALSE
