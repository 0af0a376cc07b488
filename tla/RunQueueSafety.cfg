CONSTANTS
  JobId = {1}
  Worker = {w1, w2}
  NoWorker = NoWorker
  LeaseDuration = 2
  MaxAttempts = 2
  RetryDelay = 1
  TimerDelay = 2
  ReplayBudgets = {3}
  MaxReplays = 1
  MaxClaims = 4
  MaxCrashes = 1
  MaxIoErrors = 1
SPECIFICATION Spec
SYMMETRY WorkerSymmetry
INVARIANTS AttemptAuthority SupersededOnlyWhenLate
PROPERTY ImplementsLedger
