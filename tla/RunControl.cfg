CONSTANTS
  JobId = {1}
  Worker = {w1, w2}
  NoWorker = NoWorker
  LeaseDuration = 2
  MaxAttempts = 2
  RetryDelay = 0
  TimerDelay = 0
  ReplayBudgets = {}
  MaxReplays = 1
  MaxClaims = 6
  MaxCrashes = 1
  MaxIoErrors = 1
  MaxPendingJobs = 1
  CycleCount = 2
SPECIFICATION ControlFairSpec
INVARIANTS ControlTypeOK CompletedRunsSucceeded StopsHold
PROPERTIES RunHistoryStands EventuallyHandled
