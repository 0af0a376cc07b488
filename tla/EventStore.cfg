CONSTANTS
  Stream = {s1, s2}
  Key = {k1, k2}
  Version = {0, 1, 2}
  e1 = e1
  e2 = e2
  Event = {e1, e2}
  Batch <- MCBatch
  NoRequest = NoRequest
  CompactionIncrement = 1
  TornWrites = TRUE
  MaxCrashes = 2
  MaxIoErrors = 1
SPECIFICATION FairSpec
INVARIANT BlockedByErrorOrRepack
PROPERTIES ImplementsLog EventuallyOpen
