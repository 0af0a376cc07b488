CONSTANTS
  Writer = {w1, w2}
  Operation = {o1, o2}
  Fingerprint = {p1, p2}
  w1 = w1
  w2 = w2
  o1 = o1
  o2 = o2
  p1 = p1
  p2 = p2
  Requests <- MCRequests
  Nobody = Nobody
  TornRows = TRUE
  MaxCrashes = 1
  MaxStalls = 1
SPECIFICATION FairSpec
INVARIANTS AnswersStand CrashesNeverClose LeaseExcludes
PROPERTIES LeaseComesFree
CHECK_DEADLOCK FALSE
