SPECIFICATION FairSpec
CONSTANTS
  s1 = s1
  s2 = s2
  k1 = k1
  k2 = k2
  k3 = k3
  c1 = c1
  c2 = c2
  c3 = c3
  c4 = c4
  Stream = {s1, s2}
  Request <- MCRequest
  NoVersion = NoVersion
  NoAnswer = NoAnswer
  TornWrites = TRUE
  MaxCrashes = 3
INVARIANT OneAnswerPerKey
PROPERTY EventuallyAnswered
\* Clients may have nothing more to submit.
CHECK_DEADLOCK FALSE
