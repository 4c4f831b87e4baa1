SPECIFICATION Spec
CONSTANTS
  t1 = t1
  t2 = t2
  k1 = k1
  k2 = k2
  k3 = k3
  a1 = a1
  a2 = a2
  Threads = {t1, t2}
  Keys = {k1, k2, k3}
  NoKey = NoKey
  AttemptIds = {a1, a2}
  AttemptOf <- TwoAttempts
  NoSubmission = NoSubmission
  NumTurns = 2
  MaxRequests = 4
  MaxCrashes = 1
INVARIANTS
  StoresAgree
  PromisesKept
PROPERTY
  RefinesLifecycle
SYMMETRY Symmetry
\* the bounded requests run out
CHECK_DEADLOCK FALSE
