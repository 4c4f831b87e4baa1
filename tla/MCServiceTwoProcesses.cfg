SPECIFICATION Spec
CONSTANTS
  t1 = t1
  t2 = t2
  p1 = p1
  p2 = p2
  k1 = k1
  k2 = k2
  k3 = k3
  Threads = {t1, t2}
  Processes = {p1, p2}
  ProcessOf <- TwoProcesses
  NoThread = NoThread
  Keys = {k1, k2, k3}
  NoKey = NoKey
  ResponseOf <- ReusedId
  NoSubmission = NoSubmission
  NumLevels = 1
  AtomicLocks = FALSE
  MaxEvaluatorFailures = 1
  MaxRequests = 4
  MaxCrashes = 1
INVARIANTS
  TypeOK
  ResultsMatchLog
PROPERTIES
  RepliesHold
  RefinesAssessment
\* the bounded requests run out
CHECK_DEADLOCK FALSE
