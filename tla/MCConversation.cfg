SPECIFICATION FairSpec
CONSTANTS
  r1 = r1
  r2 = r2
  j1 = j1
  j2 = j2
  s1 = s1
  Nobody = Nobody
  NoJob = NoJob
  Requests = {r1, r2}
  Jobs = {j1, j2}
  Contracts <- MCContracts
  MaxFaults = 1
  MaxDeletes = 1
  MaxReruns = 1
  MaxItems = 2
INVARIANTS
  TypeOK
  OneDispatch
  HistoryKept
PROPERTIES
  RowSettles
  StartedIsClaimed
\* all requests answered and all jobs over
CHECK_DEADLOCK FALSE
