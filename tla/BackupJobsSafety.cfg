SPECIFICATION Spec
CONSTANTS
  CombinedJob = {c1}
  AutoJob = {a1}
  CleanupJob = {k1}
  PooledJob = {c1, k1}
  Ticker = Ticker
  Workers = 1
  Stale = 1
ACTION_CONSTRAINT TwoJobs
INVARIANT TypeOK
INVARIANT SuccessHasItsBackup
PROPERTY FinishedJobStays
