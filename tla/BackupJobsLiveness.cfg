SPECIFICATION FairSpec
CONSTANTS
  CombinedJob = {c1}
  AutoJob = {a1}
  CleanupJob = {}
  PooledJob = {c1, a1}
  Ticker = Ticker
  Workers = 1
  Stale = 1
PROPERTY NothingStaysRunning
