SPECIFICATION Spec
CONSTANTS
  CombinedJob = {c1}
  AutoJob = {}
  CleanupJob = {}
  PooledJob = {}
  Ticker = Ticker
  Workers = 1
  Stale = 1
PROPERTY EndedRunSettlesItsJob
