SPECIFICATION FairRetriesSpec
CONSTANTS
  api1 = api1
  sched = sched
  worker = worker
  Process = {api1}
  Thread = {sched, worker}
  ProcessOf <- OneProcessOf
  Duty <- RetryDuties
  HostOf <- SameHost
  Uuid = {u1, u2}
  Ttl = 1
  DbMayFail = FALSE
  None = None
  Device = {1, 2}
  Attempts = 2
  Tries = 2
  Limit = 2
  Copies = 2
INVARIANT RetriesTypeOK
INVARIANT OneRetryPerDevice
INVARIANT ListedIsPending
PROPERTY ImplementsRetryBoard
PROPERTY OrphanRowGoes
PROPERTY RunLockIsReturned
PROPERTY PendingRetryEnds
