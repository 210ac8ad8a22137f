SPECIFICATION Spec
CONSTANTS
  api1 = api1
  api2 = api2
  sched = sched
  http = http
  worker = worker
  Process = {api1, api2}
  Thread = {sched, worker, http}
  ProcessOf <- TwoProcessOf
  Duty <- AllDuties
  HostOf <- SameHost
  Uuid = {u1, u2, u3}
  Ttl = 2
  DbMayFail = TRUE
  None = None
SYMMETRY UuidSymmetry
INVARIANT TypeOK
INVARIANT FreshLeaseOwnsRow
PROPERTY ImplementsFleetLease
