SPECIFICATION Spec
CONSTANTS
  api1 = api1
  api2 = api2
  sched = sched
  http = http
  worker = worker
  Process = {api1}
  Thread = {sched, http, worker}
  ProcessOf <- OneProcessOf
  Duty <- AllDuties
  HostOf <- SameHost
  Uuid = {u1, u2, u3}
  Ttl = 2
  DbMayFail = FALSE
  None = None
SYMMETRY UuidSymmetry
PROPERTY RefusedOnlyWhileRunning
