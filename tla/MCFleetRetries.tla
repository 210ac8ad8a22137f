--------------------------- MODULE MCFleetRetries ---------------------------
(* One API process: its pending tick, and a worker or scheduler thread that *)
(* runs fleet backups.                                                     *)
EXTENDS FleetRetries

CONSTANTS api1, sched, worker

OneProcessOf == [t \in Thread |-> api1]
SameHost == [p \in Process |-> "host"]
RetryDuties == [t \in Thread |-> IF t = sched THEN {"pending"} ELSE {"auto"}]
=============================================================================
