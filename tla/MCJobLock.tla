----------------------------- MODULE MCJobLock -----------------------------
(* Instances of JobLock: one API process with three threads, and two API    *)
(* processes on one host, one with two threads and one with one.            *)
EXTENDS JobLock, TLC

CONSTANTS api1, api2, sched, http, worker

DutyOf(t) ==
  IF t = sched THEN {"pending"}
  ELSE IF t = worker THEN {"auto", "combined"} ELSE {"auto"}
AllDuties == [t \in Thread |-> DutyOf(t)]

OneProcessOf == [t \in Thread |-> api1]
TwoProcessOf == [t \in Thread |-> IF t \in {sched, worker} THEN api1 ELSE api2]

SameHost == [p \in Process |-> "host"]

UuidSymmetry == Permutations(Uuid)
=============================================================================
