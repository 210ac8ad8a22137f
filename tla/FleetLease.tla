----------------------------- MODULE FleetLease -----------------------------
(***************************************************************************)
(* What the locking around a fleet auto backup promises, without saying    *)
(* how: a run is entered only when no run of the same process is under way *)
(* and no run anywhere still has a valid lease.  A lease may lapse while   *)
(* its run goes on (nothing renews it), and runs of a process that dies    *)
(* all end at once.  JobLock is shown to implement this specification.     *)
(***************************************************************************)
CONSTANTS
  Thread,      \* threads that may run a fleet backup
  ProcessOf    \* the API process each thread belongs to

VARIABLES
  running,     \* threads inside a fleet run
  valid        \* those whose lease has neither expired nor been lost

leaseVars == <<running, valid>>

LeaseInit == running = {} /\ valid = {}

(* A run starts; its lease may already be gone when the acquiring commit    *)
(* returns.                                                                *)
Enter(t) ==
  /\ valid = {}
  /\ \A u \in running : ProcessOf[u] # ProcessOf[t]
  /\ running' = running \cup {t}
  /\ valid' \in {{}, {t}}

Lapse == running' = running /\ valid' \subseteq valid

Leave(gone) ==
  /\ running' = running \ gone
  /\ valid' \subseteq valid \ gone

LeaseNext ==
  \/ \E t \in Thread : Enter(t)
  \/ Lapse
  \/ \E gone \in SUBSET Thread : Leave(gone)

LeaseSpec == LeaseInit /\ [][LeaseNext]_leaseVars
=============================================================================
