------------------------------ MODULE JobLock ------------------------------
(***************************************************************************)
(* The lock around fleet auto backups: the in-process _AUTO_BACKUP_LOCK    *)
(* and the job_locks row named "auto_backup" (PostgreSQL, READ COMMITTED). *)
(* One action is one database statement or commit, because other threads   *)
(* and other API processes run between them.                               *)
(*                                                                         *)
(* A Process is a (host, pid) pair: an API process that restarts with the  *)
(* same pid on the same host is the same Process again, which is what a    *)
(* container restart does (the server is always pid 1).  Time is what is   *)
(* left of a lease, so no clock grows without bound.                       *)
(***************************************************************************)
EXTENDS Integers, FiniteSets

CONSTANTS
  Process,      \* (host, pid) pairs an API process can have
  Thread,       \* threads of those processes that touch the lock
  ProcessOf,    \* [Thread -> Process]
  HostOf,       \* Process -> host name
  Duty,         \* [Thread -> set of the entry points it may run]
  Uuid,         \* the random part of an owner string; never two alike in use
  Ttl,          \* lease length (AUTO_BACKUP_LOCK_MINUTES) in ticks
  DbMayFail,    \* whether statements may fail (connection lost, or a session
                \* left in a failed transaction by the work)
  None          \* no thread, no row, no uuid

Entry == {"auto", "pending", "combined"}

ASSUME ConstantsOK ==
  /\ ProcessOf \in [Thread -> Process]
  /\ Duty \in [Thread -> SUBSET Entry]
  /\ Ttl \in Nat \ {0}
  /\ DbMayFail \in BOOLEAN
  /\ None \notin Thread \cup Uuid

VARIABLES
  status,       \* per process: "down", "booting" (lifespan startup) or "up"
  runLock,      \* per process: the thread that took _AUTO_BACKUP_LOCK
  row,          \* the job_locks row, or the record NoRow
  rowLock,      \* the transaction holding the row by SELECT ... FOR UPDATE
  op,           \* per thread: the entry point it is executing
  pc,           \* per thread: the statement it executes next
  lease         \* per thread: its lock_owner, time left, and whether some
                \* other thread deleted its row (history)

vars == <<status, runLock, row, rowLock, op, pc, lease>>

Op == Entry \cup {"boot", "pendingRun", "none"}

Pc == {"idle", "sweep", "sweepDelete", "probe", "probeDelete", "pendingLoop",
       "select", "takeover", "staleDelete", "insert", "work", "release",
       "releaseDelete", "conflict", "refused"}

NoRow == [process |-> None, uuid |-> None, left |-> 0]
NoLease == [uuid |-> None, left |-> 0, lost |-> FALSE]

Rows == [process : Process \cup {None}, uuid : Uuid \cup {None}, left : 0..Ttl]
Leases == [uuid : Uuid \cup {None}, left : 0..Ttl, lost : BOOLEAN]

TypeOK ==
  /\ status \in [Process -> {"down", "booting", "up"}]
  /\ runLock \in [Process -> Thread \cup {None}]
  /\ row \in Rows
  /\ rowLock \in Thread \cup {None}
  /\ op \in [Thread -> Op]
  /\ pc \in [Thread -> Pc]
  /\ lease \in [Thread -> Leases]

Init ==
  /\ status = [p \in Process |-> "down"]
  /\ runLock = [p \in Process |-> None]
  /\ row = NoRow
  /\ rowLock = None
  /\ op = [t \in Thread |-> "none"]
  /\ pc = [t \in Thread |-> "idle"]
  /\ lease = [t \in Thread |-> NoLease]

-----------------------------------------------------------------------------
RowExists == row.uuid # None
Expired == row.left = 0

(* Mutant: every pid of the own host counts as dead.                        *)
StaleWhateverRuns(p) == HostOf[row.process] = HostOf[p]

(* os.kill(pid, 0) says "no such process" only on the holder's own host and *)
(* only while nothing runs under that pid.                                 *)
StaleSameHost(p) ==
  /\ HostOf[row.process] = HostOf[p]
  /\ status[row.process] = "down"

(* Mutant: only rows of dead processes are removed, expiry is forgotten.    *)
DisposableIfDead(p) == RowExists /\ StaleSameHost(p)

Disposable(p) == RowExists /\ (Expired \/ StaleSameHost(p))

Goto(t, label) == pc' = [pc EXCEPT ![t] = label]

Finish(t) ==
  /\ Goto(t, "idle")
  /\ op' = [op EXCEPT ![t] = "none"]

(* DELETE FROM job_locks WHERE lock_name = ...: by primary key, whoever owns*)
(* the row by now; it waits for a transaction that holds the row.          *)
DeleteRow(t) ==
  /\ rowLock = None
  /\ row' = NoRow
  /\ lease' = [u \in Thread |->
       IF u # t /\ lease[u].uuid # None /\ lease[u].uuid = row.uuid
       THEN [lease[u] EXCEPT !.lost = TRUE] ELSE lease[u]]

-----------------------------------------------------------------------------
(* Starting: lifespan sweeps before anything else of the process runs.      *)
Boot(t) ==
  LET p == ProcessOf[t] IN
  /\ status[p] = "down"
  /\ status' = [status EXCEPT ![p] = "booting"]
  /\ op' = [op EXCEPT ![t] = "boot"]
  /\ Goto(t, "sweep")
  /\ UNCHANGED <<runLock, row, rowLock, lease>>

(* tick_pending_backup and run_combined_backup sweep stale locks first.     *)
StartSweeper(t, entry) ==
  /\ status[ProcessOf[t]] = "up"
  /\ pc[t] = "idle"
  /\ entry \in Duty[t] \cap {"pending", "combined"}
  /\ op' = [op EXCEPT ![t] = entry]
  /\ Goto(t, "sweep")
  /\ UNCHANGED <<status, runLock, row, rowLock, lease>>

(* Mutant: the result of _AUTO_BACKUP_LOCK.acquire is not looked at.        *)
StartRunAnyway(t) ==
  /\ status[ProcessOf[t]] = "up"
  /\ \/ pc[t] = "idle" /\ "auto" \in Duty[t] /\ op' = [op EXCEPT ![t] = "auto"]
     \/ pc[t] = "pendingLoop" /\ op' = [op EXCEPT ![t] = "pendingRun"]
  /\ runLock' = [runLock EXCEPT ![ProcessOf[t]] = t]
  /\ Goto(t, "sweep")
  /\ UNCHANGED <<status, row, rowLock, lease>>

(* run_auto_backups: _AUTO_BACKUP_LOCK.acquire(blocking=False), then sweep. *)
StartRun(t) ==
  LET p == ProcessOf[t] IN
  /\ status[p] = "up"
  /\ \/ pc[t] = "idle" /\ "auto" \in Duty[t] /\ op' = [op EXCEPT ![t] = "auto"]
     \/ pc[t] = "pendingLoop" /\ op' = [op EXCEPT ![t] = "pendingRun"]
  /\ \/ /\ runLock[p] = None
        /\ runLock' = [runLock EXCEPT ![p] = t]
        /\ Goto(t, "sweep")
     \/ /\ runLock[p] # None
        /\ Goto(t, "refused")
        /\ UNCHANGED runLock
  /\ UNCHANGED <<status, row, rowLock, lease>>

-----------------------------------------------------------------------------
(* clear_stale_job_locks, at the end of recover_stale_running_records.      *)
AfterSweep(t) ==
  /\ \/ op[t] \in {"auto", "pendingRun"} /\ Goto(t, "select") /\ UNCHANGED <<op, status>>
     \/ op[t] = "pending" /\ Goto(t, "probe") /\ UNCHANGED <<op, status>>
     \/ op[t] = "combined" /\ Finish(t) /\ UNCHANGED status
     \/ /\ op[t] = "boot"
        /\ Finish(t)
        /\ status' = [status EXCEPT ![ProcessOf[t]] = "up"]

SweepRead(t) ==
  /\ pc[t] = "sweep"
  /\ \/ Disposable(ProcessOf[t]) /\ Goto(t, "sweepDelete") /\ UNCHANGED <<op, status>>
     \/ ~Disposable(ProcessOf[t]) /\ AfterSweep(t)
  /\ UNCHANGED <<runLock, row, rowLock, lease>>

SweepDelete(t) ==
  /\ pc[t] = "sweepDelete"
  /\ DeleteRow(t)
  /\ AfterSweep(t)
  /\ UNCHANGED <<runLock, rowLock>>

(* recover_stale_running_records swallows every error after a rollback.     *)
SweepFails(t) ==
  /\ DbMayFail
  /\ pc[t] \in {"sweep", "sweepDelete"}
  /\ AfterSweep(t)
  /\ UNCHANGED <<runLock, row, rowLock, lease>>

-----------------------------------------------------------------------------
(* process_pending_auto_backups asks is_job_lock_active before its loop.    *)
Probe(t) ==
  /\ pc[t] = "probe"
  /\ \/ Disposable(ProcessOf[t]) /\ ~Expired /\ Goto(t, "probeDelete") /\ UNCHANGED op
     \/ RowExists /\ ~Disposable(ProcessOf[t]) /\ Finish(t)
     \/ (~RowExists \/ Expired) /\ Goto(t, "pendingLoop") /\ UNCHANGED op
  /\ UNCHANGED <<status, runLock, row, rowLock, lease>>

ProbeDelete(t) ==
  /\ pc[t] = "probeDelete"
  /\ DeleteRow(t)
  /\ Goto(t, "pendingLoop")
  /\ UNCHANGED <<status, runLock, rowLock, op>>

ProbeFails(t) ==
  /\ DbMayFail
  /\ pc[t] \in {"probe", "probeDelete", "pendingLoop"}
  /\ Finish(t)
  /\ UNCHANGED <<status, runLock, row, rowLock, lease>>

(* No (further) pending job: the tick returns.                              *)
PendingDone(t) ==
  /\ pc[t] = "pendingLoop"
  /\ Finish(t)
  /\ UNCHANGED <<status, runLock, row, rowLock, lease>>

-----------------------------------------------------------------------------
Fresh(u) == u # row.uuid /\ \A t \in Thread : lease[t].uuid # u

(* Mutant: expires_at gets one tick more than the lease.                    *)
NewRowTooLong(t) ==
  [process |-> ProcessOf[t], uuid |-> lease[t].uuid, left |-> lease[t].left + 1]

NewRow(t) == [process |-> ProcessOf[t], uuid |-> lease[t].uuid, left |-> lease[t].left]

(* Mutant: a plain SELECT, which locks no row.                              *)
SelectWithoutLock(t) ==
  /\ pc[t] = "select"
  /\ ~RowExists \/ Disposable(ProcessOf[t])
  /\ \E u \in Uuid :
       /\ Fresh(u)
       /\ lease' = [lease EXCEPT ![t] = [uuid |-> u, left |-> Ttl, lost |-> FALSE]]
  /\ Goto(t, IF RowExists THEN "takeover" ELSE "insert")
  /\ UNCHANGED <<status, runLock, row, rowLock, op>>

(* acquire_job_lock: SELECT ... FOR UPDATE NOWAIT and what it decides.      *)
SelectForUpdate(t) ==
  /\ pc[t] = "select"
  /\ rowLock = None
  /\ \/ /\ RowExists /\ ~Disposable(ProcessOf[t])
        /\ Goto(t, "conflict")
        /\ UNCHANGED <<rowLock, lease>>
     \/ /\ ~RowExists \/ Disposable(ProcessOf[t])
        /\ \E u \in Uuid :
             /\ Fresh(u)
             /\ lease' = [lease EXCEPT ![t] = [uuid |-> u, left |-> Ttl, lost |-> FALSE]]
        /\ \/ ~RowExists /\ Goto(t, "insert") /\ UNCHANGED rowLock
           \/ RowExists /\ Expired /\ Goto(t, "takeover") /\ rowLock' = t
           \/ RowExists /\ ~Expired /\ Goto(t, "staleDelete") /\ rowLock' = t
  /\ UNCHANGED <<status, runLock, row, op>>

(* The row is locked by someone else (NOWAIT), or the statement failed.     *)
SelectFails(t) ==
  /\ pc[t] = "select"
  /\ rowLock # None \/ DbMayFail
  /\ Goto(t, "conflict")
  /\ UNCHANGED <<status, runLock, row, rowLock, op, lease>>

CommitTakeover(t) ==
  /\ pc[t] = "takeover"
  /\ row' = NewRow(t)
  /\ rowLock' = None
  /\ Goto(t, "work")
  /\ UNCHANGED <<status, runLock, op, lease>>

(* The row of a dead process is deleted and committed before the insert.    *)
CommitStaleDelete(t) ==
  /\ pc[t] = "staleDelete"
  /\ row' = NoRow
  /\ rowLock' = None
  /\ Goto(t, "insert")
  /\ UNCHANGED <<status, runLock, op, lease>>

CommitInsert(t) ==
  /\ pc[t] = "insert"
  /\ \/ /\ ~RowExists
        /\ row' = NewRow(t)
        /\ Goto(t, "work")
        /\ UNCHANGED lease
     \/ /\ RowExists \* IntegrityError
        /\ Goto(t, "conflict")
        /\ lease' = [lease EXCEPT ![t] = NoLease]
        /\ UNCHANGED row
  /\ UNCHANGED <<status, runLock, rowLock, op>>

(* The connection drops while committing: the exception is no               *)
(* IntegrityError, so it ends the run, and the row may have been written.   *)
CommitLost(t) ==
  /\ DbMayFail
  /\ pc[t] \in {"takeover", "staleDelete", "insert"}
  /\ \/ UNCHANGED row
     \/ pc[t] = "takeover" /\ row' = NewRow(t)
     \/ pc[t] = "insert" /\ ~RowExists /\ row' = NewRow(t)
     \/ pc[t] = "staleDelete" /\ row' = NoRow
  /\ rowLock' = IF rowLock = t THEN None ELSE rowLock
  /\ lease' = [lease EXCEPT ![t] = NoLease]
  /\ Goto(t, "conflict")
  /\ UNCHANGED <<status, runLock, op>>

-----------------------------------------------------------------------------
(* _run_auto_backups returns or raises; finally: release_job_lock.          *)
EndWork(t) ==
  /\ pc[t] = "work"
  /\ Goto(t, "release")
  /\ UNCHANGED <<status, runLock, row, rowLock, op, lease>>

(* The end of run_auto_backups: back to the pending loop or to the caller.  *)
ReturnTo(t) ==
  \/ op[t] = "pendingRun" /\ Goto(t, "pendingLoop") /\ op' = [op EXCEPT ![t] = "pending"]
  \/ op[t] = "auto" /\ Finish(t)

FreeRunLock(t) == runLock' = [runLock EXCEPT ![ProcessOf[t]] = None]

(* SELECT ... WHERE lock_name AND locked_by: only a row still its own.      *)
ReleaseRead(t) ==
  /\ pc[t] = "release"
  /\ \/ /\ row.uuid = lease[t].uuid
        /\ Goto(t, "releaseDelete")
        /\ UNCHANGED <<runLock, op, lease>>
     \/ /\ row.uuid # lease[t].uuid
        /\ lease' = [lease EXCEPT ![t] = NoLease]
        /\ FreeRunLock(t)
        /\ ReturnTo(t)
  /\ UNCHANGED <<status, row, rowLock>>

ReleaseDelete(t) ==
  /\ pc[t] = "releaseDelete"
  /\ rowLock = None
  /\ row' = NoRow
  /\ lease' = [u \in Thread |->
       IF u = t THEN NoLease
       ELSE IF lease[u].uuid # None /\ lease[u].uuid = row.uuid
       THEN [lease[u] EXCEPT !.lost = TRUE] ELSE lease[u]]
  /\ FreeRunLock(t)
  /\ ReturnTo(t)
  /\ UNCHANGED <<status, rowLock>>

(* release_job_lock raises inside finally: _AUTO_BACKUP_LOCK.release() on    *)
(* the next line never runs.                                               *)
ReleaseRaises(t) ==
  /\ DbMayFail
  /\ pc[t] \in {"release", "releaseDelete"}
  /\ lease' = [lease EXCEPT ![t] = NoLease]
  /\ ReturnTo(t)
  /\ UNCHANGED <<status, runLock, row, rowLock>>

(* Mutant: the refusal by the row leaves without the finally.               *)
RefuseRunOutsideTry(t) ==
  /\ pc[t] \in {"conflict", "refused"}
  /\ ReturnTo(t)
  /\ UNCHANGED <<status, runLock, row, rowLock, lease>>

(* 409 AUTO_BACKUP_ALREADY_RUNNING (or the commit error) reaches the caller: *)
(* through the finally when the row was refused, and straight away, before  *)
(* the try, when _AUTO_BACKUP_LOCK itself was.                             *)
RefuseRun(t) ==
  /\ \/ pc[t] = "conflict" /\ FreeRunLock(t)
     \/ pc[t] = "refused" /\ UNCHANGED runLock
  /\ ReturnTo(t)
  /\ UNCHANGED <<status, row, rowLock, lease>>

-----------------------------------------------------------------------------
(* The process dies at any point; its transactions are rolled back.         *)
Crash(p) ==
  /\ status[p] # "down"
  /\ status' = [status EXCEPT ![p] = "down"]
  /\ runLock' = [runLock EXCEPT ![p] = None]
  /\ rowLock' = IF rowLock # None /\ ProcessOf[rowLock] = p THEN None ELSE rowLock
  /\ op' = [t \in Thread |-> IF ProcessOf[t] = p THEN "none" ELSE op[t]]
  /\ pc' = [t \in Thread |-> IF ProcessOf[t] = p THEN "idle" ELSE pc[t]]
  /\ lease' = [t \in Thread |-> IF ProcessOf[t] = p THEN NoLease ELSE lease[t]]
  /\ UNCHANGED row

Less(n) == IF n = 0 THEN 0 ELSE n - 1

Tick ==
  /\ row.left > 0 \/ \E t \in Thread : lease[t].left > 0
  /\ row' = [row EXCEPT !.left = Less(row.left)]
  /\ lease' = [t \in Thread |-> [lease[t] EXCEPT !.left = Less(lease[t].left)]]
  /\ UNCHANGED <<status, runLock, rowLock, op, pc>>

-----------------------------------------------------------------------------
(* What a thread does once it is inside an entry point.                     *)
Step(t) ==
  \/ SweepRead(t) \/ SweepDelete(t) \/ SweepFails(t)
  \/ Probe(t) \/ ProbeDelete(t) \/ ProbeFails(t) \/ PendingDone(t)
  \/ SelectForUpdate(t) \/ SelectFails(t)
  \/ CommitTakeover(t) \/ CommitStaleDelete(t) \/ CommitInsert(t) \/ CommitLost(t)
  \/ EndWork(t) \/ ReleaseRead(t) \/ ReleaseDelete(t) \/ ReleaseRaises(t)
  \/ RefuseRun(t)

Start(t) ==
  \/ Boot(t)
  \/ \E entry \in Entry : StartSweeper(t, entry)
  \/ StartRun(t)

Next ==
  \/ \E t \in Thread : Step(t) \/ Start(t)
  \/ \E p \in Process : Crash(p)
  \/ Tick

Spec == Init /\ [][Next]_vars

-----------------------------------------------------------------------------
(* Threads between the commit that gave them the lease and the end of       *)
(* run_auto_backups.                                                       *)
InRun(t) == pc[t] \in {"work", "release", "releaseDelete"}
HoldsLease(t) == InRun(t) /\ lease[t].left > 0 /\ ~lease[t].lost

(* A run whose lease has not expired, and whose row no other thread has     *)
(* deleted, is the owner the row names, until the row's own expiry: neither *)
(* a takeover, a stale-pid cleanup nor an old run's release can have given  *)
(* its row away (acquire_job_lock, release_job_lock).                       *)
FreshLeaseOwnsRow ==
  \A t \in Thread : HoldsLease(t) =>
    /\ row.uuid = lease[t].uuid
    /\ row.left = lease[t].left
    /\ row.process = ProcessOf[t]

(* All the locking keeps its promise to the fleet: FleetLease.              *)
Fleet == INSTANCE FleetLease WITH
  running <- {t \in Thread : InRun(t)},
  valid <- {t \in Thread : HoldsLease(t)}
ImplementsFleetLease == Fleet!LeaseSpec

(* A row no run owns any more (its process died, or its release failed)     *)
(* does not stay for ever: some sweep, probe or takeover removes it, at the *)
(* latest once it has expired.                                             *)
Orphan(u) == row.uuid = u /\ \A t \in Thread : lease[t].uuid # u
OrphanRowGoes == \A u \in Uuid : Orphan(u) ~> ~Orphan(u)

(* Every _AUTO_BACKUP_LOCK that is taken is given back, whatever path       *)
(* run_auto_backups takes through refusal, error and release.               *)
RunLockIsReturned == \A p \in Process : runLock[p] # None ~> runLock[p] = None

(* "Auto backup is already running": a run is refused only while another    *)
(* run is under way (between taking _AUTO_BACKUP_LOCK and giving it back).  *)
Refusal == {"conflict", "refused"}
UnderWay(t) == op[t] \in {"auto", "pendingRun"} /\ pc[t] \notin Refusal
RefusedOnlyWhileRunning ==
  [][\A t \in Thread :
       pc[t] \notin Refusal /\ pc'[t] \in Refusal
         => \E u \in Thread \ {t} : UnderWay(u)]_vars
=============================================================================
