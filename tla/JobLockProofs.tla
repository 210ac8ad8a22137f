--------------------------- MODULE JobLockProofs ---------------------------
(***************************************************************************)
(* For any number of processes, threads and hosts and any lease length:    *)
(* JobLock is type correct, an unexpired lease that no other thread has    *)
(* deleted owns the row, and JobLock implements FleetLease.                *)
(***************************************************************************)
EXTENDS JobLock, TLAPS

Acquiring == {"takeover", "staleDelete", "insert"}
LeasePcs == Acquiring \cup {"work", "release", "releaseDelete"}
RunOps == {"auto", "pendingRun"}

(* Nothing executes in a stopped process.                                   *)
StoppedIsIdle ==
  \A t \in Thread : status[ProcessOf[t]] = "down" => pc[t] = "idle"

(* Which entry point a thread at each statement is in; run_auto_backups     *)
(* past its first statement has _AUTO_BACKUP_LOCK.                         *)
RunHoldsRunLock ==
  \A t \in Thread :
    /\ pc[t] = "idle" => op[t] = "none"
    /\ pc[t] \in LeasePcs \cup {"select", "conflict", "refused"} => op[t] \in RunOps
    /\ pc[t] \in {"probe", "probeDelete", "pendingLoop"} => op[t] = "pending"
    /\ op[t] \in RunOps /\ pc[t] # "refused" => runLock[ProcessOf[t]] = t

(* A thread has an owner string exactly while it acquires, works, releases; *)
(* no two threads have the same one.                                       *)
OwnersDiffer ==
  /\ \A t \in Thread : lease[t].uuid # None <=> pc[t] \in LeasePcs
  /\ \A t, u \in Thread :
       t # u /\ lease[t].uuid # None => lease[u].uuid # lease[t].uuid
  /\ \A t \in Thread :
       lease[t].uuid # None /\ row.uuid = lease[t].uuid => row.process = ProcessOf[t]

(* Until its commit, an acquiring thread's owner string is in no row, and   *)
(* the row it has locked is one nobody has a claim to.                     *)
AcquiringOwnsNothing ==
  \A t \in Thread :
    /\ pc[t] \in Acquiring => row.uuid # lease[t].uuid
    /\ pc[t] \in {"takeover", "staleDelete"} => rowLock = t /\ RowExists
    /\ pc[t] = "takeover" => row.left = 0
    /\ pc[t] = "staleDelete" => \A u \in Thread : lease[u].uuid # row.uuid

IInv ==
  /\ TypeOK
  /\ StoppedIsIdle
  /\ RunHoldsRunLock
  /\ OwnersDiffer
  /\ AcquiringOwnsNothing
  /\ FreshLeaseOwnsRow

-----------------------------------------------------------------------------
LEMMA LessInRange == ASSUME NEW n \in 0..Ttl PROVE Less(n) \in 0..Ttl
BY ConstantsOK DEF Less

LEMMA Labels ==
  /\ \A label \in {"idle", "sweep", "sweepDelete", "probe", "probeDelete",
       "pendingLoop", "select", "takeover", "staleDelete", "insert", "work",
       "release", "releaseDelete", "conflict", "refused"} : label \in Pc
  /\ \A name \in {"auto", "pending", "combined", "boot", "pendingRun", "none"} : name \in Op
BY DEF Pc, Op, Entry

LEMMA RecordTypes ==
  /\ NoRow \in Rows
  /\ NoLease \in Leases
  /\ \A r \in Rows : /\ r.uuid \in Uuid \cup {None}
                     /\ r.left \in 0..Ttl
                     /\ [r EXCEPT !.left = Less(r.left)] \in Rows
  /\ \A c \in Leases : /\ c.uuid \in Uuid \cup {None}
                       /\ c.left \in 0..Ttl
                       /\ [c EXCEPT !.lost = TRUE] \in Leases
                       /\ [c EXCEPT !.left = Less(c.left)] \in Leases
<1>1. NoRow \in Rows /\ NoLease \in Leases
  BY ConstantsOK DEF NoRow, NoLease, Rows, Leases
<1>2. ASSUME NEW r \in Rows
      PROVE /\ r.uuid \in Uuid \cup {None}
            /\ r.left \in 0..Ttl
            /\ [r EXCEPT !.left = Less(r.left)] \in Rows
  <2>1. r.uuid \in Uuid \cup {None} /\ r.left \in 0..Ttl
    BY DEF Rows
  <2>2. Less(r.left) \in 0..Ttl
    BY <2>1, LessInRange
  <2> QED
    BY <2>1, <2>2 DEF Rows
<1>3. ASSUME NEW c \in Leases
      PROVE /\ c.uuid \in Uuid \cup {None}
            /\ c.left \in 0..Ttl
            /\ [c EXCEPT !.lost = TRUE] \in Leases
            /\ [c EXCEPT !.left = Less(c.left)] \in Leases
  <2>1. c.uuid \in Uuid \cup {None} /\ c.left \in 0..Ttl
    BY DEF Leases
  <2>2. Less(c.left) \in 0..Ttl
    BY <2>1, LessInRange
  <2> QED
    BY <2>1, <2>2 DEF Leases
<1> QED
  BY <1>1, <1>2, <1>3

LEMMA NewRowType ==
  ASSUME TypeOK, NEW t \in Thread PROVE NewRow(t) \in Rows
BY ConstantsOK, RecordTypes DEF TypeOK, NewRow, Rows

(* Returning from an entry point, or from a run, keeps the types.           *)
LEMMA ControlTypes ==
  ASSUME TypeOK, NEW t \in Thread
  PROVE /\ \A label \in Pc : Goto(t, label) => pc' \in [Thread -> Pc]
        /\ Finish(t) => pc' \in [Thread -> Pc] /\ op' \in [Thread -> Op]
        /\ ReturnTo(t) => pc' \in [Thread -> Pc] /\ op' \in [Thread -> Op]
        /\ AfterSweep(t) => /\ pc' \in [Thread -> Pc] /\ op' \in [Thread -> Op]
                            /\ status' \in [Process -> {"down", "booting", "up"}]
        /\ FreeRunLock(t) => runLock' \in [Process -> Thread \cup {None}]
<1> USE Labels DEF TypeOK
<1>1. \A label \in Pc : Goto(t, label) => pc' \in [Thread -> Pc]
  BY DEF Goto
<1>2. Finish(t) => pc' \in [Thread -> Pc] /\ op' \in [Thread -> Op]
  BY DEF Goto, Finish
<1>3. ReturnTo(t) => pc' \in [Thread -> Pc] /\ op' \in [Thread -> Op]
  BY <1>2 DEF ReturnTo, Goto
<1>4. AfterSweep(t) => /\ pc' \in [Thread -> Pc] /\ op' \in [Thread -> Op]
                       /\ status' \in [Process -> {"down", "booting", "up"}]
  BY <1>1, <1>2 DEF AfterSweep
<1>5. FreeRunLock(t) => runLock' \in [Process -> Thread \cup {None}]
  BY DEF FreeRunLock
<1> QED
  BY <1>1, <1>2, <1>3, <1>4, <1>5

LEMMA DeleteRowTypes ==
  ASSUME TypeOK, NEW t \in Thread, DeleteRow(t)
  PROVE row' \in Rows /\ lease' \in [Thread -> Leases]
BY RecordTypes DEF TypeOK, DeleteRow

(* Every variable keeps its type, in every execution.                       *)
THEOREM TypeCorrect == Spec => []TypeOK
<1>1. Init => TypeOK
  BY Labels, RecordTypes DEF Init, TypeOK
<1>2. TypeOK /\ [Next]_vars => TypeOK'
  <2> SUFFICES ASSUME TypeOK, [Next]_vars PROVE TypeOK'
    OBVIOUS
  <2> USE ConstantsOK, Labels, RecordTypes, ControlTypes DEF TypeOK
  <2>1. ASSUME NEW t \in Thread, Boot(t) PROVE TypeOK'
    BY <2>1 DEF Boot
  <2>2. ASSUME NEW t \in Thread, NEW entry \in Entry, StartSweeper(t, entry) PROVE TypeOK'
    BY <2>2 DEF StartSweeper, Entry
  <2>3. ASSUME NEW t \in Thread, StartRun(t) PROVE TypeOK'
    BY <2>3 DEF StartRun
  <2>4. ASSUME NEW t \in Thread, SweepRead(t) PROVE TypeOK'
    BY <2>4 DEF SweepRead
  <2>5. ASSUME NEW t \in Thread, SweepDelete(t) PROVE TypeOK'
    BY <2>5, DeleteRowTypes DEF SweepDelete
  <2>6. ASSUME NEW t \in Thread, SweepFails(t) PROVE TypeOK'
    BY <2>6 DEF SweepFails
  <2>7. ASSUME NEW t \in Thread, Probe(t) \/ ProbeFails(t) \/ PendingDone(t) PROVE TypeOK'
    BY <2>7 DEF Probe, ProbeFails, PendingDone
  <2>8. ASSUME NEW t \in Thread, ProbeDelete(t) PROVE TypeOK'
    BY <2>8, DeleteRowTypes DEF ProbeDelete
  <2>9. ASSUME NEW t \in Thread, SelectForUpdate(t) PROVE TypeOK'
    <3>1. \A u \in Uuid : [uuid |-> u, left |-> Ttl, lost |-> FALSE] \in Leases
      BY DEF Leases
    <3>2. lease' \in [Thread -> Leases]
      BY <2>9, <3>1 DEF SelectForUpdate
    <3>3. pc' \in [Thread -> Pc] /\ rowLock' \in Thread \cup {None}
      BY <2>9 DEF SelectForUpdate
    <3> QED
      BY <2>9, <3>2, <3>3 DEF SelectForUpdate
  <2>10. ASSUME NEW t \in Thread, SelectFails(t) \/ EndWork(t) PROVE TypeOK'
    BY <2>10 DEF SelectFails, EndWork
  <2>11. ASSUME NEW t \in Thread, CommitTakeover(t) \/ CommitStaleDelete(t) PROVE TypeOK'
    BY <2>11, NewRowType DEF CommitTakeover, CommitStaleDelete
  <2>12. ASSUME NEW t \in Thread, CommitInsert(t) PROVE TypeOK'
    BY <2>12, NewRowType DEF CommitInsert
  <2>13. ASSUME NEW t \in Thread, CommitLost(t) PROVE TypeOK'
    BY <2>13, NewRowType DEF CommitLost
  <2>14. ASSUME NEW t \in Thread, ReleaseRead(t) PROVE TypeOK'
    BY <2>14 DEF ReleaseRead
  <2>15. ASSUME NEW t \in Thread, ReleaseDelete(t) PROVE TypeOK'
    BY <2>15 DEF ReleaseDelete
  <2>16. ASSUME NEW t \in Thread, ReleaseRaises(t) \/ RefuseRun(t) PROVE TypeOK'
    BY <2>16 DEF ReleaseRaises, RefuseRun
  <2>17. ASSUME NEW p \in Process, Crash(p) PROVE TypeOK'
    BY <2>17 DEF Crash
  <2>18. CASE Tick
    BY <2>18 DEF Tick
  <2>19. CASE UNCHANGED vars
    BY <2>19 DEF vars
  <2> QED
    BY <2>1, <2>2, <2>3, <2>4, <2>5, <2>6, <2>7, <2>8, <2>9, <2>10, <2>11, <2>12,
       <2>13, <2>14, <2>15, <2>16, <2>17, <2>18, <2>19 DEF Next, Step, Start
<1> QED
  BY <1>1, <1>2, PTL DEF Spec

-----------------------------------------------------------------------------
(* How a lease of another thread looks after a delete by primary key: its   *)
(* owner string and time are untouched, and it is lost if the row was its.  *)
LEMMA DeleteRowEffect ==
  ASSUME TypeOK, NEW t \in Thread, DeleteRow(t)
  PROVE /\ row'.uuid = None /\ row' = NoRow
        /\ rowLock = None
        /\ \A u \in Thread : /\ lease'[u].uuid = lease[u].uuid
                             /\ lease'[u].left = lease[u].left
                             /\ lease[u].lost => lease'[u].lost
                             /\ u = t => lease'[u] = lease[u]
                             /\ u # t /\ lease[u].uuid # None /\ row.uuid = lease[u].uuid
                                  => lease'[u].lost
BY RecordTypes DEF TypeOK, DeleteRow, NoRow, Leases

LEMMA ReleaseDeleteEffect ==
  ASSUME TypeOK, NEW t \in Thread, ReleaseDelete(t)
  PROVE \A u \in Thread \ {t} :
          /\ lease'[u].uuid = lease[u].uuid
          /\ lease'[u].left = lease[u].left
          /\ lease[u].lost => lease'[u].lost
          /\ lease[u].uuid # None /\ row.uuid = lease[u].uuid => lease'[u].lost
<1>1. \A c \in Leases : /\ [c EXCEPT !.lost = TRUE].uuid = c.uuid
                         /\ [c EXCEPT !.lost = TRUE].left = c.left
                         /\ [c EXCEPT !.lost = TRUE].lost = TRUE
  BY DEF Leases
<1>2. \A u \in Thread : lease[u] \in Leases
  BY DEF TypeOK
<1>3. \A u \in Thread \ {t} :
        lease'[u] = IF lease[u].uuid # None /\ lease[u].uuid = row.uuid
                    THEN [lease[u] EXCEPT !.lost = TRUE] ELSE lease[u]
  BY DEF ReleaseDelete
<1> QED
  BY <1>1, <1>2, <1>3

LEMMA InvInit == Init => IInv
BY ConstantsOK, TypeCorrect, Labels, RecordTypes
   DEF Init, IInv, TypeOK, StoppedIsIdle, RunHoldsRunLock, OwnersDiffer,
       AcquiringOwnsNothing, FreshLeaseOwnsRow, HoldsLease, InRun, NoRow, NoLease,
       Acquiring, LeasePcs, RunOps

(* StoppedIsIdle and RunHoldsRunLock are preserved by every step.           *)
LEMMA ControlStep ==
  ASSUME IInv, [Next]_vars
  PROVE  StoppedIsIdle' /\ RunHoldsRunLock'
<1> USE ConstantsOK DEF IInv, TypeOK, StoppedIsIdle, RunHoldsRunLock, LeasePcs,
                        Acquiring, RunOps
<1>1. ASSUME NEW t \in Thread, Boot(t) PROVE StoppedIsIdle' /\ RunHoldsRunLock'
  BY <1>1 DEF Boot, Goto
<1>2. ASSUME NEW t \in Thread, NEW entry \in Entry, StartSweeper(t, entry)
      PROVE StoppedIsIdle' /\ RunHoldsRunLock'
  BY <1>2 DEF StartSweeper, Goto, Entry
<1>3. ASSUME NEW t \in Thread, StartRun(t) PROVE StoppedIsIdle' /\ RunHoldsRunLock'
  BY <1>3 DEF StartRun, Goto
<1>4. ASSUME NEW t \in Thread, SweepRead(t) \/ SweepDelete(t) \/ SweepFails(t)
      PROVE StoppedIsIdle' /\ RunHoldsRunLock'
  <2>1. pc[t] \in {"sweep", "sweepDelete"} /\ runLock' = runLock
    BY <1>4 DEF SweepRead, SweepDelete, SweepFails
  <2>2. CASE Goto(t, "sweepDelete") /\ UNCHANGED <<op, status>>
    BY <2>1, <2>2 DEF Goto
  <2>3. CASE AfterSweep(t)
    BY <2>1, <2>3 DEF AfterSweep, Goto, Finish
  <2> QED
    BY <1>4, <2>2, <2>3 DEF SweepRead, SweepDelete, SweepFails
<1>5. ASSUME NEW t \in Thread, Probe(t) \/ ProbeDelete(t) \/ ProbeFails(t) \/ PendingDone(t)
      PROVE StoppedIsIdle' /\ RunHoldsRunLock'
  BY <1>5 DEF Probe, ProbeDelete, ProbeFails, PendingDone, Goto, Finish
<1>6. ASSUME NEW t \in Thread, SelectForUpdate(t) \/ SelectFails(t)
      PROVE StoppedIsIdle' /\ RunHoldsRunLock'
  BY <1>6 DEF SelectForUpdate, SelectFails, Goto
<1>7. ASSUME NEW t \in Thread, CommitTakeover(t) \/ CommitStaleDelete(t) \/ CommitInsert(t)
      PROVE StoppedIsIdle' /\ RunHoldsRunLock'
  BY <1>7 DEF CommitTakeover, CommitStaleDelete, CommitInsert, Goto
<1>8. ASSUME NEW t \in Thread, CommitLost(t) \/ EndWork(t)
      PROVE StoppedIsIdle' /\ RunHoldsRunLock'
  BY <1>8 DEF CommitLost, EndWork, Goto
<1>9. ASSUME NEW t \in Thread, ReleaseRead(t) \/ ReleaseDelete(t)
      PROVE StoppedIsIdle' /\ RunHoldsRunLock'
  BY <1>9 DEF ReleaseRead, ReleaseDelete, ReturnTo, FreeRunLock, Goto, Finish
<1>10. ASSUME NEW t \in Thread, ReleaseRaises(t) \/ RefuseRun(t)
       PROVE StoppedIsIdle' /\ RunHoldsRunLock'
  BY <1>10 DEF ReleaseRaises, RefuseRun, ReturnTo, FreeRunLock, Goto, Finish
<1>11. ASSUME NEW p \in Process, Crash(p) PROVE StoppedIsIdle' /\ RunHoldsRunLock'
  BY <1>11 DEF Crash
<1>12. CASE Tick
  BY <1>12 DEF Tick
<1>13. CASE UNCHANGED vars
  BY <1>13 DEF vars
<1> QED
  BY <1>1, <1>2, <1>3, <1>4, <1>5, <1>6, <1>7, <1>8, <1>9, <1>10, <1>11, <1>12, <1>13
     DEF Next, Step, Start

LeaseInv == OwnersDiffer /\ AcquiringOwnsNothing /\ FreshLeaseOwnsRow

(* Steps that leave the row, its lock and every lease alone, and do not     *)
(* move a thread into or out of the statements where it has an owner string.*)
LEMMA QuietStep ==
  ASSUME IInv, UNCHANGED <<row, rowLock, lease>>,
         \A t \in Thread : /\ pc'[t] \in LeasePcs <=> pc[t] \in LeasePcs
                           /\ pc'[t] \in Acquiring => pc'[t] = pc[t]
                           /\ InRun(t)' => InRun(t)
  PROVE  LeaseInv'
BY DEF IInv, LeaseInv, OwnersDiffer, AcquiringOwnsNothing, FreshLeaseOwnsRow,
   HoldsLease,
       InRun, RowExists, LeasePcs, Acquiring

(* Deleting the row by primary key, whoever owns it.                        *)
LEMMA DeleteStep ==
  ASSUME IInv, NEW t \in Thread, DeleteRow(t), pc[t] \notin LeasePcs,
         rowLock' = rowLock,
         \E label \in Pc \ LeasePcs : Goto(t, label)
  PROVE  LeaseInv'
BY ConstantsOK, DeleteRowEffect
   DEF IInv, TypeOK, LeaseInv, OwnersDiffer, AcquiringOwnsNothing, FreshLeaseOwnsRow,
   HoldsLease,
       InRun, RowExists, LeasePcs, Acquiring, Goto, NoRow

(* OwnersDiffer, AcquiringOwnsNothing and FreshLeaseOwnsRow are preserved.  *)
LEMMA LeaseStep ==
  ASSUME IInv, [Next]_vars
  PROVE  LeaseInv'
<1> USE ConstantsOK, Labels
<1>1. ASSUME NEW t \in Thread,
             \/ Boot(t) \/ SweepRead(t) \/ SweepFails(t) \/ Probe(t) \/ ProbeFails(t)
             \/ PendingDone(t) \/ SelectFails(t) \/ EndWork(t) \/ StartRun(t) \/ RefuseRun(t)
             \/ \E entry \in Entry : StartSweeper(t, entry)
      PROVE LeaseInv'
  <2>1. UNCHANGED <<row, rowLock, lease>>
    BY <1>1 DEF Boot, SweepRead, SweepFails, Probe, ProbeFails, PendingDone, SelectFails,
                EndWork, StartRun, RefuseRun, StartSweeper
  <2>2. /\ \A u \in Thread \ {t} : pc'[u] = pc[u]
        /\ \/ pc[t] \notin LeasePcs /\ pc'[t] \notin LeasePcs
           \/ pc[t] = "work" /\ pc'[t] = "release"
    BY <1>1 DEF Boot, SweepRead, SweepFails, AfterSweep, Probe, ProbeFails, PendingDone,
                SelectFails, EndWork, StartRun, RefuseRun, ReturnTo, StartSweeper, Goto,
                Finish, IInv, TypeOK, StoppedIsIdle, LeasePcs, Acquiring
  <2> QED
    BY <2>1, <2>2, QuietStep DEF InRun, LeasePcs, Acquiring
<1>2. ASSUME NEW t \in Thread, SweepDelete(t) PROVE LeaseInv'
  BY <1>2, DeleteStep DEF SweepDelete, AfterSweep, Finish, LeasePcs, Acquiring
<1>3. ASSUME NEW t \in Thread, ProbeDelete(t) PROVE LeaseInv'
  BY <1>3, DeleteStep DEF ProbeDelete, LeasePcs, Acquiring
<1>r. ASSUME NEW t \in Thread, ReleaseDelete(t)
      PROVE \A u \in Thread \ {t} :
              /\ lease'[u].uuid = lease[u].uuid
              /\ lease[u].left = lease'[u].left
              /\ lease[u].lost => lease'[u].lost
              /\ lease[u].uuid # None /\ row.uuid = lease[u].uuid => lease'[u].lost
  BY <1>r, ReleaseDeleteEffect DEF IInv
<1> USE DEF IInv, TypeOK, LeaseInv, OwnersDiffer, AcquiringOwnsNothing, FreshLeaseOwnsRow,
            HoldsLease, InRun, RowExists, LeasePcs, Acquiring, Goto
<1>4. ASSUME NEW t \in Thread, SelectForUpdate(t) PROVE LeaseInv'
  <2>1. CASE Goto(t, "conflict") /\ UNCHANGED <<rowLock, lease>>
    BY <1>4, <2>1, QuietStep DEF SelectForUpdate
  <2>2. ASSUME NEW u \in Uuid, Fresh(u),
               lease' = [lease EXCEPT ![t] = [uuid |-> u, left |-> Ttl, lost |-> FALSE]]
        PROVE LeaseInv'
    <3>1. row' = row /\ rowLock = None /\ pc[t] = "select"
      BY <1>4 DEF SelectForUpdate
    <3>2. lease'[t].uuid = u /\ \A v \in Thread \ {t} : lease'[v] = lease[v]
      BY <2>2
    <3>3. \/ ~RowExists /\ Goto(t, "insert") /\ UNCHANGED rowLock
          \/ RowExists /\ Expired /\ Goto(t, "takeover") /\ rowLock' = t
          \/ RowExists /\ ~Expired /\ Goto(t, "staleDelete") /\ rowLock' = t
             /\ Disposable(ProcessOf[t])
          \/ Goto(t, "conflict") /\ lease' = lease
      BY <1>4 DEF SelectForUpdate
    <3>4. lease[t].uuid = None /\ u # None /\ row.uuid # u
      BY <3>1, <2>2 DEF Fresh
    <3>5. ~Expired /\ Disposable(ProcessOf[t]) => \A v \in Thread : lease[v].uuid # row.uuid
      BY DEF Disposable, StaleSameHost, StoppedIsIdle
    <3>6. OwnersDiffer'
      BY <3>1, <3>2, <3>3, <3>4, <2>2 DEF Fresh
    <3>7. AcquiringOwnsNothing'
      BY <3>1, <3>2, <3>3, <3>4, <3>5, <2>2 DEF Fresh, Expired
    <3>8. FreshLeaseOwnsRow'
      BY <3>1, <3>2, <3>3
    <3> QED
      BY <3>6, <3>7, <3>8
  <2> QED
    BY <1>4, <2>1, <2>2 DEF SelectForUpdate
<1>5. ASSUME NEW t \in Thread, CommitTakeover(t) PROVE LeaseInv'
  BY <1>5 DEF CommitTakeover, NewRow
<1>6. ASSUME NEW t \in Thread, CommitStaleDelete(t) PROVE LeaseInv'
  BY <1>6 DEF CommitStaleDelete, NoRow
<1>7. ASSUME NEW t \in Thread, CommitInsert(t) PROVE LeaseInv'
  <2>1. pc[t] = "insert" /\ rowLock' = rowLock
    BY <1>7 DEF CommitInsert
  <2>2. CASE ~RowExists /\ row' = NewRow(t) /\ Goto(t, "work") /\ lease' = lease
    <3>1. /\ row'.uuid = lease[t].uuid /\ row'.left = lease[t].left
          /\ row'.process = ProcessOf[t]
      BY <2>2 DEF NewRow
    <3>2. OwnersDiffer'
      BY <2>1, <2>2, <3>1
    <3>3. AcquiringOwnsNothing'
      BY <2>1, <2>2, <3>1
    <3>4. FreshLeaseOwnsRow'
      BY <2>1, <2>2, <3>1
    <3> QED
      BY <3>2, <3>3, <3>4
  <2>3. CASE /\ Goto(t, "conflict") /\ row' = row
             /\ lease' = [lease EXCEPT ![t] = NoLease]
    <3>1. lease'[t].uuid = None /\ \A u \in Thread \ {t} : lease'[u] = lease[u]
      BY <2>3 DEF NoLease
    <3>2. OwnersDiffer'
      BY <2>1, <2>3, <3>1
    <3>3. AcquiringOwnsNothing'
      BY <2>1, <2>3, <3>1
    <3>4. FreshLeaseOwnsRow'
      BY <2>1, <2>3, <3>1
    <3> QED
      BY <3>2, <3>3, <3>4
  <2> QED
    BY <1>7, <2>2, <2>3 DEF CommitInsert
<1>8. ASSUME NEW t \in Thread, CommitLost(t) PROVE LeaseInv'
  BY <1>8 DEF CommitLost, NewRow, NoRow, NoLease
<1>9. ASSUME NEW t \in Thread, ReleaseRead(t) PROVE LeaseInv'
  <2>1. /\ row' = row /\ rowLock' = rowLock
        /\ \A u \in Thread \ {t} : pc'[u] = pc[u] /\ lease'[u] = lease[u]
        /\ \/ pc'[t] = "releaseDelete" /\ pc[t] = "release" /\ lease'[t] = lease[t]
           \/ pc'[t] \notin LeasePcs /\ lease'[t].uuid = None
    BY <1>9 DEF ReleaseRead, ReturnTo, Finish, NoLease
  <2>2. OwnersDiffer'
    BY <2>1
  <2>3. AcquiringOwnsNothing'
    BY <2>1
  <2>4. FreshLeaseOwnsRow'
    BY <2>1
  <2> QED
    BY <2>2, <2>3, <2>4
<1>10. ASSUME NEW t \in Thread, ReleaseDelete(t) PROVE LeaseInv'
  <2>1. /\ lease'[t].uuid = None /\ row' = NoRow /\ row'.uuid = None
        /\ rowLock' = rowLock /\ rowLock = None
        /\ pc'[t] \notin LeasePcs /\ \A u \in Thread \ {t} : pc'[u] = pc[u]
    BY <1>10, RecordTypes DEF ReleaseDelete, ReturnTo, Finish, NoLease, NoRow
  <2>2. \A u \in Thread \ {t} :
          /\ lease'[u].uuid = lease[u].uuid
          /\ lease[u].left = lease'[u].left
          /\ lease[u].lost => lease'[u].lost
          /\ lease[u].uuid # None /\ row.uuid = lease[u].uuid => lease'[u].lost
    BY <1>10, <1>r
  <2>3. OwnersDiffer'
    BY <2>1, <2>2
  <2>4. AcquiringOwnsNothing'
    BY <2>1, <2>2
  <2>5. FreshLeaseOwnsRow'
    BY <2>1, <2>2
  <2> QED
    BY <2>3, <2>4, <2>5
<1>11. ASSUME NEW t \in Thread, ReleaseRaises(t) PROVE LeaseInv'
  BY <1>11 DEF ReleaseRaises, ReturnTo, Finish, NoLease
<1>12. ASSUME NEW p \in Process, Crash(p) PROVE LeaseInv'
  BY <1>12 DEF Crash, NoLease
<1>13. CASE Tick
  <2>1. \A u \in Thread : /\ lease'[u].uuid = lease[u].uuid
                          /\ lease'[u].lost = lease[u].lost
                          /\ lease'[u].left = Less(lease[u].left)
                          /\ lease[u].left \in 0..Ttl
    BY <1>13, RecordTypes DEF Tick, Leases
  <2>2. /\ row'.uuid = row.uuid /\ row'.process = row.process
        /\ row'.left = Less(row.left) /\ row.left \in 0..Ttl
        /\ UNCHANGED <<pc, rowLock>>
    BY <1>13, RecordTypes DEF Tick, Rows
  <2>3. OwnersDiffer'
    BY <2>1, <2>2
  <2>4. AcquiringOwnsNothing'
    BY <2>1, <2>2 DEF Less
  <2>5. FreshLeaseOwnsRow'
    BY <2>1, <2>2 DEF Less
  <2> QED
    BY <2>3, <2>4, <2>5
<1>14. CASE UNCHANGED vars
  BY <1>14 DEF vars
<1> QED
  BY <1>1, <1>2, <1>3, <1>4, <1>5, <1>6, <1>7, <1>8, <1>9, <1>10, <1>11, <1>12, <1>13, <1>14
     DEF Next, Step, Start

(* Every reachable state satisfies the inductive invariant.                 *)
THEOREM Inductive == Spec => []IInv
<1>1. IInv /\ [Next]_vars => StoppedIsIdle' /\ RunHoldsRunLock' /\ LeaseInv'
  BY ControlStep, LeaseStep
<1>2. TypeOK' /\ StoppedIsIdle' /\ RunHoldsRunLock' /\ LeaseInv' => IInv'
  BY DEF IInv, LeaseInv
<1> QED
  BY <1>1, <1>2, InvInit, TypeCorrect, PTL DEF Spec

(* While a run's lease has neither expired nor been deleted by another       *)
(* thread, the job_locks row names that run as its owner.                  *)
THEOREM LeaseOwnsRow == Spec => []FreshLeaseOwnsRow
<1>1. IInv => FreshLeaseOwnsRow
  BY DEF IInv
<1> QED
  BY <1>1, Inductive, PTL

-----------------------------------------------------------------------------
LEMMA FleetInit == Init => Fleet!LeaseInit
BY DEF Init, Fleet!LeaseInit, InRun, HoldsLease

(* A commit that gives a thread the lease is an Enter: nobody else holds a   *)
(* valid lease, and no other thread of the process is in a run.            *)
LEMMA FleetEnter ==
  ASSUME IInv, IInv', NEW t \in Thread, CommitTakeover(t) \/ (CommitInsert(t) /\ ~RowExists)
  PROVE  Fleet!Enter(t)
<1> USE DEF InRun, HoldsLease
<1>1. row.left = 0 \/ row.uuid = None
  BY DEF IInv, AcquiringOwnsNothing, CommitTakeover, RowExists
<1>2. {u \in Thread : HoldsLease(u)} = {}
  BY <1>1 DEF IInv, OwnersDiffer, FreshLeaseOwnsRow, LeasePcs, Acquiring, TypeOK, Leases
<1>3. \A u \in Thread : InRun(u) => ProcessOf[u] # ProcessOf[t]
  BY DEF IInv, RunHoldsRunLock, LeasePcs, Acquiring, RunOps, CommitTakeover, CommitInsert
<1>4. /\ pc' = [pc EXCEPT ![t] = "work"] /\ lease' = lease /\ pc[t] \in Acquiring
  BY DEF CommitTakeover, CommitInsert, Goto, Acquiring
<1>5. {u \in Thread : InRun(u)}' = {u \in Thread : InRun(u)} \cup {t}
  BY <1>4 DEF IInv, TypeOK
<1>6. {u \in Thread : HoldsLease(u)}' \in {{}, {t}}
  BY <1>2, <1>4 DEF IInv, TypeOK
<1> QED
  BY <1>2, <1>3, <1>5, <1>6 DEF Fleet!Enter

(* Any other step only ends runs or shortens leases.                        *)
LEMMA FleetLeave ==
  ASSUME IInv, NEW gone \in SUBSET Thread,
         \A t \in Thread : InRun(t)' <=> (InRun(t) /\ t \notin gone),
         \A t \in Thread : HoldsLease(t)' => (HoldsLease(t) /\ t \notin gone)
  PROVE  Fleet!Leave(gone)
BY DEF Fleet!Leave

(* The same for steps that end the run of one thread, or of none.           *)
LEMMA FleetLapse ==
  ASSUME IInv,
         \A t \in Thread : InRun(t)' <=> InRun(t),
         \A t \in Thread : HoldsLease(t)' => HoldsLease(t)
  PROVE  Fleet!LeaseNext
<1>1. Fleet!Leave({})
  BY FleetLeave
<1> QED
  BY <1>1 DEF Fleet!LeaseNext

LEMMA FleetLeaveOne ==
  ASSUME IInv, NEW t \in Thread, ~InRun(t)',
         \A u \in Thread \ {t} : pc'[u] = pc[u] /\ (HoldsLease(u)' => HoldsLease(u))
  PROVE  Fleet!LeaseNext
<1>1. /\ \A u \in Thread : InRun(u)' <=> (InRun(u) /\ u \notin {t})
      /\ \A u \in Thread : HoldsLease(u)' => (HoldsLease(u) /\ u \notin {t})
  BY DEF InRun, HoldsLease
<1>2. Fleet!Leave({t})
  BY <1>1, FleetLeave
<1> QED
  BY <1>2 DEF Fleet!LeaseNext

LEMMA FleetStep ==
  ASSUME IInv, IInv', [Next]_vars
  PROVE  Fleet!LeaseNext
<1> USE ConstantsOK
<1>1. ASSUME NEW t \in Thread, CommitTakeover(t) \/ (CommitInsert(t) /\ ~RowExists)
      PROVE Fleet!LeaseNext
  BY <1>1, FleetEnter DEF Fleet!LeaseNext
<1>2. ASSUME NEW t \in Thread,
             \/ Boot(t) \/ SweepRead(t) \/ SweepFails(t) \/ Probe(t) \/ ProbeFails(t)
             \/ PendingDone(t) \/ SelectFails(t) \/ EndWork(t) \/ StartRun(t) \/ RefuseRun(t)
             \/ \E entry \in Entry : StartSweeper(t, entry)
      PROVE Fleet!LeaseNext
  <2>1. UNCHANGED lease
    BY <1>2 DEF Boot, SweepRead, SweepFails, Probe, ProbeFails, PendingDone, SelectFails,
                EndWork, StartRun, RefuseRun, StartSweeper
  <2>2. /\ \A u \in Thread \ {t} : pc'[u] = pc[u]
        /\ InRun(t)' <=> InRun(t)
    BY <1>2 DEF Boot, SweepRead, SweepFails, AfterSweep, Probe, ProbeFails, PendingDone,
                SelectFails, EndWork, StartRun, RefuseRun, ReturnTo, StartSweeper, Goto,
                Finish, StoppedIsIdle, InRun, IInv, TypeOK
  <2>3. \A u \in Thread : InRun(u)' <=> InRun(u)
    BY <2>2 DEF InRun
  <2>4. \A u \in Thread : HoldsLease(u)' => HoldsLease(u)
    BY <2>1, <2>3 DEF HoldsLease
  <2> QED
    BY <2>3, <2>4, FleetLapse
<1>3. ASSUME NEW t \in Thread, SweepDelete(t) \/ ProbeDelete(t) PROVE Fleet!LeaseNext
  <2>1. DeleteRow(t)
    BY <1>3 DEF SweepDelete, ProbeDelete
  <2>2. \A u \in Thread : InRun(u)' <=> InRun(u)
    BY <1>3 DEF SweepDelete, ProbeDelete, AfterSweep, Goto, Finish, InRun, IInv, TypeOK
  <2>3. \A u \in Thread : HoldsLease(u)' => HoldsLease(u)
    BY <2>1, <2>2, DeleteRowEffect DEF HoldsLease, IInv
  <2> QED
    BY <2>2, <2>3, FleetLapse
<1>4. ASSUME NEW t \in Thread,
             \/ SelectForUpdate(t) \/ CommitStaleDelete(t) \/ CommitLost(t)
             \/ (CommitInsert(t) /\ RowExists) \/ ReleaseRaises(t)
      PROVE Fleet!LeaseNext
  <2>1. /\ \A u \in Thread \ {t} : pc'[u] = pc[u] /\ lease'[u] = lease[u]
        /\ ~InRun(t)'
    BY <1>4 DEF SelectForUpdate, CommitStaleDelete, CommitLost, CommitInsert, ReleaseRaises,
                ReturnTo, Goto, Finish, InRun, IInv, TypeOK
  <2> QED
    BY <2>1, FleetLeaveOne DEF HoldsLease, InRun
<1>5. ASSUME NEW t \in Thread, ReleaseRead(t) PROVE Fleet!LeaseNext
  <2>1. /\ \A u \in Thread \ {t} : pc'[u] = pc[u] /\ lease'[u] = lease[u]
        /\ ~InRun(t)' \/ (InRun(t) /\ InRun(t)' /\ lease' = lease)
    BY <1>5 DEF ReleaseRead, ReturnTo, Goto, Finish, InRun, IInv, TypeOK
  <2>2. CASE ~InRun(t)'
    BY <2>1, <2>2, FleetLeaveOne DEF HoldsLease, InRun
  <2>3. CASE InRun(t) /\ InRun(t)' /\ lease' = lease
    BY <2>1, <2>3, FleetLapse DEF HoldsLease, InRun
  <2> QED
    BY <2>1, <2>2, <2>3
<1>6. ASSUME NEW t \in Thread, ReleaseDelete(t) PROVE Fleet!LeaseNext
  <2>1. /\ \A u \in Thread \ {t} : pc'[u] = pc[u]
        /\ ~InRun(t)'
    BY <1>6 DEF ReleaseDelete, ReturnTo, Goto, Finish, InRun, IInv, TypeOK
  <2>2. \A u \in Thread \ {t} : HoldsLease(u)' => HoldsLease(u)
    BY <1>6, <2>1, ReleaseDeleteEffect DEF HoldsLease, InRun, IInv
  <2> QED
    BY <2>1, <2>2, FleetLeaveOne
<1>7. ASSUME NEW p \in Process, Crash(p) PROVE Fleet!LeaseNext
  <2> DEFINE dead == {t \in Thread : ProcessOf[t] = p}
  <2>1. \A t \in Thread : InRun(t)' <=> (InRun(t) /\ t \notin dead)
    BY <1>7 DEF Crash, InRun, IInv, TypeOK
  <2>2. \A t \in Thread : HoldsLease(t)' => (HoldsLease(t) /\ t \notin dead)
    BY <1>7, <2>1 DEF Crash, HoldsLease, IInv, TypeOK
  <2>3. dead \in SUBSET Thread
    OBVIOUS
  <2> HIDE DEF dead
  <2>4. Fleet!Leave(dead)
    BY <2>1, <2>2, <2>3, FleetLeave
  <2> QED
    BY <2>3, <2>4 DEF Fleet!LeaseNext
<1>8. CASE Tick
  <2>1. \A u \in Thread : /\ lease'[u].lost = lease[u].lost
                          /\ lease'[u].left > 0 => lease[u].left > 0
    BY <1>8, RecordTypes DEF Tick, Less, Leases, IInv, TypeOK
  <2>2. pc' = pc
    BY <1>8 DEF Tick
  <2> QED
    BY <2>1, <2>2, FleetLapse DEF HoldsLease, InRun
<1>9. CASE UNCHANGED vars
  BY <1>9, FleetLapse DEF vars, HoldsLease, InRun
<1> QED
  BY <1>1, <1>2, <1>3, <1>4, <1>5, <1>6, <1>7, <1>8, <1>9 DEF Next, Step, Start

(* The in-process lock, the row lock, takeovers, stale-pid cleanups and      *)
(* releases together implement FleetLease: a fleet run starts only when no *)
(* run of its process is under way and no run anywhere has a valid lease.  *)
THEOREM FleetRefinement == Spec => ImplementsFleetLease
<1>1. IInv /\ IInv' /\ [Next]_vars => Fleet!LeaseNext
  BY FleetStep
<1> QED
  BY <1>1, FleetInit, Inductive, PTL
     DEF Spec, ImplementsFleetLease, Fleet!LeaseSpec, Fleet!leaseVars
=============================================================================
