--------------------------- MODULE BackupJobsProofs ---------------------------
(***************************************************************************)
(* Proofs about BackupJobs, for runs of any length: its types, that a      *)
(* successful combined job has its backup, and that a finished job keeps   *)
(* its result.                                                             *)
(***************************************************************************)
EXTENDS BackupJobs, TLAPS

USE DEF late

(* What update_job does to the rows: the row named gets the status and is   *)
(* young again, and keeps whether it is linked; the others stay.            *)
LEMMA JobRows ==
  ASSUME TypeOK, NEW j \in Job, NEW s \in JobStatus
  PROVE  /\ JobWith(j, s) \in [Job -> JobRow]
         /\ \A i \in Job : i # j => JobWith(j, s)[i] = job[i]
         /\ JobWith(j, s)[j].status = s /\ JobWith(j, s)[j].age = 0
         /\ JobWith(j, s)[j].linked = job[j].linked
BY BackupJobsOK DEF BackupJobsOK, TypeOK, JobWith, JobRow

LEMMA BackupRows ==
  ASSUME TypeOK, NEW j \in Job, NEW s \in BackupStatus
  PROVE  /\ BackupWith(j, s) \in [Job -> BackupRow]
         /\ \A i \in Job : i # j => BackupWith(j, s)[i] = backup[i]
         /\ BackupWith(j, s)[j].status = s /\ BackupWith(j, s)[j].age = 0
BY BackupJobsOK DEF BackupJobsOK, TypeOK, BackupWith, BackupRow

(* A fleet run's progress is a write to its row as well.                    *)
LEMMA TouchedRows ==
  ASSUME TypeOK, NEW j \in Job
  PROVE  /\ Touched(j) \in [Job -> JobRow]
         /\ \A i \in Job : i # j => Touched(j)[i] = job[i]
         /\ Touched(j)[j].status = job[j].status /\ Touched(j)[j].age = 0
         /\ Touched(j)[j].linked = job[j].linked
BY JobRows DEF TypeOK, Touched, JobRow

(* The clock keeps every row in its type.                                   *)
LEMMA OlderRows ==
  ASSUME TypeOK
  PROVE  /\ [j \in Job |-> Older(job[j])] \in [Job -> JobRow]
         /\ [j \in Job |-> Older(backup[j])] \in [Job -> BackupRow]
<1>1. Stale \in Nat BY BackupJobsOK DEF BackupJobsOK
<1>2. ASSUME NEW j \in Job
      PROVE  Older(job[j]) \in JobRow
  <2>1. PICK s \in JobStatus, a \in 0..Stale, l \in BOOLEAN :
          job[j] = [status |-> s, age |-> a, linked |-> l]
    BY DEF TypeOK, JobRow
  <2>2. Older(job[j]) =
          IF s = "running" /\ a < Stale
          THEN [status |-> s, age |-> a + 1, linked |-> l] ELSE job[j]
    BY <2>1 DEF Older
  <2> QED BY <1>1, <2>1, <2>2 DEF JobRow, JobStatus
<1>3. ASSUME NEW j \in Job
      PROVE  Older(backup[j]) \in BackupRow
  <2>1. PICK s \in BackupStatus, a \in 0..Stale : backup[j] = [status |-> s, age |-> a]
    BY DEF TypeOK, BackupRow
  <2>2. Older(backup[j]) =
          IF s = "running" /\ a < Stale THEN [status |-> s, age |-> a + 1] ELSE backup[j]
    BY <2>1 DEF Older
  <2> QED BY <1>1, <2>1, <2>2 DEF BackupRow, BackupStatus
<1> QED BY <1>2, <1>3

(* And leaves what the rows say.                                            *)
LEMMA OlderFields ==
  ASSUME TypeOK, NEW j \in Job
  PROVE  /\ Older(job[j]).status = job[j].status
         /\ Older(job[j]).linked = job[j].linked
         /\ Older(backup[j]).status = backup[j].status
<1>1. PICK s \in JobStatus, a \in 0..Stale, l \in BOOLEAN :
        job[j] = [status |-> s, age |-> a, linked |-> l]
  BY DEF TypeOK, JobRow
<1>2. PICK state \in BackupStatus, old \in 0..Stale : backup[j] = [status |-> state, age |-> old]
  BY DEF TypeOK, BackupRow
<1>3. Older(job[j]).status = job[j].status /\ Older(job[j]).linked = job[j].linked
  BY <1>1 DEF Older
<1>4. Older(backup[j]).status = backup[j].status
  BY <1>2 DEF Older
<1> QED BY <1>3, <1>4

-----------------------------------------------------------------------------
(* Types: an action of a run or a request.                                  *)
LEMMA RunTyped ==
  ASSUME TypeOK, NEW j \in Job,
         Enqueue(j) \/ StartSync(j) \/ Run(j) \/ Progress(j) \/ Delete(j)
  PROVE  TypeOK'
<1>t. j \in Thread /\ Stale \in Nat
  BY BackupJobsOK DEF BackupJobsOK, Thread
<1>j. \A s \in JobStatus : JobWith(j, s) \in [Job -> JobRow]
  BY JobRows
<1>b. \A s \in BackupStatus : BackupWith(j, s) \in [Job -> BackupRow]
  BY BackupRows
<1>g. \A l \in Pc : [pc EXCEPT ![j] = l] \in [Thread -> Pc]
  BY <1>t DEF TypeOK
<1>1. CASE Enqueue(j)
  BY <1>t, <1>j, <1>b, <1>g, <1>1 DEF Enqueue, Goto, TypeOK, Pc, JobStatus, BackupStatus
<1>2. CASE StartSync(j)
  BY <1>t, <1>j, <1>b, <1>g, <1>2 DEF StartSync, Goto, TypeOK, Pc, JobStatus, BackupStatus
<1>3. CASE Submit(j)
  BY <1>t, <1>g, <1>3 DEF Submit, Goto, TypeOK, Pc, JobStatus, BackupStatus
<1>4. CASE Take(j)
  <2>1. Tail(queue) \in Seq(PooledJob)
    BY <1>t, <1>4 DEF Take, TypeOK
  <2> QED BY <1>t, <1>g, <1>4, <2>1 DEF Take, Goto, TypeOK, Pc, JobStatus, BackupStatus
<1>5. CASE PassChecks(j)
  BY <1>t, <1>j, <1>b, <1>g, <1>5 DEF PassChecks, Goto, TypeOK, Pc, JobStatus, BackupStatus
<1>6. CASE ChecksFail(j)
  BY <1>t, <1>j, <1>b, <1>g, <1>6 DEF ChecksFail, Goto, TypeOK, Pc, JobStatus, BackupStatus
<1>7. CASE RefuseAuto(j)
  BY <1>t, <1>j, <1>b, <1>g, <1>7 DEF RefuseAuto, Goto, TypeOK, Pc, JobStatus, BackupStatus
<1>8. CASE BeginWork(j)
  BY <1>t, <1>j, <1>g, <1>8, TouchedRows
     DEF BeginWork, Goto, TypeOK, Pc, JobStatus, BackupStatus
<1>9. CASE WorkFails(j)
  BY <1>t, <1>j, <1>b, <1>g, <1>9 DEF WorkFails, Goto, TypeOK, Pc, JobStatus, BackupStatus
<1>10. CASE Progress(j)
  BY <1>t, <1>j, <1>g, <1>10, TouchedRows
     DEF Progress, Goto, TypeOK, Pc, JobStatus, BackupStatus
<1>11. CASE CreateBackup(j)
  BY <1>t, <1>j, <1>b, <1>g, <1>11
     DEF CreateBackup, Goto, TypeOK, Pc, JobStatus, BackupStatus
<1>12. CASE NoBackupNeeded(j)
  BY <1>t, <1>j, <1>b, <1>g, <1>12
     DEF NoBackupNeeded, Goto, TypeOK, Pc, JobStatus, BackupStatus
<1>13. CASE BackupSucceeds(j)
  BY <1>t, <1>j, <1>b, <1>g, <1>13
     DEF BackupSucceeds, Goto, TypeOK, Pc, JobStatus, BackupStatus
<1>14. CASE BackupFails(j)
  BY <1>t, <1>j, <1>b, <1>g, <1>14
     DEF BackupFails, Goto, TypeOK, Pc, JobStatus, BackupStatus
<1>15. CASE BackupCancelled(j)
  BY <1>t, <1>j, <1>b, <1>g, <1>15
     DEF BackupCancelled, Goto, TypeOK, Pc, JobStatus, BackupStatus
<1>16. CASE BackupVanished(j)
  BY <1>t, <1>j, <1>b, <1>g, <1>16
     DEF BackupVanished, Goto, TypeOK, Pc, JobStatus, BackupStatus
<1>17. CASE FinishCombined(j)
  BY <1>t, <1>g, <1>17 DEF FinishCombined, Goto, TypeOK, Pc, JobStatus, BackupStatus, JobRow
<1>18. CASE Reply(j)
  BY <1>t, <1>j, <1>b, <1>g, <1>18 DEF Reply, Goto, TypeOK, Pc, JobStatus, BackupStatus
<1>19. CASE FinishOther(j)
  BY <1>t, <1>j, <1>b, <1>g, <1>19
     DEF FinishOther, Goto, TypeOK, Pc, JobStatus, BackupStatus
<1>20. CASE FailJob(j)
  BY <1>t, <1>j, <1>b, <1>g, <1>20 DEF FailJob, Goto, TypeOK, Pc, JobStatus, BackupStatus
<1>21. CASE Delete(j)
  BY <1>t, <1>b, <1>21 DEF Delete, Goto, TypeOK, Pc, JobStatus, BackupStatus, JobRow
<1> QED BY <1>1, <1>2, <1>3, <1>4, <1>5, <1>6, <1>7, <1>8, <1>9, <1>10,
       <1>11, <1>12, <1>13, <1>14, <1>15, <1>16, <1>17, <1>18, <1>19, <1>20, <1>21
   DEF Run

(* Types: the sweep, the process and the clock.                             *)
LEMMA SystemTyped ==
  ASSUME TypeOK,
         \/ SweepTick \/ Shutdown \/ Exit \/ Startup \/ Tick
         \/ \E t \in Thread : Sweep(t) \/ SweepFails(t)
  PROVE  TypeOK'
<1>t. Ticker \in Thread /\ Stale \in Nat
  BY BackupJobsOK DEF BackupJobsOK, Thread
<1>1. CASE SweepTick
  BY <1>t, <1>1 DEF SweepTick, Goto, TypeOK, Pc
<1>2. CASE Shutdown
  BY <1>t, <1>2 DEF Shutdown, TypeOK, Pc
<1>3. CASE Exit
  BY <1>t, <1>3 DEF Exit, TypeOK, Pc
<1>4. CASE Startup
  <2>1. CASE Boot \/ Serve
    BY <2>1 DEF Boot, Serve, TypeOK
  <2>2. ASSUME NEW j \in Job, RecoverBackup(j)
        PROVE  TypeOK'
    BY <2>2, BackupRows DEF RecoverBackup, TypeOK, BackupStatus
  <2>3. ASSUME NEW j \in Job, RecoverJob(j)
        PROVE  TypeOK'
    BY <2>3, JobRows DEF RecoverJob, TypeOK, JobStatus
  <2> QED BY <1>4, <2>1, <2>2, <2>3 DEF Startup
<1>5. CASE Tick
  BY <1>t, <1>5, OlderRows DEF Tick, TypeOK
<1>6. ASSUME NEW t \in Thread, Sweep(t) \/ SweepFails(t)
      PROVE  TypeOK'
  <2>g. \A l \in Pc : [pc EXCEPT ![t] = l] \in [Thread -> Pc]
    BY <1>t DEF TypeOK
  <2>s. [pc EXCEPT ![t] = IF t = Ticker THEN "idle" ELSE "swept"] \in [Thread -> Pc]
    BY <2>g DEF Pc
  <2>1. CASE ListBackups(t)
    BY <1>t, <2>g, <2>1 DEF ListBackups, Goto, TypeOK, Pc
  <2>2. CASE GiveUpSweep(t)
    BY <1>t, <2>s, <2>2 DEF GiveUpSweep, Swept, Goto, TypeOK
  <2>3. CASE ListJobs(t)
    BY <1>t, <2>g, <2>3 DEF ListJobs, Goto, TypeOK, Pc
  <2>4. CASE EndSweep(t)
    BY <1>t, <2>s, <2>4 DEF EndSweep, Swept, Goto, TypeOK
  <2>5. ASSUME NEW b \in Job, MarkBackup(t, b)
        PROVE  TypeOK'
    BY <1>t, <2>5, BackupRows DEF MarkBackup, TypeOK, BackupStatus
  <2>6. ASSUME NEW j \in Job, MarkJob(t, j)
        PROVE  TypeOK'
    BY <1>t, <2>6, JobRows DEF MarkJob, TypeOK, JobStatus
  <2>7. CASE SweepFails(t)
    BY <1>t, <2>s, <2>7 DEF SweepFails, Swept, Goto, TypeOK
  <2> QED BY <1>6, <2>1, <2>2, <2>3, <2>4, <2>5, <2>6, <2>7 DEF Sweep
<1> QED BY <1>1, <1>2, <1>3, <1>4, <1>5, <1>6

(* Every reachable state is well typed: the rows only ever hold statuses    *)
(* the models define, the pool only jobs that were enqueued.                *)
THEOREM TypeCorrect == Spec => []TypeOK
<1>1. Init => TypeOK
  BY BackupJobsOK DEF BackupJobsOK, Init, TypeOK, NoJob, NoBackup, JobStatus, BackupStatus,
          JobRow, BackupRow, Pc
<1>2. TypeOK /\ [Next]_vars => TypeOK'
  <2> SUFFICES ASSUME TypeOK, [Next]_vars PROVE TypeOK'
    OBVIOUS
  <2>1. CASE UNCHANGED vars
    BY <2>1 DEF vars, TypeOK
  <2>2. CASE Next
    BY <2>2, RunTyped, SystemTyped DEF Next
  <2> QED BY <2>1, <2>2
<1> QED BY <1>1, <1>2, PTL DEF Spec

-----------------------------------------------------------------------------
(* A run reports its result at its end: before that its job is running,     *)
(* unless a sweep that takes the run for dead has listed it.                *)
JobFits(j) ==
  /\ pc[j] = "idle" => job[j].status = "none" /\ j \notin lateJob
  /\ pc[j] = "reply" => j \in CombinedJob
  /\ Alive(j) => \/ job[j].status \in {"none", "running"}
                 \/ job[j].status = "failed" /\ j \in lateJob
                 \/ job[j].status = "success" /\ pc[j] = "reply"

(* What a combined run has saved is marked failed by such a sweep only.     *)
Kept(j) == \/ backup[j].status = "success"
           \/ backup[j].status = "failed" /\ j \in lateBackup

BackupFits(j) ==
  /\ pc[j] = "idle" => backup[j].status = "none"
  /\ j \in CombinedJob /\ pc[j] \in {"saved", "reply"} =>
       Kept(j) \/ backup[j].status = "deleted"
  /\ j \in CombinedJob /\ job[j].status = "success" /\ job[j].linked => Kept(j)

(* Any other row a sweep has listed belongs to a run that is over, and has  *)
(* not ended well.                                                         *)
Listed(t) ==
  /\ pc[t] = "markBackups" => \A b \in todo[t] \cap CombinedJob :
       \/ b \in lateBackup
       \/ pc[b] = "done" /\ backup[b].status \in {"running", "failed", "deleted"}
  /\ pc[t] = "markJobs" => \A j \in todo[t] :
       \/ j \in lateJob
       \/ pc[j] = "done" /\ job[j].status \in {"running", "failed"}

NotServing == phase \in {"down", "starting"}

Safe ==
  /\ \A j \in Job : JobFits(j) /\ BackupFits(j)
  /\ \A t \in Thread : Listed(t)
  /\ NotServing => \A t \in Thread : pc[t] \in {"idle", "done"}

(* A step that moves one job only: the invariant is left to show for it.    *)
LEMMA OneJobMoves ==
  ASSUME TypeOK, TypeOK', Safe, NEW j \in Job,
         \A i \in Job : i # j => job'[i] = job[i] /\ backup'[i] = backup[i],
         \A t \in Thread : t # j => pc'[t] = pc[t],
         todo' = todo, phase' = phase, late' = late, NotServing => pc'[j] = pc[j],
         JobFits(j)', BackupFits(j)',
         (pc'[j] # "markBackups" /\ pc'[j] # "markJobs") \/ pc'[j] = pc[j],
         pc[j] = "done" => /\ pc'[j] = "done"
                           /\ job'[j].status = job[j].status
                           /\ backup'[j].status \in {backup[j].status, "deleted"}
  PROVE  Safe'
<1>t. Job \subseteq Thread
  BY DEF Thread
<1>1. ASSUME NEW i \in Job
      PROVE  JobFits(i)' /\ BackupFits(i)'
  <2>1. CASE i = j
    BY <2>1
  <2>2. CASE i # j
    <3>1. job'[i] = job[i] /\ backup'[i] = backup[i] /\ pc'[i] = pc[i]
      BY <1>t, <2>2
    <3>2. JobFits(i) /\ BackupFits(i)
      BY DEF Safe
    <3> QED BY <3>1, <3>2 DEF JobFits, BackupFits, Kept, Alive
  <2> QED BY <2>1, <2>2
<1>2. ASSUME NEW t \in Thread
      PROVE  Listed(t)'
  <2>1. Listed(t) /\ todo[t] \subseteq Job
    BY DEF Safe, TypeOK
  <2>2. pc'[t] \in {"markBackups", "markJobs"} => pc'[t] = pc[t]
    BY <1>t
  <2>3. ASSUME NEW i \in Job, pc[i] = "done"
        PROVE  /\ pc'[i] = "done"
               /\ job'[i].status = job[i].status
               /\ backup'[i].status \in {backup[i].status, "deleted"}
    BY <1>t, <2>3
  <2> QED BY <2>1, <2>2, <2>3 DEF Listed
<1>3. NotServing' => \A t \in Thread : pc'[t] \in {"idle", "done"}
  BY DEF Safe, NotServing
<1> QED BY <1>1, <1>2, <1>3 DEF Safe

(* The invariant: an action of a run or a request.                          *)
LEMMA RunSafe ==
  ASSUME TypeOK, TypeOK', Safe, NEW j \in Job,
         Enqueue(j) \/ StartSync(j) \/ Run(j) \/ Progress(j) \/ Delete(j)
  PROVE  Safe'
<1>t. j \in Thread /\ Stale \in Nat /\ 0 < Stale
  BY BackupJobsOK DEF BackupJobsOK, Thread
<1>p. \A l : pc' = [pc EXCEPT ![j] = l] =>
        pc'[j] = l /\ \A t \in Thread : t # j => pc'[t] = pc[t]
  BY <1>t DEF TypeOK
<1>j. ASSUME NEW s \in JobStatus
      PROVE  /\ JobWith(j, s)[j].status = s /\ JobWith(j, s)[j].age = 0
             /\ JobWith(j, s)[j].linked = job[j].linked
             /\ \A i \in Job : i # j => JobWith(j, s)[i] = job[i]
  BY JobRows
<1>b. ASSUME NEW s \in BackupStatus
      PROVE  /\ BackupWith(j, s)[j].status = s /\ BackupWith(j, s)[j].age = 0
             /\ \A i \in Job : i # j => BackupWith(j, s)[i] = backup[i]
  BY BackupRows
<1>d. /\ NotServing => pc[j] \in {"idle", "done"}
      /\ NotServing <=> phase \in {"down", "starting"}
  BY <1>t DEF Safe, NotServing
<1>u. /\ Touched(j)[j].status = job[j].status /\ Touched(j)[j].age = 0
      /\ Touched(j)[j].linked = job[j].linked
      /\ \A i \in Job : i # j => Touched(j)[i] = job[i]
  BY TouchedRows
<1>c. CleanupJob \subseteq PooledJob /\ CombinedJob \cap AutoJob = {}
  BY BackupJobsOK DEF BackupJobsOK
<1>s. JobFits(j) /\ BackupFits(j)
  BY DEF Safe
<1>1. CASE Enqueue(j)
  <2>1. /\ \A i \in Job : i # j => job'[i] = job[i] /\ backup'[i] = backup[i]
        /\ \A t \in Thread : t # j => pc'[t] = pc[t]
        /\ todo' = todo /\ phase' = phase /\ late' = late
    BY <1>t, <1>p, <1>j, <1>b, <1>s, <1>1 DEF Enqueue, Goto, JobStatus, BackupStatus, TypeOK
  <2>2. JobFits(j)' /\ BackupFits(j)'
    <3>1. pc[j] = "idle" /\ pc'[j] = "created"
      BY <1>t, <1>p, <1>j, <1>b, <1>s, <1>1 DEF Enqueue, Goto, JobStatus, BackupStatus
    <3>2. job'[j].status = "running" /\ job'[j].age = 0
      BY <1>t, <1>p, <1>j, <1>b, <1>s, <1>1 DEF Enqueue, Goto, JobStatus, BackupStatus
    <3>3. backup'[j] = backup[j]
      BY <1>t, <1>p, <1>j, <1>b, <1>s, <1>1 DEF Enqueue, Goto, JobStatus, BackupStatus
    <3> QED BY <1>s, <2>1, <3>1, <3>2, <3>3 DEF JobFits, BackupFits, Kept, Alive
  <2>3. (pc'[j] # "markBackups" /\ pc'[j] # "markJobs") \/ pc'[j] = pc[j]
    BY <1>t, <1>p, <1>j, <1>b, <1>s, <1>1 DEF Enqueue, Goto
  <2>4. pc[j] = "done" => /\ pc'[j] = "done"
                          /\ job'[j].status = job[j].status
                          /\ backup'[j].status \in {backup[j].status, "deleted"}
    BY <1>t, <1>p, <1>j, <1>b, <1>s, <1>1 DEF Enqueue, Goto, BackupStatus
  <2>5. NotServing => pc'[j] = pc[j]
    BY <1>d, <1>1 DEF Enqueue
  <2> QED BY <2>1, <2>2, <2>3, <2>4, <2>5, OneJobMoves
<1>2. CASE StartSync(j)
  <2>1. /\ \A i \in Job : i # j => job'[i] = job[i] /\ backup'[i] = backup[i]
        /\ \A t \in Thread : t # j => pc'[t] = pc[t]
        /\ todo' = todo /\ phase' = phase /\ late' = late
    BY <1>t, <1>p, <1>j, <1>b, <1>s, <1>2
       DEF StartSync, Goto, JobStatus, BackupStatus, TypeOK
  <2>2. JobFits(j)' /\ BackupFits(j)'
    BY <1>t, <1>p, <1>j, <1>b, <1>s, <1>2
       DEF StartSync, Goto, JobStatus, BackupStatus, JobFits, BackupFits, Kept, Alive, Row, NoJob,
           NoBackup
  <2>3. (pc'[j] # "markBackups" /\ pc'[j] # "markJobs") \/ pc'[j] = pc[j]
    BY <1>t, <1>p, <1>j, <1>b, <1>s, <1>2 DEF StartSync, Goto
  <2>4. pc[j] = "done" => /\ pc'[j] = "done"
                          /\ job'[j].status = job[j].status
                          /\ backup'[j].status \in {backup[j].status, "deleted"}
    BY <1>t, <1>p, <1>j, <1>b, <1>s, <1>2 DEF StartSync, Goto, BackupStatus
  <2>5. NotServing => pc'[j] = pc[j]
    BY <1>d, <1>2 DEF StartSync
  <2> QED BY <2>1, <2>2, <2>3, <2>4, <2>5, OneJobMoves
<1>3. CASE Submit(j)
  <2>1. /\ \A i \in Job : i # j => job'[i] = job[i] /\ backup'[i] = backup[i]
        /\ \A t \in Thread : t # j => pc'[t] = pc[t]
        /\ todo' = todo /\ phase' = phase /\ late' = late
    BY <1>t, <1>p, <1>j, <1>b, <1>s, <1>3 DEF Submit, Goto, JobStatus, BackupStatus, TypeOK
  <2>2. JobFits(j)' /\ BackupFits(j)'
    BY <1>t, <1>p, <1>j, <1>b, <1>s, <1>3
       DEF Submit, Goto, JobStatus, BackupStatus, JobFits, BackupFits, Kept, Alive, Row
  <2>3. (pc'[j] # "markBackups" /\ pc'[j] # "markJobs") \/ pc'[j] = pc[j]
    BY <1>t, <1>p, <1>j, <1>b, <1>s, <1>3 DEF Submit, Goto
  <2>4. pc[j] = "done" => /\ pc'[j] = "done"
                          /\ job'[j].status = job[j].status
                          /\ backup'[j].status \in {backup[j].status, "deleted"}
    BY <1>t, <1>p, <1>j, <1>b, <1>s, <1>3 DEF Submit, Goto, BackupStatus
  <2>5. NotServing => pc'[j] = pc[j]
    BY <1>d, <1>3 DEF Submit
  <2> QED BY <2>1, <2>2, <2>3, <2>4, <2>5, OneJobMoves
<1>4. CASE Take(j)
  <2>1. /\ \A i \in Job : i # j => job'[i] = job[i] /\ backup'[i] = backup[i]
        /\ \A t \in Thread : t # j => pc'[t] = pc[t]
        /\ todo' = todo /\ phase' = phase /\ late' = late
    BY <1>t, <1>p, <1>j, <1>b, <1>s, <1>4 DEF Take, Goto, JobStatus, BackupStatus, TypeOK
  <2>2. JobFits(j)' /\ BackupFits(j)'
    BY <1>t, <1>p, <1>j, <1>b, <1>s, <1>4
       DEF Take, Goto, JobStatus, BackupStatus, JobFits, BackupFits, Kept, Alive, Row
  <2>3. (pc'[j] # "markBackups" /\ pc'[j] # "markJobs") \/ pc'[j] = pc[j]
    BY <1>t, <1>p, <1>j, <1>b, <1>s, <1>4 DEF Take, Goto
  <2>4. pc[j] = "done" => /\ pc'[j] = "done"
                          /\ job'[j].status = job[j].status
                          /\ backup'[j].status \in {backup[j].status, "deleted"}
    BY <1>t, <1>p, <1>j, <1>b, <1>s, <1>4 DEF Take, Goto, BackupStatus
  <2>5. NotServing => pc'[j] = pc[j]
    BY <1>d, <1>4 DEF Take
  <2> QED BY <2>1, <2>2, <2>3, <2>4, <2>5, OneJobMoves
<1>5. CASE PassChecks(j)
  <2>1. /\ \A i \in Job : i # j => job'[i] = job[i] /\ backup'[i] = backup[i]
        /\ \A t \in Thread : t # j => pc'[t] = pc[t]
        /\ todo' = todo /\ phase' = phase /\ late' = late
    BY <1>c, <1>t, <1>p, <1>j, <1>b, <1>s, <1>5
       DEF PassChecks, Goto, JobStatus, BackupStatus, TypeOK
  <2>2. JobFits(j)' /\ BackupFits(j)'
    <3>1. pc[j] = "start" /\ pc'[j] \in {"work", "sweep"}
      BY <1>c, <1>t, <1>p, <1>j, <1>b, <1>s, <1>5
         DEF PassChecks, Goto, JobStatus, BackupStatus
    <3>2. pc'[j] = "work" => j \in PooledJob
      BY <1>c, <1>t, <1>p, <1>j, <1>b, <1>s, <1>5
         DEF PassChecks, Goto, JobStatus, BackupStatus
    <3>3. job'[j] = job[j] /\ backup'[j] = backup[j]
      BY <1>c, <1>t, <1>p, <1>j, <1>b, <1>s, <1>5
         DEF PassChecks, Goto, JobStatus, BackupStatus
    <3> QED BY <1>s, <2>1, <3>1, <3>2, <3>3 DEF JobFits, BackupFits, Kept, Alive
  <2>3. (pc'[j] # "markBackups" /\ pc'[j] # "markJobs") \/ pc'[j] = pc[j]
    BY <1>c, <1>t, <1>p, <1>j, <1>b, <1>s, <1>5 DEF PassChecks, Goto
  <2>4. pc[j] = "done" => /\ pc'[j] = "done"
                          /\ job'[j].status = job[j].status
                          /\ backup'[j].status \in {backup[j].status, "deleted"}
    BY <1>c, <1>t, <1>p, <1>j, <1>b, <1>s, <1>5 DEF PassChecks, Goto, BackupStatus
  <2>5. NotServing => pc'[j] = pc[j]
    BY <1>d, <1>5 DEF PassChecks
  <2> QED BY <2>1, <2>2, <2>3, <2>4, <2>5, OneJobMoves
<1>6. CASE ChecksFail(j)
  <2>1. /\ \A i \in Job : i # j => job'[i] = job[i] /\ backup'[i] = backup[i]
        /\ \A t \in Thread : t # j => pc'[t] = pc[t]
        /\ todo' = todo /\ phase' = phase /\ late' = late
    BY <1>t, <1>p, <1>j, <1>b, <1>s, <1>6
       DEF ChecksFail, Goto, JobStatus, BackupStatus, TypeOK
  <2>2. JobFits(j)' /\ BackupFits(j)'
    BY <1>t, <1>p, <1>j, <1>b, <1>s, <1>6
       DEF ChecksFail, Goto, JobStatus, BackupStatus, JobFits, BackupFits, Kept, Alive, Row
  <2>3. (pc'[j] # "markBackups" /\ pc'[j] # "markJobs") \/ pc'[j] = pc[j]
    BY <1>t, <1>p, <1>j, <1>b, <1>s, <1>6 DEF ChecksFail, Goto
  <2>4. pc[j] = "done" => /\ pc'[j] = "done"
                          /\ job'[j].status = job[j].status
                          /\ backup'[j].status \in {backup[j].status, "deleted"}
    BY <1>t, <1>p, <1>j, <1>b, <1>s, <1>6 DEF ChecksFail, Goto, BackupStatus
  <2>5. NotServing => pc'[j] = pc[j]
    BY <1>d, <1>6 DEF ChecksFail
  <2> QED BY <2>1, <2>2, <2>3, <2>4, <2>5, OneJobMoves
<1>7. CASE RefuseAuto(j)
  <2>1. /\ \A i \in Job : i # j => job'[i] = job[i] /\ backup'[i] = backup[i]
        /\ \A t \in Thread : t # j => pc'[t] = pc[t]
        /\ todo' = todo /\ phase' = phase /\ late' = late
    BY <1>c, <1>t, <1>p, <1>j, <1>b, <1>s, <1>7
       DEF RefuseAuto, Goto, JobStatus, BackupStatus, TypeOK
  <2>2. JobFits(j)' /\ BackupFits(j)'
    <3>1. pc[j] \in {"start", "swept"} /\ pc'[j] = "done"
      BY <1>c, <1>t, <1>p, <1>j, <1>b, <1>s, <1>7
         DEF RefuseAuto, Goto, JobStatus, BackupStatus
    <3>2. j \notin CombinedJob
      BY <1>c, <1>t, <1>p, <1>j, <1>b, <1>s, <1>7
         DEF RefuseAuto, Goto, JobStatus, BackupStatus
    <3>3. job[j].status # "none" => job'[j].status = "failed"
      BY <1>c, <1>t, <1>p, <1>j, <1>b, <1>s, <1>7
         DEF RefuseAuto, Goto, JobStatus, BackupStatus
    <3>4. job[j].status = "none" => job'[j].status = "none"
      BY <1>c, <1>t, <1>p, <1>j, <1>b, <1>s, <1>7
         DEF RefuseAuto, Goto, JobStatus, BackupStatus
    <3> QED BY <1>s, <2>1, <3>1, <3>2, <3>3, <3>4 DEF JobFits, BackupFits, Kept, Alive
  <2>3. (pc'[j] # "markBackups" /\ pc'[j] # "markJobs") \/ pc'[j] = pc[j]
    BY <1>c, <1>t, <1>p, <1>j, <1>b, <1>s, <1>7 DEF RefuseAuto, Goto
  <2>4. pc[j] = "done" => /\ pc'[j] = "done"
                          /\ job'[j].status = job[j].status
                          /\ backup'[j].status \in {backup[j].status, "deleted"}
    BY <1>c, <1>t, <1>p, <1>j, <1>b, <1>s, <1>7 DEF RefuseAuto, Goto, BackupStatus
  <2>5. NotServing => pc'[j] = pc[j]
    BY <1>d, <1>7 DEF RefuseAuto
  <2> QED BY <2>1, <2>2, <2>3, <2>4, <2>5, OneJobMoves
<1>8. CASE BeginWork(j)
  <2>1. /\ \A i \in Job : i # j => job'[i] = job[i] /\ backup'[i] = backup[i]
        /\ \A t \in Thread : t # j => pc'[t] = pc[t]
        /\ todo' = todo /\ phase' = phase /\ late' = late
    BY <1>u, <1>t, <1>p, <1>j, <1>b, <1>s, <1>8
       DEF BeginWork, Goto, JobStatus, BackupStatus, TypeOK
  <2>2. JobFits(j)' /\ BackupFits(j)'
    BY <1>u, <1>t, <1>p, <1>j, <1>b, <1>s, <1>8
       DEF BeginWork, Goto, JobStatus, BackupStatus, JobFits, BackupFits, Kept, Alive, Row
  <2>3. (pc'[j] # "markBackups" /\ pc'[j] # "markJobs") \/ pc'[j] = pc[j]
    BY <1>u, <1>t, <1>p, <1>j, <1>b, <1>s, <1>8 DEF BeginWork, Goto
  <2>4. pc[j] = "done" => /\ pc'[j] = "done"
                          /\ job'[j].status = job[j].status
                          /\ backup'[j].status \in {backup[j].status, "deleted"}
    BY <1>u, <1>t, <1>p, <1>j, <1>b, <1>s, <1>8 DEF BeginWork, Goto, BackupStatus
  <2>5. NotServing => pc'[j] = pc[j]
    BY <1>d, <1>8 DEF BeginWork
  <2> QED BY <2>1, <2>2, <2>3, <2>4, <2>5, OneJobMoves
<1>9. CASE WorkFails(j)
  <2>1. /\ \A i \in Job : i # j => job'[i] = job[i] /\ backup'[i] = backup[i]
        /\ \A t \in Thread : t # j => pc'[t] = pc[t]
        /\ todo' = todo /\ phase' = phase /\ late' = late
    BY <1>t, <1>p, <1>j, <1>b, <1>s, <1>9
       DEF WorkFails, Goto, JobStatus, BackupStatus, TypeOK
  <2>2. JobFits(j)' /\ BackupFits(j)'
    BY <1>t, <1>p, <1>j, <1>b, <1>s, <1>9
       DEF WorkFails, Goto, JobStatus, BackupStatus, JobFits, BackupFits, Kept, Alive, Row
  <2>3. (pc'[j] # "markBackups" /\ pc'[j] # "markJobs") \/ pc'[j] = pc[j]
    BY <1>t, <1>p, <1>j, <1>b, <1>s, <1>9 DEF WorkFails, Goto
  <2>4. pc[j] = "done" => /\ pc'[j] = "done"
                          /\ job'[j].status = job[j].status
                          /\ backup'[j].status \in {backup[j].status, "deleted"}
    BY <1>t, <1>p, <1>j, <1>b, <1>s, <1>9 DEF WorkFails, Goto, BackupStatus
  <2>5. NotServing => pc'[j] = pc[j]
    BY <1>d, <1>9 DEF WorkFails
  <2> QED BY <2>1, <2>2, <2>3, <2>4, <2>5, OneJobMoves
<1>10. CASE Progress(j)
  <2>1. /\ \A i \in Job : i # j => job'[i] = job[i] /\ backup'[i] = backup[i]
        /\ \A t \in Thread : t # j => pc'[t] = pc[t]
        /\ todo' = todo /\ phase' = phase /\ late' = late
    BY <1>u, <1>t, <1>p, <1>j, <1>b, <1>s, <1>10
       DEF Progress, Goto, JobStatus, BackupStatus, TypeOK
  <2>2. JobFits(j)' /\ BackupFits(j)'
    BY <1>u, <1>t, <1>p, <1>j, <1>b, <1>s, <1>10
       DEF Progress, Goto, JobStatus, BackupStatus, JobFits, BackupFits, Kept, Alive, Row
  <2>3. (pc'[j] # "markBackups" /\ pc'[j] # "markJobs") \/ pc'[j] = pc[j]
    BY <1>u, <1>t, <1>p, <1>j, <1>b, <1>s, <1>10 DEF Progress, Goto
  <2>4. pc[j] = "done" => /\ pc'[j] = "done"
                          /\ job'[j].status = job[j].status
                          /\ backup'[j].status \in {backup[j].status, "deleted"}
    BY <1>u, <1>t, <1>p, <1>j, <1>b, <1>s, <1>10 DEF Progress, Goto, BackupStatus
  <2>5. NotServing => pc'[j] = pc[j]
    BY <1>d, <1>10 DEF Progress
  <2> QED BY <2>1, <2>2, <2>3, <2>4, <2>5, OneJobMoves
<1>11. CASE CreateBackup(j)
  <2>1. /\ \A i \in Job : i # j => job'[i] = job[i] /\ backup'[i] = backup[i]
        /\ \A t \in Thread : t # j => pc'[t] = pc[t]
        /\ todo' = todo /\ phase' = phase /\ late' = late
    BY <1>t, <1>p, <1>j, <1>b, <1>s, <1>11
       DEF CreateBackup, Goto, JobStatus, BackupStatus, TypeOK
  <2>2. JobFits(j)' /\ BackupFits(j)'
    <3>1. pc[j] = "work" /\ pc'[j] = "backup"
      BY <1>t, <1>p, <1>j, <1>b, <1>s, <1>11 DEF CreateBackup, Goto, JobStatus, BackupStatus
    <3>2. job'[j] = job[j]
      BY <1>t, <1>p, <1>j, <1>b, <1>s, <1>11 DEF CreateBackup, Goto, JobStatus, BackupStatus
    <3>3. backup'[j].age = 0 /\ backup'[j].status = "running"
      BY <1>t, <1>p, <1>j, <1>b, <1>s, <1>11 DEF CreateBackup, Goto, JobStatus, BackupStatus
    <3> QED BY <1>s, <2>1, <3>1, <3>2, <3>3 DEF JobFits, BackupFits, Kept, Alive
  <2>3. (pc'[j] # "markBackups" /\ pc'[j] # "markJobs") \/ pc'[j] = pc[j]
    BY <1>t, <1>p, <1>j, <1>b, <1>s, <1>11 DEF CreateBackup, Goto
  <2>4. pc[j] = "done" => /\ pc'[j] = "done"
                          /\ job'[j].status = job[j].status
                          /\ backup'[j].status \in {backup[j].status, "deleted"}
    BY <1>t, <1>p, <1>j, <1>b, <1>s, <1>11 DEF CreateBackup, Goto, BackupStatus
  <2>5. NotServing => pc'[j] = pc[j]
    BY <1>d, <1>11 DEF CreateBackup
  <2> QED BY <2>1, <2>2, <2>3, <2>4, <2>5, OneJobMoves
<1>12. CASE NoBackupNeeded(j)
  <2>1. /\ \A i \in Job : i # j => job'[i] = job[i] /\ backup'[i] = backup[i]
        /\ \A t \in Thread : t # j => pc'[t] = pc[t]
        /\ todo' = todo /\ phase' = phase /\ late' = late
    BY <1>t, <1>p, <1>j, <1>b, <1>s, <1>12
       DEF NoBackupNeeded, Goto, JobStatus, BackupStatus, TypeOK
  <2>2. JobFits(j)' /\ BackupFits(j)'
    <3>1. pc[j] = "work" /\ pc'[j] \in {"saved", "offline"} /\ j \notin CombinedJob
      BY <1>t, <1>p, <1>j, <1>b, <1>s, <1>12
         DEF NoBackupNeeded, Goto, JobStatus, BackupStatus
    <3>2. job'[j] = job[j] /\ backup'[j] = backup[j]
      BY <1>t, <1>p, <1>j, <1>b, <1>s, <1>12
         DEF NoBackupNeeded, Goto, JobStatus, BackupStatus
    <3> QED BY <1>s, <2>1, <3>1, <3>2 DEF JobFits, BackupFits, Kept, Alive
  <2>3. (pc'[j] # "markBackups" /\ pc'[j] # "markJobs") \/ pc'[j] = pc[j]
    BY <1>t, <1>p, <1>j, <1>b, <1>s, <1>12 DEF NoBackupNeeded, Goto
  <2>4. pc[j] = "done" => /\ pc'[j] = "done"
                          /\ job'[j].status = job[j].status
                          /\ backup'[j].status \in {backup[j].status, "deleted"}
    BY <1>t, <1>p, <1>j, <1>b, <1>s, <1>12 DEF NoBackupNeeded, Goto, BackupStatus
  <2>5. NotServing => pc'[j] = pc[j]
    BY <1>d, <1>12 DEF NoBackupNeeded
  <2> QED BY <2>1, <2>2, <2>3, <2>4, <2>5, OneJobMoves
<1>13. CASE BackupSucceeds(j)
  <2>1. /\ \A i \in Job : i # j => job'[i] = job[i] /\ backup'[i] = backup[i]
        /\ \A t \in Thread : t # j => pc'[t] = pc[t]
        /\ todo' = todo /\ phase' = phase /\ late' = late
    BY <1>t, <1>p, <1>j, <1>b, <1>s, <1>13
       DEF BackupSucceeds, Goto, JobStatus, BackupStatus, TypeOK
  <2>2. JobFits(j)' /\ BackupFits(j)'
    <3>1. pc[j] = "backup" /\ pc'[j] = "saved"
      BY <1>t, <1>p, <1>j, <1>b, <1>s, <1>13
         DEF BackupSucceeds, Goto, JobStatus, BackupStatus
    <3>2. job'[j] = job[j]
      BY <1>t, <1>p, <1>j, <1>b, <1>s, <1>13
         DEF BackupSucceeds, Goto, JobStatus, BackupStatus
    <3>3. backup'[j].age = 0 /\ backup'[j].status = "success"
      BY <1>t, <1>p, <1>j, <1>b, <1>s, <1>13
         DEF BackupSucceeds, Goto, JobStatus, BackupStatus
    <3> QED BY <1>s, <2>1, <3>1, <3>2, <3>3 DEF JobFits, BackupFits, Kept, Alive
  <2>3. (pc'[j] # "markBackups" /\ pc'[j] # "markJobs") \/ pc'[j] = pc[j]
    BY <1>t, <1>p, <1>j, <1>b, <1>s, <1>13 DEF BackupSucceeds, Goto
  <2>4. pc[j] = "done" => /\ pc'[j] = "done"
                          /\ job'[j].status = job[j].status
                          /\ backup'[j].status \in {backup[j].status, "deleted"}
    BY <1>t, <1>p, <1>j, <1>b, <1>s, <1>13 DEF BackupSucceeds, Goto, BackupStatus
  <2>5. NotServing => pc'[j] = pc[j]
    BY <1>d, <1>13 DEF BackupSucceeds
  <2> QED BY <2>1, <2>2, <2>3, <2>4, <2>5, OneJobMoves
<1>14. CASE BackupFails(j)
  <2>1. /\ \A i \in Job : i # j => job'[i] = job[i] /\ backup'[i] = backup[i]
        /\ \A t \in Thread : t # j => pc'[t] = pc[t]
        /\ todo' = todo /\ phase' = phase /\ late' = late
    BY <1>t, <1>p, <1>j, <1>b, <1>s, <1>14
       DEF BackupFails, Goto, JobStatus, BackupStatus, TypeOK
  <2>2. JobFits(j)' /\ BackupFits(j)'
    <3>1. pc[j] = "backup" /\ pc'[j] \in {"offline", "failing"}
      BY <1>t, <1>p, <1>j, <1>b, <1>s, <1>14 DEF BackupFails, Goto, JobStatus, BackupStatus
    <3>2. job'[j] = job[j]
      BY <1>t, <1>p, <1>j, <1>b, <1>s, <1>14 DEF BackupFails, Goto, JobStatus, BackupStatus
    <3>3. backup'[j].age = 0
      BY <1>t, <1>p, <1>j, <1>b, <1>s, <1>14 DEF BackupFails, Goto, JobStatus, BackupStatus
    <3> QED BY <1>s, <2>1, <3>1, <3>2, <3>3 DEF JobFits, BackupFits, Kept, Alive
  <2>3. (pc'[j] # "markBackups" /\ pc'[j] # "markJobs") \/ pc'[j] = pc[j]
    BY <1>t, <1>p, <1>j, <1>b, <1>s, <1>14 DEF BackupFails, Goto
  <2>4. pc[j] = "done" => /\ pc'[j] = "done"
                          /\ job'[j].status = job[j].status
                          /\ backup'[j].status \in {backup[j].status, "deleted"}
    BY <1>t, <1>p, <1>j, <1>b, <1>s, <1>14 DEF BackupFails, Goto, BackupStatus
  <2>5. NotServing => pc'[j] = pc[j]
    BY <1>d, <1>14 DEF BackupFails
  <2> QED BY <2>1, <2>2, <2>3, <2>4, <2>5, OneJobMoves
<1>15. CASE BackupCancelled(j)
  <2>1. /\ \A i \in Job : i # j => job'[i] = job[i] /\ backup'[i] = backup[i]
        /\ \A t \in Thread : t # j => pc'[t] = pc[t]
        /\ todo' = todo /\ phase' = phase /\ late' = late
    BY <1>t, <1>p, <1>j, <1>b, <1>s, <1>15
       DEF BackupCancelled, Goto, JobStatus, BackupStatus, TypeOK
  <2>2. JobFits(j)' /\ BackupFits(j)'
    <3>1. pc[j] = "backup" /\ pc'[j] \in {"offline", "done"}
      BY <1>t, <1>p, <1>j, <1>b, <1>s, <1>15
         DEF BackupCancelled, Goto, JobStatus, BackupStatus
    <3>2. job'[j] = job[j]
      BY <1>t, <1>p, <1>j, <1>b, <1>s, <1>15
         DEF BackupCancelled, Goto, JobStatus, BackupStatus
    <3>3. backup'[j].age = 0
      BY <1>t, <1>p, <1>j, <1>b, <1>s, <1>15
         DEF BackupCancelled, Goto, JobStatus, BackupStatus
    <3> QED BY <1>s, <2>1, <3>1, <3>2, <3>3 DEF JobFits, BackupFits, Kept, Alive
  <2>3. (pc'[j] # "markBackups" /\ pc'[j] # "markJobs") \/ pc'[j] = pc[j]
    BY <1>t, <1>p, <1>j, <1>b, <1>s, <1>15 DEF BackupCancelled, Goto
  <2>4. pc[j] = "done" => /\ pc'[j] = "done"
                          /\ job'[j].status = job[j].status
                          /\ backup'[j].status \in {backup[j].status, "deleted"}
    BY <1>t, <1>p, <1>j, <1>b, <1>s, <1>15 DEF BackupCancelled, Goto, BackupStatus
  <2>5. NotServing => pc'[j] = pc[j]
    BY <1>d, <1>15 DEF BackupCancelled
  <2> QED BY <2>1, <2>2, <2>3, <2>4, <2>5, OneJobMoves
<1>16. CASE BackupVanished(j)
  <2>1. /\ \A i \in Job : i # j => job'[i] = job[i] /\ backup'[i] = backup[i]
        /\ \A t \in Thread : t # j => pc'[t] = pc[t]
        /\ todo' = todo /\ phase' = phase /\ late' = late
    BY <1>t, <1>p, <1>j, <1>b, <1>s, <1>16
       DEF BackupVanished, Goto, JobStatus, BackupStatus, TypeOK
  <2>2. JobFits(j)' /\ BackupFits(j)'
    <3>1. pc[j] \in {"backup", "saved"} /\ pc'[j] = "done"
      BY <1>t, <1>p, <1>j, <1>b, <1>s, <1>16
         DEF BackupVanished, Goto, JobStatus, BackupStatus
    <3>2. job'[j] = job[j] /\ backup'[j] = backup[j]
      BY <1>t, <1>p, <1>j, <1>b, <1>s, <1>16
         DEF BackupVanished, Goto, JobStatus, BackupStatus
    <3> QED BY <1>s, <2>1, <3>1, <3>2 DEF JobFits, BackupFits, Kept, Alive
  <2>3. (pc'[j] # "markBackups" /\ pc'[j] # "markJobs") \/ pc'[j] = pc[j]
    BY <1>t, <1>p, <1>j, <1>b, <1>s, <1>16 DEF BackupVanished, Goto
  <2>4. pc[j] = "done" => /\ pc'[j] = "done"
                          /\ job'[j].status = job[j].status
                          /\ backup'[j].status \in {backup[j].status, "deleted"}
    BY <1>t, <1>p, <1>j, <1>b, <1>s, <1>16 DEF BackupVanished, Goto, BackupStatus
  <2>5. NotServing => pc'[j] = pc[j]
    BY <1>d, <1>16 DEF BackupVanished
  <2> QED BY <2>1, <2>2, <2>3, <2>4, <2>5, OneJobMoves
<1>17. CASE FinishCombined(j)
  <2>1. /\ \A i \in Job : i # j => job'[i] = job[i] /\ backup'[i] = backup[i]
        /\ \A t \in Thread : t # j => pc'[t] = pc[t]
        /\ todo' = todo /\ phase' = phase /\ late' = late
    BY <1>t, <1>p, <1>j, <1>b, <1>s, <1>17
       DEF FinishCombined, Goto, JobStatus, BackupStatus, TypeOK
  <2>2. JobFits(j)' /\ BackupFits(j)'
    BY <1>t, <1>p, <1>j, <1>b, <1>s, <1>17
       DEF FinishCombined, Goto, JobStatus, BackupStatus, JobFits, BackupFits, Kept, Alive, Row, TypeOK
  <2>3. (pc'[j] # "markBackups" /\ pc'[j] # "markJobs") \/ pc'[j] = pc[j]
    BY <1>t, <1>p, <1>j, <1>b, <1>s, <1>17 DEF FinishCombined, Goto
  <2>4. pc[j] = "done" => /\ pc'[j] = "done"
                          /\ job'[j].status = job[j].status
                          /\ backup'[j].status \in {backup[j].status, "deleted"}
    BY <1>t, <1>p, <1>j, <1>b, <1>s, <1>17 DEF FinishCombined, Goto, BackupStatus
  <2>5. NotServing => pc'[j] = pc[j]
    BY <1>d, <1>17 DEF FinishCombined
  <2> QED BY <2>1, <2>2, <2>3, <2>4, <2>5, OneJobMoves
<1>18. CASE Reply(j)
  <2>1. /\ \A i \in Job : i # j => job'[i] = job[i] /\ backup'[i] = backup[i]
        /\ \A t \in Thread : t # j => pc'[t] = pc[t]
        /\ todo' = todo /\ phase' = phase /\ late' = late
    BY <1>t, <1>p, <1>j, <1>b, <1>s, <1>18 DEF Reply, Goto, JobStatus, BackupStatus, TypeOK
  <2>2. JobFits(j)' /\ BackupFits(j)'
    BY <1>t, <1>p, <1>j, <1>b, <1>s, <1>18
       DEF Reply, Goto, JobStatus, BackupStatus, JobFits, BackupFits, Kept, Alive, Row
  <2>3. (pc'[j] # "markBackups" /\ pc'[j] # "markJobs") \/ pc'[j] = pc[j]
    BY <1>t, <1>p, <1>j, <1>b, <1>s, <1>18 DEF Reply, Goto
  <2>4. pc[j] = "done" => /\ pc'[j] = "done"
                          /\ job'[j].status = job[j].status
                          /\ backup'[j].status \in {backup[j].status, "deleted"}
    BY <1>t, <1>p, <1>j, <1>b, <1>s, <1>18 DEF Reply, Goto, BackupStatus
  <2>5. NotServing => pc'[j] = pc[j]
    BY <1>d, <1>18 DEF Reply
  <2> QED BY <2>1, <2>2, <2>3, <2>4, <2>5, OneJobMoves
<1>19. CASE FinishOther(j)
  <2>1. /\ \A i \in Job : i # j => job'[i] = job[i] /\ backup'[i] = backup[i]
        /\ \A t \in Thread : t # j => pc'[t] = pc[t]
        /\ todo' = todo /\ phase' = phase /\ late' = late
    BY <1>t, <1>p, <1>j, <1>b, <1>s, <1>19
       DEF FinishOther, Goto, JobStatus, BackupStatus, TypeOK
  <2>2. JobFits(j)' /\ BackupFits(j)'
    <3>1. pc'[j] = "done" /\ j \notin CombinedJob
      BY <1>t, <1>p, <1>j, <1>b, <1>s, <1>19 DEF FinishOther, Goto, JobStatus, BackupStatus
    <3>2. job'[j].status \in {"success", "skipped"}
      BY <1>t, <1>p, <1>j, <1>b, <1>s, <1>19 DEF FinishOther, Goto, JobStatus, BackupStatus
    <3> QED BY <1>s, <2>1, <3>1, <3>2 DEF JobFits, BackupFits, Kept, Alive
  <2>3. (pc'[j] # "markBackups" /\ pc'[j] # "markJobs") \/ pc'[j] = pc[j]
    BY <1>t, <1>p, <1>j, <1>b, <1>s, <1>19 DEF FinishOther, Goto
  <2>4. pc[j] = "done" => /\ pc'[j] = "done"
                          /\ job'[j].status = job[j].status
                          /\ backup'[j].status \in {backup[j].status, "deleted"}
    BY <1>t, <1>p, <1>j, <1>b, <1>s, <1>19 DEF FinishOther, Goto, BackupStatus
  <2>5. NotServing => pc'[j] = pc[j]
    BY <1>d, <1>19 DEF FinishOther
  <2> QED BY <2>1, <2>2, <2>3, <2>4, <2>5, OneJobMoves
<1>20. CASE FailJob(j)
  <2>1. /\ \A i \in Job : i # j => job'[i] = job[i] /\ backup'[i] = backup[i]
        /\ \A t \in Thread : t # j => pc'[t] = pc[t]
        /\ todo' = todo /\ phase' = phase /\ late' = late
    BY <1>t, <1>p, <1>j, <1>b, <1>s, <1>20
       DEF FailJob, Goto, JobStatus, BackupStatus, TypeOK
  <2>2. JobFits(j)' /\ BackupFits(j)'
    <3>1. pc'[j] = "done"
      BY <1>t, <1>p, <1>j, <1>b, <1>s, <1>20 DEF FailJob, Goto, JobStatus, BackupStatus
    <3>2. job'[j].status = "failed"
      BY <1>t, <1>p, <1>j, <1>b, <1>s, <1>20 DEF FailJob, Goto, JobStatus, BackupStatus
    <3>3. backup'[j] = backup[j]
      BY <1>t, <1>p, <1>j, <1>b, <1>s, <1>20 DEF FailJob, Goto, JobStatus, BackupStatus
    <3> QED BY <1>s, <2>1, <3>1, <3>2, <3>3 DEF JobFits, BackupFits, Kept, Alive
  <2>3. (pc'[j] # "markBackups" /\ pc'[j] # "markJobs") \/ pc'[j] = pc[j]
    BY <1>t, <1>p, <1>j, <1>b, <1>s, <1>20 DEF FailJob, Goto
  <2>4. pc[j] = "done" => /\ pc'[j] = "done"
                          /\ job'[j].status = job[j].status
                          /\ backup'[j].status \in {backup[j].status, "deleted"}
    BY <1>t, <1>p, <1>j, <1>b, <1>s, <1>20 DEF FailJob, Goto, BackupStatus
  <2>5. NotServing => pc'[j] = pc[j]
    BY <1>d, <1>20 DEF FailJob
  <2> QED BY <2>1, <2>2, <2>3, <2>4, <2>5, OneJobMoves
<1>21. CASE Delete(j)
  <2>1. /\ \A i \in Job : i # j => job'[i] = job[i] /\ backup'[i] = backup[i]
        /\ \A t \in Thread : t # j => pc'[t] = pc[t]
        /\ todo' = todo /\ phase' = phase /\ late' = late
    BY <1>t, <1>p, <1>j, <1>b, <1>s, <1>21 DEF Delete, Goto, JobStatus, BackupStatus, TypeOK
  <2>2. JobFits(j)' /\ BackupFits(j)'
    <3>1. pc[j] # "idle" /\ backup[j].status \notin {"none", "deleted"}
      BY <1>t, <1>p, <1>j, <1>b, <1>s, <1>21
         DEF Delete, Goto, JobStatus, BackupStatus, Row, NoBackup,
             JobFits, BackupFits, Kept, Alive
    <3>2. pc'[j] = pc[j]
      BY <1>t, <1>p, <1>j, <1>b, <1>s, <1>21 DEF Delete, Goto, JobStatus, BackupStatus
    <3>3. job'[j].status = job[j].status /\ job'[j].age = job[j].age /\ ~job'[j].linked
      BY <1>t, <1>p, <1>j, <1>b, <1>s, <1>21
         DEF Delete, Goto, JobStatus, BackupStatus, TypeOK, JobRow
    <3>4. backup'[j].status = "deleted" /\ backup'[j].age = 0
      BY <1>t, <1>p, <1>j, <1>b, <1>s, <1>21 DEF Delete, Goto, JobStatus, BackupStatus
    <3> QED BY <1>s, <2>1, <3>1, <3>2, <3>3, <3>4 DEF JobFits, BackupFits, Kept, Alive
  <2>3. (pc'[j] # "markBackups" /\ pc'[j] # "markJobs") \/ pc'[j] = pc[j]
    BY <1>t, <1>p, <1>j, <1>b, <1>s, <1>21 DEF Delete, Goto
  <2>4. pc[j] = "done" => /\ pc'[j] = "done"
                          /\ job'[j].status = job[j].status
                          /\ backup'[j].status \in {backup[j].status, "deleted"}
    BY <1>t, <1>p, <1>j, <1>b, <1>s, <1>21 DEF Delete, Goto, BackupStatus, TypeOK
  <2>5. NotServing => pc'[j] = pc[j]
    BY <1>d, <1>21 DEF Delete
  <2> QED BY <2>1, <2>2, <2>3, <2>4, <2>5, OneJobMoves
<1> QED BY <1>1, <1>2, <1>3, <1>4, <1>5, <1>6, <1>7, <1>8, <1>9, <1>10,
       <1>11, <1>12, <1>13, <1>14, <1>15, <1>16, <1>17, <1>18, <1>19, <1>20, <1>21
   DEF Run

(* The invariant: a step of a sweep.                                        *)
LEMMA SweepSafe ==
  ASSUME TypeOK, TypeOK', Safe, NEW t \in Thread, Sweep(t) \/ SweepFails(t)
  PROVE  Safe'
<1>t. Job \subseteq Thread /\ Ticker \notin Job /\ CombinedJob \subseteq Job
  BY BackupJobsOK DEF BackupJobsOK, Thread, Job
<1>p. \A l : pc' = [pc EXCEPT ![t] = l] =>
        pc'[t] = l /\ \A u \in Thread : u # t => pc'[u] = pc[u]
  BY DEF TypeOK
<1>d. \A s : todo' = [todo EXCEPT ![t] = s] =>
        todo'[t] = s /\ \A u \in Thread : u # t => todo'[u] = todo[u]
  BY DEF TypeOK
<1>s. /\ \A j \in Job : JobFits(j) /\ BackupFits(j)
      /\ \A u \in Thread : Listed(u) /\ todo[u] \subseteq Job
      /\ NotServing => \A u \in Thread : pc[u] \in {"idle", "done"}
  BY DEF Safe, TypeOK
<1>w. (IF t = Ticker THEN "idle" ELSE "swept") \in {"idle", "swept"}
      /\ (t \in Job => (IF t = Ticker THEN "idle" ELSE "swept") = "swept")
  BY <1>t
(* Only the thread itself moves, and may have found runs late.              *)
<1>m. ASSUME NEW l, pc' = [pc EXCEPT ![t] = l],
             pc[t] \in {"sweep", "markBackups", "markJobs"},
             l \in {"markBackups", "markJobs", "swept"} \/ (l = "idle" /\ t \notin Job),
             job' = job, backup' = backup, phase' = phase,
             lateJob \subseteq lateJob', lateBackup \subseteq lateBackup',
             \A j \in lateJob' : j \in lateJob \/ Alive(j),
             \A u \in Thread : u # t => todo'[u] = todo[u],
             Listed(t)'
      PROVE  Safe'
  <2>1. ASSUME NEW j \in Job
        PROVE  JobFits(j)' /\ BackupFits(j)'
    <3>1. JobFits(j) /\ BackupFits(j)
      BY <1>s
    <3>2. CASE j = t
      BY <1>m, <1>p, <3>1, <3>2 DEF JobFits, BackupFits, Kept, Alive
    <3>3. CASE j # t
      <4>1. pc'[j] = pc[j]
        BY <1>m, <1>p, <1>t, <3>3
      <4> QED BY <1>m, <4>1, <3>1 DEF JobFits, BackupFits, Kept, Alive
    <3> QED BY <3>2, <3>3
  <2>2. ASSUME NEW u \in Thread
        PROVE  Listed(u)'
    <3>1. CASE u = t
      BY <1>m, <3>1
    <3>2. CASE u # t
      <4>1. pc'[u] = pc[u] /\ todo'[u] = todo[u]
        BY <1>m, <1>p, <3>2
      <4>2. \A b \in todo[u] : pc[b] = "done" => pc'[b] = "done"
        BY <1>m, <1>p, <1>s, <1>t
      <4> QED BY <1>m, <1>s, <4>1, <4>2 DEF Listed
    <3> QED BY <3>1, <3>2
  <2>3. ~NotServing'
    BY <1>m, <1>s DEF NotServing
  <2> QED BY <2>1, <2>2, <2>3 DEF Safe
<1>1. CASE ListBackups(t)
  <2>1. /\ todo'[t] = {b \in Job : IsStale(backup[b])} /\ pc'[t] = "markBackups"
        /\ \A b \in CombinedJob : IsStale(backup[b]) /\ Alive(b) => b \in lateBackup'
        /\ lateBackup \subseteq lateBackup'
    BY <1>1, <1>p, <1>d, <1>t DEF ListBackups, Goto
  <2>2. ASSUME NEW b \in todo'[t], b \in CombinedJob, b \notin lateBackup'
        PROVE  pc'[b] = "done" /\ backup'[b].status = "running"
    <3>1. b \in Job /\ backup[b].status = "running" /\ ~Alive(b)
      BY <2>1, <2>2 DEF IsStale
    <3>2. pc[b] = "done"
      BY <1>s, <3>1 DEF Alive, BackupFits
    <3>3. b # t
      BY <1>1, <3>2 DEF ListBackups
    <3> QED BY <1>1, <1>p, <1>t, <3>1, <3>2, <3>3 DEF ListBackups, Goto
  <2>3. Listed(t)'
    BY <2>1, <2>2 DEF Listed
  <2> QED BY <1>1, <1>d, <1>m, <2>1, <2>3 DEF ListBackups, Goto
<1>2. CASE GiveUpSweep(t) \/ SweepFails(t)
  <2>1. pc'[t] \in {"idle", "swept"}
    BY <1>2, <1>p, <1>w DEF GiveUpSweep, SweepFails, Swept, Goto
  <2>2. Listed(t)'
    BY <2>1 DEF Listed
  <2> QED BY <1>2, <1>d, <1>m, <1>w, <2>2 DEF GiveUpSweep, SweepFails, Swept, Goto
<1>3. CASE ListJobs(t)
  <2>1. /\ todo'[t] = {j \in Job : IsStale(job[j])} /\ pc'[t] = "markJobs"
        /\ \A j \in Job : IsStale(job[j]) /\ Alive(j) => j \in lateJob'
        /\ lateJob \subseteq lateJob' /\ \A j \in lateJob' : j \in lateJob \/ Alive(j)
    BY <1>3, <1>p, <1>d DEF ListJobs, Goto
  <2>2. ASSUME NEW b \in todo'[t], b \notin lateJob'
        PROVE  pc'[b] = "done" /\ job'[b].status = "running"
    <3>1. b \in Job /\ job[b].status = "running" /\ ~Alive(b)
      BY <2>1, <2>2 DEF IsStale
    <3>2. pc[b] = "done"
      BY <1>s, <3>1 DEF Alive, JobFits
    <3>3. b # t
      BY <1>3, <3>2 DEF ListJobs
    <3> QED BY <1>3, <1>p, <1>t, <3>1, <3>2, <3>3 DEF ListJobs, Goto
  <2>3. Listed(t)'
    BY <2>1, <2>2 DEF Listed
  <2> QED BY <1>3, <1>d, <1>m, <2>1, <2>3 DEF ListJobs, Goto
<1>4. CASE EndSweep(t)
  <2>1. pc'[t] \in {"idle", "swept"}
    BY <1>4, <1>p, <1>w DEF EndSweep, Swept, Goto
  <2>2. Listed(t)'
    BY <2>1 DEF Listed
  <2> QED BY <1>4, <1>d, <1>m, <1>w, <2>2 DEF EndSweep, Swept, Goto
<1>5. ASSUME NEW b \in Job, MarkBackup(t, b)
      PROVE  Safe'
  <2>1. /\ \/ b \notin CombinedJob
           \/ b \in lateBackup
           \/ pc[b] = "done" /\ backup[b].status \in {"running", "failed"}
        /\ pc[b] # "idle" /\ ~NotServing
        /\ backup' = BackupWith(b, "failed")
        /\ UNCHANGED <<phase, pc, job, late>>
    BY <1>5, <1>s DEF MarkBackup, Listed, Row, BackupFits
  <2>2. /\ backup'[b].status = "failed"
        /\ \A i \in Job : i # b => backup'[i] = backup[i]
    BY <2>1, BackupRows DEF BackupStatus
  <2>3. \A u \in Thread : todo'[u] \subseteq todo[u]
    BY <1>5 DEF MarkBackup, TypeOK
  <2>4. ASSUME NEW j \in Job
        PROVE  JobFits(j)' /\ BackupFits(j)'
    <3>1. CASE j = b
      BY <1>s, <2>1, <2>2, <3>1 DEF JobFits, BackupFits, Kept, Alive
    <3>2. CASE j # b
      BY <1>s, <2>1, <2>2, <3>2 DEF JobFits, BackupFits, Kept, Alive
    <3> QED BY <3>1, <3>2
  <2>5. ASSUME NEW u \in Thread
        PROVE  Listed(u)'
    BY <1>s, <2>1, <2>2, <2>3 DEF Listed
  <2> QED BY <1>s, <2>1, <2>4, <2>5 DEF Safe, NotServing
<1>6. ASSUME NEW b \in Job, MarkJob(t, b)
      PROVE  Safe'
  <2>1. /\ \/ b \in lateJob
           \/ pc[b] = "done" /\ job[b].status \in {"running", "failed"}
        /\ ~NotServing
        /\ job' = JobWith(b, "failed")
        /\ UNCHANGED <<phase, pc, backup, late>>
    BY <1>5, <1>6, <1>s DEF MarkJob, Listed
  <2>2. /\ job'[b].status = "failed"
        /\ \A i \in Job : i # b => job'[i] = job[i]
    BY <2>1, JobRows DEF JobStatus
  <2>3. \A u \in Thread : todo'[u] \subseteq todo[u]
    BY <1>6 DEF MarkJob, TypeOK
  <2>4. ASSUME NEW j \in Job
        PROVE  JobFits(j)' /\ BackupFits(j)'
    <3>1. CASE j = b
      BY <1>s, <2>1, <2>2, <3>1 DEF JobFits, BackupFits, Kept, Alive
    <3>2. CASE j # b
      BY <1>s, <2>1, <2>2, <3>2 DEF JobFits, BackupFits, Kept, Alive
    <3> QED BY <3>1, <3>2
  <2>5. ASSUME NEW u \in Thread
        PROVE  Listed(u)'
    BY <1>s, <2>1, <2>2, <2>3 DEF Listed
  <2> QED BY <1>s, <2>1, <2>4, <2>5 DEF Safe, NotServing
<1> QED BY <1>1, <1>2, <1>3, <1>4, <1>5, <1>6 DEF Sweep

(* The invariant: startup recovery, which finds no thread at work.          *)
LEMMA StartupSafe ==
  ASSUME TypeOK, TypeOK', Safe, Startup
  PROVE  Safe'
<1>t. Job \subseteq Thread
  BY DEF Thread
<1>s. /\ \A j \in Job : JobFits(j) /\ BackupFits(j)
      /\ \A u \in Thread : pc[u] \in {"idle", "done"}
      /\ UNCHANGED <<pc, todo, late>>
  BY DEF Safe, NotServing, Startup, Boot, Serve, RecoverBackup, RecoverJob
<1>1. \A u \in Thread : Listed(u)' /\ pc'[u] \in {"idle", "done"}
  BY <1>s DEF Listed
<1>2. CASE Boot \/ Serve
  BY <1>s, <1>1, <1>2 DEF Boot, Serve, Safe, JobFits, BackupFits, Kept, Alive
<1>3. ASSUME NEW b \in Job, RecoverBackup(b)
      PROVE  Safe'
  <2>1. /\ backup[b].status = "running" /\ backup'[b].status = "failed"
        /\ \A i \in Job : i # b => backup'[i] = backup[i]
        /\ job' = job
    BY <1>3, BackupRows DEF RecoverBackup, BackupStatus
  <2>2. ASSUME NEW j \in Job
        PROVE  JobFits(j)' /\ BackupFits(j)'
    BY <1>s, <1>t, <2>1 DEF JobFits, BackupFits, Kept, Alive
  <2> QED BY <1>1, <2>2 DEF Safe
<1>4. ASSUME NEW b \in Job, RecoverJob(b)
      PROVE  Safe'
  <2>1. /\ job[b].status = "running" /\ job'[b].status = "failed"
        /\ \A i \in Job : i # b => job'[i] = job[i]
        /\ backup' = backup
    BY <1>4, JobRows DEF RecoverJob, JobStatus
  <2>2. ASSUME NEW j \in Job
        PROVE  JobFits(j)' /\ BackupFits(j)'
    BY <1>s, <1>t, <2>1 DEF JobFits, BackupFits, Kept, Alive
  <2> QED BY <1>1, <2>2 DEF Safe
<1> QED BY <1>2, <1>3, <1>4 DEF Startup

(* The invariant: the scheduler, the end of the process and the clock.      *)
LEMMA SystemSafe ==
  ASSUME TypeOK, TypeOK', Safe, SweepTick \/ Shutdown \/ Exit \/ Tick
  PROVE  Safe'
<1>t. Job \subseteq Thread /\ Ticker \in Thread /\ Ticker \notin Job
  BY BackupJobsOK DEF BackupJobsOK, Thread
<1>s. /\ \A j \in Job : JobFits(j) /\ BackupFits(j)
      /\ \A u \in Thread : Listed(u) /\ todo[u] \subseteq Job
      /\ NotServing => \A u \in Thread : pc[u] \in {"idle", "done"}
  BY DEF Safe, TypeOK
<1>1. CASE SweepTick
  <2>1. /\ pc'[Ticker] = "sweep" /\ \A u \in Thread : u # Ticker => pc'[u] = pc[u]
        /\ UNCHANGED <<phase, todo, job, backup, late>> /\ phase = "up"
    BY <1>1, <1>t DEF SweepTick, Goto, TypeOK
  <2>2. \A j \in Job : pc'[j] = pc[j]
    BY <1>t, <2>1
  <2>3. ASSUME NEW j \in Job
        PROVE  JobFits(j)' /\ BackupFits(j)'
    BY <1>s, <2>1, <2>2 DEF JobFits, BackupFits, Kept, Alive
  <2>4. ASSUME NEW u \in Thread
        PROVE  Listed(u)'
    BY <1>s, <2>1, <2>2 DEF Listed
  <2> QED BY <2>1, <2>3, <2>4 DEF Safe, NotServing
<1>2. CASE Shutdown
  <2>1. /\ \A u \in Thread : pc'[u] = IF pc[u] = "queued" THEN "done" ELSE pc[u]
        /\ UNCHANGED <<todo, job, backup, late>> /\ phase' = "stopping"
    BY <1>2 DEF Shutdown
  <2>2. ASSUME NEW j \in Job
        PROVE  JobFits(j)' /\ BackupFits(j)'
    BY <1>s, <1>t, <2>1 DEF JobFits, BackupFits, Kept, Alive
  <2>3. ASSUME NEW u \in Thread
        PROVE  Listed(u)'
    BY <1>s, <1>t, <2>1 DEF Listed
  <2> QED BY <2>1, <2>2, <2>3 DEF Safe, NotServing
<1>3. CASE Exit
  <2>1. /\ \A u \in Thread :
               /\ pc'[u] \in {"idle", "done"}
               /\ (pc'[u] = "idle" => u = Ticker \/ pc[u] = "idle")
        /\ UNCHANGED <<job, backup, late>>
    BY <1>3 DEF Exit
  <2>2. ASSUME NEW j \in Job
        PROVE  JobFits(j)' /\ BackupFits(j)'
    BY <1>s, <1>t, <2>1 DEF JobFits, BackupFits, Kept, Alive
  <2>3. ASSUME NEW u \in Thread
        PROVE  Listed(u)'
    BY <2>1 DEF Listed
  <2> QED BY <2>1, <2>2, <2>3 DEF Safe
<1>4. CASE Tick
  <2>1. /\ \A j \in Job : job'[j] = Older(job[j]) /\ backup'[j] = Older(backup[j])
        /\ UNCHANGED <<phase, pc, todo, late>>
    BY <1>4 DEF Tick
  <2>2. ASSUME NEW j \in Job
        PROVE  /\ job'[j].status = job[j].status /\ job'[j].linked = job[j].linked
               /\ backup'[j].status = backup[j].status
    BY <2>1, OlderFields
  <2>3. ASSUME NEW j \in Job
        PROVE  JobFits(j)' /\ BackupFits(j)'
    BY <1>s, <2>1, <2>2 DEF JobFits, BackupFits, Kept, Alive
  <2>4. ASSUME NEW u \in Thread
        PROVE  Listed(u)'
    BY <1>s, <2>1, <2>2, BackupJobsOK DEF Listed
  <2> QED BY <1>s, <2>1, <2>3, <2>4 DEF Safe, NotServing
<1> QED BY <1>1, <1>2, <1>3, <1>4

(* The invariant holds however long runs take.                              *)
THEOREM Inductive == Spec => [](TypeOK /\ Safe)
<1>1. Init => Safe
  BY BackupJobsOK
     DEF BackupJobsOK, Init, Safe, NotServing, JobFits, BackupFits, Listed, Alive, NoJob,
         NoBackup, Thread, Job
<1>2. TypeOK /\ TypeOK' /\ Safe /\ [Next]_vars => Safe'
  <2> SUFFICES ASSUME TypeOK, TypeOK', Safe, [Next]_vars PROVE Safe'
    OBVIOUS
  <2>1. CASE UNCHANGED vars
    BY <2>1 DEF vars, Safe, NotServing, JobFits, BackupFits, Kept, Listed, Alive
  <2>2. CASE Next
    BY <2>2, RunSafe, SweepSafe, StartupSafe, SystemSafe DEF Next
  <2> QED BY <2>1, <2>2
<1> QED BY <1>1, <1>2, TypeCorrect, PTL DEF Spec

(* A combined job that reports success and still names its backup names a   *)
(* successful one, whatever sweeps, recoveries, crashes and deletions       *)
(* happened, unless a sweep listed the backup while its run was at work.    *)
THEOREM SuccessBacked == Spec => []SuccessHasItsBackup
<1>1. Safe => SuccessHasItsBackup
  BY DEF Safe, BackupFits, Kept, SuccessHasItsBackup, Job
<1>2. Spec => []Safe
  BY Inductive, PTL
<1> QED BY <1>1, <1>2, PTL

(* The result of a finished job is final, but for the response that finds   *)
(* the backup deleted and for a job that a sweep listed while its run was   *)
(* under way: that one is final once the run and the sweep are over.        *)
THEOREM FinishedStays == Spec => FinishedJobStays
<1> DEFINE Excused(j) ==
       \/ pc[j] = "reply" /\ backup[j].status = "deleted"
       \/ /\ j \in lateJob
          /\ Alive(j) \/ \E t \in Thread : pc[t] = "markJobs" /\ j \in todo[t]
       Keeps == \A j \in Job :
       job[j].status \in Finished /\ job'[j].status # job[j].status => Excused(j)
<1>1. TypeOK /\ Safe /\ [Next]_vars => Keeps
  <2> SUFFICES ASSUME TypeOK, Safe, [Next]_vars, NEW j \in Job,
                      job[j].status \in Finished, job'[j].status # job[j].status
               PROVE  Excused(j)
    OBVIOUS
  <2>s. JobFits(j) /\ BackupFits(j)
    BY DEF Safe
  <2>1. CASE UNCHANGED vars
    BY <2>1 DEF vars
  <2>2. ASSUME NEW i \in Job, Enqueue(i) \/ StartSync(i) \/ Run(i) \/ Progress(i) \/ Delete(i)
        PROVE  Excused(j)
    <3>1. \A s \in JobStatus : /\ \A k \in Job : k # i => JobWith(i, s)[k] = job[k]
                               /\ JobWith(i, s)[i].status = s
      BY JobRows
    <3>2. /\ \A k \in Job : k # i => Touched(i)[k] = job[k]
          /\ Touched(i)[i].status = job[i].status
      BY TouchedRows
    <3>3. CASE Enqueue(i)
      BY <3>1, <3>3, <2>s DEF Enqueue, JobFits, Finished, JobStatus
    <3>4. CASE RefuseAuto(i)
      BY <3>1, <3>4, <2>s DEF RefuseAuto, JobFits, Alive, Finished, JobStatus
    <3>5. CASE BeginWork(i)
      BY <3>1, <3>2, <3>5, <2>s DEF BeginWork, JobFits, Alive, Finished, JobStatus
    <3>6. CASE FinishCombined(i)
      <4>1. i = j /\ pc[j] = "saved"
        BY <3>6 DEF FinishCombined, TypeOK
      <4> QED BY <4>1, <2>s DEF JobFits, Alive, Finished
    <3>7. CASE Reply(i)
      <4>1. i = j /\ ~Row(i) /\ pc[i] = "reply"
        BY <3>1, <3>7 DEF Reply, JobStatus
      <4>2. job[j].status # "failed"
        BY <3>1, <3>7, <4>1 DEF Reply, JobStatus
      <4>3. j \in CombinedJob => backup[j].status = "deleted"
        BY <4>1, <2>s DEF Row, BackupFits, Kept
      <4> QED BY <4>1, <4>2, <4>3, <2>s DEF JobFits, Alive, Finished
    <3>8. CASE FinishOther(i)
      BY <3>1, <3>8, <2>s DEF FinishOther, JobFits, Alive, Finished, JobStatus
    <3>9. CASE FailJob(i)
      BY <3>1, <3>9, <2>s DEF FailJob, JobFits, Alive, Finished, JobStatus
    <3>10. CASE Delete(i)
      BY <3>10 DEF Delete, TypeOK, JobRow
    <3>11. CASE job' = job
      BY <3>11
    <3>12. CASE Progress(i)
      BY <3>2, <3>12 DEF Progress
    <3> QED BY <2>2, <3>3, <3>4, <3>5, <3>6, <3>7, <3>8, <3>9, <3>10, <3>11, <3>12
         DEF Run, StartSync, Submit, Take, PassChecks, ChecksFail, WorkFails, CreateBackup,
             NoBackupNeeded, BackupSucceeds, BackupFails, BackupCancelled, BackupVanished
  <2>3. ASSUME NEW t \in Thread, Sweep(t) \/ SweepFails(t)
        PROVE  Excused(j)
    <3>1. ASSUME NEW b \in Job, MarkJob(t, b)
          PROVE  Excused(j)
      <4>1. b = j
        BY <3>1, JobRows DEF MarkJob, JobStatus
      <4>2. /\ pc[t] = "markJobs" /\ j \in todo[t]
            /\ j \in lateJob \/ job[j].status \in {"running", "failed"}
        BY <3>1, <4>1 DEF MarkJob, Safe, Listed
      <4>3. job'[j].status = "failed"
        BY <3>1, <4>1, JobRows DEF MarkJob, JobStatus
      <4> QED BY <4>2, <4>3 DEF Finished
    <3>2. CASE job' = job
      BY <3>2
    <3> QED BY <2>3, <3>1, <3>2
         DEF Sweep, ListBackups, GiveUpSweep, SweepFails, ListJobs, EndSweep, MarkBackup
  <2>4. CASE SweepTick \/ Shutdown \/ Exit
    BY <2>4 DEF SweepTick, Shutdown, Exit
  <2>5. CASE Startup
    <3>1. ASSUME NEW b \in Job, RecoverJob(b)
          PROVE  Excused(j)
      BY <3>1, JobRows DEF RecoverJob, JobStatus, Finished
    <3> QED BY <2>5, <3>1 DEF Startup, Boot, Serve, RecoverBackup
  <2>6. CASE Tick
    BY <2>6, OlderFields DEF Tick
  <2> QED BY <2>1, <2>2, <2>3, <2>4, <2>5, <2>6 DEF Next
<1>2. Spec => [](TypeOK /\ Safe)
  BY Inductive
<1> QED BY <1>1, <1>2, PTL DEF Spec, FinishedJobStays
=============================================================================
