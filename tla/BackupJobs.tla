----------------------------- MODULE BackupJobs -----------------------------
(***************************************************************************)
(* The life of backup_jobs and backups rows: requests that enqueue work or *)
(* do it themselves, the worker pool, the outcomes of a run, the sweep of  *)
(* rows that look stale, startup recovery, deletion, shutdown and crash.   *)
(* One action is one commit, or one step between two of them.              *)
(*                                                                         *)
(* There is one API process, as deployed.  A job makes at most one backup: *)
(* of the devices and attempts of a fleet run only one is kept.  Nothing   *)
(* bounds how long a run takes, queued or at work.  Statements fail for    *)
(* reasons of the database's own in sweeps and in startup recovery only,   *)
(* whose handler swallows that.                                            *)
(***************************************************************************)
EXTENDS Naturals, FiniteSets, Sequences

CONSTANTS
  CombinedJob,  \* jobs of run_combined_backup
  AutoJob,      \* jobs of run_auto_backups
  CleanupJob,   \* jobs of the enqueued cleanup
  PooledJob,    \* those of them that are enqueued; the others run in the
                \* request's (or the scheduler's) own thread
  Ticker,       \* the scheduler thread that runs the pending tick
  Workers,      \* BACKUP_WORKER_MAX_WORKERS
  Stale         \* ticks after which an untouched RUNNING row is swept

Job == CombinedJob \cup AutoJob \cup CleanupJob
Thread == Job \cup {Ticker}

ASSUME BackupJobsOK ==
  /\ CombinedJob \cap AutoJob = {}
  /\ CleanupJob \cap (CombinedJob \cup AutoJob) = {}
  /\ CleanupJob \subseteq PooledJob /\ PooledJob \subseteq Job
  /\ Ticker \notin Job
  /\ Workers \in Nat \ {0} /\ Stale \in Nat \ {0}

VARIABLES
  phase,       \* the process: "starting", "up", "stopping" or "down"
  queue,       \* tasks the pool has not started
  pc,          \* per thread: where it is
  todo,        \* per thread: rows its sweep has listed and not marked yet
  job,         \* the backup_jobs rows
  backup,      \* the backups rows, by the job that made them
  lateJob,     \* jobs a sweep has listed while their run was under way
  lateBackup   \* combined jobs whose backup one has (both history)

late == <<lateJob, lateBackup>>
vars == <<phase, queue, pc, todo, job, backup, late>>

JobStatus == {"none", "running", "success", "failed", "skipped"}
BackupStatus == {"none", "running", "success", "failed", "deleted"}
Pc == {"idle", "created", "queued", "start", "sweep", "markBackups", "markJobs",
       "swept", "work", "backup", "saved", "offline", "failing", "reply", "done"}

JobRow == [status : JobStatus, age : 0..Stale, linked : BOOLEAN]
BackupRow == [status : BackupStatus, age : 0..Stale]

TypeOK ==
  /\ phase \in {"starting", "up", "stopping", "down"}
  /\ queue \in Seq(PooledJob)
  /\ pc \in [Thread -> Pc]
  /\ todo \in [Thread -> SUBSET Job]
  /\ job \in [Job -> JobRow]
  /\ backup \in [Job -> BackupRow]
  /\ lateJob \in SUBSET Job /\ lateBackup \in SUBSET CombinedJob

NoJob == [status |-> "none", age |-> 0, linked |-> FALSE]
NoBackup == [status |-> "none", age |-> 0]

Init ==
  /\ phase = "up"
  /\ queue = <<>>
  /\ pc = [t \in Thread |-> "idle"]
  /\ todo = [t \in Thread |-> {}]
  /\ job = [j \in Job |-> NoJob]
  /\ backup = [j \in Job |-> NoBackup]
  /\ lateJob = {} /\ lateBackup = {}

-----------------------------------------------------------------------------
Goto(t, label) == pc' = [pc EXCEPT ![t] = label]

(* update_job and the _finish_backup functions also set updated_at.         *)
JobWith(j, status) ==
  [job EXCEPT ![j] = [status |-> status, age |-> 0, linked |-> job[j].linked]]
BackupWith(j, status) == [backup EXCEPT ![j] = [status |-> status, age |-> 0]]
Touched(j) == JobWith(j, job[j].status)

Row(j) == backup[j].status \notin {"none", "deleted"}
Alive(j) == pc[j] \notin {"idle", "done"}

-----------------------------------------------------------------------------
(* POST .../enqueue: create_job commits, then the task is submitted.        *)
Enqueue(j) ==
  /\ phase = "up" /\ pc[j] = "idle" /\ j \in PooledJob
  /\ job' = JobWith(j, "running")
  /\ Goto(j, "created")
  /\ UNCHANGED <<phase, queue, todo, backup, late>>

Submit(j) ==
  /\ pc[j] = "created" /\ j \in PooledJob
  /\ queue' = Append(queue, j)
  /\ Goto(j, "queued")
  /\ UNCHANGED <<phase, todo, job, backup, late>>

Executing(j) == j \in PooledJob /\ pc[j] \notin {"idle", "created", "queued", "done"}

(* A free worker thread takes the oldest task.                              *)
Take(j) ==
  /\ queue # <<>> /\ Head(queue) = j /\ pc[j] = "queued"
  /\ Cardinality({i \in Job : Executing(i)}) < Workers
  /\ queue' = Tail(queue)
  /\ Goto(j, "start")
  /\ UNCHANGED <<phase, todo, job, backup, late>>

(* The synchronous endpoints and the scheduler's ticks.                     *)
StartSync(j) ==
  /\ phase = "up" /\ pc[j] = "idle" /\ j \notin PooledJob
  /\ Goto(j, "start")
  /\ UNCHANGED <<phase, queue, todo, job, backup, late>>

(* The sweep comes first, but after resolve_device, resolve_user and the    *)
(* target check of a combined run and after _AUTO_BACKUP_LOCK of a fleet    *)
(* run; a cleanup does not sweep.                                           *)
PassChecks(j) ==
  /\ pc[j] = "start"
  /\ Goto(j, IF j \in CleanupJob THEN "work" ELSE "sweep")
  /\ UNCHANGED <<phase, queue, todo, job, backup, late>>

(* A combined run's checks raise before it has looked at its job; the       *)
(* worker logs that and leaves the job as it is.                           *)
ChecksFail(j) ==
  /\ pc[j] = "start" /\ j \in CombinedJob
  /\ Goto(j, "done")
  /\ UNCHANGED <<phase, queue, todo, job, backup, late>>

(* A fleet run is refused by _AUTO_BACKUP_LOCK or by the job_locks row: the *)
(* worker marks the job, a request has made none.                          *)
RefuseAuto(j) ==
  /\ pc[j] \in {"start", "swept"} /\ j \in AutoJob
  /\ Goto(j, "done")
  /\ job' = IF job[j].status = "none" THEN job ELSE JobWith(j, "failed")
  /\ UNCHANGED <<phase, queue, todo, backup, late>>

-----------------------------------------------------------------------------
(* Mutant: the cutoff lies beyond any age a row reaches.                    *)
IsStaleNever(row) == row.status = "running" /\ row.age > Stale

(* recover_stale_running_records: RUNNING and updated before the cutoff.    *)
IsStale(row) == row.status = "running" /\ row.age = Stale

SweepTick ==
  /\ phase = "up" /\ pc[Ticker] = "idle"
  /\ Goto(Ticker, "sweep")
  /\ UNCHANGED <<phase, queue, todo, job, backup, late>>

ListBackups(t) ==
  /\ pc[t] = "sweep"
  /\ LET stale == {b \in Job : IsStale(backup[b])} IN
       /\ todo' = [todo EXCEPT ![t] = stale]
       /\ lateBackup' = lateBackup \cup {b \in stale \cap CombinedJob : Alive(b)}
  /\ Goto(t, "markBackups")
  /\ UNCHANGED <<phase, queue, job, backup, lateJob>>

(* _finish_backup_failed of a listed row, whatever its status is by now.    *)
MarkBackup(t, b) ==
  /\ pc[t] = "markBackups" /\ b \in todo[t] /\ Row(b)
  /\ backup' = BackupWith(b, "failed")
  /\ todo' = [todo EXCEPT ![t] = @ \ {b}]
  /\ UNCHANGED <<phase, queue, pc, job, late>>

Swept(t) == Goto(t, IF t = Ticker THEN "idle" ELSE "swept")

(* A listed row has been deleted: the sweep rolls back and returns.         *)
GiveUpSweep(t) ==
  /\ pc[t] = "markBackups" /\ \E b \in todo[t] : ~Row(b)
  /\ todo' = [todo EXCEPT ![t] = {}]
  /\ Swept(t)
  /\ UNCHANGED <<phase, queue, job, backup, late>>

(* So it does when a statement fails, and leaves the rest as it is.         *)
SweepFails(t) ==
  /\ \/ pc[t] = "sweep"
     \/ pc[t] = "markBackups" /\ \A b \in todo[t] : Row(b)
     \/ pc[t] = "markJobs" /\ todo[t] # {}
  /\ todo' = [todo EXCEPT ![t] = {}]
  /\ Swept(t)
  /\ UNCHANGED <<phase, queue, job, backup, late>>

ListJobs(t) ==
  /\ pc[t] = "markBackups" /\ todo[t] = {}
  /\ LET stale == {j \in Job : IsStale(job[j])} IN
       /\ todo' = [todo EXCEPT ![t] = stale]
       /\ lateJob' = lateJob \cup {j \in stale : Alive(j)}
  /\ Goto(t, "markJobs")
  /\ UNCHANGED <<phase, queue, job, backup, lateBackup>>

MarkJob(t, j) ==
  /\ pc[t] = "markJobs" /\ j \in todo[t]
  /\ job' = JobWith(j, "failed")
  /\ todo' = [todo EXCEPT ![t] = @ \ {j}]
  /\ UNCHANGED <<phase, queue, pc, backup, late>>

EndSweep(t) ==
  /\ pc[t] = "markJobs" /\ todo[t] = {}
  /\ Swept(t)
  /\ UNCHANGED <<phase, queue, todo, job, backup, late>>

Sweep(t) ==
  \/ ListBackups(t) \/ GiveUpSweep(t) \/ ListJobs(t) \/ EndSweep(t)
  \/ \E row \in Job : MarkBackup(t, row) \/ MarkJob(t, row)

-----------------------------------------------------------------------------
(* The existing job row is used, or one is made; a fleet run updates it at  *)
(* once, a combined run not before its end.                                *)
BeginWork(j) ==
  /\ pc[j] = "swept"
  /\ Goto(j, "work")
  /\ job' = IF job[j].status = "none" THEN JobWith(j, "running")
            ELSE IF j \in AutoJob THEN Touched(j) ELSE job
  /\ UNCHANGED <<phase, queue, todo, backup, late>>

(* A fleet run goes on to another device or attempt and says so.            *)
Progress(j) ==
  /\ pc[j] = "work" /\ j \in AutoJob
  /\ job' = Touched(j)
  /\ UNCHANGED <<phase, queue, pc, todo, backup, late>>

(* An exception before the backup row exists (database dump, credentials),  *)
(* or one that ends a cleanup.                                              *)
WorkFails(j) ==
  /\ pc[j] = "work"
  /\ Goto(j, "failing")
  /\ UNCHANGED <<phase, queue, todo, job, backup, late>>

(* _create_backup_record.                                                   *)
CreateBackup(j) ==
  /\ pc[j] = "work" /\ j \notin CleanupJob
  /\ backup' = BackupWith(j, "running")
  /\ Goto(j, "backup")
  /\ UNCHANGED <<phase, queue, todo, job, late>>

(* Nothing changed on the device, the device is offline, or the cleanup is  *)
(* over: no backup row.                                                     *)
NoBackupNeeded(j) ==
  /\ pc[j] = "work" /\ j \notin CombinedJob
  /\ \/ Goto(j, "saved")
     \/ j \in AutoJob /\ Goto(j, "offline")
  /\ UNCHANGED <<phase, queue, todo, job, backup, late>>

BackupSucceeds(j) ==
  /\ pc[j] = "backup" /\ Row(j)
  /\ backup' = BackupWith(j, "success")
  /\ Goto(j, "saved")
  /\ UNCHANGED <<phase, queue, todo, job, late>>

(* The last attempt fails: a fleet run counts the device as offline.        *)
BackupFails(j) ==
  /\ pc[j] = "backup" /\ Row(j)
  /\ backup' = BackupWith(j, "failed")
  /\ Goto(j, IF j \in AutoJob THEN "offline" ELSE "failing")
  /\ UNCHANGED <<phase, queue, todo, job, late>>

(* 400 BACKUP_CANCELLED: the handler of run_combined_backup asks the        *)
(* exception's headers, which are None, and raises before update_job.       *)
BackupCancelled(j) ==
  /\ pc[j] = "backup" /\ Row(j)
  /\ backup' = BackupWith(j, "failed")
  /\ Goto(j, IF j \in AutoJob THEN "offline" ELSE "done")
  /\ UNCHANGED <<phase, queue, todo, job, late>>

(* The backup was deleted under the run.  Whatever it does next fails on    *)
(* the missing row and leaves the session in a failed transaction, so no    *)
(* handler can write to the job either.  A run that has just saved it still *)
(* reports it to the tracker and, if combined, puts its id into the job.    *)
BackupVanished(j) ==
  /\ pc[j] \in {"backup", "saved"} /\ backup[j].status = "deleted"
  /\ Goto(j, "done")
  /\ UNCHANGED <<phase, queue, todo, job, backup, late>>

(* Mutant: the job is finished without waiting for the backup's commit.     *)
FinishCombinedEarly(j) ==
  /\ pc[j] \in {"backup", "saved"} /\ j \in CombinedJob /\ Row(j)
  /\ job' = [job EXCEPT ![j] = [status |-> "success", age |-> 0, linked |-> TRUE]]
  /\ Goto(j, "reply")
  /\ UNCHANGED <<phase, queue, todo, backup, late>>

(* update_job: SUCCESS and the backup's id, in one commit.                  *)
FinishCombined(j) ==
  /\ pc[j] = "saved" /\ j \in CombinedJob /\ Row(j)
  /\ job' = [job EXCEPT ![j] = [status |-> "success", age |-> 0, linked |-> TRUE]]
  /\ Goto(j, "reply")
  /\ UNCHANGED <<phase, queue, todo, backup, late>>

(* The response reads the backup again; if it is gone by now, the handler   *)
(* of the exception marks the finished job as failed.                      *)
Reply(j) ==
  /\ pc[j] = "reply"
  /\ job' = IF Row(j) THEN job ELSE JobWith(j, "failed")
  /\ Goto(j, "done")
  /\ UNCHANGED <<phase, queue, todo, backup, late>>

(* Mutant: a fleet run with no device online ends in a status of its own.   *)
FinishOffline(j) ==
  /\ pc[j] \in {"saved", "offline"} /\ j \notin CombinedJob
  /\ job' = JobWith(j, IF pc[j] = "saved" THEN "success" ELSE "offline")
  /\ Goto(j, "done")
  /\ UNCHANGED <<phase, queue, todo, backup, late>>

(* _auto_backup_finished_status, and the end of an enqueued cleanup.        *)
FinishOther(j) ==
  /\ pc[j] \in {"saved", "offline"} /\ j \notin CombinedJob
  /\ job' = JobWith(j, IF pc[j] = "saved" THEN "success" ELSE "skipped")
  /\ Goto(j, "done")
  /\ UNCHANGED <<phase, queue, todo, backup, late>>

FailJob(j) ==
  /\ pc[j] = "failing"
  /\ job' = JobWith(j, "failed")
  /\ Goto(j, "done")
  /\ UNCHANGED <<phase, queue, todo, backup, late>>

-----------------------------------------------------------------------------
(* delete_backup, for the user, a cleanup or an age limit: any status.      *)
Delete(b) ==
  /\ phase \in {"up", "stopping"} /\ Row(b)
  /\ backup' = BackupWith(b, "deleted")
  /\ job' = [job EXCEPT ![b].linked = FALSE]
  /\ UNCHANGED <<phase, queue, pc, todo, late>>

(* lifespan's shutdown: queued tasks are cancelled, running ones go on      *)
(* until the process is gone.                                              *)
Shutdown ==
  /\ phase = "up" /\ \A j \in Job : pc[j] # "created"
  /\ phase' = "stopping"
  /\ queue' = <<>>
  /\ pc' = [t \in Thread |-> IF pc[t] = "queued" THEN "done" ELSE pc[t]]
  /\ UNCHANGED <<todo, job, backup, late>>

(* The process ends, by itself, by a kill or by a crash.                    *)
Exit ==
  /\ phase # "down"
  /\ phase' = "down"
  /\ queue' = <<>>
  /\ pc' = [t \in Thread |-> IF t = Ticker \/ pc[t] = "idle" THEN "idle" ELSE "done"]
  /\ todo' = [t \in Thread |-> {}]
  /\ UNCHANGED <<job, backup, late>>

(* lifespan: before it serves, recover_stale_running_records(is_startup)    *)
(* fails whatever is RUNNING, one commit per row, backups first.            *)
Boot ==
  /\ phase = "down"
  /\ phase' = "starting"
  /\ UNCHANGED <<queue, pc, todo, job, backup, late>>

RecoverBackup(b) ==
  /\ phase = "starting" /\ backup[b].status = "running"
  /\ backup' = BackupWith(b, "failed")
  /\ UNCHANGED <<phase, queue, pc, todo, job, late>>

(* Mutant: startup recovery fails every job there is.                       *)
RecoverAnyJob(j) ==
  /\ phase = "starting" /\ job[j].status \notin {"none", "failed"}
  /\ job' = JobWith(j, "failed")
  /\ UNCHANGED <<phase, queue, pc, todo, backup, late>>

RecoverJob(j) ==
  /\ phase = "starting" /\ job[j].status = "running"
  /\ \A b \in Job : backup[b].status # "running"
  /\ job' = JobWith(j, "failed")
  /\ UNCHANGED <<phase, queue, pc, todo, backup, late>>

(* The recovery is over, or a statement of it failed: it rolls back, says   *)
(* (0, 0), and the process serves with the rest still RUNNING.              *)
Serve ==
  /\ phase = "starting"
  /\ phase' = "up"
  /\ UNCHANGED <<queue, pc, todo, job, backup, late>>

Startup == Boot \/ Serve \/ \E j \in Job : RecoverBackup(j) \/ RecoverJob(j)

Older(row) ==
  IF row.status = "running" /\ row.age < Stale THEN [row EXCEPT !.age = @ + 1] ELSE row

Tick ==
  /\ \E j \in Job : Older(job[j]) # job[j] \/ Older(backup[j]) # backup[j]
  /\ job' = [j \in Job |-> Older(job[j])]
  /\ backup' = [b \in Job |-> Older(backup[b])]
  /\ UNCHANGED <<phase, queue, pc, todo, late>>

-----------------------------------------------------------------------------
Run(j) ==
  \/ Submit(j) \/ Take(j) \/ PassChecks(j) \/ ChecksFail(j) \/ RefuseAuto(j)
  \/ BeginWork(j) \/ WorkFails(j) \/ CreateBackup(j) \/ NoBackupNeeded(j)
  \/ BackupSucceeds(j) \/ BackupFails(j) \/ BackupCancelled(j) \/ BackupVanished(j)
  \/ FinishCombined(j) \/ Reply(j) \/ FinishOther(j) \/ FailJob(j)

Next ==
  \/ \E j \in Job : Enqueue(j) \/ StartSync(j) \/ Run(j) \/ Progress(j) \/ Delete(j)
  \/ SweepTick
  \/ \E t \in Thread : Sweep(t) \/ SweepFails(t)
  \/ Shutdown \/ Exit \/ Startup \/ Tick

Spec == Init /\ [][Next]_vars

(* Fairness: threads go on (transfers have timeouts, a fleet run has        *)
(* finitely many devices and attempts, so it does not make Progress for     *)
(* ever), the pool takes tasks, the clock advances, the scheduler fires, a  *)
(* process that was shut down exits, a stopped container is restarted, and  *)
(* neither does the process stop nor do the sweeps fail over and over.      *)
Fairness ==
  /\ \A j \in Job : WF_vars(Run(j))
  /\ \A t \in Thread : WF_vars(Sweep(t))
  /\ WF_vars(SweepTick) /\ WF_vars(Tick) /\ WF_vars(Startup)
  /\ WF_vars(phase = "stopping" /\ Exit)
  /\ <>[][~(phase # "stopping" /\ (Shutdown \/ Exit))]_vars
  /\ <>[][~\E t \in Thread : SweepFails(t)]_vars

FairSpec == Spec /\ Fairness

-----------------------------------------------------------------------------
Finished == {"success", "failed", "skipped"}

(* A job that has finished keeps its result, with two exceptions.  A        *)
(* combined run whose backup is deleted between the commit of its success   *)
(* and its response fails its own job.  And a sweep takes a run that is     *)
(* slow, or waits long in the queue, for dead: the job it listed gets the   *)
(* sweep's result and the run's own in whichever order they commit.  Once   *)
(* both are over the result is final, and that of a job no sweep listed     *)
(* before its run was over is, whatever sweeps and recoveries come after.   *)
FinishedJobStays ==
  [][\A j \in Job :
       job[j].status \in Finished /\ job'[j].status # job[j].status
         => \/ pc[j] = "reply" /\ backup[j].status = "deleted"
            \/ /\ j \in lateJob
               /\ Alive(j) \/ \E t \in Thread : pc[t] = "markJobs" /\ j \in todo[t]]_vars

(* A successful combined job that still names a backup names a successful   *)
(* one, although the two rows are committed one after the other, deleted by *)
(* others and recovered by a startup.  The exception is a backup a sweep    *)
(* listed while its run was still at work, too long for the cutoff: it may  *)
(* be marked failed after the run has saved it.                             *)
SuccessHasItsBackup ==
  \A j \in CombinedJob :
    job[j].status = "success" /\ job[j].linked =>
      \/ backup[j].status = "success"
      \/ backup[j].status = "failed" /\ j \in lateBackup

(* Nothing stays RUNNING for ever: whatever a run leaves behind, by crash,  *)
(* cancellation, deletion or a lost task, and whatever a startup recovery   *)
(* that failed leaves there, the startup or the hourly sweep settles in the *)
(* end.                                                                     *)
NothingStaysRunning ==
  \A j \in Job :
    /\ job[j].status = "running" ~> job[j].status # "running"
    /\ backup[j].status = "running" ~> backup[j].status # "running"

(* While the process lives, a run that is over leaves its job finished: it  *)
(* reports its own success, failure or cancellation.                       *)
EndedRunSettlesItsJob ==
  [][\A j \in Job :
       phase = "up" /\ phase' = "up" /\ pc[j] \notin {"idle", "done"} /\ pc'[j] = "done"
         => job'[j].status # "running"]_vars
=============================================================================
