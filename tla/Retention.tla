------------------------------ MODULE Retention ------------------------------
(***************************************************************************)
(* The backups of one device over time: incremental auto backups that are  *)
(* compared with the manifests of earlier ones, full baselines, cleanups   *)
(* by age and by month, deletions by users, restarts.  Runs of one device  *)
(* follow each other (JobLock); cleanups and deletions do not wait for     *)
(* them or for each other.                                                 *)
(*                                                                         *)
(* A path's contents are numbered: the checksum of version 3 is 3, and 0   *)
(* is "not listed" or "not stored".  Paths are checked and stored each by  *)
(* itself, so a check, and a download, of all of them is one step.  The    *)
(* database dump, when there is one, is a path like the others.  Contents  *)
(* do not come back: a path that is changed, or removed and made again,    *)
(* has a content it never had.                                             *)
(***************************************************************************)
EXTENDS Naturals, FiniteSets

CONSTANTS
  Path,         \* the device's configured paths
  Deleter,      \* threads that clean up or delete
  MaxBackups,   \* bound: rows ever made
  MaxVersion,   \* bound: contents a path ever has
  MaxTime,      \* bound: ticks
  MonthLen,     \* ticks in a month
  MaxPerMonth,  \* _MAX_AUTO_BACKUPS_PER_MONTH
  History,      \* how many auto backups a check looks back at
  Retain,       \* older_than_days or older_than_hours, in ticks
  Interval,     \* full_baseline_interval_days, in ticks
  DbListed,     \* whether manifests list the database under the path the
                \* baseline test requires (no database, or a dump by SSH)
  ZipModes,     \* the values zip_output takes
  Policy,       \* the cleanups asked for: keep (keep_latest_per_device) and
                \* all (ignore_retention)
  Brisk         \* whether every run ends before its row reaches Retain

ASSUME RetentionOK ==
  /\ MaxBackups \in Nat /\ MaxVersion \in Nat \ {0} /\ MaxTime \in Nat
  /\ MonthLen \in Nat \ {0} /\ MaxPerMonth \in Nat \ {0}
  /\ History \in Nat /\ Retain \in Nat /\ Interval \in Nat \ {0}
  /\ DbListed \in BOOLEAN /\ Brisk \in BOOLEAN
  /\ ZipModes \subseteq BOOLEAN /\ Policy \subseteq [keep : BOOLEAN, all : BOOLEAN]

Id == 1..MaxBackups
Stored == [Path -> 0..MaxVersion]

VARIABLES
  now,          \* the clock
  version,      \* per path: its latest content
  present,      \* the paths that exist on the device
  count,        \* rows made so far; ids, and created_at, grow
  row,          \* per id: what is fixed when the row is made
  status,       \* per id: backup_status, or that there is no row
  manifest,     \* per id: the contents its manifest lists
  files,        \* per id: the contents it stores
  saved,        \* ids that reached SUCCESS (history)
  gone,         \* per id: whether its files were deleted, and for whom
  run,          \* the auto backup of the device
  del           \* per deleter: the cleanup or deletion it is at

vars == <<now, version, present, count, row, status, manifest, files, saved, gone, run, del>>

Status == {"none", "running", "success", "failed", "deleted"}
Row == [kind : {"auto", "manual"}, mode : {"full", "incremental"}, zip : BOOLEAN,
        created : 0..MaxTime]
RunPc == {"idle", "check", "checked", "download", "save"}
Run == [pc : RunPc, full : BOOLEAN, past : SUBSET Id, changed : SUBSET Path,
        found : Stored, fetched : Stored]
DelPc == {"idle", "check", "unlink", "commit"}
Del == [pc : DelPc, by : {"cleanup", "user"}, keep : BOOLEAN, all : BOOLEAN,
        todo : SUBSET Id, excess : SUBSET Id, pool : SUBSET Id]

TypeOK ==
  /\ now \in 0..MaxTime
  /\ version \in Stored
  /\ present \in SUBSET Path
  /\ count \in 0..MaxBackups
  /\ row \in [Id -> Row]
  /\ status \in [Id -> Status]
  /\ manifest \in [Id -> Stored]
  /\ files \in [Id -> Stored]
  /\ saved \in SUBSET Id
  /\ gone \in [Id -> {"no", "cleanup", "user"}]
  /\ run \in Run
  /\ del \in [Deleter -> Del]

Nothing == [p \in Path |-> 0]
NoRow == [kind |-> "manual", mode |-> "full", zip |-> FALSE, created |-> 0]
NoRun == [pc |-> "idle", full |-> FALSE, past |-> {}, changed |-> {},
          found |-> Nothing, fetched |-> Nothing]
NoDel == [pc |-> "idle", by |-> "user", keep |-> FALSE, all |-> FALSE,
          todo |-> {}, excess |-> {}, pool |-> {}]

Init ==
  /\ now = 0
  /\ version = [p \in Path |-> 1]
  /\ present = Path
  /\ count = 0
  /\ row = [b \in Id |-> NoRow]
  /\ status = [b \in Id |-> "none"]
  /\ manifest = [b \in Id |-> Nothing]
  /\ files = [b \in Id |-> Nothing]
  /\ saved = {}
  /\ gone = [b \in Id |-> "no"]
  /\ run = NoRun
  /\ del = [d \in Deleter |-> NoDel]

-----------------------------------------------------------------------------
Exists(b) == status[b] \notin {"none", "deleted"}
IsAuto(b) == row[b].kind = "auto"

(* _read_auto_backup_manifest finds the manifest by way of the backup's     *)
(* files: in the zip while that is on disk, else in a directory above them, *)
(* where it outlives the deletion of the files.                            *)
Legible(b) ==
  /\ b \in saved
  /\ row[b].zip => gone[b] = "no"
  /\ row[b].zip \/ files[b] # Nothing

(* _is_full_baseline_by_manifest, on a row that is still there.             *)
FullBaseline(b) == status[b] = "success" /\ Legible(b) /\ row[b].mode = "full"

-----------------------------------------------------------------------------
(* The device and the clock.                                                *)
Edit(p) ==
  /\ version[p] < MaxVersion
  /\ version' = [version EXCEPT ![p] = @ + 1]
  /\ present' = present \cup {p}
  /\ UNCHANGED <<now, count, row, status, manifest, files, saved, gone, run, del>>

Remove(p) ==
  /\ p \in present /\ version[p] < MaxVersion
  /\ present' = present \ {p}
  /\ version' = [version EXCEPT ![p] = @ + 1]
  /\ UNCHANGED <<now, count, row, status, manifest, files, saved, gone, run, del>>

Tick ==
  /\ now < MaxTime
  /\ Brisk => \A b \in Id : status[b] = "running" => now + 1 <= row[b].created + Retain
  /\ now' = now + 1
  /\ UNCHANGED <<version, present, count, row, status, manifest, files, saved, gone, run, del>>

(* A combined backup of the device, of another type than auto, begins and   *)
(* ends, no matter how; here it only counts as a row.                       *)
Manual ==
  /\ count < MaxBackups
  /\ count' = count + 1
  /\ row' = [row EXCEPT ![count + 1] = [NoRow EXCEPT !.created = now]]
  /\ status' = [status EXCEPT ![count + 1] = "success"]
  /\ UNCHANGED <<now, version, present, manifest, files, saved, gone, run, del>>

-----------------------------------------------------------------------------
(* _recent_auto_backups_for_device.                                         *)
Successes == {b \in Id : IsAuto(b) /\ status[b] = "success"}
Recent == {b \in Successes : Cardinality({n \in Successes : n > b}) < History}

(* _is_full_baseline_backup: declared one, or listing all that is required. *)
CountsAsBaseline(b) ==
  /\ Legible(b)
  /\ row[b].mode = "full" \/ (DbListed /\ \A p \in Path : manifest[b][p] # 0)

(* _should_create_full_baseline.                                            *)
BaselineDue(past) ==
  \A b \in past : CountsAsBaseline(b) => now >= row[b].created + Interval

StartRun(forced) ==
  /\ run.pc = "idle"
  /\ run' = [pc |-> "check", full |-> forced \/ BaselineDue(Recent), past |-> Recent,
             changed |-> {}, found |-> Nothing, fetched |-> Nothing]
  /\ UNCHANGED <<now, version, present, count, row, status, manifest, files, saved, gone, del>>

(* _manifest_checksum_for_remote_path_in_backups: the newest manifest that  *)
(* lists the path.  Without one, names and checksums of stored files are    *)
(* compared, which a content that is new to the device never passes.       *)
Lists(b, p) == Legible(b) /\ manifest[b][p] # 0
Same(p, content, past) ==
  \E b \in past :
    /\ Lists(b, p) /\ manifest[b][p] = content
    /\ \A n \in past : n > b => ~Lists(n, p)

Here(paths) == [p \in Path |-> IF p \in paths THEN version[p] ELSE 0]

(* snapshot_remote_path and the comparison.  Of the backups listed before,  *)
(* those deleted since may or may not still be seen.                       *)
Check ==
  /\ run.pc = "check"
  /\ \E seen \in SUBSET run.past :
       /\ \A b \in run.past : status[b] = "success" => b \in seen
       /\ run' = [pc |-> "checked", full |-> run.full, past |-> {},
                  changed |-> {p \in present : run.full \/ ~Same(p, version[p], seen)},
                  found |-> Here(present), fetched |-> Nothing]
  /\ UNCHANGED <<now, version, present, count, row, status, manifest, files, saved, gone, del>>

(* Nothing changed, or an exception before the row: the run of the device   *)
(* is over, or tried again.                                                 *)
NoBackup ==
  /\ \/ run.pc = "checked" /\ run.changed = {}
     \/ run.pc = "check"
  /\ run' = NoRun
  /\ UNCHANGED <<now, version, present, count, row, status, manifest, files, saved, gone, del>>

(* _create_backup_record.                                                   *)
CreateBackup(zip) ==
  /\ run.pc = "checked" /\ run.changed # {} /\ count < MaxBackups
  /\ count' = count + 1
  /\ row' = [row EXCEPT ![count + 1] =
       [kind |-> "auto", mode |-> IF run.full THEN "full" ELSE "incremental",
        zip |-> zip, created |-> now]]
  /\ status' = [status EXCEPT ![count + 1] = "running"]
  /\ run' = [NoRun EXCEPT !.pc = "download", !.changed = run.changed, !.found = run.found]
  /\ UNCHANGED <<now, version, present, manifest, files, saved, gone, del>>

-----------------------------------------------------------------------------
(* Mutant: the end of a backup writes its row although it was deleted.      *)
MineThoughDeleted(b) ==
  \/ status[b] = "running"
  \/ status[b] = "deleted" /\ IsAuto(b) /\ \A n \in Id : n > b => ~IsAuto(n)

(* The row the run has made: manual ones are never running here.            *)
Mine(b) == status[b] = "running"

(* download_paths: what is there by now; a path that has gone is skipped.   *)
Download ==
  /\ run.pc = "download"
  /\ run' = [NoRun EXCEPT !.pc = "save", !.found = run.found,
                         !.fetched = Here(run.changed \cap present)]
  /\ UNCHANGED <<now, version, present, count, row, status, manifest, files, saved, gone, del>>

(* Mutant: a failed download is recorded like a good one.                   *)
SaveWhateverCame ==
  /\ run.pc \in {"download", "save"}
  /\ \E b \in Id :
       /\ Mine(b)
       /\ status' = [status EXCEPT ![b] = "success"]
       /\ manifest' = [manifest EXCEPT ![b] = run.found]
       /\ files' = [files EXCEPT ![b] = run.fetched]
       /\ saved' = saved \cup {b}
  /\ run' = NoRun
  /\ UNCHANGED <<now, version, present, count, row, gone, del>>

(* The manifest of every path that was found is written beside the files,   *)
(* then _finish_backup_success commits the status and the files' rows.      *)
Save ==
  /\ run.pc = "save"
  /\ \E b \in Id :
       /\ Mine(b)
       /\ status' = [status EXCEPT ![b] = "success"]
       /\ manifest' = [manifest EXCEPT ![b] = run.found]
       /\ files' = [files EXCEPT ![b] = run.fetched]
       /\ saved' = saved \cup {b}
  /\ run' = NoRun
  /\ UNCHANGED <<now, version, present, count, row, gone, del>>

(* Mutant: a cancelled backup gets a status of its own.                     *)
FailAsCancelled ==
  /\ run.pc \in {"download", "save"}
  /\ \E b \in Id :
       /\ Mine(b)
       /\ status' = [status EXCEPT ![b] = "cancelled"]
  /\ run' = NoRun
  /\ UNCHANGED <<now, version, present, count, row, manifest, files, saved, gone, del>>

(* _finish_backup_failed, and the run is over or tried again.               *)
Fail ==
  /\ run.pc \in {"download", "save"}
  /\ \E b \in Id :
       /\ Mine(b)
       /\ status' = [status EXCEPT ![b] = "failed"]
  /\ run' = NoRun
  /\ UNCHANGED <<now, version, present, count, row, manifest, files, saved, gone, del>>

(* The row was deleted under the run.                                       *)
Vanished ==
  /\ run.pc \in {"download", "save"}
  /\ \A b \in Id : ~Mine(b)
  /\ run' = NoRun
  /\ UNCHANGED <<now, version, present, count, row, status, manifest, files, saved, gone, del>>

-----------------------------------------------------------------------------
Month(b) == row[b].created \div MonthLen
Settled == {b \in Id : IsAuto(b) /\ Exists(b) /\ status[b] # "running"}

(* Mutant: one backup of a month too many is spared.                        *)
MonthlyExcessPlusOne ==
  {b \in Settled :
     Cardinality({n \in Settled : n > b /\ Month(n) = Month(b)}) > MaxPerMonth}

(* _monthly_backup_excess: all but the newest of each month.                *)
MonthlyExcess ==
  {b \in Settled :
     Cardinality({n \in Settled : n > b /\ Month(n) = Month(b)}) >= MaxPerMonth}

(* cleanup_old_backups lists its candidates; all is ignore_retention.       *)
StartCleanup(d, policy) ==
  LET keep == policy.keep  all == policy.all IN
  /\ del[d].pc = "idle"
  /\ del' = [del EXCEPT ![d] =
       [pc |-> "check", by |-> "cleanup", keep |-> keep /\ ~all, all |-> all,
        todo |-> IF all THEN {b \in Id : Exists(b) /\ status[b] # "running"}
                 ELSE {b \in Id : Exists(b) /\ now > row[b].created + Retain}
                        \cup MonthlyExcess,
        excess |-> IF keep /\ ~all THEN MonthlyExcess ELSE {},
        pool |-> IF all THEN {} ELSE Settled]]
  /\ UNCHANGED <<now, version, present, count, row, status, manifest, files, saved, gone, run>>

Next1(d, b) == b \in del[d].todo /\ \A n \in del[d].todo : b <= n
Went(d, b, pc) ==
  del' = [del EXCEPT ![d].pc = pc, ![d].todo = IF pc = "check" THEN @ \ {b} ELSE @]

Latest(b) == Exists(b) /\ \A n \in Id : Exists(n) => n <= b

(* Mutant: a full baseline is deleted like any other backup.                *)
SkipReasonForgetsBaselines(d, b) ==
  \/ ~IsAuto(b)
  \/ del[d].keep /\ b \notin del[d].excess /\ Latest(b)

(* _backup_cleanup_skip_reason.                                             *)
SkipReason(d, b) ==
  \/ ~IsAuto(b)
  \/ del[d].keep /\ b \notin del[d].excess /\ Latest(b)
  \/ del[d].all /\ FullBaseline(b)
  \/ FullBaseline(b) /\ ~\E n \in Id : n > b /\ IsAuto(n) /\ FullBaseline(n)

(* A manual row deleted by somebody else is skipped too, until the first    *)
(* commit of the cleanup makes it be read again.                           *)
Skip(d) ==
  /\ del[d].pc = "check"
  /\ \E b \in Id : Next1(d, b) /\ SkipReason(d, b) /\ Went(d, b, "check")
  /\ UNCHANGED <<now, version, present, count, row, status, manifest, files, saved, gone, run>>

Choose(d) ==
  /\ del[d].pc = "check"
  /\ \E b \in Id : Next1(d, b) /\ Exists(b) /\ ~SkipReason(d, b) /\ Went(d, b, "unlink")
  /\ UNCHANGED <<now, version, present, count, row, status, manifest, files, saved, gone, run>>

(* Somebody else deleted the row: reading it again raises, and the rest of  *)
(* the cleanup is not done.                                                *)
GiveUp(d) ==
  /\ del[d].pc \in {"check", "unlink"}
  /\ \E b \in Id : Next1(d, b) /\ ~Exists(b)
  /\ del' = [del EXCEPT ![d] = NoDel]
  /\ UNCHANGED <<now, version, present, count, row, status, manifest, files, saved, gone, run>>

FinishCleanup(d) ==
  /\ del[d].pc = "check" /\ del[d].todo = {}
  /\ del' = [del EXCEPT ![d] = NoDel]
  /\ UNCHANGED <<now, version, present, count, row, status, manifest, files, saved, gone, run>>

(* DELETE /backups/{id}, any row.                                           *)
StartDelete(d, b) ==
  /\ del[d].pc = "idle" /\ Exists(b)
  /\ del' = [del EXCEPT ![d] = [NoDel EXCEPT !.pc = "unlink", !.todo = {b}]]
  /\ UNCHANGED <<now, version, present, count, row, status, manifest, files, saved, gone, run>>

GoneFor(d, b) == IF gone[b] = "user" THEN "user" ELSE del[d].by

(* delete_backup: first the files it has rows for go, then the rows.        *)
Unlink(d) ==
  /\ del[d].pc = "unlink"
  /\ \E b \in Id :
       /\ Next1(d, b) /\ Exists(b)
       /\ gone' = IF b \in saved THEN [gone EXCEPT ![b] = GoneFor(d, b)] ELSE gone
       /\ Went(d, b, "commit")
  /\ UNCHANGED <<now, version, present, count, row, status, manifest, files, saved, run>>

CommitDelete(d) ==
  /\ del[d].pc = "commit"
  /\ \E b \in Id :
       /\ Next1(d, b)
       /\ gone' = [gone EXCEPT ![b] = GoneFor(d, b)]
       /\ status' = [status EXCEPT ![b] = "deleted"]
       /\ Went(d, b, "check")
  /\ UNCHANGED <<now, version, present, count, row, manifest, files, saved, run>>

(* The process ends at any point and comes back; startup recovery fails the *)
(* rows that were RUNNING.                                                  *)
Restart ==
  /\ run' = NoRun
  /\ del' = [d \in Deleter |-> NoDel]
  /\ status' = [b \in Id |-> IF status[b] = "running" THEN "failed" ELSE status[b]]
  /\ UNCHANGED <<now, version, present, count, row, manifest, files, saved, gone>>

-----------------------------------------------------------------------------
Device == Tick \/ \E p \in Path : Edit(p) \/ Remove(p)

Backup ==
  \/ \E forced \in BOOLEAN : StartRun(forced)
  \/ Check \/ NoBackup \/ (\E zip \in ZipModes : CreateBackup(zip))
  \/ Download \/ Save \/ Fail \/ Vanished \/ Manual

Deletion(d) ==
  \/ \E policy \in Policy : StartCleanup(d, policy)
  \/ Skip(d) \/ Choose(d) \/ GiveUp(d) \/ FinishCleanup(d)
  \/ \E b \in Id : StartDelete(d, b)
  \/ Unlink(d) \/ CommitDelete(d)

Next == Device \/ Backup \/ (\E d \in Deleter : Deletion(d)) \/ Restart

Spec == Init /\ [][Next]_vars

-----------------------------------------------------------------------------
Baseline(b) ==
  /\ b \in saved /\ row[b].mode = "full"
  /\ row[b].zip \/ files[b] # Nothing

(* "Full baseline protected: no newer full baseline exists yet": however    *)
(* cleanups, deletions, runs and restarts interleave, a cleanup takes a     *)
(* baseline only when a newer one has been saved, so the newest baseline    *)
(* a device ever had is there unless a user deleted it.                    *)
NewestBaselineStays ==
  \A b \in Id :
    Baseline(b) /\ gone[b] = "cleanup" => \E n \in Id : n > b /\ Baseline(n)

(* "No change detected" is true: the content a check finds unchanged is the *)
(* content of the path that was stored last, although a manifest also lists *)
(* contents its own backup does not store, backups fail, and the device     *)
(* changes between the check and the download.                             *)
Unchanged(p) == run.pc = "checked" /\ run.found[p] # 0 /\ p \notin run.changed
StoredLast(p, content) ==
  \E b \in saved :
    /\ files[b][p] = content
    /\ \A n \in saved : n > b => files[n][p] = 0
UnchangedIsStored == \A p \in Path : Unchanged(p) => StoredLast(p, run.found[p])

(* A cleanup that comes to its end has left at most MaxPerMonth of the auto *)
(* backups it found in a month, and the one baseline it may not take.       *)
QuotaKept ==
  \A d \in Deleter :
    del[d].pc = "check" /\ del[d].todo = {} /\ del[d].by = "cleanup" /\ ~del[d].all
      => \A b \in del[d].pool :
           Cardinality({n \in del[d].pool : Exists(n) /\ Month(n) = Month(b)})
             <= MaxPerMonth + 1

(* "full every N day(s)": a run makes an incremental backup only while a    *)
(* full baseline younger than the interval is among the recent backups.     *)
BaselineIsRenewed ==
  [][run.pc = "idle" /\ run'.pc = "check" /\ ~run'.full
       => \E b \in run'.past : row[b].mode = "full" /\ now < row[b].created + Interval]_vars

(* Whatever runs, cleanups, deletions and restarts do to the rows at the    *)
(* same time (_finish_backup_success, delete_backup, startup recovery), the *)
(* list of backups keeps the promise of BackupHistory: a row that was       *)
(* deleted or has ended is not written again, and no backup stores an older *)
(* content of a path than one before it.                                   *)
Log == INSTANCE BackupHistory WITH latest <- version, state <- status, content <- files
ImplementsBackupHistory == Log!HistorySpec
=============================================================================
