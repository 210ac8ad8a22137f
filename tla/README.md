# Auto-Backups: TLA+ models and proofs

Auto-Backups copies files and a map database from a fleet of robots and
computers over SFTP/MySQL into versioned backups, restores them, and shows the
progress in a web UI.  The API (`src/api`: FastAPI, one container, PostgreSQL)
runs backups, locks and retention; the front end (`src/front_end`, Next.js and
React) holds what the user chooses, ticks and confirms while requests are under
way.  This directory models the control logic of both, checks it with TLC on small
instances and proves its main invariants with TLAPS for all of them.

Paths below are relative to `src/api/` (sections on the server) or to
`src/front_end/my_app/src/` (sections on the front end) unless they start with
`src/`.

## 1. The system

### 1.1 Components

| Component | State | Operations | Model |
|---|---|---|---|
| Fleet backup lock (`services/job_service.py` 141-260, `services/backup_service.py` 489-569) | `_AUTO_BACKUP_LOCK` of the process; the `job_locks` row `auto_backup` (owner, host, pid, expiry) | acquire, release, probe, sweep of stale rows, startup sweep | `JobLock`, `FleetLease` |
| Progress tracker (`services/backup_progress.py`) | one `ProgressState` per device id: status, stage, cancel event | start, get_cancel_event, cancel, updates, complete, fail | `BackupProgress` |
| Job and backup records (`job_service.py`, `backup_service.py`, `enqueue_service.py`, `task_runner.py`) | rows of `backup_jobs` and `backups`; the worker pool's queue | enqueue, run, finish, sweep by age, startup recovery, delete, shutdown | `BackupJobs` |
| Incremental backups and retention (`_run_auto_backup_for_device`, `cleanup_old_backups`, `delete_backup`) | manifests, files on disk, backup rows | snapshot, compare, baseline, download, cleanup, delete | `Retention`, `BackupHistory` |
| Fleet run (`_run_auto_backups`) | the devices left, failed attempts; counters of the job | pass over, attempt, give up a device, raise, return | `FleetRetries`; its lock and job: `JobLock`, `BackupJobs` |
| Pending retries (`process_pending_auto_backups`) | PENDING rows of `backup_jobs`, device status | make or reuse a pending job, list, retry, give up | `FleetRetries`, `RetryBoard` (without device status) |
| Restore (`routers/restore.py`) | `restore_logs`, `restore_items`, files on the device | apply items, finish, history | which items of a request it takes: `RestorePage` |
| Device status and automatic mode (`services/device_status_service.py`) | `device_status`, `last_seen_at`, `auto_backup_enabled`, `online_since` in memory | watcher, page probes, mode switch | not modelled |
| Settings and scheduler (`json_state.py`, `auto_backup_state.py`, `cleanup_state.py`, `scheduler.py`) | JSON files, their copies in memory, three interval jobs | get, update, reschedule, ticks | ticks: `JobLock`, `BackupJobs` |
| Paths and transfers (`sftp_backup.py`, `robot_database.py`, `path_utils.py`) | none | normalise, safe and unique names, snapshot, download | snapshot and download: `Retention` |
| Backup on display (`components/ActiveBackupProvider.tsx`, `BackupProgressModal.tsx`, `BackupMiniWidget.tsx`) | one display for all pages, the polling interval, calls of `startBackup` still awaiting their answer | start, poll, cancel, minimise, maximise, close | `ActiveBackup` |
| Page /devices (`components/DevicesInventoryPanel.tsx`) | open dialog, chosen device, path list, targets, ticks, opened folder, `saving` | add, edit, delete, browse, back up a device | `DevicesPage`, `BackupPaths` |
| Page /backups, dialogs of backups and paths (`components/BackupsWorkspace.tsx`: 119-386, 629-740, 816-850 and their forms) | device, category, targets, ticks, listing, path under edit | run a backup, browse, add, rename and delete paths | `BackupForm`, `BackupPaths`, `BackupsPage` |
| Page /backups, dialogs of the archive (the same file: 390-586, 740-815 and their forms) | backup on display, ticks, cleanup form and preview, settings | show, download, delete, preview, clean up, save settings | `BackupArchive`, `BackupsPage` |
| Page /restore (`app/restore/page.tsx`) | steps of the wizard, detail, ticks, target paths | pick, review, restore, upload | `RestorePage` |
| Navigation (`components/AppShell.tsx`) | which page is open | open, leave | `FrontEnd` |
| Notifications, session timeout and counts of `AppShell`; jobs, dashboard, tables | lists of what the server sent | load, filter, show | not modelled |
| Authentication, users, groups, uploads, logs, schemas, errors | rows | plain create, read, update, delete | not modelled |

### 1.2 How they interact

* HTTP handlers, the scheduler's three ticks (automatic backup, pending retry,
  cleanup) and two worker threads run at the same time in one process, each with
  a database session of its own.  An enqueue request commits a job row and hands
  the work to the pool; the plain endpoints do the work in the request.
* A fleet run takes `_AUTO_BACKUP_LOCK` without waiting, then the `job_locks`
  row, and gives both back in a `finally`.  A combined backup of one device takes
  neither, so it runs beside a fleet run and beside other combined backups of its
  device.  What all of them share is the device's tracker entry.
* Every pending tick first sweeps rows that have not been touched for
  `STALE_RUNNING_RECORD_MINUTES`, and so do runs before they begin.  Startup fails
  all RUNNING rows, one by one.  Deletion and cleanup wait for nobody.
* The front end polls the tracker and cancels by device, not by run: the POST that
  starts a backup (`startBackup`) stays open until the backup is over.
* A page's component is made when it is opened and gone when it is left; the
  provider is above all pages.  Its two callers are the backup dialogs of /devices
  and /backups, which close as the display opens.
* Handlers of a page are `async`: up to an `await` they run whole, then the user goes
  on, and what comes after is written with the dialog in mind that asked.  Only two
  effects (targets on /backups, details on /restore) drop replies that no longer
  count; all others write into whatever is open.
* The two pages with a selection of paths share its rules (`toggleBackupPath`,
  `togglePath`), and the server's lists of paths.

### 1.3 What is hard about it

Statements of several sessions between one another's reads and writes; two layers
of locks; leases that are not renewed; crashes that leave rows and locks behind,
and a pid that is always 1; cancels that race the end, or a second start; sweeps
that judge by age what may be alive; two rows that are committed one after the
other; contents that change between check and download; files deleted before
rows; two cleanups that choose at the same time; limits counted by the month.
In the browser: answers of a backup that is no longer on display; replies of a dialog
that was closed, or of a device that is no longer chosen; one `saving` flag for all
requests; lists changed by increments; selections in which folders and files take
each other's place; forms that are edited, or filled by late settings, behind a
preview that was confirmed.
`PROJECT.json` lists each at its line, with the properties that cover it.

### 1.4 What makes each component correct

* Lock: a run whose lease is valid owns its row; no run is entered beside a valid
  one; what is taken is given back; what a dead owner leaves is removed.
* Tracker: a run stops for a cancel that was meant for it and only for that.
* Records: results are final and say what happened; nothing is RUNNING for ever.
* Retention: what is called unchanged has been stored; the newest full baseline
  stays; the quota holds; full baselines are renewed.
* Backup on display: what it says became of a backup is what became of it, its
  polling ends with it, and it can be closed in the end.
* Pages: what is backed up, downloaded, cleaned up and restored is what was ticked,
  previewed and reviewed; what is shown is of the device or backup chosen last; a form
  is sent once; a tick loses nothing else.
* Front end as a whole: this stays so when pages are opened and left and backups are
  started from them; a page that is left leaves nothing behind.
* Pending retries: one row per device; a row on a tick's list is PENDING when its turn
  comes; every row ends.
* Not modelled here, but worth stating: a pending retry is not counted against a
  device that is online; a restore's history says what was applied; a device in automatic mode
  was online all the time required; memory and settings file agree.

## 2. The modules

Each module's header says what it abstracts.  Definitions marked *Mutant* in a
comment are the broken variants used to test the properties; no specification
uses them.

### 2.1 `JobLock` and `FleetLease`

One action is one database statement or commit of `acquire_job_lock`,
`release_job_lock`, `is_job_lock_active`, `clear_stale_job_locks`, or one step of
`run_auto_backups` between them.

| Variable | Code |
|---|---|
| `status` | whether the API process with that (host, pid) is down, in `lifespan` startup, or up |
| `runLock` | `_AUTO_BACKUP_LOCK` of each process |
| `row`, `rowLock` | the `job_locks` row and the transaction holding it by `SELECT ... FOR UPDATE` |
| `op`, `pc` | entry point and next statement of each thread |
| `lease` | `lock_owner` of the run, what is left of its time, and whether another thread deleted its row (history) |

`SelectForUpdate`, `CommitTakeover`, `CommitStaleDelete`, `CommitInsert`,
`CommitLost` are the branches of `acquire_job_lock`; `SweepRead`/`SweepDelete` and
`Probe`/`ProbeDelete` the read and the later delete by primary key; `Crash` ends a
process at any statement and `Boot` starts it again under the same pid.  When
`DbMayFail`, any statement may raise.  `FleetLease` says what all this promises:
a run is entered when no run of its process is under way and no run anywhere has a
valid lease.  `ImplementsFleetLease` is the refinement.

`FleetRetries` extends `JobLock` with what a run does while `pc` is `work`, and with the
loop of the pending tick: each of its steps is a step of the lock, with what that
means for run and tick, or leaves the lock alone.

| Variable | Code |
|---|---|
| `devices` | devices that exist (`DELETE /devices/{id}` takes one away) |
| `queue` | the PENDING rows of type `auto_backup_pending`, in the order of `updated_at` |
| `fleet` | per thread, `_run_auto_backups`: devices left, failed attempts at the first, whether it is between search and insert of a pending row |
| `tick` | per thread, `process_pending_auto_backups`: rows left on its list, how the run for the first ended |

`SkipDevice`, `DeviceAnswers`, `AttemptFails`, `DeviceIsOffline` are what may become of a
device, `InsertRetry` the second statement of `ensure_pending_auto_backup_job`,
`FleetRaises` every exception that ends the run and so its remaining devices.
`FleetRefused` joins the refusals of `JobLock` with the `except` of the tick, which
counts them as tries (`RecordRetry`).  A device switched off is one `BeginFleet` does
not choose.

`RetryBoard` is the set of PENDING rows without their order and without anybody who
writes them: a retry is opened for a device that waits for none, uses its tries one by
one, and is closed.  `ImplementsRetryBoard` maps it to the rows of `queue`.

### 2.2 `BackupProgress`

One device.  `state` holds the `ProgressState` objects a run may still refer to,
`active` the one in the tracker, `event` the one whose `cancel_event` a run
captured.  A run goes through `prepare` (before `get_cancel_event`), `download`
(looks at the event, reports), `save`, and then settles the entry as completed,
failed or cancelled, in the order of `_create_combined_auto_backup` and its
`except` clauses.  `asked` and `told` are history: which runs somebody asked to
stop while they were under way, and which in time.

### 2.3 `BackupJobs`

`job` and `backup` are the rows with their age since `updated_at`, `queue` the
pool's tasks, `pc` where each run or sweep is.  Sweeps list, then mark and commit
(`ListBackups`, `MarkBackup`, `ListJobs`, `MarkJob`), in the pending tick and at
the start of runs.  `Shutdown` is `task_runner.shutdown` with `cancel_futures`,
`Exit` any end of the process.  `Boot` begins a start; `RecoverBackup` and
`RecoverJob` are the commits of its recovery, backups first, and `Serve` ends it, also
when a statement of it failed and rows are still RUNNING (it rolls back and says
`(0, 0)`); an `Exit` may come between any two.  `SweepFails` is the same for the sweep by
age.  `BackupCancelled` ends the run with the job as it is: see finding 3.

Nothing makes a run touch its rows before they are stale: a combined run's job is not
written to while it is queued or at work, and a sweep may list rows of a run that is
slow.  `lateJob` and `lateBackup` (history) are the rows so listed.

### 2.4 `Retention`

One device.  A path's content is a number that never comes back, so equal
checksums are equal contents.  `manifest[b]` is what the manifest of backup `b`
lists, `files[b]` what it stores, `saved` which backups were ever complete, `gone`
for whom files were deleted (history).  A run is `StartRun` (recent backups,
baseline decision), `Check` (snapshot and comparison), `CreateBackup`, `Download`,
`Save` or `Fail`; contents change between any two.  A deleter is `StartCleanup`
(candidates), then per row `Skip` or `Choose`, `Unlink` (files) and `CommitDelete`
(rows), or one `StartDelete` of a user.  `Legible` is where a manifest is read
from: inside the zip while that exists, else from the directory, where it
outlives the files.

`BackupHistory` is the list of backups without runs, manifests, files and deleters: one
backup at a time is under way, states only go forward, and what a backup stores follows
what those before it store.  `ImplementsBackupHistory` maps its list to `status`, `files`
and `version`.

### 2.5 `Inventory`, `ActiveBackup`

`Inventory` declares what the front end's modules share: devices, which of them are
computers, backups and their files, and `MaxSent`.

| Variable of `ActiveBackup` | Code |
|---|---|
| `display` | `ActiveBackupState`; `of`, `asked`, `clean` are history |
| `poller` | `pollIntervalRef` and the device its interval asks for |
| `polls` | replies of `GET backup-progress` on their way, with what they say |
| `call` | each call of `startBackup`: awaiting the POST, in its 650 ms at 100 %, or over; `cancelling` is the `isCancelling` of its closure |
| `cancels` | `POST cancel-backup` on their way |
| `entry`, `job` | the server's tracker entry per device, and what it does about each POST |

`StartBackup` is `startBackup` up to its first await, `PostSucceeds`, `HoldEnds` and
`PostFails` what follows, whichever display is open by then; `Poll` the interval,
`PollReply` its callback, which a poll stopped meanwhile still runs.  The server may
refuse, start, save and fail in any order a tracker entry allows.

### 2.6 `BackupPaths`, `DevicesPage`

`BackupPaths` holds the server's paths (`own`, `common`), folders (`Above`), and the
selection's rules as operators: `Toggled` is `toggleBackupPath`, `Covered` what a
selection backs up, `KeepsSelection` what no change of it may lose.  `panel` of
`DevicesPage` is the component's state, `sent` its requests; each dialog's handlers
are actions (`OpenEdit`, `AddDevicePath`, `SubmitForm`, ...), each reply is
`DevicesReply` or `DevicesReplyFails`, with `After(q)` the assignments of the branch
that asked.  Requests that hold `saving` (`Awaited`: the form, the deletion, an opened
folder) are told apart by `copy` when they ask for the same.  `mine` (the dialog that
asked is still the open one), `mixed`, `calm` and `crossed` are history.  The selection
and the path list are stated for dialogs in which no reply of an earlier one came in
(`mixed`), the path list for requests made one at a time as well (`calm`);
`FormIsSentOnce` is stated for all dialogs, but not after two folders were opened at
once (`crossed`) until none of the requests `saving` stands for is left.

### 2.7 `BackupsPage`, `BackupForm`, `BackupArchive`

`BackupsPage` has the two variables both halves share, `mode` and `saving`.
`BackupForm`: `form` and `asked` as above; `EffectRuns` is the effect of
`BackupsWorkspace` on device and category, which cancels the requests it made before
and fetches the targets; every action that sets either ends in it.  `BackupArchive`:
`archive`, `pending`, and the server's `kept` and `stored`; `Downloaded` is what the
link made of the ticks delivers, and `SettingsReply` may come at any time.

### 2.8 `RestorePage`

`wizard` is the component's state, `posted` its requests.  `DetailEffect` is the effect
on mode and backup.  `Items` is `submitRestore`'s mapping of the ticked files with
their target by kind of file and the path of the file's group (`FinalTarget`).
`Restored` is the set of what the device may have been given by the end: nothing when
the request is refused (`Refused`, `_build_restore_items`), else as far as the restore
went, tables first, then files (`AsFarAsItGoes`, `restore_backup`).  What the page takes
for a database (`KindOf`, `isLikelyDatabaseBackupFile`) and what the server restores as
a table (`Table`, `_is_database_backup_file`) are two constants, since the two
functions differ.

### 2.9 `FrontEnd`

`page` says which page is open.  `OpenPage` and `LeavePage` are the mounting and
unmounting of a component by navigation; `StartFromDevices` and `StartFromBackups`
join a dialog's `submitBackup` with `StartBackup`; `OnDevices`, `OnBackups`,
`OnArchive`, `OnRestore` and `WithBackup` are the steps of the parts.  Restores and
uploads go on when their page is left (`LeftBehind`), so that a page opened again, which
starts with `saving` cleared, may send another; `EndsLeftBehind` is the end of one that
no page waits for.

## 3. What is checked

Runs of TLC; bounds are CONSTANTS of the cfg and, in two runs, an ACTION_CONSTRAINT of the
MC module (§3.1), which the theorems do not have.

| Run | Instance | Shows |
|---|---|---|
| `joblock_safety` | two processes on a host, threads for the scheduler, a worker and HTTP, three owner strings, leases of 2 ticks, failing statements | `FreshLeaseOwnsRow`, `ImplementsFleetLease` |
| `fleet_retries` | one process with its tick and a second thread, two devices, two attempts, two tries, statements that succeed | `OneRetryPerDevice`, `ListedIsPending`, `ImplementsRetryBoard`, `PendingRetryEnds`, `OrphanRowGoes`, `RunLockIsReturned` |
| `joblock_refusal` | one process, three threads | `RefusedOnlyWhileRunning` is violated: finding 1 |
| `progress_safety` | two combined backups, one automatic, four entries | `CombinedCancelledOnlyIfAsked`, `CancelStopsTheBackup`, `CancelStaysOnDisplay` |
| `progress_stale_cancel` | one combined, one automatic backup | `CancelledRunWasAskedToStop` is violated: finding 2 |
| `jobs_safety` | two of a combined, a fleet and a cleanup job, any two, one worker, rows stale after a tick, runs of any length | `SuccessHasItsBackup`, `FinishedJobStays` |
| `jobs_liveness` | a combined and a fleet job in the pool, runs of any length | `NothingStaysRunning` |
| `jobs_cancelled` | one combined job | `EndedRunSettlesItsJob` is violated: finding 3 |
| `retention_checks` | two paths of two contents each, two backups, zipped and not, one deleter that keeps the latest or takes everything | `UnchangedIsStored`, `ImplementsBackupHistory` |
| `retention_cleanup` | one path, three backups, two deleters, cleanup by age and month | `NewestBaselineStays`, `QuotaKept` |
| `retention_baseline` | one path, three backups, no deleter, interval of 2 ticks | `BaselineIsRenewed` is violated: finding 4 |
| `front_end` | a computer with a path of its own, a robot that gets a common folder of two files, two backups of two files each, two calls, two rules | the sixteen properties of the front end: what is shown, ticked, previewed and reviewed is what happens, ticks lose nothing, the display can be closed in the end |

The first safety run of each module also checks its `TypeOK` (`RetriesTypeOK`,
`FrontTypeOK`).
`FrontEnd` is the composition, so its one run checks all parts.

### 3.1 Bounds

* `joblock_safety`: three threads of two processes are enough for a reader, an
  owner and a second acquirer on either side of a process boundary; three owner
  strings for an old row, a lost lease and a new one; a lease of 2 ticks can be
  fresh, ageing and expired.  Owner strings are symmetric.
* `fleet_retries`: two devices are a retry and one that is behind it in the queue; two
  attempts and two tries each have one that is not the last; the tick takes all rows
  (`Limit = 2`), so that its list has a second row while the first is tried.  Two threads
  are a run and the tick it refuses; a lease of one tick runs out in any run.  `Copies`
  tells a device's rows apart: with more than one at a time forbidden, a second number is
  for the row that follows one still on a list.
* `progress_safety`: two combined runs give a replaced entry, the automatic one an
  entry it did not make; four entries are one per run and the current one, so
  that a start always finds one.
* `jobs_safety`: any two of a combined, a fleet and a cleanup job (`TwoJobs`) and a pool
  of one worker, so that a task is queued behind another; a job touches only its own rows,
  and rows of others when it sweeps, so a third only adds rows to sweep.  `Stale = 1` separates rows that were touched since the last tick
  from stale ones; that a row ages through more ticks changes only how soon a sweep may
  list it, and any time may pass before one does.
* `retention_checks`: a second path makes incremental backups that store a part of
  what they list; two contents make a change after the check; the look-back is
  all backups.  `MaxBackups = 2` is the shortest chain, and chains matter: the
  look-back (`History`) of three backups is in `retention_baseline`.
* `retention_cleanup`: three backups are a quota of one, a baseline and an excess;
  two deleters choose at once.  Contents do not change here, since cleanup does
  not look at them.  Only the policy by age and month is taken: the others delete
  less, and the proof covers all of them.
* One tick is any time; `Retain = 0` and `MonthLen = 1` make a backup old, and in
  another month, after one tick.
* `front_end`: a robot and a computer are the two kinds of device and the least
  number with an earlier choice to mix up; the folder `F` with `a` and `c` is the
  smallest tree in which files and folder take each other's place in a selection.
  Two requests under way (`MaxSent`) are one of an earlier dialog or choice and one of
  the present one; two calls are one that outlives its display and one on display; one
  poll reply under way (`MaxPolls`) is one that was sent before a change.  `Typed` is
  one path the server does not have yet for the robot.  Two rules are the previewed and
  another one.
* `FrontEnd` bounds the product of its parts: a page is left, and a backup started,
  only while the server's data are those of the start (`AsAtStart`); a visit of
  /backups uses one half of it; the pages do nothing while a backup is on display, and
  the provider goes on only once its page was left.  The provider and a page touch no
  variable of each other but when a backup starts, so the orders between their other
  steps differ in nothing a property reads, and every page is reached from the start
  with its requests in any order.  What is left out is the use of a page, or of the
  other half of /backups, after its data were changed on the server.
* `MCFrontEnd.Bounded` cuts three products of the parts' states: the first
  backup is of `k` (the provider makes no difference between devices); in a dialog that a
  reply to an earlier one got into (`mixed`, where the properties of paths and ticks
  except it) the user changes no more paths on the server; while a restore or an upload is
  awaited the user edits neither ticks nor target paths, which the request has already
  been given.  None of the three holds back a reply or a step that is assumed fair.
* While a restore or an upload that was left behind is under way only /restore is
  opened; it keeps neither its items, which `RestoreIsAsReviewed` judged when it was
  sent, nor its number: two for one backup count as one.
* Of equal requests of /devices only those that hold `saving` are counted; other equal
  ones, whose replies do the same, are one.
* In `BackupForm` a change of the paths is asked for while no other request is under
  way, and the common paths are those users added (the built-in ones cannot be removed or
  renamed); the provider has one cancel under way.  `router.refresh` shows its result at
  once.  In `RestorePage` a file's kind is also its group, so a kind has one path.

Deadlock is checked in every run of the server's models, which may never stop.  The
front end may: calls are bounded, and a page is left only `AsAtStart`, so `FrontEnd.cfg`
switches the check off.

### 3.2 Fairness

* `FleetRetries`, for the lock too: every thread inside an entry point goes on
  (`WF(ThreadStep)`: SFTP and MySQL calls have timeouts, attempts are limited), the
  clock advances, a process that is down starts again (`restart: unless-stopped`), the
  scheduler keeps firing the pending tick, and crashes stop at some time.  The run has
  statements that succeed; failing ones are in `joblock_safety` and, with devices and
  pending rows, in the proofs.  `PendingRetryEnds` also has the condition `TicksGetIn`: a
  tick whose probe finds the lock returns, and nothing keeps every tick from coming
  during a run when both intervals are alike.
* `BackupJobs`: the same, and the pool takes tasks, a process that is shutting down
  exits, and neither does the process stop nor do sweeps fail over and over.  A startup
  goes on to serve, whether or not it has recovered all rows: what it leaves RUNNING the
  sweeps settle.
* `ActiveBackup`: weak fairness of all steps of all calls together
  (`ActiveFairness`): the server ends every request, with an answer or a failure, or
  its connection ends (`fetch` rejects), and timers fire.  Each call makes a few such
  steps, so one common fairness condition is enough.  Polls and the user are not fair.
* Nothing is assumed fair about requests, cancels, deletions or edits.

### 3.3 Findings

1. **A restart looks like a run** (`backup_service.py:499`, run `joblock_refusal`).
   After a crash in a run the row names host and pid 1, which the new process has
   too: runs are refused as already running until the lease expires.
2. **A cancel outlives its backup** (`backup_service.py:1354`, run
   `progress_stale_cancel`).  An automatic backup takes the event an earlier
   cancelled backup left set and stops.
3. **A cancelled combined backup leaves its job RUNNING** (`backup_service.py:456`,
   run `jobs_cancelled`).  `exc.headers` is `None` and `.get` raises.
4. **Full baselines are not renewed** (`backup_service.py:1672`, run
   `retention_baseline`).  An incremental manifest lists all paths, which counts as
   a full baseline, so the interval begins again with every incremental backup.

## 4. What is proved

With TLAPS, for all values of the constants that satisfy the modules' named
assumptions (`ConstantsOK`, `RetriesOK`, `RunsOK`, `BackupJobsOK`, `RetentionOK`; in the front
end `DevicesOK`, `CallsOK`, `PathsOK`, `KindsOK`, `StartOK`, and `NestedOK`: what holds
a folder holds what is in it).

| Theorem | Says | Assumes |
|---|---|---|
| `JobLockProofs!TypeCorrect`, `LeaseOwnsRow`, `FleetRefinement` | types; `FreshLeaseOwnsRow`; `JobLock` implements `FleetLease` | |
| `FleetRetriesProofs!RetriesKeepTheLease` | `FleetRetries` implements `FleetLease` | `OneApi` |
| `FleetRetriesProofs!RetriesTyped`, `OneRetry`, `ListedArePending` | `RetriesTypeOK`; `OneRetryPerDevice`; `ListedIsPending` | `OneApi` |
| `FleetRetriesProofs!RetryRefinement` | `FleetRetries` implements `RetryBoard` | `OneApi` |
| `BackupProgressProofs!TypeCorrect`, `CancelNeedsAsking` | types; `CombinedCancelledOnlyIfAsked` | |
| `BackupProgressProofs!CancelStops`, `CancelStays` | `CancelStopsTheBackup`; `CancelStaysOnDisplay` | |
| `BackupJobsProofs!TypeCorrect` | types | |
| `BackupJobsProofs!SuccessBacked`, `FinishedStays` | `SuccessHasItsBackup`; `FinishedJobStays` | |
| `RetentionProofs!TypeCorrect` | types | |
| `RetentionProofs!CleanupKeepsBaseline` | `NewestBaselineStays` | `Brisk` |
| `RetentionProofs!MonthsAreWithinTheLimit`, `QuotaIsKept` | of `MonthlyExcess`; `QuotaKept` | |
| `RetentionProofs!UnchangedStored`, `LaterIsNotOlder` | `UnchangedIsStored`; a later backup stores no older content (`FilesGrow`) | |
| `RetentionProofs!HistoryRefinement` | `Retention` implements `BackupHistory` | |
| `ActiveBackupProofs!ActiveTypes`, `PollersAreOfTheDisplay`, `SuccessesHaveTheirResults`, `CleanDisplaysAreTrue` | types; `PollerIsOfTheDisplay`; `SuccessHasItsResult`; `CleanDisplayIsTrue` | |
| `PageProofs!DetailsAreOfTheChoice`, `RestoresAreAsReviewed` | `DetailIsOfTheChoice`; `RestoreIsAsReviewed` | |
| `PageProofs!DownloadsAreAsTicked`, `CleanupsAreAsPreviewed`, `TargetsFollowTheChoice` | `DownloadIsWhatIsTicked`; `CleanupIsAsPreviewed`; `TargetsAreOfTheChoice` | |
| `FrontEndProofs!FormsAreSentOnce`, `SelectionsAreOfTheirDevice`, `PathListsAreTheServers`, `SelectionsAreKept` | the properties of `DevicesPage` | |
| `FrontEndProofs!TicksAreOfTheTargets`, `TicksStay` | `TickedIsOffered`; `TicksAreKept` | |
| `FrontEndProofs!FrontTypes`, `FrontIsSafe`, `FrontKeepsSelections` | `FrontTypeOK`, and all of the above for `FrontSpec` | |
| `FrontEndProofs!FrontImplementsActive` | `FrontSpec` implements `ActiveSpec`, fairness included | |

* **Lock.** `FreshLeaseOwnsRow` is not inductive: a thread about to delete or
  take over a row must be known to touch no valid one.  `IInv` adds which
  statements go with which entry point and run lock (`RunHoldsRunLock`), that
  owner strings differ (`OwnersDiffer`), and that a row held for takeover or
  deletion is one nobody has a claim to (`AcquiringOwnsNothing`).  The refinement
  follows from `IInv` step by step: an acquiring commit maps to `Enter`, time and
  foreign deletes to `Lapse`, ends and crashes to `Leave`, the rest to stutters.
* **Pending retries.** `RetriesSpec => Spec` gives all that was proved of the lock, and
  with `OneApi` (one process: `docker-compose.yml`; one thread for the tick:
  `max_instances=1`) that two threads are never in a run (`OneAtWork`), however old
  their leases.  So what the search did not find nobody inserts before the insert
  (`InsertIsNew`), and only the tick's own thread ends rows (`ListHasDuty`), each on its
  list once (`ListsDiffer`).  An update moves a row to the end of the queue; as ids differ
  (`IdsDiffer`), to the set of rows that is one row exchanged for another, so every step of
  a run or a tick is one of `RetryBoard` or none (`RowsWithoutOne`).  With two processes `OneRetryPerDevice` would rest on leases
  that do not run out.
* **Tracker.** The invariant says who may have set the event a combined run looks
  at: the entry it captured was made by its own or a later `start`, and an event
  that is set was set while the run was under way.  That a backup told to stop does
  stop needs the other direction: a cancel that comes before a run's last look is in the
  event that run will capture, or has captured, as long as that is the event of its own
  `start` (`CancelReaches`).  That a cancel stays on display: an entry shown as cancelled
  has its event set, at which late reports and errors look before they write
  (`ShownCancelled`); only a completed backup, a new start or a restart replaces it.
* **Records.** `Safe` ties each run's place to its two rows (`JobFits`, `BackupFits`) and
  says of rows a sweep has listed that their run is over and has not ended well, or that
  they were listed while it was under way (`Listed`, `lateJob`, `lateBackup`).  A row of
  the second kind is written by the sweep and the run in whichever order they commit;
  the two properties name what can come of that (a job's result replaced by the other
  one's while the two are at it, a saved backup marked failed) and exclude all else.
* **Retention.** A saved backup is what it was for ever (`Kept`); what a cleanup has
  listed is not running (`TodoIsSettled`, from `Brisk`); what it has chosen is no
  baseline, is replaced, or is being deleted by a user as well
  (`ChosenIsReplaced`).  The last case is why two deleters do not matter: files
  somebody else has begun to delete no longer make the backup a baseline for the
  skip rule, but they were deleted for a user, or the backup was replaced already.
  `Brisk` is needed: a cleanup by age lists RUNNING rows, sees no manifest, and
  would delete the baseline that is finished meanwhile.
* **Quota**, without `Brisk`.  What `_monthly_backup_excess` leaves of a month lies above
  its least element, of which fewer than the limit are newer (`ExcessLeavesTheLimit`).  A
  cleanup goes through the excess from the oldest on (`OldestFirst`), so what it has
  spared is a baseline with none after it among the backups it listed
  (`SparedIsNewest`): of those there is one (`SparedIsOne`).  A row that has ended does not
  become a baseline again (`EndedStays`), so no other thread adds to them.
* **Unchanged**, without `Brisk`.  Contents grow from backup to backup (`FilesGrow`) and
  with the device (`FilesAreOld`), because one row at a time is running and it is newer
  than all that was saved (`OneRunningRow`).  A manifest may list what its backup does not
  store, but then the content is past or stored by an earlier one (`ListedIsStored`), and
  a check compares only with the present content.  So what it finds unchanged is stored,
  and the newest backup that stores the path stores just that.
* **History.**  Each step of a run, a cleanup or the device is one step of `BackupHistory`
  or none.  `Save` needs the facts above and that only saved backups store anything
  (`OnlySavedStore`); a restart is the failure of the one running row.

* **Backup on display.** `CleanDisplayIsTrue` needs to know why nothing else can
  write into a clean display: when it was made nothing was under way, so every poll,
  cancel and call under way since is its own (`OnlyItsOwn`), its call's closure holds no
  cancel, and its device's entry is not cancelled unless somebody asked.
* **Restore.** The effect keeps one request for a detail that counts, which is for the
  backup chosen (`CurrentIsTheChoice`); what is ticked is part of the detail on display
  (`TickedIsShown`), although that may be another backup's; and each restore under way
  names just the files that were ticked when it was sent (`ItemsAreTicked`).  So either
  one of its files is another backup's, and the server refuses it, or all are the
  reviewed backup's, and any part of them is.
* **Archive.** `saving` is held by at most one request, the one its place says
  (`WaitsForOne`, `Place`): that is why no second dialog can be opened meanwhile; a
  preview is of the rule in the form unless it drifted (`PreviewIsOfTheRule`).
* **Targets.** The only request of the effect that still counts is for the choice
  (`FormInv`); one counts only while `loading` is set (`LoadingInv`); while it counts,
  nothing is ticked and no folder is open, and a folder opened later lies in a target
  (`TicksInv`).  Nesting of folders (`NestedOK`) carries this to the files listed.
* **Dialogs of /devices.** `PanelInv`: which kinds of request an open dialog can have
  sent (`KindsFit`), that `saving` is set as long as the one request it stands for is under
  way (`AwaitedOnce`, with `crossed` as its exception; without any such request it is
  clear, which is how the exception ends), that replies
  under way suit the chosen device (`SelectionInv`, `Suits`), and that the path list
  becomes the server's with the one reply that is awaited (`PathListInv`).
* **Ticks.** `ToggledKeeps`: of a selection before and after a tick, what was dropped
  lies in the folder that was added or is a folder above what was ticked.
* **Composition.** `FrontInv` joins these with `OnePage`: a part that is not open is as
  at its start, so each part's invariant is kept by the steps of the others, and each
  step of the whole is a step of the open part.  The implementation of `ActiveSpec`
  needs one fact of the pages: what they start a backup of is a device.

### 4.1 Only model-checked

Liveness: `OrphanRowGoes`, `RunLockIsReturned`, `PendingRetryEnds`, `NothingStaysRunning` and
`LoadingEnds`, which are beyond the prover.  Every other property of a run that passes
is a theorem; where that has an assumption (`OneApi`, `Brisk`), the runs are instances of
it.

## 5. Limits of the models

* A combined backup that captures the event of another one, started between its
  own start and its backup row, misses its cancel; `CancelStopsTheBackup` excludes
  it and says so.
* Deletion of a RUNNING backup leaves its job RUNNING until the sweep.
* When `release_job_lock` raises, `_AUTO_BACKUP_LOCK` is not given back;
  `RunLockIsReturned` is stated for statements that succeed.
* Refused and failing pending retries use up tries, and a device that was online may
  be given up for that; `FleetRetries` models it and no doc promises otherwise.
* A tick takes `Limit` rows (20 in the code), oldest update first, and fleet runs renew
  the rows of devices they find offline in the order of the devices.  With more
  offline devices than `Limit` and a fleet run between any two ticks, the last devices
  need not have their turn; the run has no more devices than the limit.
* Several attempts at a device make several backup rows, of which only the last is in
  the result (`backup_service.py:807`): counts of rows are not in `FleetRetries`.
* `BackupJobs` keeps one backup of a fleet run; `Retention` counts backups of other
  types than automatic as rows only.
* In `Retention` every backup of a month is of the one device, the device has a
  database dump only in the form of a path, and contents do not come back.  A
  cleanup may delete the only backup that holds the present content of a path;
  nothing in the repository promises otherwise.
* The restore history that goes with a deleted backup is not in `Retention`.
* Replies of the front end come late, out of order, fail or never come, but the server
  handles the requests of a page in the order they are sent.
* The properties of the selection and of the path list on /devices and of the ticks on
  /backups exclude dialogs in which a reply of an earlier dialog, device or loading
  state has come in (`mixed`).
* What two restores under way leave on one device is not modelled: each is judged by
  itself.

### 5.1 What the exclusions stand for

Each exception in a property is something the code does.  On display: a backup
started after a cancelled one of its device is shown as cancelled by its first poll,
which precedes the POST (`ActiveBackupProvider.tsx:217`); a failure is shown as a
cancel, or a cancel as a failure, when `isCancelling` is of an earlier display (239) or
the error's text does not say so; the answer of a closed display's call ends the next
display and its polling; a late poll may take a display back from 100 %.

Of a run that outlives `STALE_RUNNING_RECORD_MINUTES` (a combined one may wait that long
in the queue alone): a sweep marks its job, its backup or both failed while it is under
way; the run may then still report success, and a sweep that has listed a backup before
the run saved it marks it failed afterwards (`backup_service.py:132`), with the job
SUCCESS and naming it.

On /devices: replies of an earlier dialog may replace targets and ticks (288); when two
folders are opened at once the first reply releases `saving` (372), so that a form can be
sent while the second is on its way, and again after it (507).  On /backups: "select all" while loading ticks the targets of the
device before; `openBackupModal` and `openBrowseModal` set the category to robot but keep
a chosen computer; `changeDevice` keeps an opened folder; deleting a path leaves it in
other lists; Enter saves a path twice; settings arrive behind a cleanup's preview, and its
form can be edited while the preview is on its way.  On /restore: the detail and the ticks
of the backup before stay while the next one's are loading or could not be loaded; the
server then refuses the request (`BACKUP_FILE_NOT_FOUND`).  A restore that fails on the
way leaves the tables and files it got to on the device.

## 6. Not modelled

* **Restore on the server** (`routers/restore.py`), beyond what `Restored` says of its
  outcomes: logs of a crashed restore stay RUNNING (74), a backup may be deleted meanwhile
  (100), which ends as an error of the transfer; mostly I/O.
* **Device status and mode** (`device_status_service.py`): timers and probes of hosts;
  statuses are inputs here.
* **Settings** (`json_state.py`): one file written whole; that a failing write leaves
  memory ahead of the file (85) is a single statement's order.
* **Paths and names** (`sftp_backup.py`, `path_utils.py`): string functions; the
  collisions they allow (a zip of two combined backups of one name, `sftp_backup.py:437`;
  split dumps that share a remote path, `backup_service.py:1781`) are matters of formats.
* **Rows nobody names again**: a backup that fails before its row is made leaves its
  tracker entry "running" (`routers/devices.py:797`); a cleanup by age lists RUNNING rows
  (`backup_service.py:267`), which the assumption `Brisk` excludes; a content that goes
  from A to B and back between check, download and check is called unchanged (984),
  which contents that never come back exclude; a cleanup may delete the only backup that
  stores a path's present content (2267).
* **`AppShell` beyond navigation**: the device count may be overwritten by an older reply
  (`AppShell.tsx:135`), the jobs poll is not stopped on unmount (178), a notification's id
  is the same for a pending and a failed job, so that a cleared one is not announced again
  (`lib/api.ts:943`), and ids are kept up to 300 (`AppShell.tsx:528`).  None of it
  starts or changes anything on the server.
* **Jobs, dashboard, tables, filters**: they show lists; what is chosen there is sent
  nowhere.
* **Authentication, credentials, uploads, groups, logs, schemas**: checks without state,
  single rows, or libraries.
