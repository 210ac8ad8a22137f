--------------------------- MODULE BackupProgress ---------------------------
(***************************************************************************)
(* The in-memory progress tracker and the cancellation of backups, for one *)
(* device: the tracker keeps one entry per device id and the entries share *)
(* nothing.  Several runs of that device can be under way in one process:  *)
(* combined backups (one per HTTP request or worker task) and the fleet's  *)
(* auto backup, which never calls start() but reads and settles the entry. *)
(* Every tracker method holds the tracker's lock, so it is one step.       *)
(***************************************************************************)
CONSTANTS
  CombinedRun,    \* runs of run_combined_backup
  AutoRun,        \* runs of _run_auto_backup_for_device
  State,       \* ProgressState objects that can exist at a time
  None         \* no object

ASSUME RunsOK == CombinedRun \cap AutoRun = {} /\ None \notin State

Run == CombinedRun \cup AutoRun

VARIABLES
  active,      \* _active.get(device_id): the current object
  state,       \* the objects: status, stage, whether cancel_event is set, and
               \* the run whose start() created it (history)
  pc,          \* per run: where it is
  event,       \* per run: the object whose cancel_event it captured
  outcome,     \* per run: how it ended last
  asked,       \* runs, under way or ended as cancelled, during which somebody
               \* asked to cancel (history)
  told         \* runs under way whose object was cancelled before they took
               \* their last look at the event (history)

vars == <<active, state, pc, event, outcome, asked, told>>

Status == {"running", "completed", "failed", "cancelled"}
Stage == {"connecting", "working", "completed", "failed", "cancelled"}
Pc == {"idle", "prepare", "download", "save", "saved", "cancelling", "failing"}
Outcome == {"none", "success", "failed", "cancelled"}

TypeOK ==
  /\ active \in State \cup {None}
  /\ state \in [State -> [status : Status, stage : Stage, cancel : BOOLEAN,
                        by : CombinedRun \cup {None}]]
  /\ pc \in [Run -> Pc]
  /\ event \in [Run -> State \cup {None}]
  /\ outcome \in [Run -> Outcome]
  /\ asked \in SUBSET Run
  /\ told \in SUBSET CombinedRun

NewState(r) == [status |-> "running", stage |-> "connecting", cancel |-> FALSE, by |-> r]

Init ==
  /\ active = None
  /\ state = [s \in State |-> NewState(None)]
  /\ pc = [r \in Run |-> "idle"]
  /\ event = [r \in Run |-> None]
  /\ outcome = [r \in Run |-> "none"]
  /\ asked = {}
  /\ told = {}

-----------------------------------------------------------------------------
UnderWay(r) == pc[r] # "idle"
Goto(r, label) == pc' = [pc EXCEPT ![r] = label]

Unused(s) == s # active /\ \A r \in Run : s # event[r]

(* An object nobody refers to any more is as good as one not yet made.      *)
Collect(objects) ==
  [s \in State |-> IF s = active' \/ \E r \in Run : event'[r] = s
                   THEN objects[s] ELSE NewState(None)]

Begin(r) ==
  /\ Goto(r, "prepare")
  /\ outcome' = [outcome EXCEPT ![r] = "none"]
  /\ asked' = asked \ {r}
  /\ told' = told \ {r}
  /\ UNCHANGED event

End(r, result) ==
  /\ Goto(r, "idle")
  /\ outcome' = [outcome EXCEPT ![r] = result]
  /\ event' = [event EXCEPT ![r] = None]
  /\ told' = told \ {r}
  /\ asked' = IF result = "cancelled" THEN asked ELSE asked \ {r}
  /\ UNCHANGED active

(* Mutant: start() keeps an entry the device already has.                   *)
StartCombinedOnOldState(r) ==
  /\ pc[r] = "idle"
  /\ Begin(r)
  /\ \E s \in State :
       /\ IF active = None THEN Unused(s) ELSE s = active
       /\ active' = s
       /\ state' = [state EXCEPT ![s] = [NewState(r) EXCEPT !.cancel = state[s].cancel]]

(* run_combined_backup: progress_tracker.start replaces the device's entry. *)
StartCombined(r) ==
  /\ pc[r] = "idle"
  /\ Begin(r)
  /\ \E s \in State :
       /\ Unused(s)
       /\ active' = s
       /\ state' = Collect([state EXCEPT ![s] = NewState(r)])

(* The fleet loop reaches the device (or tries it again): no start().       *)
StartAuto(r) ==
  /\ pc[r] = "idle"
  /\ Begin(r)
  /\ UNCHANGED <<active, state>>

(* Before the download the run can end without touching the tracker: the    *)
(* database dump, the user or the credentials fail, or nothing changed.     *)
EndEarly(r) ==
  /\ pc[r] = "prepare"
  /\ \/ End(r, "failed")
     \/ r \in AutoRun /\ End(r, "none")
  /\ UNCHANGED state

-----------------------------------------------------------------------------
(* _create_combined_auto_backup: get_cancel_event takes the event of the    *)
(* entry the device has by now; the first look at it comes right after.     *)
Capture(r) ==
  /\ pc[r] = "prepare"
  /\ event' = [event EXCEPT ![r] = active]
  /\ Goto(r, "download")
  /\ UNCHANGED <<active, state, outcome, asked, told>>

IsSet(s) == s # None /\ state[s].cancel

(* update_stage, update_granular: dropped once the entry is cancelled.  A   *)
(* combined run reports its database dump before it looks for its event.    *)
Report(r) ==
  /\ pc[r] \in {"download", "save"} \/ (pc[r] = "prepare" /\ r \in CombinedRun)
  /\ active # None /\ ~IsSet(active)
  /\ state' = [state EXCEPT ![active].stage = "working"]
  /\ UNCHANGED <<active, pc, event, outcome, asked, told>>

(* Any of the looks at the event, between two files or two chunks.          *)
SeeCancel(r) ==
  /\ pc[r] = "download"
  /\ IsSet(event[r])
  /\ Goto(r, "cancelling")
  /\ UNCHANGED <<active, state, event, outcome, asked, told>>

(* Mutant: the look after download_paths is missing.                        *)
SkipLastLook(r) ==
  /\ pc[r] = "download"
  /\ Goto(r, "save")
  /\ UNCHANGED <<active, state, event, outcome, asked, told>>

(* Everything is downloaded and the last look finds the event clear.        *)
LastLook(r) ==
  /\ pc[r] = "download"
  /\ ~IsSet(event[r])
  /\ Goto(r, "save")
  /\ UNCHANGED <<active, state, event, outcome, asked, told>>

WorkFails(r) ==
  /\ pc[r] \in {"download", "save"}
  /\ Goto(r, "failing")
  /\ UNCHANGED <<active, state, event, outcome, asked, told>>

(* _finish_backup_success commits; complete() comes after it.               *)
Save(r) ==
  /\ pc[r] = "save"
  /\ Goto(r, "saved")
  /\ UNCHANGED <<active, state, event, outcome, asked, told>>

(* Mutant: the entry gets the name the web page uses for a success.         *)
SettleAsShown(status) ==
  state' = Collect(IF active = None THEN state
                   ELSE [state EXCEPT ![active].status =
                           IF status = "completed" THEN "success" ELSE status])

Settle(status) ==
  state' = Collect(IF active = None THEN state
                   ELSE [state EXCEPT ![active].status = status, ![active].stage = status])

Complete(r) ==
  /\ pc[r] = "saved"
  /\ End(r, "success")
  /\ Settle("completed")

(* Mutant: fail() does not look at the event.                               *)
FailAsFailed(r) ==
  /\ pc[r] \in {"cancelling", "failing"}
  /\ End(r, IF pc[r] = "cancelling" THEN "cancelled" ELSE "failed")
  /\ Settle("failed")

(* fail(): an entry whose event is set is shown as cancelled, whatever the  *)
(* error was.                                                              *)
Fail(r) ==
  /\ pc[r] \in {"cancelling", "failing"}
  /\ End(r, IF pc[r] = "cancelling" THEN "cancelled" ELSE "failed")
  /\ Settle(IF IsSet(active) THEN "cancelled" ELSE "failed")

-----------------------------------------------------------------------------
(* POST /devices/{id}/cancel-backup.                                        *)
Cancel ==
  /\ active # None
  /\ state' = [state EXCEPT ![active].status = "cancelled", ![active].stage = "cancelled",
                            ![active].cancel = TRUE]
  /\ asked' = asked \cup {r \in Run : UnderWay(r)}
  /\ told' = told \cup
       {r \in CombinedRun : r = state[active].by /\ pc[r] \in {"prepare", "download"}}
  /\ UNCHANGED <<active, pc, event, outcome>>

(* The API process dies and starts again: tracker and runs are gone.        *)
Restart ==
  /\ active' = None
  /\ state' = [s \in State |-> NewState(None)]
  /\ pc' = [r \in Run |-> "idle"]
  /\ event' = [r \in Run |-> None]
  /\ outcome' = [r \in Run |-> "none"]
  /\ asked' = {}
  /\ told' = {}

Step(r) ==
  \/ EndEarly(r) \/ Capture(r) \/ Report(r) \/ SeeCancel(r) \/ LastLook(r)
  \/ WorkFails(r) \/ Save(r) \/ Complete(r) \/ Fail(r)

Next ==
  \/ \E r \in CombinedRun : StartCombined(r)
  \/ \E r \in AutoRun : StartAuto(r)
  \/ \E r \in Run : Step(r)
  \/ Cancel
  \/ Restart

Spec == Init /\ [][Next]_vars

-----------------------------------------------------------------------------
(* A combined backup ends as cancelled only if somebody asked for that      *)
(* after it started, however many runs share the device's entry: a cancel   *)
(* aimed at an earlier backup never stops it, because start() replaces the  *)
(* entry and the event is captured after it.                               *)
CombinedCancelledOnlyIfAsked ==
  \A r \in CombinedRun : outcome[r] = "cancelled" => r \in asked

(* A combined backup that is told to stop before its last look, and that    *)
(* looks at its own event, does not end as a success.  (One that captured   *)
(* the event of another combined backup of the device, started between its  *)
(* start() and its backup row, misses the cancel.)                         *)
CancelStopsTheBackup ==
  \A r \in told :
    event[r] # None /\ state[event[r]].by = r => pc[r] \notin {"save", "saved"}

(* Once the user's cancel is on display, no late progress report of a       *)
(* worker and no error, the one the cancelled run ends with included,       *)
(* replaces it: while the entry stays the device's, it shows the cancel     *)
(* until a run that has saved its backup completes.                        *)
CancelStaysOnDisplay ==
  [][\A s \in State :
       s = active /\ s = active' /\ state[s].status = "cancelled"
         => \/ state'[s].status = "cancelled" /\ state'[s].stage = "cancelled"
            \/ /\ state'[s].status = "completed"
               /\ \E r \in Run : pc[r] = "saved" /\ pc'[r] = "idle"]_vars

(* "Raised when backup execution is cancelled by the user": every run that  *)
(* stops as cancelled was under way when a user asked.                      *)
CancelledRunWasAskedToStop ==
  \A r \in Run : outcome[r] = "cancelled" => r \in asked
=============================================================================
