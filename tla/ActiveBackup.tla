---------------------------- MODULE ActiveBackup ----------------------------
(***************************************************************************)
(* The backup on display in the browser: ActiveBackupProvider keeps one    *)
(* display for all pages, shown as a dialog or, minimised, as a widget.  A *)
(* call of startBackup outlives the display it made: the dialog can be     *)
(* closed and the next backup started while the first request and replies  *)
(* to its polls are still under way.  JavaScript runs each handler whole,  *)
(* so a handler up to its next await is one step.                          *)
(***************************************************************************)
EXTENDS Inventory, Naturals, FiniteSets

CONSTANTS
  Calls,       \* calls of startBackup in a behaviour (bound)
  MaxPolls     \* replies to polls under way to the browser (bound)

Call == 1 .. Calls        \* in the order they are made

ASSUME CallsOK == Calls \in Nat /\ MaxPolls \in Nat /\ Nobody \notin Call

VARIABLES
  display,     \* ActiveBackupState: what is shown; `info` tells whose progress.
               \* History: the call it is `of`, whether cancel was `asked` for, and
               \* `clean`: when it was made nothing earlier could disturb it
  poller,      \* pollIntervalRef: the device polled every 300 ms, or Nobody
  polls,       \* replies to polls under way: the device and its entry's status
  call,        \* the calls: where they are, for which device, what isCancelling
               \* their closure holds, and the answer they got
  cancels,     \* devices whose POST cancel-backup is under way
  entry,       \* the server's progress entry of each device: none, cancelled, or not
  job          \* what the server does about each call's request

activeVars == <<display, poller, polls, call, cancels, entry, job>>

DisplayStatus == {"loading", "success", "error", "cancelled"}
EntryStatus == {"idle", "active", "cancelled"}   \* active: running or ended
Info == [device : Device, status : EntryStatus]

ActiveTypeOK ==
  /\ display \in [open : BOOLEAN, minimized : BOOLEAN, status : DisplayStatus,
                  device : Device \cup {Nobody}, result : Call \cup {Nobody},
                  info : Device \cup {Nobody}, cancelling : BOOLEAN,
                  of : Call \cup {Nobody}, asked : BOOLEAN, clean : BOOLEAN]
  /\ poller \in Device \cup {Nobody}
  /\ polls \in SUBSET Info
  /\ call \in [Call -> [pc : {"idle", "awaiting", "holding"},
                        device : Device \cup {Nobody}, cancelling : BOOLEAN,
                        answer : {"none", "ok", "error"}]]
  /\ cancels \in SUBSET Device
  /\ entry \in [Device -> EntryStatus]
  /\ job \in [Call -> {"none", "sent", "running", "saved", "failed"}]

InitialState ==
  [open |-> FALSE, minimized |-> FALSE, status |-> "loading", device |-> Nobody,
   result |-> Nobody, info |-> Nobody, cancelling |-> FALSE, of |-> Nobody,
   asked |-> FALSE, clean |-> FALSE]

IdleCall == [pc |-> "idle", device |-> Nobody, cancelling |-> FALSE, answer |-> "none"]

ActiveInit ==
  /\ display = InitialState
  /\ poller = Nobody
  /\ polls = {}
  /\ call = [r \in Call |-> IdleCall]
  /\ cancels = {}
  /\ entry = [d \in Device |-> "idle"]
  /\ job = [r \in Call |-> "none"]

-----------------------------------------------------------------------------
(* The dialog covers the page; only the widget leaves it usable.            *)
DialogShown == display.open /\ ~display.minimized
WidgetShown == display.open /\ display.minimized

ServerIsDone(r) == job[r] \in {"none", "saved", "failed"}
Quiet == polls = {} /\ cancels = {} /\ \A r \in Call : call[r].pc = "idle" /\ ServerIsDone(r)

(* Mutant: the display of an earlier backup is used on, not made anew.      *)
StartBackupOnTop(r, d) ==
  /\ ~DialogShown
  /\ job[r] = "none" /\ \A q \in 1 .. r - 1 : job[q] # "none"
  /\ display' = [display EXCEPT !.open = TRUE, !.minimized = FALSE, !.device = d, !.of = r,
                   !.clean = Quiet /\ ~display.cancelling /\ entry[d] # "cancelled"]
  /\ poller' = d
  /\ polls' = polls \cup {[device |-> d, status |-> entry[d]]}
  /\ call' = [call EXCEPT ![r] = [pc |-> "awaiting", device |-> d,
                                  cancelling |-> display.cancelling, answer |-> "none"]]
  /\ job' = [job EXCEPT ![r] = "sent"]
  /\ UNCHANGED <<cancels, entry>>

(* startBackup until its first await: a fresh display, the interval of the  *)
(* new device instead of the old one, a poll at once, and the POST.  The    *)
(* callback sees isCancelling as it was when the page was last drawn.       *)
StartBackup(r, d) ==
  /\ ~DialogShown
  /\ job[r] = "none" /\ \A q \in 1 .. r - 1 : job[q] # "none"
  /\ display' = [InitialState EXCEPT !.open = TRUE, !.device = d, !.of = r,
                   !.clean = Quiet /\ ~display.cancelling /\ entry[d] # "cancelled"]
  /\ poller' = d
  /\ polls' = polls \cup {[device |-> d, status |-> entry[d]]}
  /\ call' = [call EXCEPT ![r] = [pc |-> "awaiting", device |-> d,
                                  cancelling |-> display.cancelling, answer |-> "none"]]
  /\ job' = [job EXCEPT ![r] = "sent"]
  /\ UNCHANGED <<cancels, entry>>

(* The interval asks again; the answer is what the server has now.          *)
Poll ==
  /\ poller # Nobody /\ Cardinality(polls) < MaxPolls
  /\ polls' = polls \cup {[device |-> poller, status |-> entry[poller]]}
  /\ UNCHANGED <<display, poller, call, cancels, entry, job>>

Shown(info) ==
  IF info.status = "idle" \/ ~display.open THEN display
  ELSE [display EXCEPT !.info = info.device,
          !.status = IF info.status = "cancelled" THEN "cancelled" ELSE @]

(* The reply to a poll: it is shown whichever display is open by now, also  *)
(* after the interval was stopped.                                          *)
PollReply(info) ==
  /\ info \in polls
  /\ polls' = polls \ {info}
  /\ display' = Shown(info)
  /\ UNCHANGED <<poller, call, cancels, entry, job>>

PollFails(info) ==
  /\ info \in polls
  /\ polls' = polls \ {info}
  /\ UNCHANGED <<display, poller, call, cancels, entry, job>>

-----------------------------------------------------------------------------
(* The POST succeeded: 100 % is put on display for 650 ms, polling goes on. *)
PostSucceeds(r) ==
  /\ call[r].pc = "awaiting" /\ job[r] = "saved"
  /\ call' = [call EXCEPT ![r] = [@ EXCEPT !.pc = "holding", !.answer = "ok"]]
  /\ display' = [display EXCEPT !.info = call[r].device]
  /\ UNCHANGED <<poller, polls, cancels, entry, job>>

(* Mutant: the result shown is the one of the display.                      *)
HoldEndsOwn(r) ==
  /\ call[r].pc = "holding"
  /\ call' = [call EXCEPT ![r] = [@ EXCEPT !.pc = "idle", !.cancelling = FALSE]]
  /\ poller' = Nobody
  /\ display' = [display EXCEPT !.status = "success", !.result = display.of]
  /\ UNCHANGED <<polls, cancels, entry, job>>

HoldEnds(r) ==
  /\ call[r].pc = "holding"
  /\ call' = [call EXCEPT ![r] = [@ EXCEPT !.pc = "idle", !.cancelling = FALSE]]
  /\ poller' = Nobody
  /\ display' = [display EXCEPT !.status = "success", !.result = r]
  /\ UNCHANGED <<polls, cancels, entry, job>>

(* Mutant: the failure does not get on display.                             *)
PostFailsUnshown(r) ==
  /\ call[r].pc = "awaiting" /\ job[r] # "saved"
  /\ call' = [call EXCEPT ![r] = [@ EXCEPT !.pc = "idle", !.cancelling = FALSE, !.answer = "error"]]
  /\ poller' = Nobody
  /\ display' = [display EXCEPT !.cancelling = FALSE]
  /\ UNCHANGED <<polls, cancels, entry, job>>

(* The POST failed or got lost.  The text of the error no longer says that  *)
(* the backup was cancelled by the time it is read here, so only the stale  *)
(* isCancelling tells.                                                      *)
PostFails(r) ==
  /\ call[r].pc = "awaiting" /\ job[r] # "saved"
  /\ call' = [call EXCEPT ![r] = [@ EXCEPT !.pc = "idle", !.cancelling = FALSE, !.answer = "error"]]
  /\ poller' = Nobody
  /\ display' = [display EXCEPT !.cancelling = FALSE,
                   !.status = IF call[r].cancelling THEN "cancelled" ELSE "error"]
  /\ UNCHANGED <<polls, cancels, entry, job>>

-----------------------------------------------------------------------------
Minimize ==
  /\ DialogShown
  /\ display' = [display EXCEPT !.minimized = TRUE]
  /\ UNCHANGED <<poller, polls, call, cancels, entry, job>>

Maximize ==
  /\ WidgetShown
  /\ display' = [display EXCEPT !.minimized = FALSE]
  /\ UNCHANGED <<poller, polls, call, cancels, entry, job>>

(* Mutant: the dialog goes, its interval stays.                             *)
CloseModalOnly ==
  /\ display.open /\ display.status # "loading"
  /\ display' = InitialState
  /\ UNCHANGED <<poller, polls, call, cancels, entry, job>>

(* Escape, the backdrop and the buttons close only what is not loading.     *)
CloseModal ==
  /\ display.open /\ display.status # "loading"
  /\ display' = InitialState
  /\ poller' = Nobody
  /\ UNCHANGED <<polls, call, cancels, entry, job>>

(* cancelBackup: the POST names the device on display; one such request is  *)
(* under way at a time (bound).                                             *)
CancelBackup ==
  /\ display.open /\ display.status = "loading" /\ ~display.cancelling
  /\ cancels = {}
  /\ display' = [display EXCEPT !.cancelling = TRUE, !.asked = TRUE]
  /\ cancels' = cancels \cup {display.device}
  /\ UNCHANGED <<poller, polls, call, entry, job>>

Cancelled(d) == [entry EXCEPT ![d] = IF @ = "idle" THEN @ ELSE "cancelled"]

(* The POST cancel-backup ends; one that fails may have been heard or not.  *)
CancelEnds(d) ==
  /\ d \in cancels
  /\ cancels' = cancels \ {d}
  /\ \/ entry' = Cancelled(d) /\ UNCHANGED display
     \/ /\ entry' \in {entry, Cancelled(d)}
        /\ display' = [display EXCEPT !.cancelling = FALSE]
  /\ UNCHANGED <<poller, polls, call, job>>

-----------------------------------------------------------------------------
(* The server, as far as the browser can tell (BackupProgress has it).      *)
ServerStarts(r) ==
  /\ job[r] = "sent"
  /\ job' = [job EXCEPT ![r] = "running"]
  /\ entry' = [entry EXCEPT ![call[r].device] = "active"]
  /\ UNCHANGED <<display, poller, polls, call, cancels>>

ServerSaves(r) ==
  /\ job[r] = "running"
  /\ job' = [job EXCEPT ![r] = "saved"]
  /\ entry' = [entry EXCEPT ![call[r].device] = "active"]
  /\ UNCHANGED <<display, poller, polls, call, cancels>>

(* A request can be refused before it has an entry of its own; the entry of *)
(* one that fails later stays cancelled when it was.                        *)
ServerFails(r) ==
  /\ job[r] \in {"sent", "running"}
  /\ job' = [job EXCEPT ![r] = "failed"]
  /\ UNCHANGED <<display, poller, polls, call, cancels, entry>>

Progress(r) ==
  PostSucceeds(r) \/ HoldEnds(r) \/ PostFails(r) \/ ServerStarts(r) \/ ServerSaves(r) \/ ServerFails(r)

ActiveNext ==
  \/ \E r \in Call, d \in Device : StartBackup(r, d)
  \/ Poll
  \/ \E info \in polls : PollReply(info) \/ PollFails(info)
  \/ \E r \in Call : Progress(r)
  \/ Minimize \/ Maximize \/ CloseModal \/ CancelBackup
  \/ \E d \in Device : CancelEnds(d)

(* The server works on every request and each answer or connection ends:    *)
(* every call makes a few such steps at most, so the weak fairness of all   *)
(* of them together makes each of them.                                     *)
ActiveFairness == WF_activeVars(\E r \in Call : Progress(r))

ActiveSpec == ActiveInit /\ [][ActiveNext]_activeVars /\ ActiveFairness

-----------------------------------------------------------------------------
(* Whatever outlives its dialog, the interval that polls is the one of the  *)
(* backup on display: no interval is left behind by a dialog that was       *)
(* closed or by an earlier backup (startPolling, stopPolling).              *)
PollerIsOfTheDisplay ==
  poller # Nobody => display.open /\ display.device = poller

(* "Finished" is shown only with the result of a backup the server saved    *)
(* and whose answer arrived, in whichever order the answers of several      *)
(* calls come in.                                                           *)
SuccessHasItsResult ==
  display.status = "success" =>
    /\ display.result # Nobody
    /\ job[display.result] = "saved" /\ call[display.result].answer = "ok"

(* A backup started when nothing of an earlier one is under way, and whose  *)
(* device's last entry is not a cancelled one, is shown as what became of   *)
(* it: only its own answer ends it, only its own cancel cancels it, and the *)
(* progress is its device's.                                                *)
CleanDisplayIsTrue ==
  display.open /\ display.clean =>
    /\ display.status = "success" => display.result = display.of
    /\ display.status = "error" => call[display.of].answer = "error"
    /\ display.status = "cancelled" => display.asked
    /\ display.info \in {Nobody, display.device}

(* The dialog, which cannot be closed while it shows "loading", always      *)
(* becomes closable, also when the answer it waits for is another call's.   *)
Loading == display.open /\ display.status = "loading"
LoadingEnds == Loading ~> ~Loading
=============================================================================
