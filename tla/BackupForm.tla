----------------------------- MODULE BackupForm -----------------------------
(***************************************************************************)
(* The page /backups, first half: the dialogs that run a backup, browse a  *)
(* robot and manage paths.  The chosen device, its targets and the folder  *)
(* opened outlive the dialogs.  The effect that loads the targets drops    *)
(* the reply of every request but its last; nothing ties the other replies *)
(* to the device and the dialog that asked.  The server handles requests   *)
(* in the order they are sent (bound), its replies come in any order.      *)
(***************************************************************************)
EXTENDS BackupsPage

VARIABLES
  form,        \* the state of the three dialogs
  asked        \* their requests whose reply has not been handled

formVars == <<mode, saving, form, asked>>

Category == {"robot", "computer"}

(* For targets: `seen` is what the server answers, `spare` what the effect  *)
(* takes from the page when it cannot be had, `mine` says that `cancelled`  *)
(* is not set.  `mine` of others: the dialog and the device that asked have *)
(* not changed (history).                                                   *)
FormRequest ==
  [kind : {"targets", "list", "open", "save", "rename", "deleteOwn", "deleteCommon"},
   device : Device \cup {Nobody}, category : Category, path : Path \cup {Nobody},
   seen : SUBSET Path, spare : SUBSET Path, ok : BOOLEAN, mine : BOOLEAN]

FormTypeOK ==
  /\ WorkspaceTypeOK /\ PathsTypeOK
  /\ asked \in SUBSET FormRequest
  /\ form \in [device : Device \cup {Nobody}, category : Category,
               live : SUBSET Path,                 \* liveTargets
               liveOf : (Device \cup {Nobody}) \X Category,     \* whose they are (history)
               added : SUBSET Path,                \* addedBackupTargets
               loading : BOOLEAN,                  \* targetsLoading
               selected : SUBSET Path,             \* selectedPaths
               listing : SUBSET Path,              \* remoteFiles
               opened : Folder \cup {Nobody},      \* openedPath
               editing : Path \cup {Nobody},       \* editingPathTarget
               scope : {"fleet", "computer"},      \* pathScope
               doomed : Path \cup {Nobody},        \* pendingDeletePath
               mixed : BOOLEAN]     \* something of another device or dialog is on display (history)

NewForm(targets) ==
  [device |-> Nobody, category |-> "robot", live |-> targets, liveOf |-> <<Nobody, "robot">>,
   added |-> {}, loading |-> FALSE, selected |-> {}, listing |-> {},
   opened |-> Nobody, editing |-> Nobody, scope |-> "fleet", doomed |-> Nobody, mixed |-> FALSE]

FormInit == WorkspaceInit /\ form = NewForm(common) /\ asked = {}

Targets == form.live \cup form.added               \* backupTargets
Choice == <<form.device, form.category>>

-----------------------------------------------------------------------------
FormAsk(kind, d, p) ==
  [kind |-> kind, device |-> d, category |-> form.category, path |-> p, seen |-> {},
   spare |-> {}, ok |-> TRUE, mine |-> TRUE]

(* The page's own `targets` are those of the server: router.refresh comes   *)
(* with the reply to what changed them (bound).                             *)
FetchTargets(d, category) ==
  [FormAsk("targets", d, Nobody) EXCEPT !.category = category, !.seen = TargetsOf(d),
     !.spare = IF category = "robot" THEN common ELSE {}]

Theirs == {[q EXCEPT !.mine = @ /\ q.kind = "targets"] : q \in asked}
Fits(new) == Cardinality(asked) + Cardinality(new) <= MaxSent

(* The effect on [deviceId, backupCategory]: when they change, earlier      *)
(* replies are cancelled and the targets are fetched for a chosen device;   *)
(* its timer of 0 ms says so before anybody can click (bound).              *)
EffectRuns(next, requests, new) ==
  IF <<next.device, next.category>> = Choice THEN asked' = requests \cup new
  ELSE LET fetch == IF next.device = Nobody THEN {} ELSE {FetchTargets(next.device, next.category)}
       IN /\ Fits(new \cup fetch)
          /\ asked' = {[q EXCEPT !.mine = FALSE] : q \in requests} \cup new \cup fetch

AsRobot ==          \* setBackupCategory("robot"): the device stays chosen
  [form EXCEPT !.category = "robot", !.listing = {}, !.opened = Nobody, !.mixed = FALSE,
     !.loading = @ \/ (form.device # Nobody /\ form.category # "robot")]

OnPage == mode = "none" /\ form.doomed = Nobody

OpenBackupModal ==
  /\ OnPage
  /\ mode' = "backup"
  /\ form' = [AsRobot EXCEPT !.selected = {}]
  /\ EffectRuns(form', Theirs, {})
  /\ UNCHANGED <<saving, paths>>

OpenBrowseModal ==
  /\ OnPage
  /\ mode' = "browse"
  /\ form' = AsRobot
  /\ IF form.device = Nobody THEN EffectRuns(form', Theirs, {}) /\ UNCHANGED saving
     ELSE /\ saving' = TRUE
          /\ \E f \in Folder : Fits({f}) /\ EffectRuns(form', Theirs, {FormAsk("list", form.device, f)})
  /\ UNCHANGED paths

OpenPathModal(target) ==
  /\ OnPage
  /\ target \in Targets \cup {Nobody}
  /\ mode' = "path"
  /\ form' = [form EXCEPT !.scope = "fleet", !.editing = target]
  /\ asked' = Theirs
  /\ UNCHANGED <<saving, paths>>

OpenComputerPathModal ==
  /\ mode = "backup" /\ form.category = "computer" /\ form.device # Nobody
  /\ mode' = "path"
  /\ form' = [form EXCEPT !.scope = "computer", !.editing = Nobody]
  /\ asked' = Theirs
  /\ UNCHANGED <<saving, paths>>

(* The ticks that are left are forgotten here: no dialog reads them before  *)
(* openBackupModal clears them.  So are history and scope.                  *)
ClosedForm ==
  LET closed == [form EXCEPT !.selected = {}, !.mixed = FALSE, !.scope = "fleet"]
  IN IF mode = "browse" THEN [closed EXCEPT !.listing = {}, !.opened = Nobody]
     ELSE IF mode = "path" THEN [closed EXCEPT !.editing = Nobody] ELSE closed

CloseForm ==
  /\ mode \in {"backup", "browse", "path"} /\ ~saving
  /\ mode' = "none"
  /\ form' = ClosedForm
  /\ asked' = Theirs
  /\ UNCHANGED <<saving, paths>>

-----------------------------------------------------------------------------
(* Mutant: the ticks stay too.                                              *)
RechosenTicked(d) ==
  [form EXCEPT !.device = d, !.added = {}, !.loading = d # Nobody,
     !.mixed = @ \/ form.opened # Nobody,
     !.live = IF d # Nobody THEN @ ELSE IF form.category = "robot" THEN common ELSE {},
     !.liveOf = IF d # Nobody THEN @ ELSE <<Nobody, form.category>>]

(* What is on display of an opened folder stays when the device changes.    *)
Rechosen(d) ==
  [form EXCEPT !.device = d, !.selected = {}, !.added = {},
     !.loading = d # Nobody,
     !.mixed = @ \/ form.opened # Nobody,
     !.live = IF d # Nobody THEN @ ELSE IF form.category = "robot" THEN common ELSE {},
     !.liveOf = IF d # Nobody THEN @ ELSE <<Nobody, form.category>>]

ChangeDevice(d) ==
  /\ mode = "backup" /\ d # form.device
  /\ d # Nobody => (d \in Computer) = (form.category = "computer")
  /\ form' = Rechosen(d)
  /\ EffectRuns(form', Theirs, {})
  /\ UNCHANGED <<mode, saving, paths>>

(* In the file browser the files of the device chosen are asked for too.    *)
BrowseDevice(d) ==
  /\ mode = "browse" /\ d # form.device /\ d \notin Computer
  /\ IF d = Nobody
       THEN form' = [Rechosen(d) EXCEPT !.listing = {}] /\ EffectRuns(form', Theirs, {}) /\ UNCHANGED saving
       ELSE /\ form' = Rechosen(d) /\ saving' = TRUE
            /\ \E f \in Folder : EffectRuns(form', Theirs, {FormAsk("list", d, f)})
  /\ UNCHANGED <<mode, paths>>

ChangeBackupCategory(category) ==
  /\ mode = "backup"
  /\ LET offered == IF category = "robot" THEN common ELSE {}
     IN form' = [form EXCEPT !.category = category, !.device = Nobody, !.selected = {},
                   !.added = {}, !.live = offered,
                   !.liveOf = <<Nobody, category>>, !.loading = FALSE,
                   !.mixed = @ \/ form.opened # Nobody]
  /\ EffectRuns(form', Theirs, {})
  /\ UNCHANGED <<mode, saving, paths>>

-----------------------------------------------------------------------------
Ticked == [form EXCEPT !.mixed = @ \/ form.loading]     \* what is ticked while loading is not shown

TogglePath(p) ==
  /\ mode = "backup"
  /\ p \in (IF form.loading THEN {} ELSE Targets) \cup (IF form.opened = Nobody THEN {} ELSE form.listing)
  /\ \E s \in Toggled(p, form.selected, Targets \cap Folder, form.opened, form.listing) :
       form' = [form EXCEPT !.selected = s]
  /\ UNCHANGED <<mode, saving, asked, paths>>

SelectAllBackupTargets ==
  /\ mode = "backup"
  /\ form' = [Ticked EXCEPT !.selected = Targets]
  /\ UNCHANGED <<mode, saving, asked, paths>>

ClearBackupTargets ==
  /\ mode = "backup" /\ form.selected # {}
  /\ form' = [form EXCEPT !.selected = {}]
  /\ UNCHANGED <<mode, saving, asked, paths>>

(* openTargetPath and the file browser: neither waits for the last listing. *)
OpenTargetPath(f) ==
  /\ mode = "backup" /\ form.device # Nobody
  /\ f \in Folder \cap (IF form.opened = Nobody THEN Targets ELSE Targets \cup form.listing)
  /\ ~form.loading \/ (form.opened # Nobody /\ f \in form.listing)
  /\ Fits({f})
  /\ asked' = asked \cup {FormAsk("open", form.device, f)}
  /\ saving' = TRUE
  /\ UNCHANGED <<mode, form, paths>>

BrowseFiles(f) ==
  /\ mode = "browse" /\ form.device # Nobody /\ Fits({f})
  /\ asked' = asked \cup {FormAsk("list", form.device, f)}
  /\ saving' = TRUE
  /\ UNCHANGED <<mode, form, paths>>

ResetBrowseState ==
  /\ mode = "backup" /\ form.opened # Nobody
  /\ form' = [form EXCEPT !.listing = {}, !.opened = Nobody]
  /\ UNCHANGED <<mode, saving, asked, paths>>

(* submitBackup: the dialog closes, the provider gets device and paths; the *)
(* database, an input, may be ticked too or alone.                          *)
SubmitBackupForm ==
  /\ mode = "backup" /\ ~saving /\ form.device # Nobody
  /\ mode' = "none"
  /\ form' = ClosedForm
  /\ asked' = Theirs
  /\ UNCHANGED <<saving, paths>>

-----------------------------------------------------------------------------
EditPath(p) ==
  /\ mode = "path" /\ p \in Targets \cup {Nobody}
  /\ form' = [form EXCEPT !.editing = p]
  /\ UNCHANGED <<mode, saving, asked, paths>>

(* saveCustomPath, and below the deletions: a change of the paths is made   *)
(* while no other request is under way, and the common paths are those that *)
(* users added (bounds).  A rename saves the path again where the scope     *)
(* says: of a robot, a path of its own becomes a common one.                *)
SaveCustomPath(p) ==
  /\ mode = "path" /\ form.editing \in {Nobody, p}
  /\ asked = {}
  /\ saving' = TRUE
  /\ \E ok \in BOOLEAN :
       /\ asked' = asked \cup {[FormAsk(IF form.editing = Nobody THEN "save" ELSE "rename",
                                        form.device, p) EXCEPT !.ok = ok]}
       /\ IF ~ok THEN UNCHANGED paths
          ELSE IF form.scope = "computer" THEN OwnPaths(form.device, own[form.device] \cup {p})
          ELSE CommonPaths(common \cup {p})
  /\ UNCHANGED <<mode, form>>

DeleteComputerPath ==
  /\ mode = "path" /\ form.scope = "computer" /\ form.editing # Nobody /\ ~saving
  /\ asked = {}
  /\ saving' = TRUE
  /\ \E ok \in BOOLEAN :
       /\ asked' = asked \cup {[FormAsk("deleteOwn", form.device, form.editing) EXCEPT !.ok = ok]}
       /\ IF ok THEN OwnPaths(form.device, own[form.device] \ {form.editing}) ELSE UNCHANGED paths
  /\ UNCHANGED <<mode, form>>

RequestDeleteCustomPath ==
  /\ mode = "path" /\ form.scope = "fleet" /\ form.editing # Nobody /\ ~saving
  /\ mode' = "none"
  /\ form' = [ClosedForm EXCEPT !.doomed = form.editing]
  /\ UNCHANGED <<saving, asked, paths>>

CancelDeleteCustomPath ==
  /\ form.doomed # Nobody /\ ~saving
  /\ form' = [form EXCEPT !.doomed = Nobody]
  /\ UNCHANGED <<mode, saving, asked, paths>>

ConfirmDeleteCustomPath ==
  /\ form.doomed # Nobody /\ ~saving /\ asked = {}
  /\ saving' = TRUE
  /\ \E ok \in BOOLEAN :
       /\ asked' = asked \cup {[FormAsk("deleteCommon", Nobody, form.doomed) EXCEPT !.ok = ok]}
       /\ IF ok THEN CommonPaths(common \ {form.doomed}) ELSE UNCHANGED paths
  /\ UNCHANGED <<mode, form>>

-----------------------------------------------------------------------------
(* Mutant: the effect's replies are not cancelled.                          *)
TargetsReplyUnchecked(q, targets) ==
  [form EXCEPT !.live = targets, !.liveOf = <<q.device, q.category>>, !.loading = FALSE]

(* The reply to the effect's request; a cancelled one does nothing.         *)
TargetsReply(q, targets) ==
  IF q.mine
    THEN [form EXCEPT !.live = targets, !.liveOf = <<q.device, q.category>>, !.loading = FALSE]
    ELSE form

AfterReply(q) ==
  CASE q.kind = "targets" -> TargetsReply(q, q.seen)
    [] q.kind = "list" -> [form EXCEPT !.listing = Inside(q.path)]
    [] q.kind = "open" ->
         [form EXCEPT !.listing = Inside(q.path), !.opened = q.path]
    [] q.kind = "save" ->
         [form EXCEPT !.selected = @ \cup {q.path}, !.added = @ \cup {q.path}, !.editing = Nobody]
    [] q.kind = "rename" -> [form EXCEPT !.added = @ \cup {q.path}, !.editing = Nobody]
    [] q.kind = "deleteOwn" ->
         [form EXCEPT !.live = @ \ {q.path}, !.doomed = Nobody, !.editing = Nobody]
    [] q.kind = "deleteCommon" ->
         [form EXCEPT !.doomed = Nobody, !.selected = @ \ {q.path}, !.added = @ \ {q.path}]

FormReply(q) ==
  /\ q \in asked /\ q.ok
  /\ asked' = asked \ {q}
  /\ form' = [AfterReply(q) EXCEPT !.mixed = @ \/ (~q.mine /\ q.kind # "targets")]
  /\ saving' = (saving /\ q.kind = "targets")
  /\ UNCHANGED <<mode, paths>>

(* When its targets cannot be had, a robot is offered the ones of the page. *)
FormReplyFails(q) ==
  /\ q \in asked
  /\ asked' = asked \ {q}
  /\ form' = IF q.kind # "targets" THEN form
             ELSE TargetsReply(q, q.spare)
  /\ saving' = (saving /\ q.kind = "targets")
  /\ UNCHANGED <<mode, paths>>

FormStep ==
  \/ OpenBackupModal \/ OpenBrowseModal \/ OpenComputerPathModal \/ CloseForm
  \/ \E p \in Path \cup {Nobody} : OpenPathModal(p) \/ EditPath(p)
  \/ \E d \in Device \cup {Nobody} : ChangeDevice(d) \/ BrowseDevice(d)
  \/ \E category \in Category : ChangeBackupCategory(category)
  \/ \E p \in Path : TogglePath(p)
  \/ SelectAllBackupTargets \/ ClearBackupTargets
  \/ \E f \in Folder : OpenTargetPath(f) \/ BrowseFiles(f)
  \/ ResetBrowseState
  \/ \E p \in (Typed \cup {form.editing}) \ {Nobody} : SaveCustomPath(p)
  \/ DeleteComputerPath \/ RequestDeleteCustomPath \/ CancelDeleteCustomPath \/ ConfirmDeleteCustomPath
  \/ \E q \in asked : FormReply(q) \/ FormReplyFails(q)

FormNext == FormStep \/ SubmitBackupForm

FormSpec == FormInit /\ PathsTypeOK /\ [][FormNext]_<<formVars, paths>>

-----------------------------------------------------------------------------
(* However often the device and the category change while their targets are *)
(* on the way, what is on display in the end are the targets of the choice, *)
(* and "loading" is not left behind (the effect of lines 119-147).          *)
TargetsAreOfTheChoice ==
  LET fetching == \E q \in asked : q.kind = "targets" /\ q.mine
  IN /\ form.loading => fetching
     /\ form.device # Nobody /\ ~fetching => form.liveOf = Choice

(* Every path ticked for a backup is a target on display or lies in one,    *)
(* unless "select all" was used while the targets were loading or something *)
(* of another device or dialog was left on display.                         *)
TickedIsOffered ==
  mode = "backup" /\ ~form.mixed => \A p \in form.selected : Covered(p, Targets)

(* No tick and no reply drops a path from the selection but for a folder or *)
(* files it adds instead.                                                   *)
TicksAreKept ==
  [][mode = "backup" /\ mode' = "backup" /\ Choice' = Choice /\ ~form'.mixed
     => KeepsSelection(form.selected, form'.selected)]_formVars
=============================================================================
