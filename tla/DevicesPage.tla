----------------------------- MODULE DevicesPage -----------------------------
(***************************************************************************)
(* The page /devices: DevicesInventoryPanel with its dialogs to add, edit, *)
(* delete, browse and back up a device.  Handlers await the server while   *)
(* the user goes on: what a reply does is written for the dialog that      *)
(* asked, but nothing ties it to that dialog.  The server handles requests *)
(* in the order they are sent; only its replies come late and out of order *)
(* (bound).                                                                *)
(***************************************************************************)
EXTENDS BackupPaths, Naturals, FiniteSets

VARIABLES
  panel,       \* the component's state
  sent         \* requests whose reply has not been handled

devicesVars == <<panel, sent>>

Dialog == {"none", "add", "edit", "browse", "backup"}     \* mode and actionMode
DevicesKind == {"paths", "addPath", "removePath", "form", "delete", "list", "targets", "open",
         "ownCustom", "reload", "commonCustom"}

(* What `saving` is for: the requests whose replies clear it.               *)
AwaitedKind == {"form", "delete", "open"}

(* `seen` is the list the server answers with and `ok` whether it does what *)
(* it is asked; `copy` tells requests apart that ask for the same; `mine`:  *)
(* the dialog that asked is still the one on screen (history).              *)
DevicesRequest == [kind : DevicesKind, device : Device \cup {Nobody}, path : Path \cup {Nobody},
            seen : SUBSET Path, ok : BOOLEAN, copy : 1 .. MaxSent, mine : BOOLEAN]

DevicesTypeOK ==
  /\ PathsTypeOK
  /\ sent \in SUBSET DevicesRequest
  /\ panel \in [dialog : Dialog,
                chosen : Device \cup {Nobody},      \* selectedDevice
                doomed : Device \cup {Nobody},      \* pendingDeleteDevice
                saving : BOOLEAN,
                devicePaths : SUBSET Path,
                targets : SUBSET Path, selected : SUBSET Path,
                listing : SUBSET Path,              \* remoteFiles
                opened : Folder \cup {Nobody},      \* openedPath
                mixed : BOOLEAN,    \* a reply to an earlier dialog came in since closeModal (history)
                calm : BOOLEAN,     \* one request at a time, and none failed (history)
                crossed : BOOLEAN]  \* two folders were being opened at once (history)

NoPanel ==
  [dialog |-> "none", chosen |-> Nobody, doomed |-> Nobody, saving |-> FALSE,
   devicePaths |-> {}, targets |-> {}, selected |-> {},
   listing |-> {}, opened |-> Nobody, mixed |-> FALSE, calm |-> TRUE,
   crossed |-> FALSE]

DevicesInit == panel = NoPanel /\ sent = {}

-----------------------------------------------------------------------------
Old == {[q EXCEPT !.mine = FALSE] : q \in sent}
Ask(kind, d, p, seen) ==
  [kind |-> kind, device |-> d, path |-> p, seen |-> seen, ok |-> TRUE, copy |-> 1, mine |-> TRUE]

(* The number a request gets: the first that none of those that ask for the *)
(* same has.  Of others than the awaited ones, two alike count as one       *)
(* (bound).                                                                 *)
FreeCopy(q, n) ==
  LET copies == {r.copy : r \in {r \in sent : <<r.kind, r.device, r.path>> = <<q.kind, q.device, q.path>>}}
  IN IF q.kind \in AwaitedKind THEN n \notin copies /\ 1 .. n - 1 \subseteq copies ELSE n = 1

Sending(q, others) ==
  \E n \in 1 .. MaxSent : FreeCopy(q, n) /\ sent' = others \cup {[q EXCEPT !.copy = n]}

(* A request of the dialog that is open.                                    *)
Send(q, next) ==
  /\ Cardinality(sent) < MaxSent
  /\ Sending(q, sent)
  /\ panel' = [next EXCEPT !.calm = @ /\ sent = {}]

(* A request that changes the server's paths, which may refuse it.          *)
Change(q, next, changed) ==
  \/ Send(q, next) /\ changed
  \/ Send([q EXCEPT !.ok = FALSE], next) /\ UNCHANGED paths

(* A dialog opens, with or without a first request.                         *)
Open(next) == panel' = [next EXCEPT !.calm = sent = {}]

AtTable == panel.dialog = "none" /\ panel.doomed = Nobody
InDialog(names) == panel.dialog \in names /\ panel.doomed = Nobody

OpenAdd ==
  /\ AtTable
  /\ Open([panel EXCEPT !.dialog = "add", !.chosen = Nobody, !.devicePaths = {}])
  /\ sent' = Old
  /\ UNCHANGED paths

OpenEdit(d) ==
  /\ AtTable /\ Cardinality(sent) < MaxSent
  /\ Open([panel EXCEPT !.dialog = "edit", !.chosen = d, !.devicePaths = {}])
  /\ Sending(Ask("paths", d, Nobody, own[d]), Old)
  /\ UNCHANGED paths

OpenBrowse(d) ==
  /\ AtTable /\ Cardinality(sent) < MaxSent
  /\ Open([panel EXCEPT !.dialog = "browse", !.chosen = d, !.listing = {}])
  /\ \E f \in Folder : Sending(Ask("list", d, f, {}), Old)
  /\ UNCHANGED paths

OpenBackup(d) ==
  /\ AtTable /\ Cardinality(sent) < MaxSent
  /\ Open([panel EXCEPT !.dialog = "backup", !.chosen = d, !.selected = {},
             !.listing = {}, !.opened = Nobody])
  /\ Sending(Ask("targets", d, Nobody, TargetsOf(d)), Old)
  /\ UNCHANGED paths

(* Mutant: closing leaves what belongs to the device behind.                *)
ClosedButKept ==
  [panel EXCEPT !.dialog = "none", !.chosen = Nobody, !.listing = {}, !.opened = Nobody,
     !.mixed = FALSE]

Closed ==
  [panel EXCEPT !.dialog = "none", !.chosen = Nobody, !.listing = {}, !.opened = Nobody,
     !.selected = {}, !.targets = {}, !.devicePaths = {}, !.mixed = FALSE]

CloseDevicesDialog ==
  /\ InDialog(Dialog \ {"none"}) /\ ~panel.saving
  /\ panel' = Closed
  /\ sent' = Old
  /\ UNCHANGED paths

-----------------------------------------------------------------------------
(* submitForm, for a form whose payload can be built.                       *)
SubmitForm ==
  /\ InDialog({"add", "edit"}) /\ ~panel.saving
  /\ panel.dialog = "edit" => panel.chosen # Nobody
  /\ Send(Ask("form", panel.chosen, Nobody, {}), [panel EXCEPT !.saving = TRUE])
  /\ UNCHANGED paths

AskDelete ==
  /\ InDialog({"edit"}) /\ panel.chosen # Nobody /\ ~panel.saving
  /\ panel' = [panel EXCEPT !.doomed = panel.chosen]
  /\ UNCHANGED <<sent, paths>>

CancelDelete ==
  /\ panel.doomed # Nobody /\ ~panel.saving
  /\ panel' = [panel EXCEPT !.doomed = Nobody]
  /\ UNCHANGED <<sent, paths>>

ConfirmDelete ==
  /\ panel.doomed # Nobody /\ ~panel.saving
  /\ Send(Ask("delete", panel.doomed, Nobody, {}), [panel EXCEPT !.saving = TRUE])
  /\ UNCHANGED paths

(* addDevicePath, removeDevicePath: the server has it when the reply comes. *)
AddDevicePath(p) ==
  /\ InDialog({"edit"}) /\ panel.chosen # Nobody
  /\ Change(Ask("addPath", panel.chosen, p, {}), panel, OwnPaths(panel.chosen, own[panel.chosen] \cup {p}))

RemoveDevicePath(p) ==
  /\ InDialog({"edit"}) /\ panel.chosen # Nobody /\ p \in panel.devicePaths
  /\ Change(Ask("removePath", panel.chosen, p, {}), panel, OwnPaths(panel.chosen, own[panel.chosen] \ {p}))

-----------------------------------------------------------------------------
(* openBrowsePath, navigateToParent, "Go": not held back while one loads.   *)
BrowseFolder(f) ==
  /\ InDialog({"browse"}) /\ panel.chosen # Nobody
  /\ Send(Ask("list", panel.chosen, f, {}), panel)
  /\ UNCHANGED paths

(* openBackupTargetPath: a folder among the targets or in the listing.      *)
OpenTarget(f) ==
  /\ InDialog({"backup"}) /\ panel.chosen # Nobody
  /\ f \in Folder /\ (f \in panel.targets \/ (panel.opened # Nobody /\ f \in panel.listing))
  /\ Send(Ask("open", panel.chosen, f, {}),
          [panel EXCEPT !.saving = TRUE, !.crossed = @ \/ \E q \in sent : q.kind = "open"])
  /\ UNCHANGED paths

CloseBrowser ==
  /\ InDialog({"backup"}) /\ panel.opened # Nobody
  /\ panel' = [panel EXCEPT !.opened = Nobody]
  /\ UNCHANGED <<sent, paths>>

ToggleBackupPath(p) ==
  /\ InDialog({"backup"})
  /\ p \in panel.targets \cup panel.selected \cup (IF panel.opened = Nobody THEN {} ELSE panel.listing)
  /\ \E s \in Toggled(p, panel.selected, panel.targets \cap Folder, panel.opened, panel.listing) :
       panel' = [panel EXCEPT !.selected = s]
  /\ UNCHANGED <<sent, paths>>

(* addCustomBackupPath: a computer gets a path of its own, the robots a     *)
(* common one.                                                              *)
AddCustomPath(p) ==
  /\ InDialog({"backup"})
  /\ IF panel.chosen \in Computer
       THEN Change(Ask("ownCustom", panel.chosen, p, {}), panel,
                   OwnPaths(panel.chosen, own[panel.chosen] \cup {p}))
       ELSE Change(Ask("commonCustom", Nobody, p, {}), panel, CommonPaths(common \cup {p}))

(* submitBackup: the dialog closes and the provider gets the payload; the   *)
(* database, an input, may be ticked too or alone.                          *)
SubmitBackup ==
  /\ InDialog({"backup"}) /\ ~panel.saving /\ panel.chosen # Nobody
  /\ panel' = Closed
  /\ sent' = Old
  /\ UNCHANGED paths

-----------------------------------------------------------------------------
(* Mutant: a path is on display only when the dialog is opened again.       *)
AfterOpenedOnly(q) ==
  IF q.kind = "open" THEN [panel EXCEPT !.listing = Inside(q.path), !.opened = q.path, !.saving = FALSE]
  ELSE IF q.kind = "paths" THEN [panel EXCEPT !.devicePaths = q.seen]
  ELSE [panel EXCEPT !.saving = FALSE]

(* What a successful reply does, whatever is on screen by now.              *)
After(q) ==
  CASE q.kind = "paths" -> [panel EXCEPT !.devicePaths = q.seen]
    [] q.kind = "addPath" -> [panel EXCEPT !.devicePaths = @ \cup {q.path}]
    [] q.kind = "removePath" -> [panel EXCEPT !.devicePaths = @ \ {q.path}]
    [] q.kind \in {"form", "delete"} ->
         [panel EXCEPT !.dialog = IF @ \in {"add", "edit"} THEN "none" ELSE @,
            !.chosen = Nobody, !.saving = FALSE,
            !.doomed = IF q.kind = "delete" THEN Nobody ELSE @]
    [] q.kind = "list" -> [panel EXCEPT !.listing = Inside(q.path)]
    [] q.kind = "open" ->
         [panel EXCEPT !.listing = Inside(q.path), !.opened = q.path, !.saving = FALSE]
    [] q.kind = "targets" -> [panel EXCEPT !.targets = q.seen, !.selected = q.seen]
    [] q.kind = "reload" ->
         [panel EXCEPT !.targets = q.seen, !.selected = @ \cup {q.path}]
    [] q.kind = "commonCustom" ->
         [panel EXCEPT !.targets = @ \cup {q.path}, !.selected = @ \cup {q.path}]
    [] OTHER -> panel

Awaited(requests) == {q \in requests : q.kind \in AwaitedKind}

Stained(next, q) ==
  [next EXCEPT !.mixed = @ \/ ~q.mine, !.crossed = @ /\ Awaited(sent \ {q}) # {}]
Others(q) == IF After(q).dialog = panel.dialog THEN sent \ {q}
             ELSE {[r EXCEPT !.mine = FALSE] : r \in sent \ {q}}

(* The reply to addDeviceBackupPath asks for the computer's targets anew.   *)
DevicesReply(q) ==
  /\ q \in sent /\ q.ok
  /\ IF q.kind = "ownCustom"
       THEN /\ Sending([q EXCEPT !.kind = "reload", !.seen = TargetsOf(q.device)], sent \ {q})
            /\ UNCHANGED panel
       ELSE sent' = Others(q) /\ panel' = Stained(After(q), q)
  /\ UNCHANGED paths

(* Mutant: every request that fails ends what is awaited.                   *)
DevicesReplyFailsAll(q) ==
  /\ q \in sent
  /\ sent' = sent \ {q}
  /\ panel' = [Stained(panel, q) EXCEPT !.calm = FALSE, !.saving = FALSE]
  /\ UNCHANGED paths

DevicesReplyFails(q) ==
  /\ q \in sent
  /\ sent' = sent \ {q}
  /\ panel' = [Stained(panel, q) EXCEPT !.calm = FALSE,
                 !.saving = IF q.kind \in {"form", "delete", "open"} THEN FALSE ELSE @,
                 !.targets = IF q.kind = "targets" THEN {} ELSE @]
  /\ UNCHANGED paths

DevicesStep ==
  \/ OpenAdd \/ CloseDevicesDialog \/ SubmitForm \/ AskDelete \/ CancelDelete \/ ConfirmDelete
  \/ \E d \in Device : OpenEdit(d) \/ OpenBrowse(d) \/ OpenBackup(d)
  \/ \E p \in Typed : AddDevicePath(p) \/ AddCustomPath(p)
  \/ \E p \in Path : RemoveDevicePath(p) \/ ToggleBackupPath(p)
  \/ \E f \in Folder : BrowseFolder(f) \/ OpenTarget(f)
  \/ CloseBrowser
  \/ \E q \in sent : DevicesReply(q) \/ DevicesReplyFails(q)

DevicesNext == DevicesStep \/ SubmitBackup

DevicesSpec == DevicesInit /\ PathsTypeOK /\ [][DevicesNext]_<<devicesVars, paths>>

-----------------------------------------------------------------------------
Offered(d) == IF d \in Computer THEN own[d] ELSE own[d] \cup common

(* The paths ticked in the backup dialog are the chosen device's own or, for *)
(* a robot, common ones, or lie in one, and the files listed are those of    *)
(* the open folder, unless a reply to an earlier dialog came in: that is the *)
(* one way paths of another device get into a backup (openBackup,            *)
(* addCustomBackupPath).                                                     *)
SelectionIsOfItsDevice ==
  panel.dialog = "backup" /\ ~panel.mixed =>
    /\ \A p \in panel.selected \cup panel.targets : Covered(p, Offered(panel.chosen))
    /\ panel.opened # Nobody => panel.listing = Inside(panel.opened)

(* Once the targets are there, no tick, no new path and no reply drops a     *)
(* path from the selection but for a folder or files it adds instead.        *)
SelectionIsKept ==
  [][panel.dialog = "backup" /\ panel'.dialog = "backup" /\ ~panel'.mixed
       /\ (\A q \in sent : q.kind # "targets")
     => KeepsSelection(panel.selected, panel'.selected)]_devicesVars

(* Unless two folders were being opened at once, a form or a deletion is     *)
(* sent once and its dialog stays until the answer is there: `saving`, which *)
(* these requests share, is set as long as one of them is awaited, whatever  *)
(* other replies come and whichever of them fail.  After two openings it is  *)
(* not: the first reply clears it, a form can be sent while the second is on *)
(* its way, and sent again after it (openBackupTargetPath, submitForm).      *)
FormIsSentOnce ==
  ~panel.crossed =>
    /\ Cardinality(Awaited(sent)) <= 1
    /\ panel.saving = (Awaited(sent) # {})
    /\ \A q \in Awaited(sent) : q.mine

(* When the requests of an edit dialog were made one at a time and none      *)
(* failed, the path list it shows is the one the server has.                 *)
PathListIsTheServers ==
  panel.dialog = "edit" /\ ~panel.mixed /\ panel.calm /\ sent = {} =>
    panel.devicePaths = own[panel.chosen]
=============================================================================
