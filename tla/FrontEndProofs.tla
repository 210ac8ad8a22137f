--------------------------- MODULE FrontEndProofs ---------------------------
(***************************************************************************)
(* The front end for any devices, paths, backups, rules and calls: the     *)
(* types of the forms of /devices and /backups, and what was proved of the *)
(* provider and of each page, for the browser's side as a whole.           *)
(***************************************************************************)
EXTENDS FrontEnd, ActiveBackupProofs, PageProofs

Panels ==
  [dialog : Dialog, chosen : Device \cup {Nobody}, doomed : Device \cup {Nobody}, saving : BOOLEAN,
   devicePaths : SUBSET Path, targets : SUBSET Path, selected : SUBSET Path, listing : SUBSET Path,
   opened : Folder \cup {Nobody}, mixed : BOOLEAN, calm : BOOLEAN, crossed : BOOLEAN]

(* A request of a kind that is about a path or a device names one.          *)
Named(q) ==
  /\ q.kind \in {"addPath", "removePath", "ownCustom", "reload", "commonCustom"} => q.path \in Path
  /\ q.kind \in {"list", "open"} => q.path \in Folder
  /\ q.kind = "ownCustom" => q.device \in Device
DevicesInv == DevicesTypeOK /\ \A q \in sent : Named(q)

-----------------------------------------------------------------------------
LEMMA PathsOfFolders ==
  /\ Folder \subseteq Path /\ Nobody \notin Folder
  /\ \A f : Inside(f) \subseteq Path
  /\ \A p \in Path : Above[p] \subseteq Folder
  /\ PathsTypeOK => \A d \in Device : TargetsOf(d) \in SUBSET Path
BY PathsOK DEF Folder, Inside, PathsTypeOK, TargetsOf

LEMMA ToggledTypes ==
  ASSUME NEW p \in Path, NEW selected \in SUBSET Path, NEW folders, NEW opened \in Folder \cup {Nobody},
         NEW visible, NEW s \in Toggled(p, selected, folders, opened, visible)
  PROVE  s \in SUBSET Path
<1>1. CASE p \in selected
  BY <1>1 DEF Toggled
<1>2. CASE p \notin selected
  <2>1. PICK parent \in ParentFolders(p, selected, folders, opened) :
          LET next == (selected \ parent) \cup {p}
          IN s = IF opened = Nobody \/ visible = {} \/ ~(visible \subseteq next) THEN next
                 ELSE (next \ visible) \cup {opened}
    BY <1>2 DEF Toggled
  <2>2. opened # Nobody => opened \in Path
    BY PathsOfFolders
  <2> QED BY <2>1, <2>2
<1> QED BY <1>1, <1>2

LEMMA DevicesKept ==
  ASSUME PathsTypeOK', panel' \in Panels, sent' \subseteq DevicesRequest, \A q \in sent' : Named(q)
  PROVE  DevicesInv'
BY DEF DevicesInv, DevicesTypeOK, Panels, PathsTypeOK, Named

LEMMA OldTypes ==
  ASSUME DevicesInv
  PROVE  Old \subseteq DevicesRequest /\ \A q \in Old : Named(q)
<1> SUFFICES ASSUME NEW q \in sent
             PROVE  [q EXCEPT !.mine = FALSE] \in DevicesRequest /\ Named([q EXCEPT !.mine = FALSE])
  BY DEF Old
<1>1. q \in DevicesRequest /\ Named(q)
  BY DEF DevicesInv, DevicesTypeOK
<1>2. [q EXCEPT !.mine = FALSE] \in DevicesRequest
  BY <1>1 DEF DevicesRequest
<1> QED BY <1>1, <1>2 DEF DevicesRequest, Named

(* A request as it is asked for, and the same with the number it got.       *)
IsRequest(q) ==
  q = [kind |-> q.kind, device |-> q.device, path |-> q.path, seen |-> q.seen, ok |-> q.ok,
       copy |-> q.copy, mine |-> q.mine]
Alike(r, q) ==
  /\ r.kind = q.kind /\ r.device = q.device /\ r.path = q.path /\ r.seen = q.seen
  /\ r.ok = q.ok /\ r.mine = q.mine

LEMMA Numbered ==
  ASSUME NEW q, IsRequest(q), NEW others, Sending(q, others)
  PROVE  \E r : IsRequest(r) /\ Alike(r, q) /\ r.copy \in 1 .. MaxSent /\ sent' = others \cup {r}
<1>1. PICK n \in 1 .. MaxSent : sent' = others \cup {[q EXCEPT !.copy = n]}
  BY DEF Sending
<1> DEFINE r == [q EXCEPT !.copy = n]
<1>2. r = [kind |-> q.kind, device |-> q.device, path |-> q.path, seen |-> q.seen, ok |-> q.ok,
           copy |-> n, mine |-> q.mine]
  BY DEF IsRequest
<1>3. r.copy = n /\ IsRequest(r) /\ Alike(r, q)
  <2> HIDE DEF r
  <2> QED BY <1>2 DEF IsRequest, Alike
<1>4. sent' = others \cup {r}
  BY <1>1
<1> HIDE DEF r
<1> QED BY <1>3, <1>4

(* The fields of a request of the dialog that is open.                      *)
Asks(q, kind, d, p, seen, ok) ==
  /\ IsRequest(q) /\ q.mine
  /\ q.kind = kind /\ q.device = d /\ q.path = p /\ q.seen = seen /\ q.ok = ok

LEMMA AskFields ==
  ASSUME NEW kind, NEW d, NEW p, NEW seen
  PROVE  /\ Asks(Ask(kind, d, p, seen), kind, d, p, seen, TRUE)
         /\ Asks([Ask(kind, d, p, seen) EXCEPT !.ok = FALSE], kind, d, p, seen, FALSE)
<1>1. Asks(Ask(kind, d, p, seen), kind, d, p, seen, TRUE)
  BY DEF Asks, Ask, IsRequest
<1>2. PICK q : q = [Ask(kind, d, p, seen) EXCEPT !.ok = FALSE]
  OBVIOUS
<1>3. q = [kind |-> kind, device |-> d, path |-> p, seen |-> seen, ok |-> FALSE, copy |-> 1, mine |-> TRUE]
  BY <1>2 DEF Ask
<1>4. Asks(q, kind, d, p, seen, FALSE)
  BY <1>3 DEF Asks, IsRequest
<1> QED BY <1>1, <1>2, <1>4

(* What may be asked for: the values of a request, but for its number.      *)
Asked(q) ==
  /\ IsRequest(q) /\ q.kind \in DevicesKind /\ q.device \in Device \cup {Nobody}
  /\ q.path \in Path \cup {Nobody} /\ q.seen \in SUBSET Path /\ q.ok \in BOOLEAN /\ q.mine \in BOOLEAN

LEMMA DevicesAskTypes ==
  ASSUME NEW kind \in DevicesKind, NEW d \in Device \cup {Nobody}, NEW p \in Path \cup {Nobody},
         NEW seen \in SUBSET Path
  PROVE  Asked(Ask(kind, d, p, seen)) /\ Asked([Ask(kind, d, p, seen) EXCEPT !.ok = FALSE])
<1>1. ASSUME NEW q, NEW ok \in BOOLEAN, q.mine \in BOOLEAN, Asks(q, kind, d, p, seen, ok)
      PROVE  Asked(q)
  BY <1>1 DEF Asked, Asks
<1>2. Ask(kind, d, p, seen).mine \in BOOLEAN /\ [Ask(kind, d, p, seen) EXCEPT !.ok = FALSE].mine \in BOOLEAN
  BY DEF Ask
<1> QED BY <1>1, <1>2, AskFields

LEMMA NumberedTypes ==
  ASSUME NEW q, Asked(q), Named(q), NEW r, IsRequest(r), Alike(r, q), r.copy \in 1 .. MaxSent
  PROVE  r \in DevicesRequest /\ Named(r)
<1>1. r \in DevicesRequest
  BY DEF Asked, Alike, IsRequest, DevicesRequest
<1> QED BY <1>1 DEF Alike, Named

LEMMA SendingTypes ==
  ASSUME NEW q, Asked(q), Named(q), NEW others, Sending(q, others),
         others \subseteq DevicesRequest, \A r \in others : Named(r)
  PROVE  sent' \subseteq DevicesRequest /\ \A r \in sent' : Named(r)
<1>1. PICK r : IsRequest(r) /\ Alike(r, q) /\ r.copy \in 1 .. MaxSent /\ sent' = others \cup {r}
  BY Numbered DEF Asked
<1>2. r \in DevicesRequest /\ Named(r)
  BY <1>1, NumberedTypes
<1> QED BY <1>1, <1>2

(* The request that follows the reply to addDeviceBackupPath.               *)
LEMMA ReloadFields ==
  ASSUME NEW q \in DevicesRequest, NEW r,
         r = [q EXCEPT !.kind = "reload", !.seen = TargetsOf(q.device)]
  PROVE  /\ IsRequest(r) /\ r.kind = "reload" /\ r.seen = TargetsOf(q.device) /\ r.device = q.device
         /\ r.path = q.path /\ r.ok = q.ok /\ r.mine = q.mine
<1>1. q = [kind |-> q.kind, device |-> q.device, path |-> q.path, seen |-> q.seen, ok |-> q.ok,
           copy |-> q.copy, mine |-> q.mine]
  BY DEF DevicesRequest
<1>2. r = [kind |-> "reload", device |-> q.device, path |-> q.path, seen |-> TargetsOf(q.device),
           ok |-> q.ok, copy |-> q.copy, mine |-> q.mine]
  BY <1>1
<1> QED BY <1>2 DEF IsRequest

(* What a request that fails leaves of the panel.                           *)
LEMMA FailureFields ==
  ASSUME panel \in Panels, NEW q \in DevicesRequest, DevicesReplyFails(q)
  PROVE  /\ sent' = sent \ {q} /\ panel'.dialog = panel.dialog /\ panel'.doomed = panel.doomed
         /\ panel'.mixed = (panel.mixed \/ ~q.mine) /\ panel'.calm = FALSE
         /\ panel'.crossed = (panel.crossed /\ Awaited(sent \ {q}) # {})
         /\ panel'.saving = IF q.kind \in AwaitedKind THEN FALSE ELSE panel.saving
         /\ panel'.chosen = panel.chosen /\ panel'.targets \in {panel.targets, {}}
         /\ panel'.selected = panel.selected /\ panel'.opened = panel.opened
         /\ panel'.listing = panel.listing
<1> DEFINE mixed == panel.mixed \/ ~q.mine
           crossed == panel.crossed /\ Awaited(sent \ {q}) # {}
           next == [panel EXCEPT !.mixed = mixed, !.crossed = crossed]
<1>1. mixed \in BOOLEAN /\ crossed \in BOOLEAN
  BY DEF Panels, DevicesRequest
<1>2. Stained(panel, q) = next
  BY DEF Stained
<1> HIDE DEF mixed, crossed
<1>3. /\ next \in Panels /\ next.dialog = panel.dialog /\ next.doomed = panel.doomed
      /\ next.mixed = mixed /\ next.crossed = crossed /\ next.saving = panel.saving
      /\ next.chosen = panel.chosen /\ next.targets = panel.targets
      /\ next.selected = panel.selected /\ next.opened = panel.opened /\ next.listing = panel.listing
  BY <1>1 DEF Panels
<1>4. /\ sent' = sent \ {q}
      /\ panel' = [next EXCEPT !.calm = FALSE,
                     !.saving = IF q.kind \in AwaitedKind THEN FALSE ELSE next.saving,
                     !.targets = IF q.kind = "targets" THEN {} ELSE next.targets]
  BY <1>2 DEF DevicesReplyFails, AwaitedKind
<1> HIDE DEF next
<1>5. /\ panel'.dialog = next.dialog /\ panel'.doomed = next.doomed
      /\ panel'.mixed = next.mixed /\ panel'.calm = FALSE /\ panel'.crossed = next.crossed
      /\ panel'.saving = IF q.kind \in AwaitedKind THEN FALSE ELSE next.saving
      /\ panel'.chosen = next.chosen /\ panel'.targets \in {next.targets, {}}
      /\ panel'.selected = next.selected /\ panel'.opened = next.opened /\ panel'.listing = next.listing
  BY <1>3, <1>4 DEF Panels
<1> QED BY <1>3, <1>4, <1>5 DEF mixed, crossed

(* A request is sent from a dialog.                                         *)
LEMMA SendTypes ==
  ASSUME DevicesInv, NEW q, Asked(q), Named(q), NEW next \in Panels, Send(q, next), PathsTypeOK'
  PROVE  DevicesInv'
<1>1. Sending(q, sent) /\ panel' = [next EXCEPT !.calm = @ /\ sent = {}]
  BY DEF Send
<1>2. panel' \in Panels
  BY <1>1 DEF Panels
<1>3. sent' \subseteq DevicesRequest /\ \A r \in sent' : Named(r)
  BY <1>1, SendingTypes DEF DevicesInv, DevicesTypeOK
<1> QED BY <1>2, <1>3, DevicesKept

LEMMA OpenTypes ==
  ASSUME DevicesInv, OpenAdd \/ \E d \in Device : OpenEdit(d) \/ OpenBrowse(d) \/ OpenBackup(d)
  PROVE  DevicesInv'
<1>0. PathsTypeOK /\ panel \in Panels
  BY DEF DevicesInv, DevicesTypeOK, Panels
<1>1. PathsTypeOK'
  BY <1>0 DEF OpenAdd, OpenEdit, OpenBrowse, OpenBackup, PathsTypeOK, paths
<1>2. CASE OpenAdd
  <2>1. panel' = [[panel EXCEPT !.dialog = "add", !.chosen = Nobody, !.devicePaths = {}] EXCEPT !.calm = sent = {}]
        /\ sent' = Old
    BY <1>2 DEF OpenAdd, Open
  <2>2. panel' \in Panels
    BY <1>0, <2>1 DEF Panels, Dialog
  <2> QED BY <1>1, <2>1, <2>2, OldTypes, DevicesKept
<1>3. ASSUME NEW d \in Device, OpenEdit(d) PROVE DevicesInv'
  <2>1. panel' = [[panel EXCEPT !.dialog = "edit", !.chosen = d, !.devicePaths = {}] EXCEPT !.calm = sent = {}]
        /\ Sending(Ask("paths", d, Nobody, own[d]), Old)
    BY <1>3 DEF OpenEdit, Open
  <2>2. panel' \in Panels
    BY <1>0, <2>1 DEF Panels, Dialog
  <2>3. Asked(Ask("paths", d, Nobody, own[d])) /\ Named(Ask("paths", d, Nobody, own[d]))
    BY <1>0, DevicesAskTypes DEF PathsTypeOK, DevicesKind, Ask, Named
  <2>4. sent' \subseteq DevicesRequest /\ \A r \in sent' : Named(r)
    BY <2>1, <2>3, OldTypes, SendingTypes
  <2> QED BY <1>1, <2>2, <2>4, DevicesKept
<1>4. ASSUME NEW d \in Device, OpenBrowse(d) PROVE DevicesInv'
  <2>1. panel' = [[panel EXCEPT !.dialog = "browse", !.chosen = d, !.listing = {}] EXCEPT !.calm = sent = {}]
    BY <1>4 DEF OpenBrowse, Open
  <2>2. panel' \in Panels
    BY <1>0, <2>1 DEF Panels, Dialog
  <2>3. PICK f \in Folder : Sending(Ask("list", d, f, {}), Old)
    BY <1>4 DEF OpenBrowse
  <2>4. Asked(Ask("list", d, f, {})) /\ Named(Ask("list", d, f, {}))
    BY <2>3, PathsOfFolders, DevicesAskTypes DEF DevicesKind, Ask, Named
  <2>5. sent' \subseteq DevicesRequest /\ \A r \in sent' : Named(r)
    BY <2>3, <2>4, OldTypes, SendingTypes
  <2> QED BY <1>1, <2>2, <2>5, DevicesKept
<1>5. ASSUME NEW d \in Device, OpenBackup(d) PROVE DevicesInv'
  <2>1. panel' = [[panel EXCEPT !.dialog = "backup", !.chosen = d, !.selected = {},
                     !.listing = {}, !.opened = Nobody] EXCEPT !.calm = sent = {}]
        /\ Sending(Ask("targets", d, Nobody, TargetsOf(d)), Old)
    BY <1>5 DEF OpenBackup, Open
  <2>2. panel' \in Panels
    BY <1>0, <2>1 DEF Panels, Dialog
  <2>3. Asked(Ask("targets", d, Nobody, TargetsOf(d))) /\ Named(Ask("targets", d, Nobody, TargetsOf(d)))
    BY <1>0, PathsOfFolders, DevicesAskTypes DEF DevicesKind, Ask, Named
  <2>4. sent' \subseteq DevicesRequest /\ \A r \in sent' : Named(r)
    BY <2>1, <2>3, OldTypes, SendingTypes
  <2> QED BY <1>1, <2>2, <2>4, DevicesKept
<1> QED BY <1>2, <1>3, <1>4, <1>5

(* Steps that send nothing.                                                 *)
LEMMA PanelTypes ==
  ASSUME DevicesInv,
         \/ CloseDevicesDialog \/ SubmitBackup \/ AskDelete \/ CancelDelete \/ CloseBrowser
         \/ \E p \in Path : ToggleBackupPath(p)
  PROVE  DevicesInv'
<1>0. /\ PathsTypeOK /\ panel \in Panels
      /\ sent \subseteq DevicesRequest /\ \A q \in sent : Named(q)
  BY DEF DevicesInv, DevicesTypeOK, Panels
<1>1. PathsTypeOK' /\ sent' \in {sent, Old}
  BY <1>0 DEF CloseDevicesDialog, SubmitBackup, AskDelete, CancelDelete, CloseBrowser, ToggleBackupPath,
              PathsTypeOK, paths
<1>2. panel' \in Panels
  <2>1. CASE CloseDevicesDialog \/ SubmitBackup
    BY <1>0, <2>1 DEF CloseDevicesDialog, SubmitBackup, Closed, Panels, Dialog
  <2>2. CASE AskDelete \/ CancelDelete \/ CloseBrowser
    BY <1>0, <2>2 DEF AskDelete, CancelDelete, CloseBrowser, Panels
  <2>3. ASSUME NEW p \in Path, ToggleBackupPath(p) PROVE panel' \in Panels
    <3>1. PICK s \in Toggled(p, panel.selected, panel.targets \cap Folder, panel.opened, panel.listing) :
            panel' = [panel EXCEPT !.selected = s]
      BY <2>3 DEF ToggleBackupPath
    <3>2. panel.selected \in SUBSET Path /\ panel.opened \in Folder \cup {Nobody}
      BY <1>0 DEF Panels
    <3>3. s \in SUBSET Path
      BY <3>1, <3>2, ToggledTypes
    <3> QED BY <1>0, <3>1, <3>3 DEF Panels
  <2> QED BY <2>1, <2>2, <2>3
<1> QED BY <1>0, <1>1, <1>2, OldTypes, DevicesKept

(* Requests of a dialog that change nothing on the server.                  *)
LEMMA DevicesSendTypes ==
  ASSUME DevicesInv,
         \/ SubmitForm \/ ConfirmDelete \/ \E f \in Folder : BrowseFolder(f) \/ OpenTarget(f)
  PROVE  DevicesInv'
<1>0. PathsTypeOK /\ panel \in Panels /\ panel.chosen \in Device \cup {Nobody} /\ panel.doomed \in Device \cup {Nobody}
  BY DEF DevicesInv, DevicesTypeOK, Panels
<1>1. PathsTypeOK'
  BY <1>0 DEF SubmitForm, ConfirmDelete, BrowseFolder, OpenTarget, PathsTypeOK, paths
<1>2. /\ panel \in Panels /\ [panel EXCEPT !.saving = TRUE] \in Panels
      /\ \A b \in BOOLEAN : [panel EXCEPT !.saving = TRUE, !.crossed = b] \in Panels
  BY <1>0 DEF Panels
<1>3. PICK kind \in DevicesKind, d \in Device \cup {Nobody}, p \in Path \cup {Nobody}, next \in Panels :
        /\ Send(Ask(kind, d, p, {}), next)
        /\ kind \in {"form", "delete"} \/ (kind \in {"list", "open"} /\ p \in Folder)
  <2>1. CASE SubmitForm
    BY <1>0, <1>2, <2>1 DEF SubmitForm, DevicesKind
  <2>2. CASE ConfirmDelete
    BY <1>0, <1>2, <2>2 DEF ConfirmDelete, DevicesKind
  <2>3. ASSUME NEW f \in Folder, BrowseFolder(f) \/ OpenTarget(f)
        PROVE  \E kind \in DevicesKind, d \in Device \cup {Nobody}, p \in Path \cup {Nobody}, next \in Panels :
                 /\ Send(Ask(kind, d, p, {}), next)
                 /\ kind \in {"form", "delete"} \/ (kind \in {"list", "open"} /\ p \in Folder)
    <3>1. f \in Path
      BY PathsOfFolders
    <3>2. PICK kind \in {"list", "open"}, next \in Panels : Send(Ask(kind, panel.chosen, f, {}), next)
      <4>1. CASE BrowseFolder(f)
        BY <1>2, <4>1 DEF BrowseFolder
      <4>2. CASE OpenTarget(f)
        <5>1. (panel.crossed \/ \E q \in sent : q.kind = "open") \in BOOLEAN
          BY <1>0 DEF Panels
        <5> QED BY <1>2, <4>2, <5>1 DEF OpenTarget
      <4> QED BY <2>3, <4>1, <4>2
    <3>3. kind \in DevicesKind
      BY DEF DevicesKind
    <3> QED BY <1>0, <3>1, <3>2, <3>3
  <2> QED BY <2>1, <2>2, <2>3
<1>4. Asked(Ask(kind, d, p, {})) /\ Named(Ask(kind, d, p, {}))
  BY <1>3, DevicesAskTypes DEF Ask, Named
<1> QED BY <1>1, <1>3, <1>4, SendTypes

(* Requests that change the server's paths, or are refused.                 *)
LEMMA ChangeTypes ==
  ASSUME DevicesInv, NEW kind \in {"addPath", "removePath", "ownCustom", "commonCustom"},
         NEW d \in Device \cup {Nobody}, NEW p \in Path, kind = "ownCustom" => d \in Device,
         Send(Ask(kind, d, p, {}), panel) \/ Send([Ask(kind, d, p, {}) EXCEPT !.ok = FALSE], panel),
         PathsTypeOK'
  PROVE  DevicesInv'
<1>0. panel \in Panels /\ kind \in DevicesKind
  BY DEF DevicesInv, DevicesTypeOK, Panels, DevicesKind
<1>1. Asked(Ask(kind, d, p, {})) /\ Named(Ask(kind, d, p, {}))
  BY <1>0, DevicesAskTypes DEF Ask, Named
<1>2. PICK refused : refused = [Ask(kind, d, p, {}) EXCEPT !.ok = FALSE] /\ Asked(refused) /\ Named(refused)
  <2> DEFINE r == [Ask(kind, d, p, {}) EXCEPT !.ok = FALSE]
  <2>0. Asked(r) /\ Asks(r, kind, d, p, {}, FALSE)
    BY <1>0, DevicesAskTypes, AskFields
  <2> HIDE DEF r
  <2>1. r.kind = kind /\ r.path = p /\ r.device = d
    BY <2>0 DEF Asks
  <2>2. Named(r)
    BY <2>1 DEF Named
  <2>3. \E refused : refused = r /\ Asked(refused) /\ Named(refused)
    BY <2>0, <2>2
  <2> QED BY <2>3 DEF r
<1> QED BY <1>0, <1>1, <1>2, SendTypes

LEMMA OwnTypes ==
  ASSUME PathsTypeOK, NEW d, NEW ps \in SUBSET Path,
         \/ OwnPaths(d, ps) \/ CommonPaths(ps) \/ UNCHANGED paths
  PROVE  PathsTypeOK'
BY DEF PathsTypeOK, OwnPaths, CommonPaths, paths

LEMMA PathSteps ==
  ASSUME DevicesInv,
         \/ \E p \in Typed : AddDevicePath(p) \/ AddCustomPath(p)
         \/ \E p \in Path : RemoveDevicePath(p)
  PROVE  DevicesInv'
<1>0. /\ PathsTypeOK /\ panel \in Panels /\ panel.chosen \in Device \cup {Nobody}
      /\ \A d \in Device : own[d] \in SUBSET Path
      /\ common \in SUBSET Path
  BY DEF DevicesInv, DevicesTypeOK, Panels, PathsTypeOK
<1>1. ASSUME NEW p \in Typed, AddDevicePath(p) PROVE DevicesInv'
  <2>1. p \in Path /\ panel.chosen \in Device
    BY <1>0, <1>1, PathsOK DEF AddDevicePath
  <2>2. \/ Send(Ask("addPath", panel.chosen, p, {}), panel)
           /\ OwnPaths(panel.chosen, own[panel.chosen] \cup {p})
        \/ Send([Ask("addPath", panel.chosen, p, {}) EXCEPT !.ok = FALSE], panel) /\ UNCHANGED paths
    BY <1>1 DEF AddDevicePath, Change
  <2>3. own[panel.chosen] \cup {p} \in SUBSET Path
    BY <1>0, <2>1
  <2>4. PathsTypeOK'
    BY <1>0, <2>2, <2>3, OwnTypes
  <2> QED BY <2>1, <2>2, <2>4, ChangeTypes
<1>2. ASSUME NEW p \in Typed, AddCustomPath(p) PROVE DevicesInv'
  <2>1. p \in Path
    BY PathsOK
  <2>2. CASE panel.chosen \in Computer
    <3>1. panel.chosen \in Device
      BY <2>2, DevicesOK
    <3>2. \/ Send(Ask("ownCustom", panel.chosen, p, {}), panel)
             /\ OwnPaths(panel.chosen, own[panel.chosen] \cup {p})
          \/ Send([Ask("ownCustom", panel.chosen, p, {}) EXCEPT !.ok = FALSE], panel) /\ UNCHANGED paths
      BY <1>2, <2>2 DEF AddCustomPath, Change
    <3>3. own[panel.chosen] \cup {p} \in SUBSET Path
      BY <1>0, <2>1, <3>1
    <3>4. PathsTypeOK'
      BY <1>0, <3>2, <3>3, OwnTypes
    <3> QED BY <2>1, <3>1, <3>2, <3>4, ChangeTypes
  <2>3. CASE panel.chosen \notin Computer
    <3>2. \/ Send(Ask("commonCustom", Nobody, p, {}), panel) /\ CommonPaths(common \cup {p})
          \/ Send([Ask("commonCustom", Nobody, p, {}) EXCEPT !.ok = FALSE], panel) /\ UNCHANGED paths
      BY <1>2, <2>3 DEF AddCustomPath, Change
    <3>3. common \cup {p} \in SUBSET Path
      BY <1>0, <2>1
    <3>4. PathsTypeOK'
      BY <1>0, <3>2, <3>3, OwnTypes
    <3> QED BY <2>1, <3>2, <3>4, ChangeTypes
  <2> QED BY <2>2, <2>3
<1>3. ASSUME NEW p \in Path, RemoveDevicePath(p) PROVE DevicesInv'
  <2>1. panel.chosen \in Device
    BY <1>0, <1>3 DEF RemoveDevicePath
  <2>2. \/ Send(Ask("removePath", panel.chosen, p, {}), panel)
           /\ OwnPaths(panel.chosen, own[panel.chosen] \ {p})
        \/ Send([Ask("removePath", panel.chosen, p, {}) EXCEPT !.ok = FALSE], panel) /\ UNCHANGED paths
    BY <1>3 DEF RemoveDevicePath, Change
  <2>3. own[panel.chosen] \ {p} \in SUBSET Path
    BY <1>0, <2>1
  <2>4. PathsTypeOK'
    BY <1>0, <2>2, <2>3, OwnTypes
  <2> QED BY <2>1, <2>2, <2>4, ChangeTypes
<1> QED BY <1>1, <1>2, <1>3

LEMMA AfterTypes ==
  ASSUME DevicesInv, NEW q \in sent
  PROVE  After(q) \in Panels
<1>0. panel \in Panels /\ q \in DevicesRequest /\ Named(q)
  BY DEF DevicesInv, DevicesTypeOK, Panels
<1>1. Inside(q.path) \subseteq Path /\ (q.kind \in {"list", "open"} => q.path \in Folder)
      /\ (q.kind \in {"addPath", "removePath", "reload", "commonCustom"} => q.path \in Path)
      /\ q.seen \subseteq Path
  BY <1>0, PathsOfFolders DEF Named, DevicesRequest
<1>2. CASE q.kind \in {"paths", "addPath", "removePath"}
  BY <1>0, <1>1, <1>2 DEF After, Panels
<1>3. CASE q.kind \in {"form", "delete"}
  <2>1. After(q) = [panel EXCEPT !.dialog = IF @ \in {"add", "edit"} THEN "none" ELSE @,
                      !.chosen = Nobody, !.saving = FALSE,
                      !.doomed = IF q.kind = "delete" THEN Nobody ELSE @]
    BY <1>3 DEF After
  <2> QED BY <1>0, <2>1 DEF Panels, Dialog
<1>4. CASE q.kind \in {"list", "open"}
  BY <1>0, <1>1, <1>4 DEF After, Panels
<1>5. CASE q.kind \in {"targets", "reload"}
  BY <1>0, <1>1, <1>5 DEF After, Panels
<1>6. CASE q.kind \in {"commonCustom", "ownCustom"}
  BY <1>0, <1>1, <1>6 DEF After, Panels
<1>7. q.kind \in DevicesKind
  BY <1>0 DEF DevicesRequest
<1> QED BY <1>2, <1>3, <1>4, <1>5, <1>6, <1>7 DEF DevicesKind

LEMMA DevicesReplyTypes ==
  ASSUME DevicesInv, NEW q \in sent, DevicesReply(q) \/ DevicesReplyFails(q)
  PROVE  DevicesInv'
<1>0. /\ PathsTypeOK /\ panel \in Panels /\ q \in DevicesRequest /\ Named(q)
      /\ sent \subseteq DevicesRequest /\ \A r \in sent : Named(r)
  BY DEF DevicesInv, DevicesTypeOK, Panels
<1>1. PathsTypeOK'
  BY <1>0 DEF DevicesReply, DevicesReplyFails, PathsTypeOK, paths
<1>2. After(q) \in Panels
  BY AfterTypes
<1>3. \A next \in Panels : Stained(next, q) \in Panels
  <2> TAKE next \in Panels
  <2>1. (next.mixed \/ ~q.mine) \in BOOLEAN /\ (next.crossed /\ Awaited(sent \ {q}) # {}) \in BOOLEAN
    BY <1>0 DEF DevicesRequest, Panels
  <2> QED BY <2>1 DEF Stained, Panels
<1>4. CASE DevicesReply(q)
  <2>1. CASE q.kind = "ownCustom"
    <3>00. PICK r : r = [q EXCEPT !.kind = "reload", !.seen = TargetsOf(q.device)]
      OBVIOUS
    <3>1. q.device \in Device /\ q.path \in Path
      BY <1>0, <2>1 DEF Named
    <3>2. TargetsOf(q.device) \in SUBSET Path
      BY <1>0, <3>1, PathsOfFolders
    <3>0. /\ IsRequest(r) /\ r.kind = "reload" /\ r.seen = TargetsOf(q.device) /\ r.device = q.device
          /\ r.path = q.path /\ r.ok = q.ok /\ r.mine = q.mine
      BY <1>0, <3>00, ReloadFields
    <3>3. Asked(r) /\ r.kind = "reload" /\ r.path = q.path
      BY <1>0, <3>0, <3>2 DEF Asked, DevicesRequest, DevicesKind
    <3>4. Named(r)
      BY <3>1, <3>3 DEF Named
    <3>5. Sending(r, sent \ {q}) /\ panel' = panel
      BY <1>4, <2>1, <3>00 DEF DevicesReply
    <3>6. sent' \subseteq DevicesRequest /\ \A x \in sent' : Named(x)
      BY <1>0, <3>3, <3>4, <3>5, SendingTypes
    <3> QED BY <1>0, <1>1, <3>5, <3>6, DevicesKept
  <2>2. CASE q.kind # "ownCustom"
    <3>1. sent' = Others(q) /\ panel' = Stained(After(q), q)
      BY <1>4, <2>2 DEF DevicesReply
    <3>2. panel' \in Panels
      BY <1>2, <1>3, <3>1
    <3>3. sent' \subseteq sent \cup Old
      BY <3>1 DEF Others, Old
    <3> QED BY <1>0, <1>1, <3>2, <3>3, OldTypes, DevicesKept
  <2> QED BY <2>1, <2>2
<1>5. CASE DevicesReplyFails(q)
  <2>1. PICK next \in Panels, flag \in BOOLEAN, targets \in SUBSET Path :
          panel' = [next EXCEPT !.calm = FALSE, !.saving = flag, !.targets = targets]
    <3> DEFINE next == Stained(panel, q)
    <3>1. next \in Panels
      BY <1>0, <1>3
    <3>2. /\ panel' = [next EXCEPT !.calm = FALSE,
                         !.saving = IF q.kind \in {"form", "delete", "open"} THEN FALSE ELSE next.saving,
                         !.targets = IF q.kind = "targets" THEN {} ELSE next.targets]
      BY <1>5 DEF DevicesReplyFails
    <3>3. next.saving \in BOOLEAN /\ next.targets \in SUBSET Path
      BY <3>1 DEF Panels
    <3> HIDE DEF next
    <3> QED BY <3>1, <3>2, <3>3
  <2>2. panel' \in Panels
    BY <2>1 DEF Panels
  <2>3. sent' \subseteq sent
    BY <1>5 DEF DevicesReplyFails
  <2> QED BY <1>0, <1>1, <2>2, <2>3, DevicesKept
<1> QED BY <1>4, <1>5

LEMMA DevicesNextTypes == DevicesInv /\ (DevicesNext \/ UNCHANGED <<devicesVars, paths>>) => DevicesInv'
<1> SUFFICES ASSUME DevicesInv, DevicesNext \/ UNCHANGED <<devicesVars, paths>> PROVE DevicesInv'
  OBVIOUS
<1>1. CASE OpenAdd \/ \E d \in Device : OpenEdit(d) \/ OpenBrowse(d) \/ OpenBackup(d)
  BY <1>1, OpenTypes
<1>2. CASE \/ CloseDevicesDialog \/ SubmitBackup \/ AskDelete \/ CancelDelete \/ CloseBrowser
           \/ \E p \in Path : ToggleBackupPath(p)
  BY <1>2, PanelTypes
<1>3. CASE SubmitForm \/ ConfirmDelete \/ \E f \in Folder : BrowseFolder(f) \/ OpenTarget(f)
  BY <1>3, DevicesSendTypes
<1>4. CASE \/ \E p \in Typed : AddDevicePath(p) \/ AddCustomPath(p)
           \/ \E p \in Path : RemoveDevicePath(p)
  BY <1>4, PathSteps
<1>5. CASE \E q \in sent : DevicesReply(q) \/ DevicesReplyFails(q)
  BY <1>5, DevicesReplyTypes
<1>6. CASE UNCHANGED <<devicesVars, paths>>
  <2>1. UNCHANGED <<panel, sent, own, common>>
    BY <1>6 DEF devicesVars, paths
  <2>2. PathsTypeOK' /\ panel \in Panels
    BY <2>1 DEF DevicesInv, DevicesTypeOK, Panels, PathsTypeOK
  <2> QED BY <2>1, <2>2, DevicesKept DEF DevicesInv, DevicesTypeOK
<1> QED BY <1>1, <1>2, <1>3, <1>4, <1>5, <1>6 DEF DevicesNext, DevicesStep

-----------------------------------------------------------------------------
(* Which requests the dialog on screen can have sent; and what `saving` is  *)
(* for: it falls once nothing is awaited, and while no two folders were     *)
(* being opened at once it is set as long as the one awaited request of the *)
(* dialog on screen is.                                                     *)
KindsOf(dialog) ==
  CASE dialog = "browse" -> {"list"}
    [] dialog = "backup" -> {"targets", "open", "ownCustom", "reload", "commonCustom"}
    [] OTHER -> {"paths", "addPath", "removePath", "form", "delete"}

KindsFit ==
  /\ \A q \in sent : q.mine => q.kind \in KindsOf(panel.dialog)
  /\ panel.doomed # Nobody => panel.dialog \in {"none", "edit"}
AwaitedOnce ==
  /\ Awaited(sent) = {} => ~panel.saving
  /\ ~panel.crossed =>
       /\ \A q, r \in Awaited(sent) : q = r
       /\ Awaited(sent) # {} => panel.saving /\ ~AtTable
       /\ \A q \in Awaited(sent) : q.mine

FormsInv == DevicesInv /\ KindsFit /\ AwaitedOnce

LEMMA OldIsNotMine ==
  ASSUME DevicesInv
  PROVE  \A q \in Old : ~q.mine
<1> SUFFICES ASSUME NEW q \in sent PROVE ~[q EXCEPT !.mine = FALSE].mine
  BY DEF Old
<1>1. q \in DevicesRequest
  BY DEF DevicesInv, DevicesTypeOK
<1> QED BY <1>1 DEF DevicesRequest

LEMMA AwaitedOld ==
  ASSUME DevicesInv
  PROVE  Awaited(Old) = {} <=> Awaited(sent) = {}
<1>1. \A q \in sent : [q EXCEPT !.mine = FALSE].kind = q.kind
  BY DEF DevicesInv, DevicesTypeOK, DevicesRequest
<1> QED BY <1>1 DEF Awaited, Old

LEMMA DialogsForms ==
  ASSUME FormsInv,
         \/ OpenAdd \/ \E d \in Device : OpenEdit(d) \/ OpenBrowse(d) \/ OpenBackup(d)
         \/ CloseDevicesDialog \/ SubmitBackup
  PROVE  KindsFit' /\ AwaitedOnce'
<1>0. DevicesInv /\ panel \in Panels
  BY DEF FormsInv, DevicesInv, DevicesTypeOK, Panels
<1>1. PICK new : sent' = Old \cup new /\ \A q \in new : q.kind \in KindsOf(panel'.dialog) \ AwaitedKind
  <2>1. CASE OpenAdd \/ CloseDevicesDialog \/ SubmitBackup
    <3> DEFINE new == {}
    <3>1. sent' = Old \cup new /\ \A q \in new : q.kind \in KindsOf(panel'.dialog) \ AwaitedKind
      BY <2>1 DEF OpenAdd, CloseDevicesDialog, SubmitBackup
    <3> HIDE DEF new
    <3> QED BY <3>1
  <2>2. ASSUME NEW d \in Device, NEW kind \in {"paths", "list", "targets"}, NEW p, NEW seen,
               Sending(Ask(kind, d, p, seen), Old), kind \in KindsOf(panel'.dialog)
        PROVE  \E new : sent' = Old \cup new /\ \A q \in new : q.kind \in KindsOf(panel'.dialog) \ AwaitedKind
    <3>0. PICK q : Sending(q, Old) /\ Asks(q, kind, d, p, seen, TRUE)
      BY <2>2, AskFields
    <3>1. PICK r : Alike(r, q) /\ sent' = Old \cup {r}
      BY <3>0, Numbered DEF Asks
    <3> DEFINE new == {r}
    <3>2. \A x \in new : x.kind = kind
      BY <3>0, <3>1 DEF Asks, Alike
    <3>3. kind \notin AwaitedKind
      BY DEF AwaitedKind
    <3>4. sent' = Old \cup new
      BY <3>1
    <3> HIDE DEF new
    <3> QED BY <2>2, <3>2, <3>3, <3>4
  <2>3. ASSUME NEW d \in Device, OpenEdit(d) \/ OpenBrowse(d) \/ OpenBackup(d)
        PROVE  \E new : sent' = Old \cup new /\ \A q \in new : q.kind \in KindsOf(panel'.dialog) \ AwaitedKind
    <3>1. CASE OpenEdit(d)
      <4>1. panel'.dialog = "edit"
        BY <1>0, <3>1 DEF OpenEdit, Open, Panels
      <4> QED BY <2>2, <3>1, <4>1 DEF OpenEdit, KindsOf
    <3>2. CASE OpenBrowse(d)
      <4>1. panel'.dialog = "browse"
        BY <1>0, <3>2 DEF OpenBrowse, Open, Panels
      <4> QED BY <2>2, <3>2, <4>1 DEF OpenBrowse, KindsOf
    <3>3. CASE OpenBackup(d)
      <4>1. panel'.dialog = "backup"
        BY <1>0, <3>3 DEF OpenBackup, Open, Panels
      <4> QED BY <2>2, <3>3, <4>1 DEF OpenBackup, KindsOf
    <3> QED BY <2>3, <3>1, <3>2, <3>3
  <2> QED BY <2>1, <2>3
<1>2. /\ panel'.doomed = Nobody /\ panel'.saving = panel.saving /\ panel'.crossed = panel.crossed
      /\ AtTable \/ ~panel.saving
  <2>1. CASE OpenAdd \/ \E d \in Device : OpenEdit(d) \/ OpenBrowse(d) \/ OpenBackup(d)
    BY <1>0, <2>1 DEF OpenAdd, OpenEdit, OpenBrowse, OpenBackup, Open, AtTable, Panels
  <2>2. CASE CloseDevicesDialog \/ SubmitBackup
    BY <1>0, <2>2 DEF CloseDevicesDialog, SubmitBackup, InDialog, Closed, Panels
  <2> QED BY <2>1, <2>2
<1>3. KindsFit'
  BY <1>0, <1>1, <1>2, OldIsNotMine DEF KindsFit
<1>4. Awaited(sent') = {} <=> Awaited(sent) = {}
  <2>1. Awaited(sent') = Awaited(Old)
    BY <1>1 DEF Awaited
  <2> QED BY <1>0, <2>1, AwaitedOld
<1>5. ~panel.crossed => Awaited(sent) = {}
  BY <1>2 DEF FormsInv, AwaitedOnce
<1> QED BY <1>2, <1>3, <1>4, <1>5 DEF FormsInv, AwaitedOnce

LEMMA QuietForms ==
  ASSUME FormsInv, AskDelete \/ CancelDelete \/ CloseBrowser \/ \E p \in Path : ToggleBackupPath(p)
  PROVE  KindsFit' /\ AwaitedOnce'
<1>0. panel \in Panels
  BY DEF FormsInv, DevicesInv, DevicesTypeOK, Panels
<1>1. /\ sent' = sent /\ panel'.dialog = panel.dialog /\ panel'.crossed = panel.crossed
      /\ panel'.saving = panel.saving /\ (panel'.doomed \in {Nobody, panel.doomed} \/ panel.dialog = "edit")
      /\ panel'.doomed = panel.doomed \/ ~panel.saving
  BY <1>0 DEF AskDelete, CancelDelete, CloseBrowser, ToggleBackupPath, InDialog, Panels
<1> QED BY <1>1 DEF FormsInv, KindsFit, AwaitedOnce, AtTable

(* A request that nothing is awaited of leaves what is awaited alone.       *)
LEMMA SendForms ==
  ASSUME FormsInv, NEW q, IsRequest(q), Send(q, panel), q.kind \in KindsOf(panel.dialog), q.kind \notin AwaitedKind
  PROVE  KindsFit' /\ AwaitedOnce'
<1>0. panel \in Panels
  BY DEF FormsInv, DevicesInv, DevicesTypeOK, Panels
<1>1. PICK r : Alike(r, q) /\ sent' = sent \cup {r}
  BY Numbered DEF Send
<1>2. /\ panel'.dialog = panel.dialog /\ panel'.saving = panel.saving /\ panel'.doomed = panel.doomed
      /\ panel'.crossed = panel.crossed
  BY <1>0 DEF Send, Panels
<1>3. KindsFit'
  BY <1>1, <1>2 DEF FormsInv, KindsFit, Alike
<1>4. Awaited(sent') = Awaited(sent)
  BY <1>1 DEF Awaited, Alike
<1> QED BY <1>2, <1>3, <1>4 DEF FormsInv, AwaitedOnce, AtTable

(* A form, a deletion or an opening.                                        *)
LEMMA AwaitedForms ==
  ASSUME FormsInv, NEW q, IsRequest(q), NEW next \in Panels, Send(q, next),
         next.dialog = panel.dialog, next.doomed = panel.doomed, next.saving, ~AtTable,
         q.kind \in KindsOf(panel.dialog), q.kind \in AwaitedKind, q.mine,
         ~next.crossed => ~panel.crossed /\ Awaited(sent) = {}
  PROVE  KindsFit' /\ AwaitedOnce'
<1>1. PICK r : Alike(r, q) /\ sent' = sent \cup {r}
  BY Numbered DEF Send
<1>2. /\ panel'.dialog = panel.dialog /\ panel'.saving /\ panel'.doomed = panel.doomed
      /\ panel'.crossed = next.crossed
  BY DEF Send, Panels
<1>3. KindsFit'
  BY <1>1, <1>2 DEF FormsInv, KindsFit, Alike
<1>4. Awaited(sent') = Awaited(sent) \cup {r}
  BY <1>1 DEF Awaited, Alike
<1> QED BY <1>1, <1>2, <1>3, <1>4 DEF AwaitedOnce, AtTable, Alike

LEMMA DevicesSendForms ==
  ASSUME FormsInv,
         \/ SubmitForm \/ ConfirmDelete
         \/ \E f \in Folder : BrowseFolder(f) \/ OpenTarget(f)
         \/ \E p \in Typed : AddDevicePath(p) \/ AddCustomPath(p)
         \/ \E p \in Path : RemoveDevicePath(p)
  PROVE  KindsFit' /\ AwaitedOnce'
<1>0. panel \in Panels
  BY DEF FormsInv, DevicesInv, DevicesTypeOK, Panels
<1>1. CASE SubmitForm \/ ConfirmDelete
  <2>1. PICK next \in Panels : next = [panel EXCEPT !.saving = TRUE]
    BY <1>0 DEF Panels
  <2>2. /\ next.dialog = panel.dialog /\ next.doomed = panel.doomed
        /\ next.crossed = panel.crossed /\ next.saving = TRUE
    BY <1>0, <2>1 DEF Panels
  <2>3. PICK q : IsRequest(q) /\ Send(q, next) /\ q.kind \in {"form", "delete"} /\ q.mine
    <3>1. CASE SubmitForm
      BY <2>1, <3>1, AskFields DEF Asks, SubmitForm
    <3>2. CASE ConfirmDelete
      BY <2>1, <3>2, AskFields DEF Asks, ConfirmDelete
    <3> QED BY <1>1, <3>1, <3>2
  <2>4. ~panel.saving /\ ~AtTable /\ panel.dialog \in {"none", "add", "edit"}
    BY <1>1 DEF SubmitForm, ConfirmDelete, InDialog, AtTable, FormsInv, KindsFit
  <2>5. q.kind \in KindsOf(panel.dialog) /\ q.kind \in AwaitedKind
    BY <2>3, <2>4 DEF KindsOf, AwaitedKind
  <2>6. ~panel.crossed => Awaited(sent) = {}
    BY <2>4 DEF FormsInv, AwaitedOnce
  <2> QED BY <2>2, <2>3, <2>4, <2>5, <2>6, AwaitedForms
<1>2. ASSUME NEW f \in Folder, OpenTarget(f) PROVE KindsFit' /\ AwaitedOnce'
  <2>1. PICK next : next = [panel EXCEPT !.saving = TRUE, !.crossed = @ \/ \E q \in sent : q.kind = "open"]
    OBVIOUS
  <2>2. (panel.crossed \/ \E q \in sent : q.kind = "open") \in BOOLEAN
    BY <1>0 DEF Panels
  <2>3. /\ next \in Panels /\ next.dialog = panel.dialog /\ next.doomed = panel.doomed /\ next.saving = TRUE
        /\ next.crossed = (panel.crossed \/ \E q \in sent : q.kind = "open")
    BY <1>0, <2>1, <2>2 DEF Panels
  <2>40. PICK q : Send(q, next) /\ Asks(q, "open", panel.chosen, f, {}, TRUE)
    BY <1>2, <2>1, AskFields DEF OpenTarget
  <2>4. IsRequest(q) /\ Send(q, next) /\ q.kind = "open" /\ q.mine
    BY <2>40 DEF Asks
  <2>5. panel.dialog = "backup" /\ ~AtTable
    BY <1>2 DEF OpenTarget, InDialog, AtTable
  <2>6. q.kind \in KindsOf(panel.dialog) /\ q.kind \in AwaitedKind
    BY <2>4, <2>5 DEF KindsOf, AwaitedKind
  <2>7. ~next.crossed => ~panel.crossed /\ Awaited(sent) = {}
    BY <2>3, <2>5 DEF FormsInv, KindsFit, AwaitedOnce, Awaited, AwaitedKind, KindsOf
  <2> QED BY <2>3, <2>4, <2>5, <2>6, <2>7, AwaitedForms
<1>3. ASSUME NEW f \in Folder, BrowseFolder(f) PROVE KindsFit' /\ AwaitedOnce'
  <2>0. PICK q : Send(q, panel) /\ Asks(q, "list", panel.chosen, f, {}, TRUE)
    BY <1>3, AskFields DEF BrowseFolder
  <2>1. IsRequest(q) /\ Send(q, panel) /\ q.kind = "list"
    BY <2>0 DEF Asks
  <2>2. panel.dialog = "browse"
    BY <1>3 DEF BrowseFolder, InDialog
  <2> QED BY <2>1, <2>2, SendForms DEF KindsOf, AwaitedKind
<1>5. ASSUME NEW kind \in {"addPath", "removePath", "ownCustom", "commonCustom"}, NEW d, NEW p, NEW changed,
             Change(Ask(kind, d, p, {}), panel, changed),
             kind \in KindsOf(panel.dialog)
      PROVE  KindsFit' /\ AwaitedOnce'
  <2>1. PICK q : IsRequest(q) /\ Send(q, panel) /\ q.kind = kind
    <3>1. PICK q : Send(q, panel) /\ (Asks(q, kind, d, p, {}, TRUE) \/ Asks(q, kind, d, p, {}, FALSE))
      BY <1>5, AskFields DEF Change
    <3> QED BY <3>1 DEF Asks
  <2> QED BY <1>5, <2>1, SendForms DEF AwaitedKind
<1>6. ASSUME NEW p, AddDevicePath(p) \/ AddCustomPath(p) \/ RemoveDevicePath(p)
      PROVE  KindsFit' /\ AwaitedOnce'
  BY <1>5, <1>6 DEF AddDevicePath, AddCustomPath, RemoveDevicePath, InDialog, KindsOf
<1> QED BY <1>1, <1>2, <1>3, <1>6

(* A reply to what was awaited clears `saving`; others leave it alone.      *)
LEMMA ReplyForms ==
  ASSUME FormsInv, NEW q \in sent, DevicesReply(q) \/ DevicesReplyFails(q)
  PROVE  KindsFit' /\ AwaitedOnce'
<1>0. panel \in Panels /\ sent \subseteq DevicesRequest /\ q \in DevicesRequest /\ panel' \in Panels
  BY DevicesReplyTypes DEF FormsInv, DevicesInv, DevicesTypeOK, Panels
<1>1. CASE DevicesReply(q) /\ q.kind = "ownCustom"
  <2>0. PICK asks : asks = [q EXCEPT !.kind = "reload", !.seen = TargetsOf(q.device)]
    OBVIOUS
  <2>1. asks.kind = "reload" /\ asks.mine = q.mine /\ IsRequest(asks)
    BY <1>0, <2>0, ReloadFields
  <2>2. Sending(asks, sent \ {q}) /\ panel' = panel
    BY <1>1, <2>0 DEF DevicesReply
  <2>3. PICK new : Alike(new, asks) /\ sent' = (sent \ {q}) \cup {new}
    BY <2>1, <2>2, Numbered
  <2>4. Awaited(sent') = Awaited(sent)
    BY <1>1, <2>1, <2>3 DEF Awaited, AwaitedKind, Alike
  <2>5. KindsFit'
    BY <1>1, <2>1, <2>2, <2>3 DEF FormsInv, KindsFit, KindsOf, Alike
  <2> QED BY <2>2, <2>4, <2>5 DEF FormsInv, AwaitedOnce, AtTable
(* What is left of what was awaited, however it is answered.                *)
<1>2. ASSUME \/ sent' = sent \ {q}
             \/ sent' = {[r EXCEPT !.mine = FALSE] : r \in sent \ {q}} /\ q.kind \in {"form", "delete"},
             panel'.crossed = (panel.crossed /\ Awaited(sent \ {q}) # {}),
             q.kind \in AwaitedKind => ~panel'.saving,
             q.kind \notin AwaitedKind => /\ panel'.saving = panel.saving /\ panel'.dialog = panel.dialog
                                          /\ panel'.doomed = panel.doomed
      PROVE  AwaitedOnce'
  <2>1. Awaited(sent') = {} <=> Awaited(sent \ {q}) = {}
    <3>1. \A r \in sent : [r EXCEPT !.mine = FALSE].kind = r.kind
      BY <1>0 DEF DevicesRequest
    <3>2. CASE sent' = {[r EXCEPT !.mine = FALSE] : r \in sent \ {q}}
      <4>1. ASSUME NEW r \in sent', r.kind \in AwaitedKind PROVE \E x \in sent \ {q} : x.kind \in AwaitedKind
        BY <3>1, <3>2, <4>1
      <4>2. ASSUME NEW x \in sent \ {q}, x.kind \in AwaitedKind PROVE \E r \in sent' : r.kind \in AwaitedKind
        BY <3>1, <3>2, <4>2
      <4> QED BY <4>1, <4>2 DEF Awaited
    <3> QED BY <1>2, <3>2
  <2>2. CASE q.kind \in AwaitedKind
    <3>1. ~panel.crossed => Awaited(sent \ {q}) = {}
      BY <2>2 DEF FormsInv, AwaitedOnce, Awaited
    <3> QED BY <1>2, <2>1, <2>2, <3>1 DEF AwaitedOnce
  <2>3. CASE q.kind \notin AwaitedKind
    <3>1. sent' = sent \ {q} /\ Awaited(sent') = Awaited(sent)
      BY <1>2, <2>3 DEF Awaited, AwaitedKind
    <3> QED BY <1>2, <2>1, <2>3, <3>1 DEF FormsInv, AwaitedOnce, AtTable
  <2> QED BY <2>2, <2>3
<1>3. CASE DevicesReply(q) /\ q.kind # "ownCustom"
  <2>0. sent' = Others(q) /\ panel' = Stained(After(q), q) /\ After(q) \in Panels
    BY <1>0, <1>3, AfterTypes DEF DevicesReply, FormsInv
  <2>00. q.kind \in DevicesKind
    BY <1>0 DEF DevicesRequest
  <2>1. /\ After(q).crossed = panel.crossed
        /\ q.kind \in AwaitedKind => ~After(q).saving
        /\ q.kind \notin AwaitedKind => After(q).saving = panel.saving
        /\ q.kind \notin {"form", "delete"} => After(q).dialog = panel.dialog /\ After(q).doomed = panel.doomed
        /\ q.kind \in {"form", "delete"} =>
             /\ After(q).dialog = (IF panel.dialog \in {"add", "edit"} THEN "none" ELSE panel.dialog)
             /\ After(q).doomed \in {Nobody, panel.doomed}
    <3>1. CASE q.kind \in {"paths", "addPath", "removePath"}
      BY <1>0, <3>1 DEF After, Panels, AwaitedKind
    <3>2. CASE q.kind \in {"list", "open"}
      BY <1>0, <3>2 DEF After, Panels, AwaitedKind
    <3>3. CASE q.kind \in {"targets", "reload"}
      BY <1>0, <3>3 DEF After, Panels, AwaitedKind
    <3>4. CASE q.kind = "commonCustom"
      BY <1>0, <3>4 DEF After, Panels, AwaitedKind
    <3>5. CASE q.kind \in {"form", "delete"}
      BY <1>0, <3>5 DEF After, Panels, AwaitedKind
    <3> QED BY <1>3, <2>00, <3>1, <3>2, <3>3, <3>4, <3>5 DEF DevicesKind
  <2>2. /\ panel'.dialog = After(q).dialog /\ panel'.doomed = After(q).doomed /\ panel'.saving = After(q).saving
        /\ panel'.crossed = (panel.crossed /\ Awaited(sent \ {q}) # {})
    <3> HIDE DEF After
    <3> QED BY <2>0, <2>1 DEF Stained, Panels
  <2>3. \/ sent' = sent \ {q}
        \/ sent' = {[r EXCEPT !.mine = FALSE] : r \in sent \ {q}} /\ q.kind \in {"form", "delete"}
    <3> HIDE DEF After
    <3> QED BY <2>0, <2>1 DEF Others
  <2>4. AwaitedOnce'
    <3> HIDE DEF After
    <3> QED BY <1>2, <2>1, <2>2, <2>3 DEF AwaitedKind
  <2>5. KindsFit'
    <3>1. CASE After(q).dialog = panel.dialog
      <4>1. sent' = sent \ {q}
        BY <2>0, <3>1 DEF Others
      <4> HIDE DEF After
      <4> QED BY <2>1, <2>2, <3>1, <4>1 DEF FormsInv, KindsFit
    <3>2. CASE After(q).dialog # panel.dialog
      <4>1. sent' = {[r EXCEPT !.mine = FALSE] : r \in sent \ {q}}
        BY <2>0, <3>2 DEF Others
      <4>2. \A r \in sent' : ~r.mine
        <5> SUFFICES ASSUME NEW r \in sent PROVE ~[r EXCEPT !.mine = FALSE].mine
          BY <4>1
        <5> QED BY <1>0 DEF DevicesRequest
      <4> HIDE DEF After
      <4> QED BY <2>1, <2>2, <3>2, <4>2 DEF FormsInv, KindsFit
    <3> QED BY <3>1, <3>2
  <2> QED BY <2>4, <2>5
<1>4. CASE DevicesReplyFails(q)
  <2>1. /\ sent' = sent \ {q} /\ panel'.dialog = panel.dialog /\ panel'.doomed = panel.doomed
        /\ panel'.crossed = (panel.crossed /\ Awaited(sent \ {q}) # {})
        /\ panel'.saving = IF q.kind \in AwaitedKind THEN FALSE ELSE panel.saving
    BY <1>0, <1>4, FailureFields
  <2>2. AwaitedOnce'
    BY <1>2, <2>1
  <2> QED BY <2>1, <2>2 DEF FormsInv, KindsFit
<1> QED BY <1>1, <1>3, <1>4

LEMMA FormsNextInv ==
  ASSUME FormsInv, DevicesNext
  PROVE  FormsInv'
<1>1. DevicesInv'
  BY DevicesNextTypes DEF FormsInv
<1>2. CASE \/ OpenAdd \/ \E d \in Device : OpenEdit(d) \/ OpenBrowse(d) \/ OpenBackup(d)
           \/ CloseDevicesDialog \/ SubmitBackup
  BY <1>1, <1>2, DialogsForms DEF FormsInv
<1>3. CASE AskDelete \/ CancelDelete \/ CloseBrowser \/ \E p \in Path : ToggleBackupPath(p)
  BY <1>1, <1>3, QuietForms DEF FormsInv
<1>4. CASE \/ SubmitForm \/ ConfirmDelete
           \/ \E f \in Folder : BrowseFolder(f) \/ OpenTarget(f)
           \/ \E p \in Typed : AddDevicePath(p) \/ AddCustomPath(p)
           \/ \E p \in Path : RemoveDevicePath(p)
  BY <1>1, <1>4, DevicesSendForms DEF FormsInv
<1>5. CASE \E q \in sent : DevicesReply(q) \/ DevicesReplyFails(q)
  BY <1>1, <1>5, ReplyForms DEF FormsInv
<1> QED BY <1>2, <1>3, <1>4, <1>5 DEF DevicesNext, DevicesStep

LEMMA FormsSentOnce ==
  ASSUME FormsInv
  PROVE  FormIsSentOnce
<1> SUFFICES ASSUME ~panel.crossed
             PROVE  /\ Cardinality(Awaited(sent)) <= 1 /\ panel.saving = (Awaited(sent) # {})
                    /\ \A q \in Awaited(sent) : q.mine
  BY DEF FormIsSentOnce
<1>1. panel.saving \in BOOLEAN
  BY DEF FormsInv, DevicesInv, DevicesTypeOK
<1>2. CASE Awaited(sent) = {}
  BY <1>1, <1>2, FS_EmptySet DEF FormsInv, AwaitedOnce
<1>3. CASE Awaited(sent) # {}
  <2>1. PICK q \in Awaited(sent) : Awaited(sent) = {q}
    BY <1>3 DEF FormsInv, AwaitedOnce
  <2>2. Cardinality({q}) = 1
    BY FS_Singleton
  <2> QED BY <1>1, <1>3, <2>1, <2>2 DEF FormsInv, AwaitedOnce
<1> QED BY <1>2, <1>3

-----------------------------------------------------------------------------
(* What the backup dialog holds, and what the replies it waits for will     *)
(* bring, are paths of the device it was opened for.                        *)
OfDevice(p) == Covered(p, Offered(panel.chosen))
Suits(q) ==
  /\ q.kind \in {"targets", "reload"} => \A p \in q.seen : OfDevice(p)
  /\ q.kind \in {"open", "reload", "commonCustom", "ownCustom"} /\ q.ok => OfDevice(q.path)
  /\ q.kind = "ownCustom" /\ q.ok => q.device = panel.chosen

SelectionInv ==
  IF panel.dialog = "backup" /\ ~panel.mixed
  THEN /\ panel.chosen \in Device
       /\ \A p \in panel.selected \cup panel.targets : OfDevice(p)
       /\ panel.opened # Nobody => OfDevice(panel.opened) /\ panel.listing = Inside(panel.opened)
       /\ \A q \in sent : q.mine => Suits(q)
  ELSE ~panel.mixed => panel.targets = {}

LEMMA TargetsAreOffered == \A d \in Device : TargetsOf(d) \subseteq Offered(d)
BY DEF TargetsOf, Offered

LEMMA InsideIsCovered ==
  ASSUME NEW f, NEW p \in Inside(f), NEW offered, Covered(f, offered)
  PROVE  Covered(p, offered)
<1>1. p \in Path /\ f \in Above[p]
  BY DEF Inside
<1>2. Above[f] \subseteq Above[p]
  BY <1>1, NestedOK
<1> QED BY <1>1, <1>2 DEF Covered

(* The dialog only adds paths to the server's.                              *)
LEMMA StillOfDevice ==
  ASSUME panel'.chosen = panel.chosen, panel.chosen \in Device,
         own[panel.chosen] \subseteq own'[panel.chosen], common \subseteq common'
  PROVE  /\ \A p : OfDevice(p) => OfDevice(p)'
         /\ \A q : Suits(q) => Suits(q)'
<1>1. Offered(panel.chosen) \subseteq Offered(panel.chosen)'
  BY DEF Offered
<1>2. \A p : OfDevice(p) => OfDevice(p)'
  BY <1>1 DEF OfDevice, Covered
<1> QED BY <1>2 DEF Suits

LEMMA ElsewhereSelection ==
  ASSUME SelectionInv, panel'.dialog # "backup", panel.dialog # "backup",
         ~panel'.mixed => ~panel.mixed /\ panel'.targets = panel.targets
  PROVE  SelectionInv'
BY DEF SelectionInv

LEMMA DialogsSelection ==
  ASSUME FormsInv, SelectionInv,
         \/ OpenAdd \/ \E d \in Device : OpenEdit(d) \/ OpenBrowse(d) \/ OpenBackup(d)
         \/ CloseDevicesDialog \/ SubmitBackup
  PROVE  SelectionInv'
<1>0. panel \in Panels /\ DevicesInv
  BY DEF FormsInv, DevicesInv, DevicesTypeOK, Panels
<1>1. CASE CloseDevicesDialog \/ SubmitBackup
  <2>1. panel'.dialog = "none" /\ panel'.targets = {}
    BY <1>0, <1>1 DEF CloseDevicesDialog, SubmitBackup, Closed, Panels
  <2> QED BY <2>1 DEF SelectionInv
<1>2. CASE OpenAdd \/ \E d \in Device : OpenEdit(d) \/ OpenBrowse(d)
  <2>1. /\ panel.dialog = "none" /\ panel'.dialog \in {"add", "edit", "browse"}
        /\ panel'.targets = panel.targets /\ panel'.mixed = panel.mixed
    <3>1. CASE OpenAdd
      BY <1>0, <3>1 DEF OpenAdd, Open, AtTable, Panels
    <3>2. ASSUME NEW d \in Device, OpenEdit(d) PROVE /\ panel.dialog = "none" /\ panel'.dialog \in {"add", "edit", "browse"}
                 /\ panel'.targets = panel.targets /\ panel'.mixed = panel.mixed
      BY <1>0, <3>2 DEF OpenEdit, Open, AtTable, Panels
    <3>3. ASSUME NEW d \in Device, OpenBrowse(d) PROVE /\ panel.dialog = "none" /\ panel'.dialog \in {"add", "edit", "browse"}
                 /\ panel'.targets = panel.targets /\ panel'.mixed = panel.mixed
      BY <1>0, <3>3 DEF OpenBrowse, Open, AtTable, Panels
    <3> QED BY <1>2, <3>1, <3>2, <3>3
  <2> QED BY <2>1, ElsewhereSelection
<1>3. ASSUME NEW d \in Device, OpenBackup(d)
      PROVE  SelectionInv'
  <2>1. /\ panel.dialog = "none" /\ panel'.dialog = "backup" /\ panel'.chosen = d
        /\ panel'.selected = {} /\ panel'.opened = Nobody
        /\ panel'.targets = panel.targets /\ panel'.mixed = panel.mixed
    BY <1>0, <1>3 DEF OpenBackup, Open, AtTable, Panels
  <2>2. UNCHANGED <<own, common>>
    BY <1>3 DEF OpenBackup, paths
  <2>3. PICK first : sent' = Old \cup {first} /\ first.kind = "targets" /\ first.seen = TargetsOf(d)
    <3> DEFINE q == Ask("targets", d, Nobody, TargetsOf(d))
    <3>1. Asks(q, "targets", d, Nobody, TargetsOf(d), TRUE)
      BY AskFields
    <3>2. Sending(q, Old)
      BY <1>3 DEF OpenBackup
    <3> HIDE DEF q
    <3> QED BY <3>1, <3>2, Numbered DEF Alike, Asks
  <2>4. \A p \in TargetsOf(d) : OfDevice(p)'
    BY <2>1, <2>2, TargetsAreOffered DEF OfDevice, Offered, Covered
  <2>5. Suits(first)'
    BY <2>3, <2>4 DEF Suits
  <2> QED BY <1>0, <2>1, <2>2, <2>3, <2>5, OldIsNotMine DEF SelectionInv
<1> QED BY <1>1, <1>2, <1>3

(* Ticking: what is added is on display, or the folder that holds it.       *)
LEMMA ToggledFrom ==
  ASSUME NEW p, NEW selected, NEW folders, NEW opened, NEW visible,
         NEW s \in Toggled(p, selected, folders, opened, visible)
  PROVE  s \subseteq selected \cup {p} \cup (IF opened = Nobody THEN {} ELSE {opened})
<1>1. CASE p \in selected
  BY <1>1 DEF Toggled
<1>2. CASE p \notin selected
  <2>1. PICK parent \in ParentFolders(p, selected, folders, opened) :
          LET next == (selected \ parent) \cup {p}
          IN s = IF opened = Nobody \/ visible = {} \/ ~(visible \subseteq next) THEN next
                 ELSE (next \ visible) \cup {opened}
    BY <1>2 DEF Toggled
  <2> QED BY <2>1
<1> QED BY <1>1, <1>2

LEMMA TicksSelection ==
  ASSUME FormsInv, SelectionInv, CloseBrowser \/ \E p \in Path : ToggleBackupPath(p)
  PROVE  SelectionInv'
<1>0. panel \in Panels /\ panel.dialog = "backup"
  BY DEF FormsInv, DevicesInv, DevicesTypeOK, Panels, CloseBrowser, ToggleBackupPath, InDialog
<1>1. /\ panel'.dialog = panel.dialog /\ panel'.chosen = panel.chosen /\ panel'.mixed = panel.mixed
      /\ panel'.targets = panel.targets /\ panel'.listing = panel.listing
      /\ panel'.opened \in {panel.opened, Nobody}
      /\ UNCHANGED <<sent, own, common>>
  BY <1>0 DEF CloseBrowser, ToggleBackupPath, paths, Panels
<1> SUFFICES ASSUME ~panel.mixed PROVE SelectionInv'
  BY <1>1 DEF SelectionInv
<1>2. \A p \in panel'.selected : OfDevice(p)
  <2>1. CASE CloseBrowser
    <3>1. panel'.selected = panel.selected
      BY <1>0, <2>1 DEF CloseBrowser, Panels
    <3> QED BY <1>0, <3>1 DEF SelectionInv
  <2>2. ASSUME NEW p \in Path, ToggleBackupPath(p)
        PROVE  \A r \in panel'.selected : OfDevice(r)
    <3>1. OfDevice(p)
      <4>1. CASE p \in panel.targets \cup panel.selected
        BY <1>0, <4>1 DEF SelectionInv
      <4>2. CASE panel.opened # Nobody /\ p \in panel.listing
        BY <1>0, <4>2, InsideIsCovered DEF SelectionInv, OfDevice
      <4> QED BY <2>2, <4>1, <4>2 DEF ToggleBackupPath
    <3>2. PICK s \in Toggled(p, panel.selected, panel.targets \cap Folder, panel.opened, panel.listing) :
            panel' = [panel EXCEPT !.selected = s]
      BY <2>2 DEF ToggleBackupPath
    <3>3. panel'.selected = s
      BY <1>0, <3>2 DEF Panels
    <3>4. s \subseteq panel.selected \cup {p} \cup (IF panel.opened = Nobody THEN {} ELSE {panel.opened})
      BY ToggledFrom
    <3> QED BY <1>0, <3>1, <3>3, <3>4 DEF SelectionInv
  <2> QED BY <2>1, <2>2
<1>3. (\A p : OfDevice(p) => OfDevice(p)') /\ \A q : Suits(q) => Suits(q)'
  BY <1>0, <1>1, StillOfDevice DEF SelectionInv
<1> QED BY <1>0, <1>1, <1>2, <1>3 DEF SelectionInv

(* What sending a request may change of the panel but for the history.      *)
NextPanels ==
  {panel, [panel EXCEPT !.saving = TRUE]} \cup {[panel EXCEPT !.saving = TRUE, !.crossed = b] : b \in BOOLEAN}

LEMMA WaitingPanels ==
  ASSUME panel \in Panels, NEW q, NEW next \in NextPanels, Send(q, next)
  PROVE  /\ next \in Panels /\ panel' \in Panels
         /\ panel'.dialog = panel.dialog /\ panel'.chosen = panel.chosen /\ panel'.mixed = panel.mixed
         /\ panel'.targets = panel.targets /\ panel'.listing = panel.listing /\ panel'.opened = panel.opened
         /\ panel'.selected = panel.selected /\ panel'.devicePaths = panel.devicePaths
         /\ panel'.calm => panel.calm /\ sent = {}
<1>1. /\ next \in Panels /\ next.dialog = panel.dialog /\ next.chosen = panel.chosen
      /\ next.mixed = panel.mixed /\ next.targets = panel.targets /\ next.listing = panel.listing
      /\ next.opened = panel.opened /\ next.selected = panel.selected
      /\ next.devicePaths = panel.devicePaths /\ next.calm = panel.calm
  <2>1. CASE next \in {panel, [panel EXCEPT !.saving = TRUE]}
    BY <2>1 DEF Panels
  <2>2. CASE \E b \in BOOLEAN : next = [panel EXCEPT !.saving = TRUE, !.crossed = b]
    BY <2>2 DEF Panels
  <2> QED BY <2>1, <2>2 DEF NextPanels
<1>2. panel' = [next EXCEPT !.calm = @ /\ sent = {}]
  BY DEF Send
<1> QED BY <1>1, <1>2 DEF Panels

LEMMA OpenWaits ==
  ASSUME panel \in Panels, NEW f, OpenTarget(f)
  PROVE  \E next \in NextPanels : \E q : /\ Send(q, next) /\ IsRequest(q) /\ q.kind = "open" /\ q.path = f
                                     /\ q.mine /\ next \in Panels
<1> DEFINE next == [panel EXCEPT !.saving = TRUE, !.crossed = @ \/ \E q \in sent : q.kind = "open"]
           q == Ask("open", panel.chosen, f, {})
<1>1. (panel.crossed \/ \E r \in sent : r.kind = "open") \in BOOLEAN
  BY DEF Panels
<1>2. next \in NextPanels /\ next \in Panels
  BY <1>1 DEF NextPanels, Panels
<1>3. Asks(q, "open", panel.chosen, f, {}, TRUE)
  BY AskFields
<1>4. Send(q, next)
  BY DEF OpenTarget
<1> HIDE DEF next, q
<1> QED BY <1>2, <1>3, <1>4 DEF Asks

(* A request of the backup dialog.                                          *)
LEMMA AskedSelection ==
  ASSUME FormsInv, SelectionInv, panel.dialog = "backup", NEW q, NEW next \in Panels, Send(q, next),
         IsRequest(q), next \in NextPanels,
         \A d \in Device : own[d] \subseteq own'[d], common \subseteq common',
         ~panel.mixed => Suits(q)'
  PROVE  SelectionInv'
<1>0. panel \in Panels
  BY DEF FormsInv, DevicesInv, DevicesTypeOK, Panels
<1>1. PICK r : Alike(r, q) /\ sent' = sent \cup {r}
  BY Numbered DEF Send
<1>2. /\ panel'.dialog = panel.dialog /\ panel'.chosen = panel.chosen /\ panel'.mixed = panel.mixed
      /\ panel'.targets = panel.targets /\ panel'.listing = panel.listing
      /\ panel'.opened = panel.opened /\ panel'.selected = panel.selected
  BY <1>0, WaitingPanels
<1> SUFFICES ASSUME ~panel.mixed PROVE SelectionInv'
  BY <1>2 DEF SelectionInv
<1>3. (\A p : OfDevice(p) => OfDevice(p)') /\ \A x : Suits(x) => Suits(x)'
  BY <1>2, StillOfDevice DEF SelectionInv
<1>4. Suits(r)'
  BY <1>1, <1>2 DEF Suits, Alike
<1> QED BY <1>1, <1>2, <1>3, <1>4 DEF SelectionInv

LEMMA SendsSelection ==
  ASSUME FormsInv, SelectionInv,
         (\E f \in Folder : OpenTarget(f)) \/ \E p \in Typed : AddCustomPath(p)
  PROVE  SelectionInv'
<1>0. /\ panel \in Panels /\ panel.dialog = "backup" /\ PathsTypeOK
  BY DEF FormsInv, DevicesInv, DevicesTypeOK, Panels, OpenTarget, AddCustomPath, InDialog
<1>1. ASSUME NEW f \in Folder, OpenTarget(f) PROVE SelectionInv'
  <2>1. UNCHANGED <<own, common>>
    BY <1>1 DEF OpenTarget, paths
  <2>20. PICK next \in NextPanels : \E q : /\ Send(q, next) /\ IsRequest(q) /\ q.kind = "open" /\ q.path = f
                                       /\ next \in Panels
    BY <1>0, <1>1, OpenWaits
  <2>2. PICK q : Send(q, next) /\ IsRequest(q) /\ q.kind = "open" /\ q.path = f /\ next \in Panels
    BY <2>20
  <2>3. ~panel.mixed => OfDevice(f)
    BY <1>0, <1>1, InsideIsCovered DEF OpenTarget, SelectionInv, OfDevice
  <2>4. panel'.chosen = panel.chosen
    BY <1>0, <2>2, WaitingPanels
  <2>5. ~panel.mixed => Suits(q)'
    BY <2>1, <2>2, <2>3, <2>4 DEF Suits, OfDevice, Offered, Covered
  <2> QED BY <1>0, <2>1, <2>2, <2>5, AskedSelection
<1>2. ASSUME NEW p \in Typed, AddCustomPath(p) PROVE SelectionInv'
  <2>1. PICK kind \in {"ownCustom", "commonCustom"}, d \in {panel.chosen, Nobody}, changed \in BOOLEAN :
          /\ \/ changed /\ Send(Ask(kind, d, p, {}), panel)
             \/ ~changed /\ Send([Ask(kind, d, p, {}) EXCEPT !.ok = FALSE], panel)
          /\ kind = "ownCustom" => d = panel.chosen /\ panel.chosen \in Computer
          /\ kind = "commonCustom" => panel.chosen \notin Computer
          /\ IF ~changed THEN UNCHANGED paths
             ELSE IF kind = "ownCustom" THEN OwnPaths(panel.chosen, own[panel.chosen] \cup {p})
             ELSE CommonPaths(common \cup {p})
    BY <1>2 DEF AddCustomPath, Change
  <2>2. (\A e \in Device : own[e] \subseteq own'[e]) /\ common \subseteq common'
    BY <1>0, <2>1 DEF OwnPaths, CommonPaths, paths, PathsTypeOK
  <2>3. PICK q : IsRequest(q) /\ Send(q, panel) /\ (q.ok => changed) /\ q.kind = kind /\ q.path = p /\ q.device = d
    <3>1. CASE changed
      <4> DEFINE q == Ask(kind, d, p, {})
      <4>1. Asks(q, kind, d, p, {}, TRUE)
        BY AskFields
      <4>2. Send(q, panel)
        BY <2>1, <3>1
      <4> HIDE DEF q
      <4> QED BY <3>1, <4>1, <4>2 DEF Asks
    <3>2. CASE ~changed
      <4> DEFINE q == [Ask(kind, d, p, {}) EXCEPT !.ok = FALSE]
      <4>1. Asks(q, kind, d, p, {}, FALSE)
        BY AskFields
      <4>2. Send(q, panel)
        BY <2>1, <3>2
      <4> HIDE DEF q
      <4> QED BY <4>1, <4>2 DEF Asks
    <3> QED BY <3>1, <3>2
  <2>4. panel'.chosen = panel.chosen
    BY <1>0, <2>3 DEF Send, Panels
  <2>5. ASSUME ~panel.mixed PROVE Suits(q)'
    <3>1. panel.chosen \in Device
      BY <1>0, <2>5 DEF SelectionInv
    <3>2. changed => p \in Offered(panel.chosen)'
      BY <1>0, <2>1, <2>4, <3>1 DEF Offered, OwnPaths, CommonPaths, PathsTypeOK
    <3>3. changed => OfDevice(p)'
      BY <2>4, <3>2 DEF OfDevice, Covered
    <3> QED BY <2>1, <2>3, <2>4, <3>3 DEF Suits
  <2> QED BY <1>0, <2>2, <2>3, <2>5, AskedSelection DEF NextPanels
<1> QED BY <1>1, <1>2

(* The other requests are sent from other dialogs.                          *)
LEMMA OtherSendsSelection ==
  ASSUME FormsInv, SelectionInv,
         \/ SubmitForm \/ AskDelete \/ CancelDelete \/ ConfirmDelete
         \/ \E f \in Folder : BrowseFolder(f)
         \/ \E p \in Typed : AddDevicePath(p)
         \/ \E p \in Path : RemoveDevicePath(p)
  PROVE  SelectionInv'
<1>0. panel \in Panels
  BY DEF FormsInv, DevicesInv, DevicesTypeOK, Panels
<1>1. panel.dialog # "backup"
  BY DEF SubmitForm, AskDelete, CancelDelete, ConfirmDelete, BrowseFolder, AddDevicePath, RemoveDevicePath,
         InDialog, FormsInv, KindsFit
<1>2. PICK next \in Panels, calm \in BOOLEAN :
        /\ next.dialog = panel.dialog /\ next.targets = panel.targets /\ next.mixed = panel.mixed
        /\ panel' = [next EXCEPT !.calm = calm]
  <2>1. CASE AskDelete \/ CancelDelete
    <3>1. /\ panel' \in Panels /\ panel'.dialog = panel.dialog /\ panel'.targets = panel.targets
          /\ panel'.mixed = panel.mixed /\ panel' = [panel' EXCEPT !.calm = panel'.calm]
          /\ panel'.calm \in BOOLEAN
      BY <1>0, <2>1 DEF AskDelete, CancelDelete, Panels
    <3> QED BY <3>1
  <2>2. ASSUME NEW q, NEW next \in {panel, [panel EXCEPT !.saving = TRUE]}, Send(q, next)
        PROVE  \E n \in Panels, calm \in BOOLEAN :
                 /\ n.dialog = panel.dialog /\ n.targets = panel.targets /\ n.mixed = panel.mixed
                 /\ panel' = [n EXCEPT !.calm = calm]
    <3>1. /\ next \in Panels /\ next.dialog = panel.dialog /\ next.targets = panel.targets
          /\ next.mixed = panel.mixed /\ next.calm \in BOOLEAN
      BY <1>0 DEF Panels
    <3>2. panel' = [next EXCEPT !.calm = next.calm /\ sent = {}]
      BY <2>2 DEF Send
    <3>3. (next.calm /\ sent = {}) \in BOOLEAN
      BY <3>1
    <3> QED BY <3>1, <3>2, <3>3
  <2>3. CASE SubmitForm \/ ConfirmDelete \/ \E f \in Folder : BrowseFolder(f)
    BY <2>2, <2>3 DEF SubmitForm, ConfirmDelete, BrowseFolder
  <2>4. CASE \E p : AddDevicePath(p) \/ RemoveDevicePath(p)
    BY <2>2, <2>4 DEF AddDevicePath, RemoveDevicePath, Change
  <2> QED BY <2>1, <2>3, <2>4
<1>3. panel'.dialog = panel.dialog /\ panel'.targets = panel.targets /\ panel'.mixed = panel.mixed
  BY <1>2 DEF Panels
<1> QED BY <1>1, <1>3, ElsewhereSelection

LEMMA RepliesSelection ==
  ASSUME FormsInv, SelectionInv, NEW q \in sent, DevicesReply(q) \/ DevicesReplyFails(q)
  PROVE  SelectionInv'
<1>0. /\ panel \in Panels /\ sent \subseteq DevicesRequest /\ q \in DevicesRequest
      /\ panel' \in Panels /\ DevicesInv
  BY DevicesReplyTypes DEF FormsInv, DevicesInv, DevicesTypeOK, Panels
<1>1. UNCHANGED <<own, common>>
  BY DEF DevicesReply, DevicesReplyFails, paths
<1>2. CASE DevicesReply(q) /\ q.kind = "ownCustom"
  <2>5. PICK next : next = [q EXCEPT !.kind = "reload", !.seen = TargetsOf(q.device)]
    OBVIOUS
  <2>0. Sending(next, sent \ {q}) /\ panel' = panel /\ q.ok
    BY <1>2, <2>5 DEF DevicesReply
  <2>00. /\ next.kind = "reload" /\ next.mine = q.mine /\ next.seen = TargetsOf(q.device)
         /\ next.path = q.path /\ IsRequest(next)
    BY <1>0, <2>5, ReloadFields
  <2>1. PICK new : Alike(new, next) /\ sent' = (sent \ {q}) \cup {new} /\ panel' = panel /\ q.ok
    BY <2>0, <2>00, Numbered
  <2>2. /\ new.kind = "reload" /\ new.mine = q.mine /\ new.seen = TargetsOf(q.device)
        /\ new.path = q.path
    BY <2>00, <2>1 DEF Alike
  <2>3. CASE panel.dialog = "backup" /\ ~panel.mixed
    <3>1. (\A p : OfDevice(p) => OfDevice(p)') /\ \A r : Suits(r) => Suits(r)'
      BY <1>1, <2>1, <2>3, StillOfDevice DEF SelectionInv
    <3>2. q.mine => Suits(new)
      <4> SUFFICES ASSUME q.mine PROVE Suits(new)
        OBVIOUS
      <4>1. panel.chosen \in Device /\ q.device = panel.chosen /\ OfDevice(q.path)
        BY <1>2, <2>1, <2>3 DEF SelectionInv, Suits
      <4> QED BY <2>2, <4>1, TargetsAreOffered DEF Suits, OfDevice, Covered
    <3> QED BY <2>1, <2>2, <2>3, <3>1, <3>2 DEF SelectionInv
  <2>4. CASE ~(panel.dialog = "backup" /\ ~panel.mixed)
    BY <2>1, <2>4 DEF SelectionInv
  <2> QED BY <2>3, <2>4
<1>3. CASE DevicesReply(q) /\ q.kind # "ownCustom"
  <2>1. sent' = Others(q) /\ panel' = Stained(After(q), q) /\ q.ok
    BY <1>3 DEF DevicesReply
  <2>2. /\ panel'.mixed = (After(q).mixed \/ ~q.mine) /\ panel'.dialog = After(q).dialog
        /\ panel'.chosen = After(q).chosen /\ panel'.targets = After(q).targets
        /\ panel'.selected = After(q).selected /\ panel'.opened = After(q).opened
        /\ panel'.listing = After(q).listing
    <3>1. After(q) \in Panels
      BY <1>0, AfterTypes
    <3> HIDE DEF After
    <3> QED BY <2>1, <3>1 DEF Stained, Panels
  <2>3. q.mine => q.kind \in KindsOf(panel.dialog)
    BY DEF FormsInv, KindsFit
  <2>4. CASE ~q.mine
    BY <2>2, <2>4 DEF SelectionInv
  <2>5. CASE q.mine /\ panel.dialog # "backup"
    <3>1. /\ After(q).dialog # "backup" /\ After(q).targets = panel.targets
          /\ After(q).mixed = panel.mixed
      BY <1>0, <2>3, <2>5 DEF After, KindsOf, Panels
    <3> QED BY <2>2, <2>5, <3>1, ElsewhereSelection
  <2>6. CASE q.mine /\ panel.dialog = "backup"
    <3>1. q.kind \in {"targets", "open", "reload", "commonCustom"}
      BY <1>3, <2>3, <2>6 DEF KindsOf
    <3>2. /\ After(q).dialog = "backup" /\ After(q).mixed = panel.mixed /\ After(q).chosen = panel.chosen
          /\ After(q).targets \subseteq panel.targets \cup q.seen \cup {q.path}
          /\ q.kind # "open" => /\ After(q).opened = panel.opened /\ After(q).listing = panel.listing
          /\ q.kind = "open" => /\ After(q).opened = q.path /\ After(q).listing = Inside(q.path)
      <4>1. CASE q.kind \in {"targets", "reload"}
        BY <1>0, <2>6, <4>1 DEF After, Panels
      <4>2. CASE q.kind = "open"
        BY <1>0, <2>6, <4>2 DEF After, Panels
      <4>3. CASE q.kind = "commonCustom"
        BY <1>0, <2>6, <4>3 DEF After, Panels
      <4> QED BY <3>1, <4>1, <4>2, <4>3
    <3> SUFFICES ASSUME ~panel.mixed PROVE SelectionInv'
      BY <2>2, <3>2 DEF SelectionInv
    <3>3. (\A p : OfDevice(p) => OfDevice(p)') /\ \A r : Suits(r) => Suits(r)'
      BY <1>1, <2>2, <2>6, <3>2, StillOfDevice DEF SelectionInv
    <3>4. Suits(q)
      BY <2>6 DEF SelectionInv
    <3>5. \A p \in After(q).targets \cup After(q).selected : OfDevice(p)
      <4>1. CASE q.kind = "targets"
        BY <1>0, <2>6, <3>4, <4>1 DEF After, Panels, SelectionInv, Suits
      <4>2. CASE q.kind = "reload"
        BY <1>0, <2>1, <2>6, <3>4, <4>2 DEF After, Panels, SelectionInv, Suits
      <4>3. CASE q.kind = "open"
        BY <1>0, <2>6, <4>3 DEF After, Panels, SelectionInv
      <4>4. CASE q.kind = "commonCustom"
        BY <1>0, <2>1, <2>6, <3>4, <4>4 DEF After, Panels, SelectionInv, Suits
      <4> QED BY <3>1, <4>1, <4>2, <4>3, <4>4
    <3>6. After(q).opened # Nobody => OfDevice(After(q).opened) /\ After(q).listing = Inside(After(q).opened)
      BY <2>1, <2>6, <3>1, <3>2, <3>4 DEF SelectionInv, Suits
    <3>7. sent' \subseteq sent
      BY <2>1, <2>6, <3>2 DEF Others
    <3> HIDE DEF After, OfDevice, Suits
    <3> QED BY <2>2, <2>6, <3>2, <3>3, <3>5, <3>6, <3>7 DEF SelectionInv
  <2> QED BY <2>4, <2>5, <2>6
<1>4. CASE DevicesReplyFails(q)
  <2>1. /\ panel'.mixed = (panel.mixed \/ ~q.mine) /\ panel'.dialog = panel.dialog
        /\ panel'.chosen = panel.chosen /\ panel'.targets \in {panel.targets, {}}
        /\ panel'.selected = panel.selected /\ panel'.opened = panel.opened
        /\ panel'.listing = panel.listing /\ sent' \subseteq sent
    BY <1>0, <1>4, FailureFields
  <2>2. CASE panel.dialog = "backup" /\ ~panel.mixed
    <3>1. (\A p : OfDevice(p) => OfDevice(p)') /\ \A r : Suits(r) => Suits(r)'
      BY <1>1, <2>1, <2>2, StillOfDevice DEF SelectionInv
    <3> QED BY <2>1, <2>2, <3>1 DEF SelectionInv
  <2>3. CASE ~(panel.dialog = "backup" /\ ~panel.mixed)
    BY <2>1, <2>3 DEF SelectionInv
  <2> QED BY <2>2, <2>3
<1> QED BY <1>2, <1>3, <1>4

LEMMA SelectionNextInv ==
  ASSUME FormsInv, SelectionInv, DevicesNext
  PROVE  SelectionInv'
<1>1. CASE \/ OpenAdd \/ \E d \in Device : OpenEdit(d) \/ OpenBrowse(d) \/ OpenBackup(d)
           \/ CloseDevicesDialog \/ SubmitBackup
  BY <1>1, DialogsSelection
<1>2. CASE CloseBrowser \/ \E p \in Path : ToggleBackupPath(p)
  BY <1>2, TicksSelection
<1>3. CASE (\E f \in Folder : OpenTarget(f)) \/ \E p \in Typed : AddCustomPath(p)
  BY <1>3, SendsSelection
<1>4. CASE \/ SubmitForm \/ AskDelete \/ CancelDelete \/ ConfirmDelete
           \/ \E f \in Folder : BrowseFolder(f)
           \/ \E p \in Typed : AddDevicePath(p)
           \/ \E p \in Path : RemoveDevicePath(p)
  BY <1>4, OtherSendsSelection
<1>5. CASE \E q \in sent : DevicesReply(q) \/ DevicesReplyFails(q)
  BY <1>5, RepliesSelection
<1> QED BY <1>1, <1>2, <1>3, <1>4, <1>5 DEF DevicesNext, DevicesStep

LEMMA SelectionIsItsDevices == SelectionInv => SelectionIsOfItsDevice
BY DEF SelectionInv, SelectionIsOfItsDevice, OfDevice

-----------------------------------------------------------------------------
(* What the list of an edit dialog is, or becomes with the one reply that   *)
(* is awaited, is what the server has.                                      *)
Becomes(q) ==
  CASE q.kind = "paths" -> q.seen
    [] q.kind = "addPath" -> panel.devicePaths \cup {q.path}
    [] OTHER -> panel.devicePaths \ {q.path}

PathListInv ==
  panel.dialog = "edit" /\ ~panel.mixed /\ panel.calm =>
    /\ panel.chosen \in Device
    /\ sent = {} => panel.devicePaths = own[panel.chosen]
    /\ \A q \in sent : /\ sent = {q} /\ q.mine
                       /\ q.ok /\ q.kind \notin {"form", "delete"} => Becomes(q) = own[panel.chosen]

LEMMA DialogsPathList ==
  ASSUME DevicesInv, PathListInv,
         \/ OpenAdd \/ \E d \in Device : OpenEdit(d) \/ OpenBrowse(d) \/ OpenBackup(d)
         \/ CloseDevicesDialog \/ SubmitBackup
  PROVE  PathListInv'
<1>0. panel \in Panels
  BY DEF DevicesInv, DevicesTypeOK, Panels
<1>1. CASE OpenAdd \/ CloseDevicesDialog \/ SubmitBackup
  <2>1. panel'.dialog # "edit"
    BY <1>0, <1>1 DEF OpenAdd, Open, CloseDevicesDialog, SubmitBackup, Closed, Panels
  <2> QED BY <2>1 DEF PathListInv
<1>2. ASSUME NEW d \in Device, OpenBrowse(d) \/ OpenBackup(d) PROVE PathListInv'
  <2>1. panel'.dialog # "edit"
    BY <1>0, <1>2 DEF OpenBrowse, OpenBackup, Open, Panels
  <2> QED BY <2>1 DEF PathListInv
<1>3. ASSUME NEW d \in Device, OpenEdit(d) PROVE PathListInv'
  <2>1. panel'.chosen = d /\ panel'.calm = (sent = {}) /\ UNCHANGED own
    BY <1>0, <1>3 DEF OpenEdit, Open, paths, Panels
  <2>2. PICK first : /\ sent' = Old \cup {first} /\ first.kind = "paths" /\ first.seen = own[d]
                     /\ first.mine
    <3> DEFINE q == Ask("paths", d, Nobody, own[d])
    <3>1. Asks(q, "paths", d, Nobody, own[d], TRUE)
      BY AskFields
    <3>2. Sending(q, Old)
      BY <1>3 DEF OpenEdit
    <3> HIDE DEF q
    <3> QED BY <3>1, <3>2, Numbered DEF Alike, Asks
  <2>3. panel'.calm => sent' = {first}
    BY <2>1, <2>2 DEF Old
  <2>4. Becomes(first)' = own[d]
    BY <2>2 DEF Becomes
  <2> QED BY <2>1, <2>2, <2>3, <2>4 DEF PathListInv
<1> QED BY <1>1, <1>2, <1>3

LEMMA QuietPathList ==
  ASSUME DevicesInv, PathListInv,
         AskDelete \/ CancelDelete \/ CloseBrowser \/ \E p \in Path : ToggleBackupPath(p)
  PROVE  PathListInv'
<1>0. panel \in Panels
  BY DEF DevicesInv, DevicesTypeOK, Panels
<1>1. /\ panel'.dialog = panel.dialog /\ panel'.mixed = panel.mixed /\ panel'.calm = panel.calm
      /\ panel'.chosen = panel.chosen /\ panel'.devicePaths = panel.devicePaths
      /\ UNCHANGED <<sent, own>>
  BY <1>0 DEF AskDelete, CancelDelete, CloseBrowser, ToggleBackupPath, paths, Panels
<1>2. \A q : Becomes(q)' = Becomes(q)
  BY <1>1 DEF Becomes
<1> QED BY <1>1, <1>2 DEF PathListInv

(* A request, of which a calm dialog has one at a time.                     *)
LEMMA AskedPathList ==
  ASSUME DevicesInv, PathListInv, NEW q, IsRequest(q), NEW next \in NextPanels, Send(q, next), q.mine,
         panel.dialog = "edit" /\ panel.chosen \in Device /\ panel.devicePaths = own[panel.chosen]
           /\ q.ok /\ q.kind \notin {"form", "delete"}
         => Becomes(q) = own'[panel.chosen]
  PROVE  PathListInv'
<1>0. panel \in Panels
  BY DEF DevicesInv, DevicesTypeOK, Panels
<1>1. PICK r : Alike(r, q) /\ sent' = sent \cup {r}
  BY Numbered DEF Send
<1>2. /\ panel'.dialog = panel.dialog /\ panel'.mixed = panel.mixed
      /\ panel'.calm => panel.calm /\ sent = {}
      /\ panel'.chosen = panel.chosen /\ panel'.devicePaths = panel.devicePaths
  BY <1>0, WaitingPanels
<1>3. Becomes(r)' = Becomes(q)
  BY <1>1, <1>2 DEF Becomes, Alike
<1>4. panel'.calm => sent' = {r}
  BY <1>1, <1>2
<1> QED BY <1>1, <1>2, <1>3, <1>4 DEF PathListInv, Alike

LEMMA SendsPathList ==
  ASSUME DevicesInv, PathListInv,
         \/ SubmitForm \/ ConfirmDelete
         \/ \E f \in Folder : BrowseFolder(f) \/ OpenTarget(f)
         \/ \E p \in Typed : AddDevicePath(p) \/ AddCustomPath(p)
         \/ \E p \in Path : RemoveDevicePath(p)
  PROVE  PathListInv'
<1>0. panel \in Panels /\ PathsTypeOK
  BY DEF DevicesInv, DevicesTypeOK, Panels
<1>1. CASE SubmitForm \/ ConfirmDelete
  <2>1. PICK q : /\ Send(q, [panel EXCEPT !.saving = TRUE]) /\ IsRequest(q) /\ q.mine
                 /\ q.kind \in {"form", "delete"}
    <3>1. CASE SubmitForm
      <4>1. PICK q : Send(q, [panel EXCEPT !.saving = TRUE]) /\ Asks(q, "form", panel.chosen, Nobody, {}, TRUE)
        BY <3>1, AskFields DEF SubmitForm
      <4> QED BY <4>1 DEF Asks
    <3>2. CASE ConfirmDelete
      <4>1. PICK q : Send(q, [panel EXCEPT !.saving = TRUE]) /\ Asks(q, "delete", panel.doomed, Nobody, {}, TRUE)
        BY <3>2, AskFields DEF ConfirmDelete
      <4> QED BY <4>1 DEF Asks
    <3> QED BY <1>1, <3>1, <3>2
  <2> QED BY <2>1, AskedPathList DEF NextPanels
<1>2. ASSUME NEW f \in Folder, BrowseFolder(f) \/ OpenTarget(f) PROVE PathListInv'
  <2>1. CASE BrowseFolder(f)
    <3>1. PICK q : Send(q, panel) /\ Asks(q, "list", panel.chosen, f, {}, TRUE)
      BY <2>1, AskFields DEF BrowseFolder
    <3>2. panel.dialog # "edit"
      BY <2>1 DEF BrowseFolder, InDialog
    <3> QED BY <3>1, <3>2, AskedPathList DEF NextPanels, Asks
  <2>2. CASE OpenTarget(f)
    <3>0. PICK next \in NextPanels : \E q : Send(q, next) /\ IsRequest(q) /\ q.mine
      BY <1>0, <2>2, OpenWaits
    <3>1. PICK q : Send(q, next) /\ IsRequest(q) /\ q.mine
      BY <3>0
    <3>2. panel.dialog # "edit"
      BY <2>2 DEF OpenTarget, InDialog
    <3> QED BY <3>1, <3>2, AskedPathList
  <2> QED BY <1>2, <2>1, <2>2
<1>3. ASSUME NEW kind, NEW d, NEW p, NEW changed, Change(Ask(kind, d, p, {}), panel, changed),
             changed /\ panel.dialog = "edit" /\ panel.chosen \in Device
               => \/ kind = "addPath" /\ own' = [own EXCEPT ![panel.chosen] = own[panel.chosen] \cup {p}]
                  \/ kind = "removePath" /\ own' = [own EXCEPT ![panel.chosen] = own[panel.chosen] \ {p}]
      PROVE  PathListInv'
  <2>1. CASE changed /\ Send(Ask(kind, d, p, {}), panel)
    <3>0. PICK q : Send(q, panel) /\ Asks(q, kind, d, p, {}, TRUE)
      BY <2>1, AskFields
    <3>1. Send(q, panel) /\ IsRequest(q) /\ q.mine /\ q.kind = kind /\ q.path = p
      BY <3>0 DEF Asks
    <3>2. panel.dialog = "edit" /\ panel.chosen \in Device /\ panel.devicePaths = own[panel.chosen]
            => Becomes(q) = own'[panel.chosen]
      BY <1>0, <1>3, <2>1, <3>1 DEF Becomes, PathsTypeOK
    <3> QED BY <3>1, <3>2, AskedPathList DEF NextPanels
  <2>2. CASE Send([Ask(kind, d, p, {}) EXCEPT !.ok = FALSE], panel)
    <3> DEFINE q == [Ask(kind, d, p, {}) EXCEPT !.ok = FALSE]
    <3>1. Asks(q, kind, d, p, {}, FALSE)
      BY AskFields
    <3>2. Send(q, panel)
      BY <2>2
    <3> HIDE DEF q
    <3>3. IsRequest(q) /\ q.ok = FALSE /\ q.mine
      BY <3>1 DEF Asks
    <3> QED BY <3>2, <3>3, AskedPathList DEF NextPanels
  <2> QED BY <1>3, <2>1, <2>2 DEF Change
<1>4. ASSUME NEW p \in Typed, AddDevicePath(p) PROVE PathListInv'
  <2>1. Change(Ask("addPath", panel.chosen, p, {}), panel, OwnPaths(panel.chosen, own[panel.chosen] \cup {p}))
    BY <1>4 DEF AddDevicePath
  <2> QED BY <2>1, <1>3 DEF OwnPaths
<1>5. ASSUME NEW p \in Path, RemoveDevicePath(p) PROVE PathListInv'
  <2>1. Change(Ask("removePath", panel.chosen, p, {}), panel, OwnPaths(panel.chosen, own[panel.chosen] \ {p}))
    BY <1>5 DEF RemoveDevicePath
  <2> QED BY <2>1, <1>3 DEF OwnPaths
<1>6. ASSUME NEW p \in Typed, AddCustomPath(p) PROVE PathListInv'
  <2>1. panel.dialog # "edit"
    BY <1>6 DEF AddCustomPath, InDialog
  <2>2. CASE panel.chosen \in Computer
    <3>1. Change(Ask("ownCustom", panel.chosen, p, {}), panel, OwnPaths(panel.chosen, own[panel.chosen] \cup {p}))
      BY <1>6, <2>2 DEF AddCustomPath
    <3> QED BY <1>3, <2>1, <3>1
  <2>3. CASE panel.chosen \notin Computer
    <3>1. Change(Ask("commonCustom", Nobody, p, {}), panel, CommonPaths(common \cup {p}))
      BY <1>6, <2>3 DEF AddCustomPath
    <3> QED BY <1>3, <2>1, <3>1
  <2> QED BY <2>2, <2>3
<1> QED BY <1>1, <1>2, <1>4, <1>5, <1>6

LEMMA RepliesPathList ==
  ASSUME FormsInv, PathListInv, NEW q \in sent, DevicesReply(q) \/ DevicesReplyFails(q)
  PROVE  PathListInv'
<1>0. /\ panel \in Panels /\ q \in DevicesRequest /\ DevicesInv
  BY DEF FormsInv, DevicesInv, DevicesTypeOK, Panels
<1>1. CASE DevicesReplyFails(q)
  <2>1. panel'.calm = FALSE
    BY <1>0, <1>1, FailureFields
  <2> QED BY <2>1 DEF PathListInv
<1>2. CASE DevicesReply(q) /\ q.kind = "ownCustom"
  <2>1. panel' = panel
    BY <1>2 DEF DevicesReply
  <2>2. ~(panel.dialog = "edit" /\ q.mine)
    BY <1>2 DEF FormsInv, KindsFit, KindsOf
  <2>3. CASE panel.dialog = "edit" /\ ~panel.mixed /\ panel.calm
    BY <2>2, <2>3 DEF PathListInv
  <2>4. CASE ~(panel.dialog = "edit" /\ ~panel.mixed /\ panel.calm)
    BY <2>1, <2>4 DEF PathListInv
  <2> QED BY <2>3, <2>4
<1>3. CASE DevicesReply(q) /\ q.kind # "ownCustom"
  <2>1. sent' = Others(q) /\ panel' = Stained(After(q), q) /\ q.ok /\ UNCHANGED own
    BY <1>3 DEF DevicesReply, paths
  <2>2. /\ panel'.mixed = (After(q).mixed \/ ~q.mine) /\ panel'.dialog = After(q).dialog
        /\ panel'.calm = After(q).calm /\ panel'.chosen = After(q).chosen
        /\ panel'.devicePaths = After(q).devicePaths
    <3>1. After(q) \in Panels
      BY <1>0, AfterTypes
    <3> HIDE DEF After
    <3> QED BY <2>1, <3>1 DEF Stained, Panels
  <2> SUFFICES ASSUME panel'.dialog = "edit", ~panel'.mixed, panel'.calm PROVE PathListInv'
    BY DEF PathListInv
  <2>3. q.mine
    BY <2>2
  <2>4. q.kind \in KindsOf(panel.dialog)
    BY <2>3 DEF FormsInv, KindsFit
  <2>5. panel.dialog = "edit"
    BY <1>0, <2>2, <2>4 DEF After, KindsOf, Panels
  <2>6. q.kind \in {"paths", "addPath", "removePath"}
    <3>1. q.kind \notin {"form", "delete"}
      BY <1>0, <2>2, <2>5 DEF After, Panels
    <3> QED BY <2>4, <2>5, <3>1 DEF KindsOf
  <2>7. /\ After(q).mixed = panel.mixed /\ After(q).calm = panel.calm /\ After(q).chosen = panel.chosen
        /\ After(q).dialog = panel.dialog /\ After(q).devicePaths = Becomes(q)
    BY <1>0, <2>6 DEF After, Becomes, Panels
  <2>8. /\ panel.chosen \in Device /\ sent = {q} /\ Becomes(q) = own[panel.chosen]
    BY <2>1, <2>2, <2>5, <2>6, <2>7 DEF PathListInv
  <2>9. sent' = {}
    BY <2>1, <2>7, <2>8 DEF Others
  <2> QED BY <2>1, <2>2, <2>7, <2>8, <2>9 DEF PathListInv
<1> QED BY <1>1, <1>2, <1>3

LEMMA PathListNextInv ==
  ASSUME FormsInv, PathListInv, DevicesNext
  PROVE  PathListInv'
<1>0. DevicesInv
  BY DEF FormsInv
<1>1. CASE \/ OpenAdd \/ \E d \in Device : OpenEdit(d) \/ OpenBrowse(d) \/ OpenBackup(d)
           \/ CloseDevicesDialog \/ SubmitBackup
  BY <1>0, <1>1, DialogsPathList
<1>2. CASE AskDelete \/ CancelDelete \/ CloseBrowser \/ \E p \in Path : ToggleBackupPath(p)
  BY <1>0, <1>2, QuietPathList
<1>3. CASE \/ SubmitForm \/ ConfirmDelete
           \/ \E f \in Folder : BrowseFolder(f) \/ OpenTarget(f)
           \/ \E p \in Typed : AddDevicePath(p) \/ AddCustomPath(p)
           \/ \E p \in Path : RemoveDevicePath(p)
  BY <1>0, <1>3, SendsPathList
<1>4. CASE \E q \in sent : DevicesReply(q) \/ DevicesReplyFails(q)
  BY <1>4, RepliesPathList
<1> QED BY <1>1, <1>2, <1>3, <1>4 DEF DevicesNext, DevicesStep

LEMMA PathListIsItsDevices == PathListInv => PathListIsTheServers
BY DEF PathListInv, PathListIsTheServers

-----------------------------------------------------------------------------
(* What a tick takes out of the selection lies in a folder that is added,   *)
(* or is a folder that gives way to what is ticked inside it.               *)
LEMMA ToggledKeeps ==
  ASSUME NEW p, NEW selected, NEW folders, NEW opened, NEW visible,
         opened # Nobody => visible \subseteq Inside(opened),
         NEW s \in Toggled(p, selected, folders, opened, visible)
  PROVE  KeepsSelection(selected, s)
<1>1. CASE p \in selected
  BY <1>1 DEF Toggled, KeepsSelection
<1>2. CASE p \notin selected
  <2>1. PICK parent \in ParentFolders(p, selected, folders, opened) :
          LET next == (selected \ parent) \cup {p}
          IN s = IF opened = Nobody \/ visible = {} \/ ~(visible \subseteq next) THEN next
                 ELSE (next \ visible) \cup {opened}
    BY <1>2 DEF Toggled
  <2>2. parent \subseteq Above[p]
    BY DEF ParentFolders
  <2>3. CASE s = (selected \ parent) \cup {p}
    BY <1>2, <2>2, <2>3 DEF KeepsSelection
  <2>4. CASE opened # Nobody /\ s = (((selected \ parent) \cup {p}) \ visible) \cup {opened}
    <3> SUFFICES ASSUME s \ selected # {}, NEW r \in selected \ s
                 PROVE  Covered(r, s) \/ \E q \in s \ selected : r \in Above[q]
      BY DEF KeepsSelection
    <3>1. CASE r \in visible
      BY <2>4, <3>1 DEF Covered, Inside
    <3>2. CASE r \notin visible
      <4>1. r \in Above[p]
        BY <2>2, <2>4, <3>2
      <4>2. CASE p \in s
        BY <1>2, <4>1, <4>2
      <4>3. CASE p \notin s
        <5>1. p \in Inside(opened) /\ opened \in s \ selected /\ r # opened
          BY <2>4, <4>3
        <5>2. r \in Above[opened]
          BY <4>1, <5>1 DEF Inside
        <5> QED BY <5>1, <5>2
      <4> QED BY <4>2, <4>3
    <3> QED BY <3>1, <3>2
  <2> QED BY <2>1, <2>3, <2>4
<1> QED BY <1>1, <1>2

(* A step that only adds to the selection drops nothing.                    *)
LEMMA SelectionStep ==
  ASSUME FormsInv, SelectionInv, DevicesNext, panel.dialog = "backup", panel'.dialog = "backup",
         ~panel'.mixed, \A q \in sent : q.kind # "targets"
  PROVE  KeepsSelection(panel.selected, panel'.selected)
<1>0. panel \in Panels
  BY DEF FormsInv, DevicesInv, DevicesTypeOK, Panels
<1>1. ASSUME NEW p \in Path, ToggleBackupPath(p)
      PROVE  KeepsSelection(panel.selected, panel'.selected)
  <2>1. PICK s \in Toggled(p, panel.selected, panel.targets \cap Folder, panel.opened, panel.listing) :
          panel' = [panel EXCEPT !.selected = s]
    BY <1>1 DEF ToggleBackupPath
  <2>2. panel'.selected = s /\ panel'.mixed = panel.mixed
    BY <1>0, <2>1 DEF Panels
  <2>3. panel.opened # Nobody => panel.listing \subseteq Inside(panel.opened)
    BY <2>2 DEF SelectionInv
  <2> QED BY <2>2, <2>3, ToggledKeeps
<1>2. CASE CloseBrowser \/ AskDelete \/ CancelDelete
  <2>1. panel'.selected = panel.selected
    BY <1>0, <1>2 DEF CloseBrowser, AskDelete, CancelDelete, Panels
  <2> QED BY <2>1 DEF KeepsSelection
<1>3. CASE \/ SubmitForm \/ ConfirmDelete
           \/ \E f \in Folder : BrowseFolder(f) \/ OpenTarget(f)
           \/ \E p \in Typed : AddDevicePath(p) \/ AddCustomPath(p)
           \/ \E p \in Path : RemoveDevicePath(p)
  <2>1. ASSUME NEW q, NEW next \in NextPanels, Send(q, next)
        PROVE  panel'.selected = panel.selected
    BY <1>0, <2>1, WaitingPanels
  <2>2. panel'.selected = panel.selected
    <3>1. CASE SubmitForm \/ ConfirmDelete
      BY <2>1, <3>1 DEF SubmitForm, ConfirmDelete, NextPanels
    <3>2. CASE \E f \in Folder : BrowseFolder(f) \/ OpenTarget(f)
      BY <1>0, <2>1, <3>2, OpenWaits DEF BrowseFolder, NextPanels
    <3>3. CASE \E p : AddDevicePath(p) \/ AddCustomPath(p) \/ RemoveDevicePath(p)
      BY <2>1, <3>3 DEF AddDevicePath, AddCustomPath, RemoveDevicePath, Change, NextPanels
    <3> QED BY <1>3, <3>1, <3>2, <3>3
  <2> QED BY <2>2 DEF KeepsSelection
<1>4. ASSUME NEW q \in sent, DevicesReply(q) \/ DevicesReplyFails(q)
      PROVE  KeepsSelection(panel.selected, panel'.selected)
  <2>0. q \in DevicesRequest /\ DevicesInv
    BY DEF FormsInv, DevicesInv, DevicesTypeOK
  <2>1. panel.selected \subseteq panel'.selected
    <3>1. CASE DevicesReplyFails(q) \/ q.kind = "ownCustom"
      BY <1>0, <1>4, <3>1 DEF DevicesReplyFails, DevicesReply, Stained, Panels
    <3>2. CASE DevicesReply(q) /\ q.kind # "ownCustom"
      <4>1. After(q) \in Panels
        BY <2>0, AfterTypes
      <4>2. panel.selected \subseteq After(q).selected
        BY <1>0 DEF After, Panels
      <4>3. panel' = Stained(After(q), q)
        BY <3>2 DEF DevicesReply
      <4> HIDE DEF After
      <4> QED BY <4>1, <4>2, <4>3 DEF Stained, Panels
    <3> QED BY <1>4, <3>1, <3>2
  <2> QED BY <2>1 DEF KeepsSelection
<1>5. CASE \/ OpenAdd \/ \E d \in Device : OpenEdit(d) \/ OpenBrowse(d) \/ OpenBackup(d)
           \/ CloseDevicesDialog \/ SubmitBackup
  BY <1>0, <1>5 DEF OpenAdd, OpenEdit, OpenBrowse, OpenBackup, AtTable, CloseDevicesDialog, SubmitBackup,
                    Closed, Panels
<1> QED BY <1>1, <1>2, <1>3, <1>4, <1>5 DEF DevicesNext, DevicesStep

(* All that was found of the dialogs of /devices, which is inductive.       *)
PanelInv == FormsInv /\ SelectionInv /\ PathListInv

LEMMA NoPanelInv == panel = NoPanel /\ sent = {} /\ PathsTypeOK => PanelInv
BY DEF NoPanel, PanelInv, FormsInv, KindsFit, AwaitedOnce, Awaited, DevicesInv, DevicesTypeOK,
       Dialog, SelectionInv, PathListInv

LEMMA PanelStays ==
  ASSUME PanelInv, UNCHANGED <<panel, sent, own, common>>
  PROVE  PanelInv'
<1>1. DevicesInv'
  BY DevicesNextTypes DEF PanelInv, FormsInv, devicesVars, paths
<1>2. KindsFit' /\ AwaitedOnce'
  BY DEF PanelInv, FormsInv, KindsFit, AwaitedOnce, AtTable
<1>3. SelectionInv'
  BY DEF PanelInv, SelectionInv, Suits, OfDevice, Offered, Covered
<1>4. PathListInv'
  BY DEF PanelInv, PathListInv, Becomes
<1> QED BY <1>1, <1>2, <1>3, <1>4 DEF PanelInv, FormsInv

LEMMA PanelNextInv == PanelInv /\ [DevicesNext]_<<devicesVars, paths>> => PanelInv'
<1> SUFFICES ASSUME PanelInv, [DevicesNext]_<<devicesVars, paths>> PROVE PanelInv'
  OBVIOUS
<1>1. CASE DevicesNext
  BY <1>1, FormsNextInv, SelectionNextInv, PathListNextInv DEF PanelInv
<1>2. CASE UNCHANGED <<devicesVars, paths>>
  <2>1. UNCHANGED <<panel, sent, own, common>>
    BY <1>2 DEF devicesVars, paths
  <2> QED BY <2>1, PanelStays
<1> QED BY <1>1, <1>2

LEMMA PanelInductive == DevicesSpec => []PanelInv
<1> QED BY NoPanelInv, PanelNextInv, PTL DEF DevicesSpec, DevicesInit

(* Unless two folders were being opened at once, a form or a deletion of    *)
(* /devices is sent once and its dialog stays until the answer is there     *)
(* (submitForm, confirmDeleteDevice, closeModal), whatever other replies    *)
(* come and whichever of them fail.                                         *)
THEOREM FormsAreSentOnce == DevicesSpec => []FormIsSentOnce
<1> QED BY PanelInductive, FormsSentOnce, PTL DEF PanelInv

(* The paths ticked in the backup dialog of /devices are the chosen         *)
(* device's, and the files listed are those of the folder opened            *)
(* (openBackup, openBackupTargetPath, addCustomBackupPath), unless a reply  *)
(* to an earlier dialog came in.                                            *)
THEOREM SelectionsAreOfTheirDevice == DevicesSpec => []SelectionIsOfItsDevice
<1> QED BY PanelInductive, SelectionIsItsDevices, PTL DEF PanelInv

(* After one request at a time, none of which failed, the edit dialog of    *)
(* /devices shows the path list the server has (addDevicePath,              *)
(* removeDevicePath, openEdit).                                             *)
THEOREM PathListsAreTheServers == DevicesSpec => []PathListIsTheServers
<1> QED BY PanelInductive, PathListIsItsDevices, PTL DEF PanelInv

(* No tick, new path or reply drops a path from the selection of /devices   *)
(* but for a folder or files it adds instead (toggleBackupPath).            *)
THEOREM SelectionsAreKept == DevicesSpec => SelectionIsKept
<1>1. PanelInv /\ [DevicesNext]_<<devicesVars, paths>> =>
        [panel.dialog = "backup" /\ panel'.dialog = "backup" /\ ~panel'.mixed
           /\ (\A q \in sent : q.kind # "targets")
         => KeepsSelection(panel.selected, panel'.selected)]_devicesVars
  BY SelectionStep DEF PanelInv, devicesVars
<1> QED BY <1>1, PanelInductive, PTL DEF DevicesSpec, SelectionIsKept

-----------------------------------------------------------------------------
(* The same for the dialogs of /backups.                                    *)
Forms ==
  [device : Device \cup {Nobody}, category : Category, live : SUBSET Path,
   liveOf : (Device \cup {Nobody}) \X Category, added : SUBSET Path, loading : BOOLEAN,
   selected : SUBSET Path, listing : SUBSET Path, opened : Folder \cup {Nobody},
   editing : Path \cup {Nobody}, scope : {"fleet", "computer"}, doomed : Path \cup {Nobody}, mixed : BOOLEAN]

NamesPath(q) ==
  /\ q.kind \in {"save", "rename", "deleteOwn", "deleteCommon"} => q.path \in Path
  /\ q.kind \in {"list", "open"} => q.path \in Folder
FormTypes == FormTypeOK /\ \A q \in asked : NamesPath(q)

LEMMA FormKept ==
  ASSUME mode' \in ModalMode, saving' \in BOOLEAN, PathsTypeOK', form' \in Forms,
         asked' \subseteq FormRequest, \A q \in asked' : NamesPath(q)
  PROVE  FormTypes'
BY DEF FormTypes, FormTypeOK, WorkspaceTypeOK, Forms, PathsTypeOK, NamesPath

LEMMA FormFacts ==
  ASSUME FormTypes
  PROVE  /\ mode \in ModalMode /\ saving \in BOOLEAN /\ PathsTypeOK /\ form \in Forms
         /\ form.device \in Device \cup {Nobody} /\ form.category \in Category
         /\ asked \subseteq FormRequest /\ \A q \in asked : NamesPath(q)
BY DEF FormTypes, FormTypeOK, WorkspaceTypeOK, Forms

LEMMA TheirTypes ==
  ASSUME FormTypes
  PROVE  Theirs \subseteq FormRequest /\ \A q \in Theirs : NamesPath(q)
<1> DEFINE M(q) == [q EXCEPT !.mine = @ /\ q.kind = "targets"]
<1> SUFFICES ASSUME NEW q \in asked PROVE M(q) \in FormRequest /\ NamesPath(M(q))
  BY DEF Theirs
<1>1. q \in FormRequest /\ NamesPath(q)
  BY FormFacts
<1>2. PICK on \in BOOLEAN : M(q) = [q EXCEPT !.mine = on]
  <2>1. (q.mine /\ q.kind = "targets") \in BOOLEAN
    OBVIOUS
  <2> QED BY <2>1
<1>3. M(q) \in FormRequest /\ M(q).kind = q.kind /\ M(q).path = q.path
  BY <1>1, <1>2 DEF FormRequest
<1> HIDE DEF M
<1> QED BY <1>1, <1>3 DEF NamesPath

LEMMA AskedTypes ==
  ASSUME FormTypes, NEW kind \in Kinds, NEW d \in Device \cup {Nobody}, NEW p \in Path \cup {Nobody},
         kind \in {"save", "rename", "deleteOwn", "deleteCommon"} => p \in Path,
         kind \in {"list", "open"} => p \in Folder
  PROVE  /\ FormAsk(kind, d, p) \in FormRequest /\ NamesPath(FormAsk(kind, d, p))
         /\ \A ok \in BOOLEAN : /\ [FormAsk(kind, d, p) EXCEPT !.ok = ok] \in FormRequest
                                /\ NamesPath([FormAsk(kind, d, p) EXCEPT !.ok = ok])
<1>1. FormAsk(kind, d, p) \in FormRequest /\ NamesPath(FormAsk(kind, d, p))
  BY FormFacts DEF FormAsk, FormRequest, Kinds, NamesPath
<1>2. ASSUME NEW ok \in BOOLEAN
      PROVE  /\ [FormAsk(kind, d, p) EXCEPT !.ok = ok] \in FormRequest
             /\ NamesPath([FormAsk(kind, d, p) EXCEPT !.ok = ok])
  <2> DEFINE r == [FormAsk(kind, d, p) EXCEPT !.ok = ok]
  <2>1. r \in FormRequest /\ r.kind = FormAsk(kind, d, p).kind /\ r.path = FormAsk(kind, d, p).path
    BY <1>1 DEF FormRequest
  <2> HIDE DEF r
  <2>2. NamesPath(r)
    BY <1>1, <2>1 DEF NamesPath
  <2> QED BY <2>1, <2>2 DEF r
<1> QED BY <1>1, <1>2

LEMMA FetchTypes ==
  ASSUME FormTypes, NEW d \in Device, NEW category \in Category
  PROVE  FetchTargets(d, category) \in FormRequest /\ NamesPath(FetchTargets(d, category))
<1>1. TargetsOf(d) \in SUBSET Path /\ (IF category = "robot" THEN common ELSE {}) \in SUBSET Path
  BY FormFacts, PathsOfFolders DEF PathsTypeOK
<1> HIDE DEF TargetsOf
<1> QED BY <1>1 DEF FetchTargets, FormAsk, FormRequest, Kinds, NamesPath

(* What the effect asks for and cancels.                                    *)
LEMMA EffectTypes ==
  ASSUME FormTypes, NEW next \in Forms, NEW requests \in SUBSET FormRequest, NEW new \in SUBSET FormRequest,
         \A r \in requests \cup new : NamesPath(r), EffectRuns(next, requests, new)
  PROVE  asked' \subseteq FormRequest /\ \A q \in asked' : NamesPath(q)
<1>1. CASE <<next.device, next.category>> = Choice
  BY <1>1 DEF EffectRuns
<1>2. CASE <<next.device, next.category>> # Choice
  <2> DEFINE fetch == IF next.device = Nobody THEN {} ELSE {FetchTargets(next.device, next.category)}
             cancelled == {[q EXCEPT !.mine = FALSE] : q \in requests}
  <2>1. asked' = cancelled \cup new \cup fetch
    BY <1>2 DEF EffectRuns
  <2>2. next.device \in Device \cup {Nobody} /\ next.category \in Category
    BY DEF Forms
  <2>3. fetch \subseteq FormRequest /\ \A r \in fetch : NamesPath(r)
    BY <2>2, FetchTypes
  <2>4. cancelled \subseteq FormRequest /\ \A r \in cancelled : NamesPath(r)
    <3> SUFFICES ASSUME NEW q \in requests
                 PROVE  [q EXCEPT !.mine = FALSE] \in FormRequest /\ NamesPath([q EXCEPT !.mine = FALSE])
      OBVIOUS
    <3> DEFINE r == [q EXCEPT !.mine = FALSE]
    <3>1. q \in FormRequest /\ NamesPath(q)
      OBVIOUS
    <3>2. r \in FormRequest /\ r.kind = q.kind /\ r.path = q.path
      BY <3>1 DEF FormRequest
    <3> HIDE DEF r
    <3>3. NamesPath(r)
      BY <3>1, <3>2 DEF NamesPath
    <3> QED BY <3>2, <3>3 DEF r
  <2> HIDE DEF fetch, cancelled
  <2> QED BY <2>1, <2>3, <2>4
<1> QED BY <1>1, <1>2

LEMMA QuietTypes ==
  ASSUME FormTypes,
         \/ \E p \in Path \cup {Nobody} : OpenPathModal(p) \/ EditPath(p)
         \/ OpenComputerPathModal \/ CloseForm \/ SubmitBackupForm
         \/ \E p \in Path : TogglePath(p)
         \/ SelectAllBackupTargets \/ ClearBackupTargets \/ ResetBrowseState
         \/ RequestDeleteCustomPath \/ CancelDeleteCustomPath
         \/ UNCHANGED <<formVars, paths>>
  PROVE  FormTypes'
<1>0. /\ mode \in ModalMode /\ saving \in BOOLEAN /\ PathsTypeOK /\ form \in Forms
      /\ asked \subseteq FormRequest /\ \A q \in asked : NamesPath(q)
  BY FormFacts
<1>1. /\ asked' \in {asked, Theirs} /\ saving' = saving /\ UNCHANGED paths
      /\ mode' \in {mode, "none", "path"}
  BY DEF OpenPathModal, EditPath, OpenComputerPathModal, CloseForm, SubmitBackupForm, TogglePath,
         SelectAllBackupTargets, ClearBackupTargets, ResetBrowseState, RequestDeleteCustomPath,
         CancelDeleteCustomPath, formVars
<1>2. mode' \in ModalMode /\ saving' \in BOOLEAN /\ PathsTypeOK'
  BY <1>0, <1>1 DEF ModalMode, PathsTypeOK, paths
<1>3. Targets \in SUBSET Path /\ ClosedForm \in Forms
  <2>1. PICK closed \in Forms : closed = [form EXCEPT !.selected = {}, !.mixed = FALSE, !.scope = "fleet"]
    BY <1>0 DEF Forms
  <2>2. [closed EXCEPT !.listing = {}, !.opened = Nobody] \in Forms /\ [closed EXCEPT !.editing = Nobody] \in Forms
    BY DEF Forms
  <2>3. ClosedForm \in Forms
    BY <2>1, <2>2 DEF ClosedForm
  <2>4. Targets \in SUBSET Path
    BY <1>0 DEF Targets, Forms
  <2> QED BY <2>3, <2>4
<1>4. form' \in Forms
  <2>1. ASSUME NEW p \in Path \cup {Nobody}, OpenPathModal(p) \/ EditPath(p) PROVE form' \in Forms
    BY <1>0, <2>1 DEF OpenPathModal, EditPath, Forms
  <2>2. CASE OpenComputerPathModal \/ CancelDeleteCustomPath \/ ClearBackupTargets \/ ResetBrowseState
    BY <1>0, <2>2 DEF OpenComputerPathModal, CancelDeleteCustomPath, ClearBackupTargets, ResetBrowseState, Forms
  <2>3. CASE CloseForm \/ SubmitBackupForm
    BY <1>3, <2>3 DEF CloseForm, SubmitBackupForm
  <2>4. CASE RequestDeleteCustomPath
    BY <1>0, <1>3, <2>4 DEF RequestDeleteCustomPath, Forms
  <2>5. CASE SelectAllBackupTargets
    <3>1. (form.mixed \/ form.loading) \in BOOLEAN
      OBVIOUS
    <3>2. PICK on \in BOOLEAN : Ticked = [form EXCEPT !.mixed = on]
      BY <3>1 DEF Ticked
    <3> QED BY <1>0, <1>3, <2>5, <3>2 DEF SelectAllBackupTargets, Forms
  <2>6. ASSUME NEW p \in Path, TogglePath(p) PROVE form' \in Forms
    <3>1. PICK t \in Toggled(p, form.selected, Targets \cap Folder, form.opened, form.listing) :
            form' = [form EXCEPT !.selected = t]
      BY <2>6 DEF TogglePath
    <3>2. form.selected \in SUBSET Path /\ form.opened \in Folder \cup {Nobody}
      BY <1>0 DEF Forms
    <3>3. t \in SUBSET Path
      BY <3>1, <3>2, ToggledTypes
    <3> QED BY <1>0, <3>1, <3>3 DEF Forms
  <2>7. CASE UNCHANGED <<formVars, paths>>
    BY <1>0, <2>7 DEF formVars
  <2> QED BY <2>1, <2>2, <2>3, <2>4, <2>5, <2>6, <2>7
<1> QED BY <1>0, <1>1, <1>2, <1>4, TheirTypes, FormKept

LEMMA FormSendTypes ==
  ASSUME FormTypes,
         \/ \E f \in Folder : OpenTargetPath(f) \/ BrowseFiles(f)
         \/ \E p \in (Typed \cup {form.editing}) \ {Nobody} : SaveCustomPath(p)
         \/ DeleteComputerPath \/ ConfirmDeleteCustomPath
  PROVE  FormTypes'
<1>0. /\ mode \in ModalMode /\ saving \in BOOLEAN /\ PathsTypeOK /\ form \in Forms
      /\ form.device \in Device \cup {Nobody}
      /\ form.editing \in Path \cup {Nobody} /\ form.doomed \in Path \cup {Nobody}
      /\ asked \subseteq FormRequest /\ \A q \in asked : NamesPath(q)
  BY FormFacts DEF Forms
<1>1. mode' = mode /\ form' = form /\ saving' = TRUE
  BY DEF OpenTargetPath, BrowseFiles, SaveCustomPath, DeleteComputerPath, ConfirmDeleteCustomPath
<1>2. \A ps : ps \in SUBSET Path /\ (OwnPaths(form.device, ps) \/ CommonPaths(ps)) => PathsTypeOK'
  BY <1>0, OwnTypes
<1>3. UNCHANGED paths => PathsTypeOK'
  BY <1>0 DEF PathsTypeOK, paths
<1>4. form.device \in Device => own[form.device] \in SUBSET Path
  BY <1>0 DEF PathsTypeOK
<1>5. ASSUME NEW q \in FormRequest, NamesPath(q), asked' = asked \cup {q}, PathsTypeOK'
      PROVE  FormTypes'
  BY <1>0, <1>1, <1>5, FormKept
<1>6. ASSUME NEW f \in Folder, OpenTargetPath(f) \/ BrowseFiles(f) PROVE FormTypes'
  <2>1. PICK kind \in {"open", "list"} : asked' = asked \cup {FormAsk(kind, form.device, f)}
    BY <1>6 DEF OpenTargetPath, BrowseFiles
  <2>2. FormAsk(kind, form.device, f) \in FormRequest /\ NamesPath(FormAsk(kind, form.device, f))
    BY <1>0, AskedTypes, PathsOfFolders DEF Kinds
  <2>3. UNCHANGED paths
    BY <1>6 DEF OpenTargetPath, BrowseFiles
  <2> QED BY <1>3, <1>5, <2>1, <2>2, <2>3
<1>7. ASSUME NEW kind \in {"save", "rename", "deleteOwn", "deleteCommon"}, NEW d \in Device \cup {Nobody},
             NEW p \in Path, NEW ok \in BOOLEAN,
             asked' = asked \cup {[FormAsk(kind, d, p) EXCEPT !.ok = ok]}, PathsTypeOK'
      PROVE  FormTypes'
  <2>1. /\ [FormAsk(kind, d, p) EXCEPT !.ok = ok] \in FormRequest
        /\ NamesPath([FormAsk(kind, d, p) EXCEPT !.ok = ok])
    BY AskedTypes DEF Kinds
  <2> QED BY <1>5, <1>7, <2>1
(* A device of one's own is chosen, or EXCEPT changes nothing.              *)
<1>8. ASSUME NEW f PROVE OwnPaths(form.device, f) /\ form.device \notin Device => PathsTypeOK'
  BY <1>0 DEF OwnPaths, PathsTypeOK
<1>9. ASSUME NEW p \in (Typed \cup {form.editing}) \ {Nobody}, SaveCustomPath(p) PROVE FormTypes'
  <2>1. p \in Path
    BY <1>0, PathsOK
  <2>2. PICK ok \in BOOLEAN :
          /\ asked' = asked \cup {[FormAsk(IF form.editing = Nobody THEN "save" ELSE "rename",
                                           form.device, p) EXCEPT !.ok = ok]}
          /\ \/ UNCHANGED paths
             \/ OwnPaths(form.device, own[form.device] \cup {p})
             \/ CommonPaths(common \cup {p})
    BY <1>9 DEF SaveCustomPath
  <2>3. common \cup {p} \in SUBSET Path /\ (form.device \in Device => own[form.device] \cup {p} \in SUBSET Path)
    BY <1>0, <1>4, <2>1 DEF PathsTypeOK
  <2>4. PathsTypeOK'
    BY <1>2, <1>3, <1>8, <2>2, <2>3
  <2>5. (IF form.editing = Nobody THEN "save" ELSE "rename") \in {"save", "rename", "deleteOwn", "deleteCommon"}
    OBVIOUS
  <2> QED BY <1>0, <1>7, <2>1, <2>2, <2>4, <2>5
<1>10. CASE DeleteComputerPath
  <2>1. form.editing \in Path
    BY <1>0, <1>10 DEF DeleteComputerPath
  <2>2. PICK ok \in BOOLEAN :
          /\ asked' = asked \cup {[FormAsk("deleteOwn", form.device, form.editing) EXCEPT !.ok = ok]}
          /\ UNCHANGED paths \/ OwnPaths(form.device, own[form.device] \ {form.editing})
    BY <1>10 DEF DeleteComputerPath
  <2>3. form.device \in Device => own[form.device] \ {form.editing} \in SUBSET Path
    BY <1>4
  <2>4. PathsTypeOK'
    BY <1>2, <1>3, <1>8, <2>2, <2>3
  <2> QED BY <1>0, <1>7, <2>1, <2>2, <2>4
<1>11. CASE ConfirmDeleteCustomPath
  <2>1. form.doomed \in Path
    BY <1>0, <1>11 DEF ConfirmDeleteCustomPath
  <2>2. PICK ok \in BOOLEAN :
          /\ asked' = asked \cup {[FormAsk("deleteCommon", Nobody, form.doomed) EXCEPT !.ok = ok]}
          /\ UNCHANGED paths \/ CommonPaths(common \ {form.doomed})
    BY <1>11 DEF ConfirmDeleteCustomPath
  <2>3. common \ {form.doomed} \in SUBSET Path
    BY <1>0 DEF PathsTypeOK
  <2>4. PathsTypeOK'
    BY <1>2, <1>3, <2>2, <2>3
  <2> QED BY <1>7, <2>1, <2>2, <2>4
<1> QED BY <1>6, <1>9, <1>10, <1>11

LEMMA ListTypes ==
  ASSUME FormTypes, NEW d \in Device \cup {Nobody}, NEW f \in Folder
  PROVE  {FormAsk("list", d, f)} \in SUBSET FormRequest /\ \A r \in {FormAsk("list", d, f)} : NamesPath(r)
<1>1. FormAsk("list", d, f) \in FormRequest /\ NamesPath(FormAsk("list", d, f))
  BY AskedTypes, PathsOfFolders DEF Kinds
<1> QED BY <1>1

LEMMA AsRobotTypes ==
  ASSUME form \in Forms
  PROVE  AsRobot \in Forms
<1>1. (form.loading \/ (form.device # Nobody /\ form.category # "robot")) \in BOOLEAN
  OBVIOUS
<1>2. PICK on \in BOOLEAN :
        AsRobot = [form EXCEPT !.category = "robot", !.listing = {}, !.opened = Nobody, !.mixed = FALSE,
                     !.loading = on]
  BY <1>1 DEF AsRobot
<1> QED BY <1>2 DEF Forms, Category

(* Steps that may change the choice.                                        *)
LEMMA ChoiceTypes ==
  ASSUME FormTypes,
         \/ OpenBackupModal \/ OpenBrowseModal
         \/ \E d \in Device \cup {Nobody} : ChangeDevice(d) \/ BrowseDevice(d)
         \/ \E category \in Category : ChangeBackupCategory(category)
  PROVE  FormTypes'
<1>0. /\ mode \in ModalMode /\ saving \in BOOLEAN /\ PathsTypeOK /\ form \in Forms
      /\ form.device \in Device \cup {Nobody} /\ common \in SUBSET Path
  BY FormFacts DEF PathsTypeOK
<1>1. /\ mode' \in {mode, "backup", "browse"} /\ saving' \in {saving, TRUE} /\ UNCHANGED paths
  BY DEF OpenBackupModal, OpenBrowseModal, ChangeDevice, BrowseDevice, ChangeBackupCategory
<1>2. mode' \in ModalMode /\ saving' \in BOOLEAN /\ PathsTypeOK'
  BY <1>0, <1>1 DEF ModalMode, PathsTypeOK, paths
<1>3. PICK new \in SUBSET FormRequest : EffectRuns(form', Theirs, new) /\ \A r \in new : NamesPath(r)
  <2>1. CASE EffectRuns(form', Theirs, {})
    BY <2>1
  <2>2. ASSUME NEW d \in Device \cup {Nobody}, NEW f \in Folder, EffectRuns(form', Theirs, {FormAsk("list", d, f)})
        PROVE  \E new \in SUBSET FormRequest : EffectRuns(form', Theirs, new) /\ \A r \in new : NamesPath(r)
    BY <2>2, ListTypes
  <2> QED BY <1>0, <2>1, <2>2
          DEF OpenBackupModal, OpenBrowseModal, ChangeDevice, BrowseDevice, ChangeBackupCategory
<1>4. form' \in Forms
  <2>1. CASE OpenBackupModal \/ OpenBrowseModal
    <3>3. AsRobot \in Forms
      BY <1>0, AsRobotTypes
    <3>4. form' = AsRobot \/ form' = [AsRobot EXCEPT !.selected = {}]
      BY <2>1 DEF OpenBackupModal, OpenBrowseModal
    <3> HIDE DEF AsRobot
    <3> QED BY <3>3, <3>4 DEF Forms
  <2>2. ASSUME NEW d \in Device \cup {Nobody}, ChangeDevice(d) \/ BrowseDevice(d) PROVE form' \in Forms
    <3>1. /\ (form.mixed \/ form.opened # Nobody) \in BOOLEAN /\ (d # Nobody) \in BOOLEAN
      OBVIOUS
    <3>2. PICK on \in BOOLEAN, loads \in BOOLEAN, live \in SUBSET Path, of \in (Device \cup {Nobody}) \X Category :
            Rechosen(d) = [form EXCEPT !.device = d, !.selected = {}, !.added = {}, !.loading = loads,
                             !.mixed = on, !.live = live, !.liveOf = of]
      <4>1. (IF d # Nobody THEN form.live ELSE IF form.category = "robot" THEN common ELSE {}) \in SUBSET Path
        BY <1>0 DEF Forms
      <4>2. (IF d # Nobody THEN form.liveOf ELSE <<Nobody, form.category>>) \in (Device \cup {Nobody}) \X Category
        BY <1>0 DEF Forms
      <4> QED BY <3>1, <4>1, <4>2 DEF Rechosen
    <3>3. Rechosen(d) \in Forms
      BY <1>0, <3>2 DEF Forms
    <3>4. form' = Rechosen(d) \/ form' = [Rechosen(d) EXCEPT !.listing = {}]
      BY <2>2 DEF ChangeDevice, BrowseDevice
    <3> HIDE DEF Rechosen
    <3> QED BY <3>3, <3>4 DEF Forms
  <2>3. ASSUME NEW category \in Category, ChangeBackupCategory(category) PROVE form' \in Forms
    <3>1. PICK on \in BOOLEAN, live \in SUBSET Path, of \in (Device \cup {Nobody}) \X Category :
            form' = [form EXCEPT !.category = category, !.device = Nobody, !.selected = {},
                       !.added = {}, !.live = live, !.liveOf = of, !.loading = FALSE, !.mixed = on]
      <4>1. (form.mixed \/ form.opened # Nobody) \in BOOLEAN
        OBVIOUS
      <4>2. (IF category = "robot" THEN common ELSE {}) \in SUBSET Path
        BY <1>0
      <4>3. <<Nobody, category>> \in (Device \cup {Nobody}) \X Category
        OBVIOUS
      <4> QED BY <2>3, <4>1, <4>2, <4>3 DEF ChangeBackupCategory
    <3> QED BY <1>0, <3>1 DEF Forms
  <2> QED BY <2>1, <2>2, <2>3
<1>5. asked' \subseteq FormRequest /\ \A q \in asked' : NamesPath(q)
  BY <1>3, <1>4, TheirTypes, EffectTypes
<1> QED BY <1>2, <1>4, <1>5, FormKept

LEMMA AfterReplyTypes ==
  ASSUME FormTypes, NEW q \in asked
  PROVE  /\ AfterReply(q) \in Forms
         /\ \A targets \in SUBSET Path : TargetsReply(q, targets) \in Forms
<1>0. form \in Forms /\ q \in FormRequest /\ NamesPath(q)
  BY FormFacts
<1>3. ASSUME NEW targets \in SUBSET Path PROVE TargetsReply(q, targets) \in Forms
  <2>1. <<q.device, q.category>> \in (Device \cup {Nobody}) \X Category
    BY <1>0 DEF FormRequest
  <2> QED BY <1>0, <2>1 DEF TargetsReply, Forms
<1>4. AfterReply(q) \in Forms
  <2>1. /\ q.kind \in {"save", "rename", "deleteOwn", "deleteCommon"} => q.path \in Path
        /\ q.kind = "open" => q.path \in Folder
        /\ Inside(q.path) \in SUBSET Path /\ q.seen \in SUBSET Path
    BY <1>0, PathsOfFolders DEF NamesPath, FormRequest
  <2>2. CASE q.kind = "targets"
    BY <1>3, <2>1, <2>2 DEF AfterReply
  <2>3. CASE q.kind \in {"list", "open"}
    BY <1>0, <2>1, <2>3 DEF AfterReply, Forms
  <2>4. CASE q.kind \in {"save", "rename"}
    BY <1>0, <2>1, <2>4 DEF AfterReply, Forms
  <2>5. CASE q.kind \in {"deleteOwn", "deleteCommon"}
    BY <1>0, <2>1, <2>5 DEF AfterReply, Forms
  <2>6. q.kind \in Kinds
    BY <1>0 DEF FormRequest, Kinds
  <2> QED BY <2>2, <2>3, <2>4, <2>5, <2>6 DEF Kinds
<1> QED BY <1>3, <1>4

LEMMA FormReplyTypes ==
  ASSUME FormTypes, NEW q \in asked, FormReply(q) \/ FormReplyFails(q)
  PROVE  FormTypes'
<1>0. /\ mode \in ModalMode /\ saving \in BOOLEAN /\ PathsTypeOK /\ form \in Forms
      /\ q \in FormRequest /\ NamesPath(q) /\ common \in SUBSET Path
      /\ asked \subseteq FormRequest /\ \A r \in asked : NamesPath(r)
  BY FormFacts DEF PathsTypeOK
<1>1. asked' = asked \ {q} /\ mode' = mode /\ saving' = (saving /\ q.kind = "targets") /\ UNCHANGED paths
  BY DEF FormReply, FormReplyFails
<1>2. saving' \in BOOLEAN /\ PathsTypeOK'
  BY <1>0, <1>1 DEF PathsTypeOK, paths
<1>4. AfterReply(q) \in Forms /\ \A targets \in SUBSET Path : TargetsReply(q, targets) \in Forms
  BY AfterReplyTypes
<1>5. form' \in Forms
  <2>1. CASE FormReply(q)
    <3> DEFINE next == AfterReply(q)
    <3>1. (next.mixed \/ (~q.mine /\ q.kind # "targets")) \in BOOLEAN
      OBVIOUS
    <3>2. PICK on \in BOOLEAN : form' = [next EXCEPT !.mixed = on]
      BY <2>1, <3>1 DEF FormReply
    <3> HIDE DEF next
    <3>3. next \in Forms
      BY <1>4 DEF next
    <3> QED BY <3>2, <3>3 DEF Forms
  <2>2. CASE FormReplyFails(q)
    <3>1. q.spare \in SUBSET Path
      BY <1>0 DEF FormRequest
    <3>2. TargetsReply(q, q.spare) \in Forms
      BY <1>4, <3>1
    <3> QED BY <1>0, <2>2, <3>2 DEF FormReplyFails, Forms
  <2> QED BY <2>1, <2>2
<1> QED BY <1>0, <1>1, <1>2, <1>5, FormKept

LEMMA FormNextTypes == FormTypes /\ (FormNext \/ UNCHANGED <<formVars, paths>>) => FormTypes'
<1> SUFFICES ASSUME FormTypes, FormNext \/ UNCHANGED <<formVars, paths>> PROVE FormTypes'
  OBVIOUS
<1>1. CASE \/ \E p \in Path \cup {Nobody} : OpenPathModal(p) \/ EditPath(p)
           \/ OpenComputerPathModal \/ CloseForm \/ SubmitBackupForm
           \/ \E p \in Path : TogglePath(p)
           \/ SelectAllBackupTargets \/ ClearBackupTargets \/ ResetBrowseState
           \/ RequestDeleteCustomPath \/ CancelDeleteCustomPath
           \/ UNCHANGED <<formVars, paths>>
  BY <1>1, QuietTypes
<1>2. CASE \/ \E f \in Folder : OpenTargetPath(f) \/ BrowseFiles(f)
           \/ \E p \in (Typed \cup {form.editing}) \ {Nobody} : SaveCustomPath(p)
           \/ DeleteComputerPath \/ ConfirmDeleteCustomPath
  BY <1>2, FormSendTypes
<1>3. CASE \/ OpenBackupModal \/ OpenBrowseModal
           \/ \E d \in Device \cup {Nobody} : ChangeDevice(d) \/ BrowseDevice(d)
           \/ \E category \in Category : ChangeBackupCategory(category)
  BY <1>3, ChoiceTypes
<1>4. CASE \E q \in asked : FormReply(q) \/ FormReplyFails(q)
  BY <1>4, FormReplyTypes
<1> QED BY <1>1, <1>2, <1>3, <1>4 DEF FormNext, FormStep

-----------------------------------------------------------------------------
(* The targets are awaited only while `loading` is set, once; nothing is    *)
(* ticked or open then; and what is ticked or open later lies in a target.  *)
LoadingInv ==
  /\ form.doomed # Nobody => mode = "none"
  /\ \A q \in asked : Counts(q) => form.loading
  /\ \A q, r \in asked : Counts(q) /\ Counts(r) => q = r

TicksInv ==
  mode = "backup" /\ ~form.mixed =>
    /\ \A p \in form.selected : Covered(p, Targets)
    /\ form.opened # Nobody => Covered(form.opened, Targets) /\ form.listing = Inside(form.opened)
    /\ \A q \in asked : q.mine /\ q.kind # "targets" => q.kind = "open" /\ Covered(q.path, Targets)
    /\ form.loading => form.selected = {} /\ form.opened = Nobody /\ \A q \in asked : q.mine => q.kind = "targets"

TickInv == FormTypes /\ FormInv /\ LoadingInv /\ TicksInv

LEMMA TheirsAreTargets ==
  ASSUME FormTypes
  PROVE  \A r \in Theirs : r.mine => r \in asked /\ Counts(r)
<1> SUFFICES ASSUME NEW q \in asked, [q EXCEPT !.mine = @ /\ q.kind = "targets"].mine
             PROVE  LET r == [q EXCEPT !.mine = @ /\ q.kind = "targets"] IN r \in asked /\ Counts(r)
  BY DEF Theirs
<1>1. q \in FormRequest
  BY FormFacts
<1>2. q.mine /\ q.kind = "targets"
  BY <1>1 DEF FormRequest
<1>3. [q EXCEPT !.mine = @ /\ q.kind = "targets"] = q
  BY <1>1, <1>2 DEF FormRequest
<1> QED BY <1>2, <1>3 DEF Counts

LEMMA SameLoading ==
  ASSUME LoadingInv, \A r \in asked' : Counts(r) => r \in asked, form'.loading = form.loading,
         form'.doomed # Nobody => mode' = "none"
  PROVE  LoadingInv'
BY DEF LoadingInv, Counts

(* Steps that end in another dialog.                                        *)
LEMMA ElsewhereTicks ==
  ASSUME TickInv,
         \/ \E p \in Path \cup {Nobody} : OpenPathModal(p) \/ EditPath(p)
         \/ OpenComputerPathModal \/ CloseForm \/ SubmitBackupForm
         \/ RequestDeleteCustomPath \/ CancelDeleteCustomPath
  PROVE  LoadingInv' /\ TicksInv'
<1>0. form \in Forms
  BY FormFacts DEF TickInv
<1>1. asked' \in {asked, Theirs} /\ mode' # "backup"
  BY DEF OpenPathModal, EditPath, OpenComputerPathModal, CloseForm, SubmitBackupForm,
         RequestDeleteCustomPath, CancelDeleteCustomPath, TickInv, LoadingInv
<1>2. form'.loading = form.loading /\ (form'.doomed # Nobody => mode' = "none")
  <2>1. ClosedForm \in Forms /\ ClosedForm.loading = form.loading /\ ClosedForm.doomed = form.doomed
    BY <1>0 DEF ClosedForm, Forms
  <2>2. CASE CloseForm \/ SubmitBackupForm
    BY <2>1, <2>2 DEF CloseForm, SubmitBackupForm, TickInv, LoadingInv
  <2>3. CASE RequestDeleteCustomPath
    BY <2>1, <2>3 DEF RequestDeleteCustomPath, Forms
  <2>4. CASE OpenComputerPathModal \/ \E p \in Path \cup {Nobody} : OpenPathModal(p)
    BY <1>0, <2>4 DEF OpenComputerPathModal, OpenPathModal, OnPage, TickInv, LoadingInv, Forms
  <2>5. CASE CancelDeleteCustomPath \/ \E p \in Path \cup {Nobody} : EditPath(p)
    BY <1>0, <2>5 DEF CancelDeleteCustomPath, EditPath, TickInv, LoadingInv, Forms
  <2> QED BY <2>2, <2>3, <2>4, <2>5
<1>3. \A r \in asked' : Counts(r) => r \in asked
  BY <1>1, TheirsAreTargets DEF TickInv, Counts
<1> QED BY <1>1, <1>2, <1>3, SameLoading DEF TickInv, TicksInv

(* Ticks.                                                                   *)
LEMMA TicksTicks ==
  ASSUME TickInv,
         \/ \E p \in Path : TogglePath(p)
         \/ SelectAllBackupTargets \/ ClearBackupTargets \/ ResetBrowseState
  PROVE  LoadingInv' /\ TicksInv'
<1>0. form \in Forms /\ mode = "backup"
  BY FormFacts DEF TickInv, TogglePath, SelectAllBackupTargets, ClearBackupTargets, ResetBrowseState
<1>1. /\ UNCHANGED <<mode, asked>> /\ form'.loading = form.loading /\ form'.doomed = form.doomed
      /\ form'.live = form.live /\ form'.added = form.added
  BY <1>0 DEF TogglePath, SelectAllBackupTargets, ClearBackupTargets, ResetBrowseState, Ticked, Forms
<1>2. LoadingInv'
  BY <1>1, SameLoading DEF TickInv, LoadingInv
<1>3. Targets' = Targets
  BY <1>1 DEF Targets
<1>4. CASE ClearBackupTargets \/ ResetBrowseState
  <2>1. /\ form'.mixed = form.mixed /\ form'.selected \subseteq form.selected
        /\ form'.opened = Nobody \/ (form'.opened = form.opened /\ form'.listing = form.listing)
    BY <1>0, <1>4 DEF ClearBackupTargets, ResetBrowseState, Forms
  <2> QED BY <1>0, <1>1, <1>2, <1>3, <2>1 DEF TickInv, TicksInv
<1>5. CASE SelectAllBackupTargets
  <2>1. /\ form'.mixed = (form.mixed \/ form.loading) /\ form'.selected = Targets
        /\ form'.opened = form.opened /\ form'.listing = form.listing
    BY <1>0, <1>5 DEF SelectAllBackupTargets, Ticked, Forms
  <2> QED BY <1>0, <1>1, <1>2, <1>3, <2>1 DEF TickInv, TicksInv, Covered
<1>6. ASSUME NEW p \in Path, TogglePath(p) PROVE TicksInv'
  <2>1. PICK s \in Toggled(p, form.selected, Targets \cap Folder, form.opened, form.listing) :
          form' = [form EXCEPT !.selected = s]
    BY <1>6 DEF TogglePath
  <2>2. /\ form'.mixed = form.mixed /\ form'.selected = s
        /\ form'.opened = form.opened /\ form'.listing = form.listing
    BY <1>0, <2>1 DEF Forms
  <2> SUFFICES ASSUME ~form.mixed PROVE TicksInv'
    BY <2>2 DEF TicksInv
  <2>3. ~form.loading
    BY <1>0, <1>6 DEF TogglePath, TickInv, TicksInv
  <2>4. Covered(p, Targets)
    <3>1. CASE p \in Targets
      BY <3>1 DEF Covered
    <3>2. CASE form.opened # Nobody /\ p \in form.listing
      BY <1>0, <3>2, InsideIsCovered DEF TickInv, TicksInv
    <3> QED BY <1>6, <3>1, <3>2 DEF TogglePath
  <2>5. s \subseteq form.selected \cup {p} \cup (IF form.opened = Nobody THEN {} ELSE {form.opened})
    BY ToggledFrom
  <2>6. \A r \in s : Covered(r, Targets)
    BY <1>0, <2>4, <2>5 DEF TickInv, TicksInv
  <2> QED BY <1>0, <1>1, <1>3, <2>2, <2>3, <2>6 DEF TickInv, TicksInv
<1> QED BY <1>2, <1>4, <1>5, <1>6

(* Requests that are not for targets.                                       *)
LEMMA SendsTicks ==
  ASSUME TickInv,
         \/ \E f \in Folder : OpenTargetPath(f) \/ BrowseFiles(f)
         \/ \E p \in (Typed \cup {form.editing}) \ {Nobody} : SaveCustomPath(p)
         \/ DeleteComputerPath \/ ConfirmDeleteCustomPath
  PROVE  LoadingInv' /\ TicksInv'
<1>1. UNCHANGED <<mode, form>>
  BY DEF OpenTargetPath, BrowseFiles, SaveCustomPath, DeleteComputerPath, ConfirmDeleteCustomPath
<1>2. ASSUME NEW q, asked' = asked \cup {q}, q.kind # "targets",
             mode = "backup" /\ ~form.mixed => q.kind = "open" /\ Covered(q.path, Targets) /\ ~form.loading
      PROVE  LoadingInv' /\ TicksInv'
  <2>1. \A r \in asked' : Counts(r) => r \in asked
    BY <1>2 DEF Counts
  <2>2. LoadingInv'
    BY <1>1, <2>1, SameLoading DEF TickInv, LoadingInv
  <2>3. TicksInv'
    BY <1>1, <1>2 DEF TickInv, TicksInv, Targets
  <2> QED BY <2>2, <2>3
<1>3. ASSUME NEW f \in Folder, OpenTargetPath(f) PROVE LoadingInv' /\ TicksInv'
  <2> DEFINE q == FormAsk("open", form.device, f)
  <2>1. asked' = asked \cup {q} /\ q.kind = "open" /\ q.path = f
    BY <1>3 DEF OpenTargetPath, FormAsk
  <2> HIDE DEF q
  <2>2. mode = "backup" /\ ~form.mixed => Covered(f, Targets) /\ ~form.loading
    <3> SUFFICES ASSUME mode = "backup", ~form.mixed PROVE Covered(f, Targets) /\ ~form.loading
      OBVIOUS
    <3>1. ~form.loading
      BY <1>3 DEF OpenTargetPath, TickInv, TicksInv
    <3>2. CASE f \in Targets
      BY <3>1, <3>2 DEF Covered
    <3>3. CASE form.opened # Nobody /\ f \in form.listing
      BY <3>1, <3>3, InsideIsCovered DEF TickInv, TicksInv
    <3> QED BY <1>3, <3>2, <3>3 DEF OpenTargetPath
  <2> QED BY <1>2, <2>1, <2>2
<1>4. ASSUME NEW f \in Folder, BrowseFiles(f) PROVE LoadingInv' /\ TicksInv'
  <2> DEFINE q == FormAsk("list", form.device, f)
  <2>1. asked' = asked \cup {q} /\ q.kind = "list" /\ mode = "browse"
    BY <1>4 DEF BrowseFiles, FormAsk
  <2> HIDE DEF q
  <2> QED BY <1>2, <2>1
<1>5. ASSUME NEW kind \in {"save", "rename", "deleteOwn", "deleteCommon"}, NEW d, NEW p, NEW ok \in BOOLEAN,
             asked' = asked \cup {[FormAsk(kind, d, p) EXCEPT !.ok = ok]}, mode # "backup"
      PROVE  LoadingInv' /\ TicksInv'
  <2>1. [FormAsk(kind, d, p) EXCEPT !.ok = ok].kind # "targets"
    BY DEF FormAsk
  <2> QED BY <1>2, <1>5, <2>1
<1>6. ASSUME NEW p, SaveCustomPath(p) PROVE LoadingInv' /\ TicksInv'
  <2>1. PICK ok \in BOOLEAN :
          asked' = asked \cup {[FormAsk(IF form.editing = Nobody THEN "save" ELSE "rename",
                                        form.device, p) EXCEPT !.ok = ok]}
    BY <1>6 DEF SaveCustomPath
  <2>2. mode # "backup"
    BY <1>6 DEF SaveCustomPath
  <2>3. (IF form.editing = Nobody THEN "save" ELSE "rename") \in {"save", "rename", "deleteOwn", "deleteCommon"}
    OBVIOUS
  <2> QED BY <1>5, <2>1, <2>2, <2>3
<1>7. CASE DeleteComputerPath
  <2>1. PICK ok \in BOOLEAN :
          asked' = asked \cup {[FormAsk("deleteOwn", form.device, form.editing) EXCEPT !.ok = ok]}
    BY <1>7 DEF DeleteComputerPath
  <2> QED BY <1>5, <1>7, <2>1 DEF DeleteComputerPath
<1>8. CASE ConfirmDeleteCustomPath
  <2>1. PICK ok \in BOOLEAN :
          asked' = asked \cup {[FormAsk("deleteCommon", Nobody, form.doomed) EXCEPT !.ok = ok]}
    BY <1>8 DEF ConfirmDeleteCustomPath
  <2>2. mode # "backup"
    BY <1>8 DEF ConfirmDeleteCustomPath, TickInv, LoadingInv
  <2> QED BY <1>5, <2>1, <2>2
<1> QED BY <1>3, <1>4, <1>6, <1>7, <1>8

(* What the effect leaves of the requests.                                  *)
LEMMA EffectTicks ==
  ASSUME TickInv, NEW new, EffectRuns(form', Theirs, new), \A r \in new : r.kind # "targets",
         form'.doomed = form.doomed, form.doomed # Nobody => mode' = "none",
         Choice' = Choice => form'.loading = form.loading,
         Choice' # Choice => (form'.device # Nobody => form'.loading)
  PROVE  LoadingInv' /\ \A r \in asked' : r.mine => r \in new \/ r.kind = "targets"
<1>0. FormTypes /\ asked \subseteq FormRequest
  BY FormFacts DEF TickInv
<1>1. \A r \in new : ~Counts(r)
  BY DEF Counts
<1>2. CASE Choice' = Choice
  <2>1. asked' = Theirs \cup new
    BY <1>2 DEF EffectRuns, Choice
  <2>2. \A r \in asked' : Counts(r) => r \in asked
    BY <1>0, <1>1, <2>1, TheirsAreTargets DEF Counts
  <2>3. LoadingInv'
    BY <1>2, <2>2, SameLoading DEF TickInv
  <2> QED BY <1>0, <2>1, <2>3, TheirsAreTargets DEF Counts
<1>3. CASE Choice' # Choice
  <2> DEFINE fetch == IF form'.device = Nobody THEN {} ELSE {FetchTargets(form'.device, form'.category)}
             cancelled == {[q EXCEPT !.mine = FALSE] : q \in Theirs}
  <2>1. asked' = cancelled \cup new \cup fetch
    BY <1>3 DEF EffectRuns, Choice
  <2>2. \A r \in cancelled : ~r.mine
    <3> SUFFICES ASSUME NEW q \in Theirs PROVE ~[q EXCEPT !.mine = FALSE].mine
      OBVIOUS
    <3>1. q \in FormRequest
      BY <1>0, TheirTypes
    <3> QED BY <3>1 DEF FormRequest
  <2>3. /\ \A r \in fetch : r.kind = "targets" /\ form'.device # Nobody
        /\ \A q, r \in fetch : q = r
    BY DEF FetchTargets, FormAsk
  <2> HIDE DEF fetch, cancelled
  <2>4. \A r \in asked' : Counts(r) => r \in fetch
    BY <1>1, <2>1, <2>2 DEF Counts
  <2>5. LoadingInv'
    BY <1>3, <2>3, <2>4 DEF LoadingInv, TickInv, Counts
  <2> QED BY <2>1, <2>2, <2>3, <2>5
<1> QED BY <1>2, <1>3

(* Steps that may change the choice.                                        *)
LEMMA ChoiceTicks ==
  ASSUME TickInv,
         \/ OpenBackupModal \/ OpenBrowseModal
         \/ \E d \in Device \cup {Nobody} : ChangeDevice(d) \/ BrowseDevice(d)
         \/ \E category \in Category : ChangeBackupCategory(category)
  PROVE  LoadingInv' /\ TicksInv'
<1>0. form \in Forms /\ FormInv /\ (form.doomed # Nobody => mode = "none")
  BY FormFacts DEF TickInv, LoadingInv
<1>1. CASE OpenBackupModal \/ OpenBrowseModal
  <2>1. PICK next \in {AsRobot, [AsRobot EXCEPT !.selected = {}]} :
          form' = next /\ (OpenBackupModal => next.selected = {})
    <3>1. AsRobot \in Forms
      BY <1>0, AsRobotTypes
    <3> QED BY <1>1, <3>1 DEF OpenBackupModal, OpenBrowseModal, Forms
  <2>2. /\ form'.category = "robot" /\ form'.device = form.device /\ form'.doomed = form.doomed
        /\ form'.opened = Nobody
        /\ form'.loading = (form.loading \/ (form.device # Nobody /\ form.category # "robot"))
    BY <1>0, <2>1 DEF AsRobot, Forms
  <2>3. form.doomed = Nobody
    BY <1>1 DEF OpenBackupModal, OpenBrowseModal, OnPage
  <2>4. PICK new : EffectRuns(form', Theirs, new) /\ (\A r \in new : r.kind # "targets")
                   /\ (OpenBackupModal => new = {})
    <3>1. \A d, f : FormAsk("list", d, f).kind # "targets"
      BY DEF FormAsk
    <3>2. CASE EffectRuns(form', Theirs, {})
      BY <3>2
    <3>3. CASE ~OpenBackupModal /\ \E f \in Folder : EffectRuns(form', Theirs, {FormAsk("list", form.device, f)})
      BY <3>1, <3>3
    <3> QED BY <1>1, <3>2, <3>3 DEF OpenBackupModal, OpenBrowseModal
  <2>5. /\ Choice' = Choice => form'.loading = form.loading
        /\ Choice' # Choice => (form'.device # Nobody => form'.loading)
    BY <1>0, <2>2 DEF Choice, Forms
  <2>6. LoadingInv' /\ \A r \in asked' : r.mine => r \in new \/ r.kind = "targets"
    BY <2>2, <2>3, <2>4, <2>5, EffectTicks
  <2>7. TicksInv'
    BY <1>1, <2>1, <2>2, <2>4, <2>6 DEF OpenBackupModal, OpenBrowseModal, TicksInv
  <2> QED BY <2>6, <2>7
<1>2. ASSUME mode' = mode, mode \in {"backup", "browse"}, NEW new, EffectRuns(form', Theirs, new),
             \A r \in new : r.kind # "targets", mode = "backup" => new = {},
             form'.doomed = form.doomed, form'.loading = (form'.device # Nobody), form'.selected = {},
             form'.opened = form.opened, form'.mixed = (form.mixed \/ form.opened # Nobody),
             Choice' = Choice => form'.device = Nobody
      PROVE  LoadingInv' /\ TicksInv'
  <2>1. Choice' = Choice => form'.loading = form.loading
    <3> SUFFICES ASSUME Choice' = Choice PROVE form'.loading = form.loading
      OBVIOUS
    <3>1. form'.loading = FALSE /\ form.device = Nobody
      BY <1>2 DEF Choice
    <3>2. ~form.loading
      BY <1>0, <3>1 DEF FormInv, Fetching, Choice
    <3> QED BY <1>0, <3>1, <3>2 DEF Forms
  <2>2. LoadingInv' /\ \A r \in asked' : r.mine => r \in new \/ r.kind = "targets"
    BY <1>0, <1>2, <2>1, EffectTicks
  <2>3. TicksInv'
    BY <1>2, <2>2 DEF TicksInv
  <2> QED BY <2>2, <2>3
<1>3. ASSUME NEW d \in Device \cup {Nobody}, ChangeDevice(d) \/ BrowseDevice(d)
      PROVE  LoadingInv' /\ TicksInv'
  <2>1. /\ form'.doomed = form.doomed /\ form'.loading = (form'.device # Nobody) /\ form'.selected = {}
        /\ form'.opened = form.opened /\ form'.mixed = (form.mixed \/ form.opened # Nobody)
        /\ form'.device = d /\ d # form.device /\ mode' = mode
    <3>1. /\ Rechosen(d).device = d /\ Rechosen(d).loading = (d # Nobody) /\ Rechosen(d).selected = {}
          /\ Rechosen(d).opened = form.opened /\ Rechosen(d).doomed = form.doomed
          /\ Rechosen(d).mixed = (form.mixed \/ form.opened # Nobody)
          /\ DOMAIN Rechosen(d) = DOMAIN form
      BY <1>0 DEF Rechosen, Forms
    <3>2. /\ form' = Rechosen(d) \/ form' = [Rechosen(d) EXCEPT !.listing = {}]
          /\ d # form.device /\ mode' = mode
      BY <1>3 DEF ChangeDevice, BrowseDevice
    <3>3. /\ [Rechosen(d) EXCEPT !.listing = {}].device = Rechosen(d).device
          /\ [Rechosen(d) EXCEPT !.listing = {}].loading = Rechosen(d).loading
          /\ [Rechosen(d) EXCEPT !.listing = {}].selected = Rechosen(d).selected
          /\ [Rechosen(d) EXCEPT !.listing = {}].opened = Rechosen(d).opened
          /\ [Rechosen(d) EXCEPT !.listing = {}].doomed = Rechosen(d).doomed
          /\ [Rechosen(d) EXCEPT !.listing = {}].mixed = Rechosen(d).mixed
      BY <1>0 DEF Rechosen, Forms
    <3> HIDE DEF Rechosen
    <3> QED BY <3>1, <3>2, <3>3
  <2>2. PICK new : EffectRuns(form', Theirs, new) /\ (\A r \in new : r.kind # "targets")
                   /\ (mode = "backup" => new = {})
    <3>1. \A f : FormAsk("list", d, f).kind # "targets"
      BY DEF FormAsk
    <3>2. CASE EffectRuns(form', Theirs, {})
      BY <3>2
    <3>3. CASE mode # "backup" /\ \E f \in Folder : EffectRuns(form', Theirs, {FormAsk("list", d, f)})
      BY <3>1, <3>3
    <3> QED BY <1>3, <3>2, <3>3 DEF ChangeDevice, BrowseDevice
  <2>3. mode \in {"backup", "browse"} /\ (Choice' = Choice => form'.device = Nobody)
    BY <1>3, <2>1 DEF ChangeDevice, BrowseDevice, Choice
  <2> QED BY <1>2, <2>1, <2>2, <2>3
<1>4. ASSUME NEW category \in Category, ChangeBackupCategory(category) PROVE LoadingInv' /\ TicksInv'
  <2>1. /\ form'.doomed = form.doomed /\ form'.loading = FALSE /\ form'.device = Nobody /\ form'.selected = {}
        /\ form'.opened = form.opened /\ form'.mixed = (form.mixed \/ form.opened # Nobody)
    BY <1>0, <1>4 DEF ChangeBackupCategory, Forms
  <2>2. mode' = mode /\ mode = "backup" /\ EffectRuns(form', Theirs, {})
    BY <1>4 DEF ChangeBackupCategory
  <2> QED BY <1>2, <2>1, <2>2
<1> QED BY <1>1, <1>3, <1>4

(* Replies: the one for the targets comes while nothing is ticked, and the  *)
(* listing of a folder only once its targets are there.                     *)
LEMMA RepliesTicks ==
  ASSUME TickInv, NEW q \in asked, FormReply(q) \/ FormReplyFails(q)
  PROVE  LoadingInv' /\ TicksInv'
<1>0. form \in Forms /\ FormTypes /\ asked \subseteq FormRequest /\ asked' = asked \ {q} /\ mode' = mode
  BY FormFacts DEF TickInv, FormReply, FormReplyFails
<1>1. \A r \in asked' : r \in asked
  BY <1>0
<1>2. ASSUME form' = form PROVE LoadingInv' /\ TicksInv'
  BY <1>0, <1>1, <1>2, SameLoading DEF TickInv, LoadingInv, TicksInv, Targets
<1>3. CASE Counts(q)
  <2>1. /\ form'.loading = FALSE /\ form'.selected = form.selected /\ form'.opened = form.opened
        /\ form'.mixed = form.mixed /\ form'.doomed = form.doomed
    <3>1. \A ps : /\ TargetsReply(q, ps).loading = FALSE
                  /\ TargetsReply(q, ps).selected = form.selected
                  /\ TargetsReply(q, ps).opened = form.opened
                  /\ TargetsReply(q, ps).mixed = form.mixed
                  /\ TargetsReply(q, ps).doomed = form.doomed
      BY <1>0, <1>3 DEF TargetsReply, Counts, Forms
    <3>2. CASE FormReplyFails(q)
      BY <1>3, <3>1, <3>2 DEF FormReplyFails, Counts
    <3>3. CASE FormReply(q)
      <4>1. /\ TargetsReply(q, q.seen) \in Forms
            /\ form' = [TargetsReply(q, q.seen) EXCEPT !.mixed = @ \/ (~q.mine /\ q.kind # "targets")]
        BY <1>0, <1>3, <3>3, AfterReplyTypes DEF FormReply, AfterReply, Counts
      <4> HIDE DEF TargetsReply
      <4> QED BY <1>0, <1>3, <3>1, <4>1 DEF Forms, Counts
    <3> QED BY <3>2, <3>3
  <2>2. form.loading /\ \A r \in asked' : ~Counts(r)
    BY <1>0, <1>3 DEF TickInv, LoadingInv
  <2>3. LoadingInv'
    BY <1>0, <2>1, <2>2 DEF LoadingInv, TickInv, Counts
  <2>4. TicksInv'
    <3> SUFFICES ASSUME mode = "backup", ~form.mixed PROVE TicksInv'
      BY <1>0, <2>1 DEF TicksInv
    <3>1. form.selected = {} /\ form.opened = Nobody /\ \A r \in asked : r.mine => r.kind = "targets"
      BY <2>2 DEF TickInv, TicksInv
    <3>2. \A r \in asked' : ~r.mine
      BY <1>1, <2>2, <3>1 DEF Counts
    <3> QED BY <1>0, <2>1, <3>1, <3>2 DEF TicksInv
  <2> QED BY <2>3, <2>4
<1>4. CASE ~Counts(q) /\ q.kind = "targets"
  <2>1. \A ps : TargetsReply(q, ps) = form
    BY <1>4 DEF TargetsReply, Counts
  <2>2. form' = form
    <3>1. CASE FormReplyFails(q)
      BY <1>4, <2>1, <3>1 DEF FormReplyFails
    <3>2. CASE FormReply(q)
      <4>1. form' = [form EXCEPT !.mixed = @ \/ (~q.mine /\ q.kind # "targets")]
        BY <1>4, <2>1, <3>2 DEF FormReply, AfterReply
      <4> QED BY <1>0, <1>4, <4>1 DEF Forms
    <3> QED BY <3>1, <3>2
  <2> QED BY <1>2, <2>2
<1>5. CASE q.kind # "targets" /\ FormReplyFails(q)
  BY <1>2, <1>5 DEF FormReplyFails
<1>6. CASE q.kind # "targets" /\ FormReply(q)
  <2> DEFINE next == AfterReply(q)
  <2>1. next \in Forms /\ form' = [next EXCEPT !.mixed = @ \/ (~q.mine /\ q.kind # "targets")]
    BY <1>0, <1>6, AfterReplyTypes DEF FormReply
  <2>2. /\ next.loading = form.loading /\ next.doomed \in {form.doomed, Nobody} /\ next.mixed = form.mixed
        /\ q.kind = "open" => /\ next.selected = form.selected /\ next.live = form.live
                              /\ next.added = form.added /\ next.opened = q.path
                              /\ next.listing = Inside(q.path)
    <3>1. q.kind \in Kinds
      BY <1>0 DEF FormRequest, Kinds
    <3> QED BY <1>0, <1>6, <3>1 DEF AfterReply, Forms, Kinds
  <2> HIDE DEF next
  <2>3. /\ form'.loading = form.loading /\ form'.doomed \in {form.doomed, Nobody}
        /\ form'.mixed = (form.mixed \/ ~q.mine)
        /\ q.kind = "open" => /\ form'.selected = form.selected /\ form'.live = form.live
                              /\ form'.added = form.added /\ form'.opened = q.path
                              /\ form'.listing = Inside(q.path)
    BY <1>6, <2>1, <2>2 DEF Forms
  <2>4. LoadingInv'
    BY <1>0, <1>1, <2>3, SameLoading DEF TickInv, LoadingInv
  <2>5. TicksInv'
    <3> SUFFICES ASSUME mode = "backup", ~form.mixed, q.mine PROVE TicksInv'
      BY <1>0, <2>3 DEF TicksInv
    <3>1. q.kind = "open" /\ Covered(q.path, Targets) /\ ~form.loading
      BY <1>6 DEF TickInv, TicksInv
    <3>2. Targets' = Targets
      BY <2>3, <3>1 DEF Targets
    <3> QED BY <1>0, <1>1, <2>3, <3>1, <3>2 DEF TickInv, TicksInv
  <2> QED BY <2>4, <2>5
<1> QED BY <1>3, <1>4, <1>5, <1>6

LEMMA TickNextInv == TickInv /\ (FormNext \/ UNCHANGED <<formVars, paths>>) => TickInv'
<1> SUFFICES ASSUME TickInv, FormNext \/ UNCHANGED <<formVars, paths>> PROVE TickInv'
  OBVIOUS
<1>1. FormTypes' /\ FormInv'
  BY FormNextTypes, FormNextInv DEF TickInv
<1>2. LoadingInv' /\ TicksInv'
  <2>1. CASE UNCHANGED <<formVars, paths>>
    BY <2>1 DEF formVars, TickInv, LoadingInv, TicksInv, Targets, Counts
  <2>2. CASE FormNext
    BY <2>2, ElsewhereTicks, TicksTicks, SendsTicks, ChoiceTicks, RepliesTicks DEF FormNext, FormStep
  <2> QED BY <2>1, <2>2
<1> QED BY <1>1, <1>2 DEF TickInv

LEMMA NewFormTicks ==
  ASSUME FormTypes, FormInv, NEW targets, form = NewForm(targets), asked = {}
  PROVE  TickInv
BY DEF TickInv, LoadingInv, TicksInv, NewForm

LEMMA NewFormStays ==
  ASSUME NEW targets, form = NewForm(targets), asked = {}, UNCHANGED <<form, asked>>, FormTypes', FormInv'
  PROVE  TickInv'
BY DEF TickInv, LoadingInv, TicksInv, NewForm

LEMMA TickInductive == FormSpec => []TickInv
<1>1. FormInit /\ PathsTypeOK => TickInv
  <2> SUFFICES ASSUME FormInit, PathsTypeOK PROVE TickInv
    OBVIOUS
  <2>1. FormInv
    BY FormInitInv
  <2>2. form \in Forms
    BY DEF FormInit, NewForm, Forms, Category, PathsTypeOK
  <2>3. FormTypes
    BY <2>2 DEF FormTypes, FormTypeOK, FormInit, WorkspaceInit, WorkspaceTypeOK, ModalMode, Forms
  <2> QED BY <2>1, <2>3, NewFormTicks DEF FormInit
<1>2. TickInv /\ [FormNext]_<<formVars, paths>> => TickInv'
  BY TickNextInv
<1> QED BY <1>1, <1>2, PTL DEF FormSpec

LEMMA TicksAreOffered == TickInv => TickedIsOffered
BY DEF TickInv, TicksInv, TickedIsOffered

(* Every path ticked on /backups is a target on display or lies in one,     *)
(* whatever order devices, categories, folders and replies come in, unless  *)
(* "select all" was used while the targets were loading or something of     *)
(* another device or dialog was left on display (toggleBackupPath,          *)
(* selectAllBackupTargets, openTargetPath).                                 *)
THEOREM TicksAreOfTheTargets == FormSpec => []TickedIsOffered
<1> QED BY TickInductive, TicksAreOffered, PTL

LEMMA TickStep ==
  ASSUME TickInv, FormNext, mode = "backup", mode' = "backup", Choice' = Choice, ~form'.mixed
  PROVE  KeepsSelection(form.selected, form'.selected)
<1>0. form \in Forms
  BY FormFacts DEF TickInv
<1>1. ASSUME form.selected \subseteq form'.selected \/ form'.selected \subseteq form.selected
      PROVE  KeepsSelection(form.selected, form'.selected)
  BY <1>1 DEF KeepsSelection
<1>2. ASSUME NEW p \in Path, TogglePath(p) PROVE KeepsSelection(form.selected, form'.selected)
  <2>1. PICK s \in Toggled(p, form.selected, Targets \cap Folder, form.opened, form.listing) :
          form' = [form EXCEPT !.selected = s]
    BY <1>2 DEF TogglePath
  <2>2. form'.selected = s /\ form'.mixed = form.mixed
    BY <1>0, <2>1 DEF Forms
  <2>3. form.opened # Nobody => form.listing \subseteq Inside(form.opened)
    BY <2>2 DEF TickInv, TicksInv
  <2> QED BY <2>2, <2>3, ToggledKeeps
<1>3. CASE SelectAllBackupTargets
  <2>1. form'.selected = Targets /\ form'.mixed = (form.mixed \/ form.loading)
    BY <1>0, <1>3 DEF SelectAllBackupTargets, Ticked, Forms
  <2>2. \A p \in form.selected : Covered(p, Targets)
    BY <2>1 DEF TickInv, TicksInv
  <2> QED BY <2>1, <2>2 DEF KeepsSelection
<1>4. CASE ClearBackupTargets \/ ResetBrowseState
           \/ \E d \in Device \cup {Nobody} : ChangeDevice(d)
           \/ \E category \in Category : ChangeBackupCategory(category)
  <2>1. form'.selected \in {form.selected, {}}
    BY <1>0, <1>4 DEF ClearBackupTargets, ResetBrowseState, ChangeDevice, Rechosen, ChangeBackupCategory, Forms
  <2> QED BY <1>1, <2>1
<1>5. CASE UNCHANGED form
  BY <1>1, <1>5
<1>6. ASSUME NEW q \in asked, FormReply(q) PROVE KeepsSelection(form.selected, form'.selected)
  <2> DEFINE next == AfterReply(q)
  <2>0. FormTypes /\ q \in FormRequest
    BY FormFacts DEF TickInv
  <2>1. next \in Forms /\ form' = [next EXCEPT !.mixed = @ \/ (~q.mine /\ q.kind # "targets")]
    BY <1>6, <2>0, AfterReplyTypes DEF FormReply
  <2>2. /\ next.mixed = form.mixed
        /\ q.kind \in {"targets", "open"} => next.selected = form.selected
    <3>1. q.kind \in Kinds
      BY <2>0 DEF FormRequest, Kinds
    <3> QED BY <1>0, <3>1 DEF AfterReply, TargetsReply, Forms, Kinds
  <2> HIDE DEF next
  <2>3. form'.selected = next.selected /\ form'.mixed = (form.mixed \/ (~q.mine /\ q.kind # "targets"))
    BY <2>1, <2>2 DEF Forms
  <2>4. q.kind \in {"targets", "open"}
    BY <2>3 DEF TickInv, TicksInv
  <2> QED BY <1>1, <2>2, <2>3, <2>4
<1>7. ASSUME NEW q \in asked, FormReplyFails(q) PROVE KeepsSelection(form.selected, form'.selected)
  <2>1. form'.selected = form.selected
    BY <1>0, <1>7 DEF FormReplyFails, TargetsReply, Forms
  <2> QED BY <1>1, <2>1
<1>8. CASE \/ \E f \in Folder : OpenTargetPath(f) \/ BrowseFiles(f)
           \/ \E p \in (Typed \cup {form.editing}) \ {Nobody} : SaveCustomPath(p)
           \/ DeleteComputerPath \/ ConfirmDeleteCustomPath
  <2>1. UNCHANGED form
    BY <1>8 DEF OpenTargetPath, BrowseFiles, SaveCustomPath, DeleteComputerPath, ConfirmDeleteCustomPath
  <2> QED BY <1>5, <2>1
<1>9. CASE \/ OpenBackupModal \/ OpenBrowseModal \/ OpenComputerPathModal \/ CloseForm \/ SubmitBackupForm
           \/ \E p \in Path \cup {Nobody} : OpenPathModal(p) \/ EditPath(p)
           \/ \E d \in Device \cup {Nobody} : BrowseDevice(d)
           \/ RequestDeleteCustomPath \/ CancelDeleteCustomPath
  <2>1. mode # "backup" \/ mode' # "backup"
    BY <1>9 DEF OpenBackupModal, OpenBrowseModal, OpenComputerPathModal, CloseForm, SubmitBackupForm,
                OpenPathModal, EditPath, BrowseDevice, RequestDeleteCustomPath, CancelDeleteCustomPath, OnPage,
                TickInv, LoadingInv
  <2> QED BY <2>1
<1> QED BY <1>2, <1>3, <1>4, <1>6, <1>7, <1>8, <1>9 DEF FormNext, FormStep

(* No tick and no reply drops a path from the selection on /backups but for *)
(* a folder or files it adds instead.                                       *)
THEOREM TicksStay == FormSpec => TicksAreKept
<1>1. TickInv /\ [FormNext]_<<formVars, paths>> =>
        [mode = "backup" /\ mode' = "backup" /\ Choice' = Choice /\ ~form'.mixed
           => KeepsSelection(form.selected, form'.selected)]_formVars
  BY TickStep DEF formVars
<1> QED BY <1>1, TickInductive, PTL DEF FormSpec, TicksAreKept

-----------------------------------------------------------------------------
(* One page is open at a time, and only its component holds state.          *)
OnePage ==
  /\ page \in Page \cup {"none"}
  /\ page # "devices" => panel = NoPanel /\ sent = {}
  /\ page # "backups" => form = NewForm(CommonAtStart) /\ asked = {}
  /\ page # "archive" => archive = NewArchive(FirstRule) /\ pending = {} /\ kept = Backup
  /\ page # "restore" => wizard = NewWizard /\ \A q \in posted : ~q.current
  /\ page \notin {"restore", "none"} => posted = {}
  /\ page \notin {"backups", "archive"} => mode = "none" /\ ~saving

FrontInv ==
  /\ OnePage
  /\ ActiveInv /\ DevicesInv /\ FormTypes /\ FormInv /\ RestoreInv
  /\ ArchiveTypeOK /\ (page = "archive" => ArchiveInv)
  /\ page = "devices" => PanelInv
  /\ page = "backups" => TickInv

LEMMA FrontIsTyped == FrontInv => FrontTypeOK
BY DEF FrontInv, FrontTypeOK, OnePage, ActiveInv, DevicesInv, FormTypes, RestoreInv

(* Of a page that was left restores and uploads are under way, of which     *)
(* nothing is known any more.                                               *)
Forgotten(requests) ==
  \A q \in requests : q.kind \in {"restore", "upload"} /\ ~q.current /\ q.items = {} /\ q.ticked = {}

(* Nothing is open, as at the start and when a page is left.                *)
Idle ==
  /\ page = "none" /\ WorkspaceInit /\ DevicesInit
  /\ form = NewForm(CommonAtStart) /\ asked = {}
  /\ archive = NewArchive(FirstRule) /\ pending = {}
  /\ wizard = NewWizard /\ posted \in SUBSET RestoreRequest /\ Forgotten(posted)
  /\ AsAtStart /\ stored \in [cleanup : Rule, auto : Rule]

LEMMA IdleInv == Idle /\ ActiveInv => FrontInv
<1> SUFFICES ASSUME Idle, ActiveInv PROVE FrontInv
  OBVIOUS
<1>0. /\ page = "none" /\ mode = "none" /\ saving = FALSE /\ panel = NoPanel /\ sent = {}
      /\ form = NewForm(CommonAtStart) /\ asked = {}
      /\ archive = NewArchive(FirstRule) /\ pending = {} /\ wizard = NewWizard
      /\ posted \subseteq RestoreRequest /\ Forgotten(posted)
      /\ kept = Backup /\ stored \in [cleanup : Rule, auto : Rule] /\ PathsTypeOK
  BY StartOK DEF Idle, AsAtStart, WorkspaceInit, DevicesInit, PathsTypeOK
<1>1. OnePage
  BY <1>0 DEF OnePage, Forgotten
<1>2. DevicesInv
  <2>1. NoPanel \in Panels
    BY DEF NoPanel, Panels, Dialog
  <2> QED BY <1>0, <2>1 DEF DevicesInv, DevicesTypeOK, Panels
<1>3. FormTypes
  <2>1. NewForm(CommonAtStart) \in Forms
    BY StartOK DEF NewForm, Forms, Category
  <2> QED BY <1>0, <2>1 DEF FormTypes, FormTypeOK, WorkspaceTypeOK, ModalMode, Forms
<1>4. FormInv
  <2>1. FormShape /\ form.loading = FALSE /\ form.device = Nobody
    BY <1>0 DEF NewForm, FormShape, FormFields
  <2> QED BY <1>0, <2>1 DEF FormInv
<1>5. RestoreInv
  <2>1. /\ wizard \in Wizards /\ wizard.mode = "backup" /\ wizard.backup = Nobody
        /\ wizard.detail = Nobody /\ wizard.ticked = {} /\ wizard.saving = FALSE
    BY <1>0 DEF NewWizard, DefaultPaths, GroupPath, Wizards
  <2> QED BY <1>0, <2>1 DEF RestoreInv, RestoreTypeOK, Wizards, TickedIsShown, CurrentIsTheChoice,
             DetailIsOfTheChoice, Forgotten, ItemsAreTicked, Submitted, DetailOf
<1>6. ArchiveTypeOK
  <2>1. FirstRule \in Rule
    <3>1. stored.cleanup \in Rule
      BY <1>0
    <3> QED BY <3>1 DEF FirstRule
  <2>2. NewArchive(FirstRule) \in Archives
    BY <2>1 DEF NewArchive, Archives
  <2> QED BY <1>0, <2>2 DEF ArchiveTypeOK, WorkspaceTypeOK, ModalMode, Archives
<1> QED BY <1>0, <1>1, <1>2, <1>3, <1>4, <1>5, <1>6 DEF FrontInv

LEMMA FrontInitInv == FrontInit => FrontInv
<1>1. FrontInit => Idle
  BY DEF FrontInit, Idle, AsAtStart, NoPage, Forgotten
<1>2. FrontInit => ActiveInv
  BY ActiveInitInv DEF FrontInit
<1> QED BY <1>1, <1>2, IdleInv

(* What a part's inductive invariant says, whatever the other parts do.     *)
LEMMA PartsKept ==
  ASSUME FrontInv
  PROVE  /\ UNCHANGED activeVars => ActiveInv'
         /\ UNCHANGED <<wizard, posted>> => RestoreInv'
         /\ UNCHANGED <<form, asked>> => FormInv'
         /\ UNCHANGED <<panel, sent>> /\ PathsTypeOK' => DevicesInv'
         /\ UNCHANGED <<form, asked>> /\ PathsTypeOK' /\ WorkspaceTypeOK' => FormTypes'
         /\ UNCHANGED <<archive, pending, kept, stored>> /\ WorkspaceTypeOK' => ArchiveTypeOK'
<1>1. UNCHANGED activeVars => ActiveInv'
  BY ActiveNextInv DEF FrontInv
<1>2. UNCHANGED <<wizard, posted>> => RestoreInv'
  BY RestoreNextInv DEF FrontInv, restoreVars
<1>3. UNCHANGED <<form, asked>> => FormInv'
  BY QuietSteps DEF FrontInv
<1>4. UNCHANGED <<panel, sent>> /\ PathsTypeOK' => DevicesInv'
  BY DevicesKept DEF FrontInv, DevicesInv, DevicesTypeOK, Panels
<1>5. UNCHANGED <<form, asked>> /\ PathsTypeOK' /\ WorkspaceTypeOK' => FormTypes'
  BY FormFacts, FormKept DEF FrontInv, WorkspaceTypeOK
<1>6. UNCHANGED <<archive, pending, kept, stored>> /\ WorkspaceTypeOK' => ArchiveTypeOK'
  BY DEF FrontInv, ArchiveTypeOK
<1> QED BY <1>1, <1>2, <1>3, <1>4, <1>5, <1>6

LEMMA FrontFacts ==
  ASSUME FrontInv
  PROVE  /\ PathsTypeOK /\ WorkspaceTypeOK /\ mode \in ModalMode /\ saving \in BOOLEAN
         /\ UNCHANGED paths => PathsTypeOK'
         /\ UNCHANGED workspace => WorkspaceTypeOK'
BY DEF FrontInv, FormTypes, FormTypeOK, WorkspaceTypeOK, PathsTypeOK, paths, workspace

LEMMA OpenPageInv ==
  ASSUME FrontInv, OpenPage
  PROVE  FrontInv'
<1>0. /\ page = "none" /\ OnePage /\ ArchiveTypeOK
      /\ UNCHANGED <<activeVars, own, common, kept, stored, mode, saving, panel, sent, form, asked>>
  BY DEF OpenPage, FrontInv, server, workspace, devicesOnly, formOnly
<1>1. PathsTypeOK' /\ WorkspaceTypeOK' /\ ActiveInv' /\ FormInv' /\ DevicesInv' /\ FormTypes'
  BY <1>0, PartsKept, FrontFacts DEF paths, workspace
<1>2. CASE posted = {} /\ page' \in {"devices", "backups"} /\ UNCHANGED <<archive, pending, wizard, posted>>
  <2>1. OnePage'
    BY <1>0, <1>2 DEF OnePage, Page
  <2>2. (panel = NoPanel /\ sent = {} /\ PathsTypeOK)'
    BY <1>0, <1>1 DEF OnePage, NoPanel
  <2>3. (panel = NoPanel /\ sent = {} /\ PathsTypeOK)' => PanelInv'
    BY NoPanelInv, PTL
  <2>4. page' = "backups" => TickInv'
    BY <1>0, <1>1, NewFormStays DEF OnePage
  <2> QED BY <1>0, <1>1, <1>2, <2>1, <2>2, <2>3, <2>4, PartsKept DEF FrontInv
<1>3. CASE /\ posted = {} /\ page' = "archive" /\ archive' \in {NewArchive(r) : r \in Rule} /\ pending' = {SettingsAsked}
           /\ UNCHANGED <<wizard, posted>>
  <2>1. OnePage'
    BY <1>0, <1>3 DEF OnePage, Page
  <2>2. ArchiveInit'
    BY <1>0, <1>3 DEF ArchiveInit, WorkspaceInit, OnePage, ArchiveTypeOK, SettingsAsked
  <2>3. ArchiveInit' => ArchiveInv'
    BY ArchiveInitInv, PTL
  <2> QED BY <1>0, <1>1, <1>3, <2>1, <2>2, <2>3, PartsKept DEF FrontInv, ArchiveInv
<1>4. CASE /\ page' = "restore" /\ posted' = posted \cup {Post("list", Nobody)}
           /\ UNCHANGED <<wizard, archive, pending>>
  <2>1. OnePage'
    BY <1>0, <1>4 DEF OnePage, Page
  <2>2. Post("list", Nobody) \in RestoreRequest /\ Post("list", Nobody).kind = "list"
    BY PostTypes DEF Post
  <2>3. RestoreInv'
    BY <1>0, <1>4, <2>2 DEF FrontInv, OnePage, RestoreInv, RestoreTypeOK, TickedIsShown, CurrentIsTheChoice,
          DetailIsOfTheChoice, ItemsAreTicked, Submitted, DetailOf, NewWizard
  <2> QED BY <1>0, <1>1, <1>4, <2>1, <2>3, PartsKept DEF FrontInv
<1> QED BY <1>2, <1>3, <1>4 DEF OpenPage, archiveOnly, restoreOnly

LEMMA LeftBehindIsForgotten ==
  ASSUME RestoreInv
  PROVE  LeftBehind \subseteq RestoreRequest /\ Forgotten(LeftBehind)
<1> SUFFICES ASSUME NEW q \in posted, q.kind \in {"restore", "upload"}
             PROVE  LET left == [Post(q.kind, q.backup) EXCEPT !.current = FALSE]
                    IN /\ left \in RestoreRequest /\ left.kind = q.kind /\ ~left.current
                       /\ left.items = {} /\ left.ticked = {}
  BY DEF LeftBehind, Forgotten
<1>1. q.backup \in Backup \cup {Nobody}
  BY DEF RestoreInv, RestoreTypeOK, RestoreRequest
<1> QED BY <1>1, PostTypes DEF Post, RestoreRequest

LEMMA LeavePageInv ==
  ASSUME FrontInv, LeavePage
  PROVE  FrontInv'
<1>1. AsAtStart /\ UNCHANGED <<activeVars, own, common, kept, stored>>
  BY DEF LeavePage, server
<1>2. posted' \in SUBSET RestoreRequest /\ Forgotten(posted')
  BY LeftBehindIsForgotten DEF LeavePage, FrontInv
<1>3. Idle'
  BY <1>1, <1>2 DEF LeavePage, Idle, AsAtStart, WorkspaceInit, DevicesInit, FrontInv, ArchiveTypeOK, Forgotten
<1>4. ActiveInv'
  BY <1>1, PartsKept
<1>5. Idle' /\ ActiveInv' => FrontInv'
  BY IdleInv, PTL
<1> QED BY <1>3, <1>4, <1>5

LEMMA EndsLeftBehindInv ==
  ASSUME FrontInv, EndsLeftBehind
  PROVE  FrontInv'
<1>0. /\ page = "none" /\ posted' \subseteq posted /\ RestoreNext
      /\ UNCHANGED <<activeVars, page, own, common, kept, stored, mode, saving, panel, sent, form, asked,
                     archive, pending>>
  BY DEF EndsLeftBehind, SubmitReply, RestoreNext, server, workspace, devicesOnly, formOnly, archiveOnly
<1>1. RestoreInv'
  BY <1>0, RestoreNextInv DEF FrontInv
<1>2. PathsTypeOK' /\ WorkspaceTypeOK'
  BY <1>0, FrontFacts DEF paths, workspace
<1>3. wizard' = wizard
  BY <1>0 DEF EndsLeftBehind, SubmitReply, FrontInv, OnePage
<1>4. OnePage'
  BY <1>0, <1>3 DEF FrontInv, OnePage
<1> QED BY <1>0, <1>1, <1>2, <1>4, PartsKept DEF FrontInv

LEMMA OnDevicesInv ==
  ASSUME FrontInv, page = "devices", DevicesNext,
         UNCHANGED <<page, workspace, form, asked, archive, pending, wizard, posted, kept, stored>>,
         ActiveInv'
  PROVE  FrontInv'
<1>1. DevicesInv'
  BY DevicesNextTypes DEF FrontInv
<1>2. PathsTypeOK' /\ WorkspaceTypeOK'
  BY <1>1, FrontFacts DEF DevicesInv, DevicesTypeOK
<1>3. OnePage'
  BY DEF FrontInv, OnePage, workspace
<1>4. PanelInv'
  BY PanelNextInv DEF FrontInv
<1> QED BY <1>1, <1>2, <1>3, <1>4, PartsKept DEF FrontInv

LEMMA OnBackupsInv ==
  ASSUME FrontInv, page = "backups", FormNext,
         UNCHANGED <<page, panel, sent, archive, pending, wizard, posted, kept, stored>>,
         ActiveInv'
  PROVE  FrontInv'
<1>1. FormTypes'
  BY FormNextTypes DEF FrontInv
<1>2. FormInv'
  BY FormNextInv DEF FrontInv
<1>3. PathsTypeOK' /\ WorkspaceTypeOK'
  BY <1>1 DEF FormTypes, FormTypeOK
<1>4. OnePage'
  BY DEF FrontInv, OnePage
<1>5. TickInv'
  BY TickNextInv DEF FrontInv
<1> QED BY <1>1, <1>2, <1>3, <1>4, <1>5, PartsKept DEF FrontInv

LEMMA OnArchiveInv ==
  ASSUME FrontInv, OnArchive
  PROVE  FrontInv'
<1>0. /\ page = "archive" /\ ArchiveNext
      /\ UNCHANGED <<activeVars, page, own, common, panel, sent, form, asked, wizard, posted>>
  BY DEF OnArchive, paths, devicesOnly, formOnly, restoreOnly
<1>1. ArchiveInv'
  BY <1>0, ArchiveNextInv DEF FrontInv
<1>2. PathsTypeOK' /\ WorkspaceTypeOK' /\ ArchiveTypeOK'
  BY <1>0, <1>1, FrontFacts DEF ArchiveInv, ArchiveTypeOK, paths
<1>3. OnePage'
  BY <1>0 DEF FrontInv, OnePage
<1> QED BY <1>0, <1>1, <1>2, <1>3, PartsKept DEF FrontInv

LEMMA OnRestoreInv ==
  ASSUME FrontInv, OnRestore
  PROVE  FrontInv'
<1>0. /\ page = "restore" /\ RestoreNext
      /\ UNCHANGED <<activeVars, page, own, common, kept, stored, mode, saving, panel, sent, form, asked,
                     archive, pending>>
  BY DEF OnRestore, server, workspace, devicesOnly, formOnly, archiveOnly
<1>1. RestoreInv'
  BY <1>0, RestoreNextInv DEF FrontInv
<1>2. PathsTypeOK' /\ WorkspaceTypeOK'
  BY <1>0, FrontFacts DEF paths, workspace
<1>3. OnePage'
  BY <1>0 DEF FrontInv, OnePage
<1> QED BY <1>0, <1>1, <1>2, <1>3, PartsKept DEF FrontInv

-----------------------------------------------------------------------------
(* What the provider does with a page around it is what it does alone.      *)
LEMMA FrontStepIsActive ==
  ASSUME FrontInv, [FrontNext]_frontVars
  PROVE  [ActiveNext]_activeVars
<1>1. CASE StartFromDevices
  <2>1. PICK r \in Call : SubmitBackup /\ StartBackup(r, panel.chosen)
    BY <1>1 DEF StartFromDevices
  <2>2. panel.chosen \in Device
    BY <2>1 DEF SubmitBackup, FrontInv, DevicesInv, DevicesTypeOK
  <2> QED BY <2>1, <2>2 DEF ActiveNext
<1>2. CASE StartFromBackups
  <2>1. PICK r \in Call : SubmitBackupForm /\ StartBackup(r, form.device)
    BY <1>2 DEF StartFromBackups
  <2>2. form.device \in Device
    BY <2>1, FormFacts DEF SubmitBackupForm, FrontInv
  <2> QED BY <2>1, <2>2 DEF ActiveNext
<1>3. CASE WithBackup
  BY <1>3 DEF WithBackup
<1>4. CASE \/ OpenPage \/ LeavePage \/ EndsLeftBehind
           \/ OnDevices \/ OnBackups \/ OnArchive \/ OnRestore \/ UNCHANGED frontVars
  BY <1>4 DEF OpenPage, LeavePage, EndsLeftBehind, OnDevices, OnBackups, OnArchive, OnRestore, frontVars
<1> QED BY <1>1, <1>2, <1>3, <1>4 DEF FrontNext

LEMMA FrontNextInv == FrontInv /\ [FrontNext]_frontVars => FrontInv'
<1> SUFFICES ASSUME FrontInv, [FrontNext]_frontVars PROVE FrontInv'
  OBVIOUS
<1>0. ActiveInv'
  BY FrontStepIsActive, ActiveNextInv DEF FrontInv
<1>1. CASE OpenPage
  BY <1>1, OpenPageInv
<1>2. CASE LeavePage
  BY <1>2, LeavePageInv
<1>3. CASE OnDevices
  BY <1>0, <1>3, OnDevicesInv DEF OnDevices, DevicesNext, formOnly, archiveOnly, restoreOnly
<1>4. CASE StartFromDevices
  BY <1>0, <1>4, OnDevicesInv DEF StartFromDevices, DevicesNext, formOnly, archiveOnly, restoreOnly
<1>5. CASE OnBackups
  BY <1>0, <1>5, OnBackupsInv DEF OnBackups, FormNext, devicesOnly, archiveOnly, restoreOnly
<1>6. CASE StartFromBackups
  BY <1>0, <1>6, OnBackupsInv DEF StartFromBackups, FormNext, devicesOnly, archiveOnly, restoreOnly
<1>7. CASE OnArchive
  BY <1>7, OnArchiveInv
<1>8. CASE OnRestore
  BY <1>8, OnRestoreInv
<1>9. CASE WithBackup \/ UNCHANGED frontVars
  <2>1. UNCHANGED <<page, own, common, kept, stored, mode, saving, panel, sent, form, asked, archive,
                    pending, wizard, posted>>
    BY <1>9 DEF WithBackup, frontVars, pages, server, workspace, devicesOnly, formOnly, archiveOnly, restoreOnly
  <2>2. PathsTypeOK' /\ WorkspaceTypeOK'
    BY <2>1, FrontFacts DEF paths, workspace
  <2>3. OnePage'
    BY <2>1 DEF FrontInv, OnePage
  <2>4. page' = "archive" => ArchiveInv'
    BY <2>1, ArchiveNextInv DEF FrontInv, archiveVars
  <2>5. page' = "devices" => PanelInv'
    BY <2>1, PanelStays DEF FrontInv
  <2>6. page' = "backups" => TickInv'
    BY <2>1, TickNextInv DEF FrontInv, formVars, paths
  <2> QED BY <1>0, <2>1, <2>2, <2>3, <2>4, <2>5, <2>6, PartsKept DEF FrontInv
<1>10. CASE EndsLeftBehind
  BY <1>10, EndsLeftBehindInv
<1> QED BY <1>1, <1>2, <1>3, <1>4, <1>5, <1>6, <1>7, <1>8, <1>9, <1>10 DEF FrontNext

LEMMA FrontInductive == FrontSpec => []FrontInv
<1> QED BY FrontInitInv, FrontNextInv, PTL DEF FrontSpec

(* The browser's side as a whole keeps its types, and a page that is left   *)
(* leaves nothing behind for the next one but restores and uploads under    *)
(* way, whose replies do nothing there.                                     *)
THEOREM FrontTypes == FrontSpec => []FrontTypeOK
<1> QED BY FrontIsTyped, FrontInductive, PTL

(* The front end implements the provider's specification, fairness          *)
(* included: the pages start backups of devices only, as the provider       *)
(* expects, and nothing else they do touches the display, so everything     *)
(* proved of the provider holds with the pages around it.                   *)
THEOREM FrontImplementsActive == FrontSpec => ActiveSpec
<1>1. FrontInit => ActiveInit
  BY DEF FrontInit
<1>2. FrontInv /\ [FrontNext]_frontVars => [ActiveNext]_activeVars
  BY FrontStepIsActive
<1> QED BY <1>1, <1>2, FrontInductive, PTL DEF FrontSpec, ActiveSpec

(* What was proved of each part alone holds of it on its page.              *)
THEOREM FrontIsSafe ==
  FrontSpec => [](/\ PollerIsOfTheDisplay /\ SuccessHasItsResult /\ CleanDisplayIsTrue
                  /\ TargetsAreOfTheChoice /\ DownloadIsWhatIsTicked /\ CleanupIsAsPreviewed
                  /\ DetailIsOfTheChoice /\ RestoreIsAsReviewed
                  /\ FormIsSentOnce /\ SelectionIsOfItsDevice /\ PathListIsTheServers
                  /\ TickedIsOffered)
<1>1. FrontInv => PollerIsOfTheDisplay /\ SuccessHasItsResult /\ CleanDisplayIsTrue
  BY DEF FrontInv, ActiveInv
<1>2. FrontInv => TargetsAreOfTheChoice
  BY FormInvTargets DEF FrontInv
<1>3. FrontInv => DetailIsOfTheChoice /\ RestoreIsAsReviewed
  BY RestoreInvReviews DEF FrontInv, RestoreInv
<1>4. FrontInv => DownloadIsWhatIsTicked /\ CleanupIsAsPreviewed
  <2> SUFFICES ASSUME FrontInv PROVE DownloadIsWhatIsTicked /\ CleanupIsAsPreviewed
    OBVIOUS
  <2>1. CASE page = "archive"
    BY <2>1, ArchiveInvDownloads, ArchiveInvCleans DEF FrontInv
  <2>2. CASE page # "archive"
    BY <2>2 DEF FrontInv, OnePage, NewArchive, DownloadIsWhatIsTicked, CleanupIsAsPreviewed, Confirming
  <2> QED BY <2>1, <2>2
<1>5. FrontInv => FormIsSentOnce /\ SelectionIsOfItsDevice /\ PathListIsTheServers
  <2>1. FrontInv => PanelInv
    BY NoPanelInv DEF FrontInv, OnePage, DevicesInv, DevicesTypeOK
  <2> QED BY <2>1, FormsSentOnce, SelectionIsItsDevices, PathListIsItsDevices DEF PanelInv
<1>6. FrontInv => TickedIsOffered
  <2>1. FrontInv => TickInv
    BY NewFormTicks DEF FrontInv, OnePage
  <2> QED BY <2>1, TicksAreOffered
<1> QED BY <1>1, <1>2, <1>3, <1>4, <1>5, <1>6, FrontInductive, PTL

(* The two properties of ticks hold on their pages too, whatever is opened  *)
(* and left in between.                                                     *)
THEOREM FrontKeepsSelections == FrontSpec => SelectionIsKept /\ TicksAreKept
<1>0. KeepsSelection(panel.selected, panel.selected) /\ KeepsSelection(form.selected, form.selected)
  BY DEF KeepsSelection
<1>1. FrontInv /\ [FrontNext]_frontVars =>
        [panel.dialog = "backup" /\ panel'.dialog = "backup" /\ ~panel'.mixed
           /\ (\A q \in sent : q.kind # "targets")
         => KeepsSelection(panel.selected, panel'.selected)]_devicesVars
  <2> SUFFICES ASSUME FrontInv, [FrontNext]_frontVars,
                      panel.dialog = "backup", panel'.dialog = "backup", ~panel'.mixed,
                      \A q \in sent : q.kind # "targets"
               PROVE  KeepsSelection(panel.selected, panel'.selected)
    OBVIOUS
  <2>1. CASE OnDevices \/ StartFromDevices
    <3>1. DevicesNext /\ page = "devices"
      BY <2>1 DEF OnDevices, StartFromDevices, DevicesNext
    <3> QED BY <3>1, SelectionStep DEF FrontInv, PanelInv
  <2>2. CASE LeavePage
    BY <2>2 DEF LeavePage, NoPanel
  <2>3. CASE OpenPage \/ EndsLeftBehind \/ OnBackups \/ OnArchive \/ OnRestore \/ StartFromBackups
             \/ WithBackup \/ UNCHANGED frontVars
    <3>1. panel' = panel
      BY <2>3 DEF OpenPage, EndsLeftBehind, OnBackups, OnArchive, OnRestore, StartFromBackups, WithBackup, frontVars, pages,
                  devicesOnly
    <3> QED BY <1>0, <3>1
  <2> QED BY <2>1, <2>2, <2>3 DEF FrontNext
<1>2. FrontInv /\ [FrontNext]_frontVars =>
        [mode = "backup" /\ mode' = "backup" /\ Choice' = Choice /\ ~form'.mixed
           => KeepsSelection(form.selected, form'.selected)]_formVars
  <2> SUFFICES ASSUME FrontInv, [FrontNext]_frontVars,
                      mode = "backup", mode' = "backup", Choice' = Choice, ~form'.mixed
               PROVE  KeepsSelection(form.selected, form'.selected)
    OBVIOUS
  <2>1. CASE OnBackups \/ StartFromBackups
    <3>1. FormNext /\ page = "backups"
      BY <2>1 DEF OnBackups, StartFromBackups, FormNext
    <3> QED BY <3>1, TickStep DEF FrontInv
  <2>2. CASE LeavePage
    BY <2>2 DEF LeavePage
  <2>3. CASE OpenPage \/ EndsLeftBehind \/ OnDevices \/ StartFromDevices \/ OnArchive \/ OnRestore
             \/ WithBackup \/ UNCHANGED frontVars
    <3>1. form' = form
      BY <2>3 DEF OpenPage, EndsLeftBehind, OnDevices, StartFromDevices, OnArchive, OnRestore, WithBackup, frontVars, pages,
                  formOnly
    <3> QED BY <1>0, <3>1
  <2> QED BY <2>1, <2>2, <2>3 DEF FrontNext
<1> QED BY <1>1, <1>2, FrontInductive, PTL DEF FrontSpec, SelectionIsKept, TicksAreKept
=============================================================================
