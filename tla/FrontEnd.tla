------------------------------ MODULE FrontEnd ------------------------------
(***************************************************************************)
(* The browser's side as a whole: pages, of which one is open, and the     *)
(* provider that shows a backup on top of whichever page it is.  A page's  *)
(* component is made when the page is opened and gone when it is left, and *)
(* with it what replies would do; what it changed on the server, restores  *)
(* the server is still busy with and the backup on display outlive it.     *)
(*                                                                         *)
(* Bounds, which make the states of the parts add up instead of multiply:  *)
(* a page is left, and a backup started, while the server's data are those *)
(* of the start (AsAtStart); a visit of /backups uses one half of it; a    *)
(* page is left with the backup it starts, after which nothing is modelled *)
(* of the pages but that they can start other ones; while a restore or an  *)
(* upload that was left behind is under way, only its page is opened.      *)
(***************************************************************************)
EXTENDS ActiveBackup, DevicesPage, BackupForm, BackupArchive, RestorePage

CONSTANTS
  OwnAtStart,      \* per device: its own backup paths at the start
  CommonAtStart    \* the common targets at the start

ASSUME StartOK == OwnAtStart \in [Device -> SUBSET Path] /\ CommonAtStart \in SUBSET Path

VARIABLE
  page         \* the page that is open, and which half of it

Page == {"devices", "backups", "archive", "restore"}

devicesOnly == <<panel, sent>>
formOnly == <<form, asked>>
archiveOnly == <<archive, pending>>
restoreOnly == <<wizard, posted>>
pages == <<page, workspace, devicesOnly, formOnly, archiveOnly, restoreOnly>>
server == <<own, common, kept, stored>>
frontVars == <<activeVars, pages, server>>

FirstRule == CHOOSE r \in Rule : TRUE
FirstStored == stored = [cleanup |-> FirstRule, auto |-> FirstRule]
AsAtStart == own = OwnAtStart /\ common = CommonAtStart /\ kept = Backup

NoPage ==
  /\ page = "none"
  /\ WorkspaceInit /\ DevicesInit
  /\ form = NewForm(CommonAtStart) /\ asked = {}
  /\ archive = NewArchive(FirstRule) /\ pending = {}
  /\ wizard = NewWizard /\ posted = {}

FrontInit ==
  /\ own = OwnAtStart /\ common = CommonAtStart
  /\ kept = Backup /\ stored \in [cleanup : Rule, auto : Rule]
  /\ ActiveInit /\ NoPage

-----------------------------------------------------------------------------
NoBackupYet == \A r \in Call : job[r] = "none"

(* AppShell's navigation: a page opens as the Init of its component says,   *)
(* which for two of them is how NoPage has them.                            *)
OpenPage ==
  /\ page = "none" /\ NoBackupYet
  /\ \/ /\ FirstStored /\ posted = {}
        /\ page' \in {"devices", "backups"} /\ UNCHANGED <<archiveOnly, restoreOnly>>
     \/ /\ page' = "archive" /\ posted = {}
        /\ archive' \in {NewArchive(r) : r \in Rule} /\ pending' = {SettingsAsked}
        /\ UNCHANGED restoreOnly
     \/ /\ FirstStored /\ page' = "restore" /\ Cardinality(posted) < MaxSent
        /\ posted' = posted \cup {Post("list", Nobody)} /\ UNCHANGED <<wizard, archiveOnly>>
  /\ UNCHANGED <<activeVars, server, workspace, devicesOnly, formOnly>>

(* Mutant: what the page held stays for the next one.                       *)
LeavePageKept ==
  /\ page # "none" /\ AsAtStart
  /\ page' = "none"
  /\ UNCHANGED <<activeVars, server, workspace, devicesOnly, formOnly, archiveOnly, restoreOnly>>

(* Restores and uploads go on without the page, which forgets what it asked *)
(* for (bound: two for the same backup count as one); of other requests     *)
(* only the replies are outstanding, which nobody takes.                    *)
LeftBehind ==
  {[Post(q.kind, q.backup) EXCEPT !.current = FALSE] :
     q \in {q \in posted : q.kind \in {"restore", "upload"}}}

LeavePage ==
  /\ page # "none" /\ AsAtStart
  /\ page' = "none"
  /\ mode' = "none" /\ saving' = FALSE
  /\ panel' = NoPanel /\ sent' = {}
  /\ form' = NewForm(common) /\ asked' = {}
  /\ archive' = NewArchive(FirstRule) /\ pending' = {}
  /\ wizard' = NewWizard /\ posted' = LeftBehind
  /\ UNCHANGED <<activeVars, server>>

EndsLeftBehind ==
  /\ page = "none"
  /\ \E q \in posted : SubmitReply(q)
  /\ UNCHANGED <<activeVars, page, server, workspace, devicesOnly, formOnly, archiveOnly>>

OnDevices ==
  /\ page = "devices" /\ NoBackupYet
  /\ DevicesStep
  /\ UNCHANGED <<activeVars, page, workspace, formOnly, archiveOnly, restoreOnly, kept, stored>>

OnBackups ==
  /\ page = "backups" /\ NoBackupYet
  /\ FormStep
  /\ UNCHANGED <<activeVars, page, devicesOnly, archiveOnly, restoreOnly, kept, stored>>

OnArchive ==
  /\ page = "archive" /\ NoBackupYet
  /\ ArchiveNext
  /\ UNCHANGED <<activeVars, page, paths, devicesOnly, formOnly, restoreOnly>>

OnRestore ==
  /\ page = "restore" /\ NoBackupYet
  /\ RestoreNext
  /\ UNCHANGED <<activeVars, page, server, workspace, devicesOnly, formOnly, archiveOnly>>

(* The two calls of startBackup: the dialog closes as the display opens.    *)
StartFromDevices ==
  /\ page = "devices" /\ NoBackupYet /\ AsAtStart
  /\ \E r \in Call : SubmitBackup /\ StartBackup(r, panel.chosen)
  /\ UNCHANGED <<page, workspace, formOnly, archiveOnly, restoreOnly, kept, stored>>

StartFromBackups ==
  /\ page = "backups" /\ NoBackupYet /\ AsAtStart
  /\ \E r \in Call : SubmitBackupForm /\ StartBackup(r, form.device)
  /\ UNCHANGED <<page, devicesOnly, archiveOnly, restoreOnly, kept, stored>>

(* The provider goes on once the page is left.                              *)
WithBackup ==
  /\ page = "none" /\ ~NoBackupYet
  /\ ActiveNext
  /\ UNCHANGED <<pages, server>>

FrontNext ==
  \/ OpenPage \/ LeavePage \/ EndsLeftBehind
  \/ OnDevices \/ OnBackups \/ OnArchive \/ OnRestore
  \/ StartFromDevices \/ StartFromBackups
  \/ WithBackup

FrontSpec == FrontInit /\ [][FrontNext]_frontVars /\ ActiveFairness

-----------------------------------------------------------------------------
(* One page is open at a time, and only its component holds state or has    *)
(* requests whose replies will still do something there.                    *)
FrontTypeOK ==
  /\ ActiveTypeOK /\ DevicesTypeOK /\ FormTypeOK /\ ArchiveTypeOK /\ RestoreTypeOK
  /\ page \in Page \cup {"none"}
  /\ page # "devices" => panel = NoPanel /\ sent = {}
  /\ page # "backups" => form = NewForm(CommonAtStart) /\ asked = {}
  /\ page # "archive" => archive = NewArchive(FirstRule) /\ pending = {}
  /\ page # "restore" => wizard = NewWizard /\ \A q \in posted : ~q.current
  /\ page \notin {"restore", "none"} => posted = {}
  /\ page \notin {"backups", "archive"} => mode = "none" /\ ~saving
=============================================================================
