---------------------------- MODULE RestorePage ----------------------------
(***************************************************************************)
(* The page /restore: a wizard that restores files of a backup to a device *)
(* or uploads files to one.  Lists and details arrive while the user goes  *)
(* on through its steps; what it shows of them, results and errors are     *)
(* left out.                                                               *)
(***************************************************************************)
EXTENDS Inventory, Naturals, FiniteSets

CONSTANTS
  KindOf,      \* file -> what the page takes it for, which is also its group (bound)
  Table        \* files the server restores into the robot's database

FileKind == {"database", "zip", "single", "folder", "other"}
ASSUME KindsOK == KindOf \in [BackupFile -> FileKind] /\ Table \subseteq BackupFile

VARIABLES
  wizard,      \* the component's state
  posted       \* its requests whose reply has not been handled

restoreVars == <<wizard, posted>>

(* Where the server is told to put a file.                                  *)
Target == {"", "original", "folder", "typed", "below typed", "below fallback"}

(* A group's entry of groupPaths.                                           *)
GroupPath == {"default", "typed", "empty"}

(* `current`: the effect's `mounted` is still set, or the page that sent it *)
(* is still open.  `ticked` is what was on display when a restore was sent  *)
(* (history).                                                               *)
RestoreRequest ==
  [kind : {"list", "detail", "restore", "upload"}, backup : Backup \cup {Nobody},
   items : SUBSET (BackupFile \X Target), ticked : SUBSET BackupFile, current : BOOLEAN]

RestoreTypeOK ==
  /\ posted \in SUBSET RestoreRequest
  /\ wizard \in [step : 1 .. 4, mode : {"backup", "upload"},
                 listed : BOOLEAN,                    \* backups and devices are there
                 backup : Backup \cup {Nobody},       \* selectedBackupId
                 targeted : BOOLEAN,                  \* selectedDeviceId is not empty
                 detail : Backup \cup {Nobody},       \* backupDetail
                 ticked : SUBSET BackupFile,          \* selectedFileIds
                 groupPaths : [FileKind -> GroupPath],
                 fallback : BOOLEAN,                  \* fallbackTargetPath is not empty
                 files : BOOLEAN,                     \* uploadFiles is not empty
                 saving : BOOLEAN,
                 failed : BOOLEAN]     \* the detail of the chosen backup could not be loaded (history)

DefaultPaths == [kind \in FileKind |-> "default"]

NewWizard ==
  [step |-> 1, mode |-> "backup", listed |-> FALSE, backup |-> Nobody, targeted |-> FALSE,
   detail |-> Nobody, ticked |-> {}, groupPaths |-> DefaultPaths, fallback |-> FALSE, files |-> FALSE,
   saving |-> FALSE, failed |-> FALSE]

Post(kind, b) ==
  [kind |-> kind, backup |-> b, items |-> {}, ticked |-> {}, current |-> TRUE]

RestoreInit == wizard = NewWizard /\ posted = {Post("list", Nobody)}

-----------------------------------------------------------------------------
DetailOf(w) == IF w.mode = "upload" THEN Nobody ELSE w.backup

(* The effect on [restoreMode, selectedBackupId]: earlier replies are       *)
(* dropped; a backup's detail is asked for, or there is none to show.       *)
DetailEffect(next, requests) ==
  IF <<next.mode, next.backup>> = <<wizard.mode, wizard.backup>>
    THEN wizard' = next /\ posted' = requests
    ELSE LET dropped == {IF q.kind = "detail" THEN [q EXCEPT !.current = FALSE] ELSE q : q \in requests}
         IN IF DetailOf(next) = Nobody
              THEN /\ wizard' = [next EXCEPT !.detail = Nobody, !.ticked = {}, !.failed = FALSE]
                   /\ posted' = dropped
              ELSE /\ Cardinality(requests) < MaxSent
                   /\ wizard' = [next EXCEPT !.failed = FALSE]
                   /\ posted' = dropped \cup {Post("detail", next.backup)}

(* The lists, with the backup and device of the address or the first one.   *)
ListReply(q) ==
  /\ q \in posted /\ q.kind = "list"
  /\ \/ \E b \in Backup \cup {Nobody}, device \in BOOLEAN :
          DetailEffect([wizard EXCEPT !.listed = TRUE, !.backup = b, !.targeted = device], posted \ {q})
     \/ posted' = posted \ {q} /\ UNCHANGED wizard

(* Mutant: whichever detail arrives is shown.                               *)
DetailReplyUnchecked(q) ==
  /\ q \in posted /\ q.kind = "detail"
  /\ posted' = posted \ {q}
  /\ wizard' = [wizard EXCEPT !.detail = q.backup, !.ticked = FilesOf(q.backup),
                !.groupPaths = DefaultPaths]

DetailReply(q) ==
  /\ q \in posted /\ q.kind = "detail"
  /\ posted' = posted \ {q}
  /\ IF ~q.current THEN UNCHANGED wizard
     ELSE wizard' = [wizard EXCEPT !.detail = q.backup, !.ticked = FilesOf(q.backup),
                       !.groupPaths = DefaultPaths, !.targeted = TRUE]

(* The detail of the backup chosen before stays, with its ticks.            *)
DetailReplyFails(q) ==
  /\ q \in posted /\ q.kind = "detail"
  /\ posted' = posted \ {q}
  /\ wizard' = [wizard EXCEPT !.failed = @ \/ q.current]

-----------------------------------------------------------------------------
SourceReady == IF wizard.mode = "upload" THEN wizard.files ELSE wizard.listed /\ wizard.backup # Nobody
TargetReady == wizard.targeted
FilesReady == IF wizard.mode = "upload" THEN wizard.fallback ELSE wizard.ticked # {}

SwitchMode(mode) ==
  DetailEffect([wizard EXCEPT !.mode = mode, !.step = 1], posted)

PickBackup(b) ==
  /\ wizard.step = 1 /\ wizard.mode = "backup" /\ wizard.listed
  /\ \E device \in BOOLEAN :
       DetailEffect([wizard EXCEPT !.backup = b, !.targeted = device], posted)

PickUploadFiles(some) ==
  /\ wizard.step = 1 /\ wizard.mode = "upload"
  /\ wizard' = [wizard EXCEPT !.files = some]
  /\ UNCHANGED posted

(* The stepper and the buttons "next" and "back" below each step.           *)
GoToStep(step) ==
  /\ step # wizard.step /\ (wizard.mode = "upload" => step <= 3)
  /\ \/ step < wizard.step
     \/ step = 2 /\ SourceReady
     \/ step = 3 /\ SourceReady /\ TargetReady
     \/ step = 3 /\ wizard.step = 2 /\ TargetReady /\ (wizard.mode = "upload" => wizard.fallback)
     \/ step = 4 /\ SourceReady /\ TargetReady /\ FilesReady
     \/ step = 4 /\ wizard.step = 3 /\ wizard.ticked # {}
  /\ wizard' = [wizard EXCEPT !.step = step]
  /\ UNCHANGED posted

PickDevice ==
  /\ wizard.step = 2 /\ wizard.listed
  /\ wizard' = [wizard EXCEPT !.targeted = TRUE]
  /\ UNCHANGED posted

EditFallback(some) ==
  /\ wizard.step = 2
  /\ wizard' = [wizard EXCEPT !.fallback = some]
  /\ UNCHANGED posted

AtFiles == wizard.step = 3 /\ wizard.mode = "backup"

ToggleRestoreFile(file) ==
  /\ AtFiles /\ file \in FilesOf(wizard.detail)
  /\ wizard' = [wizard EXCEPT !.ticked = IF file \in @ THEN @ \ {file} ELSE @ \cup {file}]
  /\ UNCHANGED posted

(* All files, none, or a group of the search's result.                      *)
TickFiles(files) ==
  /\ AtFiles
  /\ files \in {{}, FilesOf(wizard.detail)} \cup
       UNION {{wizard.ticked \cup g, wizard.ticked \ g} :
                g \in {{f \in FilesOf(wizard.detail) : KindOf[f] = k} : k \in FileKind}}
  /\ wizard' = [wizard EXCEPT !.ticked = files]
  /\ UNCHANGED posted

(* An empty path is like the default one but for a group of zips.           *)
EditGroupPath(kind, path) ==
  /\ AtFiles /\ kind # "database" /\ \E f \in FilesOf(wizard.detail) : KindOf[f] = kind
  /\ path = "empty" => kind = "zip"
  /\ wizard' = [wizard EXCEPT !.groupPaths[kind] = path]
  /\ UNCHANGED posted

-----------------------------------------------------------------------------
(* finalTarget: the path of the file's group, which for a zip is a folder   *)
(* by default, else where it was backed up from (inferRestoreTarget), else  *)
(* the fallback.                                                            *)
FinalTarget(file) ==
  LET kind == KindOf[file]  path == wizard.groupPaths[kind] IN
  CASE kind = "database" -> ""
    [] kind = "zip" -> IF path = "typed" THEN "typed" ELSE IF path = "default" THEN "folder" ELSE "original"
    [] kind = "single" -> IF path = "typed" THEN "typed" ELSE "original"
    [] kind = "folder" -> IF path = "typed" THEN "below typed" ELSE "original"
    [] kind = "other" -> IF path = "typed" THEN "below typed"
                         ELSE IF wizard.fallback THEN "below fallback" ELSE ""

Items == {<<file, FinalTarget(file)>> : file \in wizard.ticked \cap FilesOf(wizard.detail)}
Missing(items) == \E item \in items : KindOf[item[1]] # "database" /\ item[2] = ""

(* A device that is offline disables both, which is an input here.          *)
SubmitRestore ==
  /\ wizard.step = 4 /\ wizard.mode = "backup" /\ ~wizard.saving
  /\ SourceReady /\ TargetReady /\ FilesReady
  /\ ~Missing(Items)
  /\ Cardinality(posted) < MaxSent
  /\ wizard' = [wizard EXCEPT !.saving = TRUE]
  /\ posted' = posted \cup {[Post("restore", wizard.backup) EXCEPT
                               !.items = Items, !.ticked = wizard.ticked]}

SubmitUpload ==
  /\ wizard.step = 3 /\ wizard.mode = "upload" /\ ~wizard.saving
  /\ SourceReady /\ TargetReady /\ FilesReady
  /\ Cardinality(posted) < MaxSent
  /\ wizard' = [wizard EXCEPT !.saving = TRUE]
  /\ posted' = posted \cup {Post("upload", Nobody)}

(* Of a page that was left nothing is there to take the reply.              *)
SubmitReply(q) ==
  /\ q \in posted /\ q.kind \in {"restore", "upload"}
  /\ posted' = posted \ {q}
  /\ wizard' = IF q.current THEN [wizard EXCEPT !.saving = FALSE] ELSE wizard

-----------------------------------------------------------------------------
(* _build_restore_items: the request is turned down as a whole for a file   *)
(* of another backup, or one without a place that is not a table.           *)
Refused(q) ==
  \/ q.items = {}
  \/ \E item \in q.items : item[1] \notin FilesOf(q.backup) \/ (item[2] = "" /\ item[1] \notin Table)

(* What the device may have been given by the end: tables one by one, then  *)
(* files one by one, as far as it goes without an error (nothing when a     *)
(* file is missing on the server, _validate_restore_files_exist).           *)
AsFarAsItGoes(items) ==
  LET tables == {item \in items : item[1] \in Table}
  IN {done \in SUBSET items : done \subseteq tables \/ tables \subseteq done}

(* Mutant: files are looked up without regard to the backup.                *)
RestoredUnchecked(q) == AsFarAsItGoes(q.items)

Restored(q) == IF Refused(q) THEN {{}} ELSE AsFarAsItGoes(q.items)

RestoreNext ==
  \/ \E q \in posted :
       ListReply(q) \/ DetailReply(q) \/ DetailReplyFails(q) \/ SubmitReply(q)
  \/ \E mode \in {"backup", "upload"} : SwitchMode(mode)
  \/ \E b \in Backup : PickBackup(b)
  \/ \E some \in BOOLEAN : PickUploadFiles(some) \/ EditFallback(some)
  \/ \E step \in 1 .. 4 : GoToStep(step)
  \/ PickDevice
  \/ \E file \in BackupFile : ToggleRestoreFile(file)
  \/ \E files \in SUBSET BackupFile : TickFiles(files)
  \/ \E kind \in FileKind, path \in GroupPath : EditGroupPath(kind, path)
  \/ SubmitRestore \/ SubmitUpload

RestoreSpec == RestoreInit /\ [][RestoreNext]_restoreVars

-----------------------------------------------------------------------------
(* Whichever backups are picked while details are on their way, the detail  *)
(* shown in the end is that of the backup picked last, unless its own could *)
(* not be loaded.                                                           *)
DetailIsOfTheChoice ==
  ~wizard.failed /\ (\A q \in posted : ~(q.kind = "detail" /\ q.current)) =>
    wizard.detail = DetailOf(wizard)

(* Whatever a restore has put on the device by its end, all of it or what   *)
(* it got to before an error, was ticked and is of the backup the review    *)
(* names, and was given a place or is a table; and a restore that puts      *)
(* anything there was told to put all that was ticked.  So it is when the   *)
(* files on display are another backup's, whose details came in before or   *)
(* whose own failed.  It speaks of each restore by itself: what two of them *)
(* under way for one device leave there is not modelled.                    *)
RestoreIsAsReviewed ==
  \A q \in posted : q.kind = "restore" =>
    \A done \in Restored(q) :
      /\ \A item \in done :
           /\ item[1] \in q.ticked \cap FilesOf(q.backup)
           /\ item[2] # "" \/ item[1] \in Table
      /\ done # {} => {item[1] : item \in q.items} = q.ticked
=============================================================================
