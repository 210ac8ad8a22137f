--------------------------- MODULE BackupArchive ---------------------------
(***************************************************************************)
(* The page /backups, second half: the dialogs that show, download and     *)
(* delete a backup, that clean up old backups after a preview, and that    *)
(* keep the settings of both.  The settings are loaded once, when the page *)
(* opens, and may arrive while a dialog is in use.                         *)
(***************************************************************************)
EXTENDS BackupsPage

CONSTANT
  Rule         \* what a cleanup asks for: days and "keep latest"; settings of auto backups

VARIABLES
  archive,     \* the state of these dialogs
  pending,     \* their requests whose reply has not been handled
  kept,        \* the server: backups that are not deleted
  stored       \* the server: its settings for cleanup and for auto backups

archiveVars == <<mode, saving, archive, pending, kept, stored>>

ArchiveRequest ==
  [kind : {"settings", "detail", "delete", "preview", "cleanup", "saveCleanup", "saveAuto"},
   backup : Backup \cup {Nobody}, cleanup : Rule, auto : Rule, ok : BOOLEAN]

ArchiveTypeOK ==
  /\ WorkspaceTypeOK
  /\ kept \in SUBSET Backup
  /\ stored \in [cleanup : Rule, auto : Rule]
  /\ pending \in SUBSET ArchiveRequest
  /\ archive \in [detail : Backup \cup {Nobody},           \* backupDetail
                  ticked : SUBSET BackupFile,              \* selectedDownloadFileIds
                  doomed : Backup \cup {Nobody},           \* pendingDeleteBackup
                  cleanup : Rule, auto : Rule,             \* the two forms
                  preview : Rule \cup {Nobody},            \* cleanupPreview: the rule it is for
                  confirm : BOOLEAN,                       \* pendingCleanupConfirm
                  drifted : BOOLEAN,    \* the form changed behind the preview (history)
                  lost : BOOLEAN]       \* the answer to a deletion that was done was lost (history)

NewArchive(r) ==
  [detail |-> Nobody, ticked |-> {}, doomed |-> Nobody, cleanup |-> r, auto |-> r,
   preview |-> Nobody, confirm |-> FALSE, drifted |-> FALSE, lost |-> FALSE]

(* The page opens with the forms' defaults and asks for the settings.       *)
SettingsAsked ==
  [kind |-> "settings", backup |-> Nobody, cleanup |-> stored.cleanup, auto |-> stored.auto, ok |-> TRUE]

ArchiveInit ==
  /\ WorkspaceInit
  /\ kept = Backup /\ stored \in [cleanup : Rule, auto : Rule]
  /\ archive \in {NewArchive(r) : r \in Rule}
  /\ pending = {SettingsAsked}

-----------------------------------------------------------------------------
ArchiveAsk(kind, b) ==
  [kind |-> kind, backup |-> b, cleanup |-> archive.cleanup, auto |-> archive.auto, ok |-> TRUE]

(* A request with setSaving(true); what it asks for is done, or it fails.   *)
SendAndWait(q) == saving' = TRUE /\ pending' = pending \cup {q}

AtTables == mode = "none" /\ archive.doomed = Nobody
Uncovered(name) == mode = name /\ archive.doomed = Nobody /\ ~(archive.confirm /\ archive.preview # Nobody)

OpenModal(name) ==
  /\ AtTables
  /\ mode' = name
  /\ archive' = [archive EXCEPT !.preview = Nobody, !.confirm = FALSE, !.drifted = FALSE]
  /\ UNCHANGED <<saving, pending, kept, stored>>

OpenCleanup == OpenModal("cleanup")
OpenAutoBackup == OpenModal("autoBackup")

(* closeModal, also with Escape below a question on top of the dialog.      *)
CloseArchive ==
  /\ mode \in {"detail", "cleanup", "autoBackup"} /\ ~saving
  /\ mode' = "none"
  /\ archive' = [archive EXCEPT !.preview = Nobody, !.confirm = FALSE, !.drifted = FALSE]
  /\ UNCHANGED <<saving, pending, kept, stored>>

-----------------------------------------------------------------------------
(* Mutant: the ticks of the backup shown before stay.                       *)
OpenBackupDetailTicked(b) ==
  /\ AtTables
  /\ mode' = "detail"
  /\ archive' = [archive EXCEPT !.detail = b]
  /\ SendAndWait(ArchiveAsk("detail", b))
  /\ UNCHANGED <<kept, stored>>

OpenBackupDetail(b) ==
  /\ AtTables
  /\ mode' = "detail"
  /\ archive' = [archive EXCEPT !.detail = Nobody, !.ticked = {}, !.lost = FALSE]
  /\ SendAndWait(ArchiveAsk("detail", b))
  /\ UNCHANGED <<kept, stored>>

ToggleDownloadFile(file) ==
  /\ Uncovered("detail") /\ file \in FilesOf(archive.detail)
  /\ archive' = [archive EXCEPT !.ticked = IF file \in @ THEN @ \ {file} ELSE @ \cup {file}]
  /\ UNCHANGED <<mode, saving, pending, kept, stored>>

ToggleAllDownloadFiles ==
  /\ Uncovered("detail") /\ archive.detail # Nobody
  /\ archive' = [archive EXCEPT !.ticked =
       IF Cardinality(@) = Cardinality(FilesOf(archive.detail)) THEN {} ELSE FilesOf(archive.detail)]
  /\ UNCHANGED <<mode, saving, pending, kept, stored>>

(* downloadSelectedFiles: the files its request delivers.  A list as long   *)
(* as the backup's is sent empty, which the server takes for all files.     *)
Downloaded ==
  IF Cardinality(archive.ticked) = Cardinality(FilesOf(archive.detail)) THEN FilesOf(archive.detail)
  ELSE FilesOf(archive.detail) \cap archive.ticked

RequestDeleteBackup(b) ==
  /\ AtTables \/ (Uncovered("detail") /\ archive.detail = b /\ ~saving)
  /\ archive' = [archive EXCEPT !.doomed = b]
  /\ UNCHANGED <<mode, saving, pending, kept, stored>>

CancelDeleteBackup ==
  /\ archive.doomed # Nobody /\ ~saving
  /\ archive' = [archive EXCEPT !.doomed = Nobody]
  /\ UNCHANGED <<mode, saving, pending, kept, stored>>

ConfirmDeleteBackup ==
  /\ archive.doomed # Nobody /\ ~saving
  /\ \/ SendAndWait(ArchiveAsk("delete", archive.doomed)) /\ kept' = kept \ {archive.doomed}
     \/ SendAndWait([ArchiveAsk("delete", archive.doomed) EXCEPT !.ok = FALSE]) /\ UNCHANGED kept
  /\ UNCHANGED <<mode, archive, stored>>

-----------------------------------------------------------------------------
PreviewAsked == \E q \in pending : q.kind = "preview"

(* Mutant: a change of the rule leaves the preview of the old one there.    *)
EditCleanupOnly(r) ==
  /\ Uncovered("cleanup")
  /\ archive' = [archive EXCEPT !.cleanup = r, !.drifted = @ \/ PreviewAsked]
  /\ UNCHANGED <<mode, saving, pending, kept, stored>>

(* The fields are not disabled while a preview is on its way.               *)
EditCleanup(r) ==
  /\ Uncovered("cleanup")
  /\ archive' = [archive EXCEPT !.cleanup = r, !.preview = Nobody, !.drifted = @ \/ PreviewAsked]
  /\ UNCHANGED <<mode, saving, pending, kept, stored>>

PreviewCleanup ==
  /\ Uncovered("cleanup") /\ ~saving /\ archive.preview = Nobody
  /\ archive' = [archive EXCEPT !.drifted = FALSE]
  /\ SendAndWait(ArchiveAsk("preview", Nobody))
  /\ UNCHANGED <<mode, kept, stored>>

BackToRule ==
  /\ Uncovered("cleanup") /\ ~saving /\ archive.preview # Nobody
  /\ archive' = [archive EXCEPT !.preview = Nobody]
  /\ UNCHANGED <<mode, saving, pending, kept, stored>>

AskCleanup ==
  /\ Uncovered("cleanup") /\ ~saving /\ archive.preview # Nobody
  /\ archive' = [archive EXCEPT !.confirm = TRUE]
  /\ UNCHANGED <<mode, saving, pending, kept, stored>>

Confirming == archive.confirm /\ archive.preview # Nobody

CancelCleanup ==
  /\ Confirming /\ ~saving
  /\ archive' = [archive EXCEPT !.confirm = FALSE]
  /\ UNCHANGED <<mode, saving, pending, kept, stored>>

(* submitCleanup sends what the form says now.                              *)
SubmitCleanup ==
  /\ Confirming /\ ~saving
  /\ SendAndWait(ArchiveAsk("cleanup", Nobody))
  /\ UNCHANGED <<mode, archive, kept, stored>>

SaveCleanupSettings ==
  /\ Uncovered("cleanup") /\ ~saving /\ archive.preview = Nobody
  /\ SendAndWait(ArchiveAsk("saveCleanup", Nobody))
  /\ stored' = [stored EXCEPT !.cleanup = archive.cleanup]
  /\ UNCHANGED <<mode, archive, kept>>

EditAutoBackup(r) ==
  /\ Uncovered("autoBackup")
  /\ archive' = [archive EXCEPT !.auto = r]
  /\ UNCHANGED <<mode, saving, pending, kept, stored>>

SaveAutoBackupSettings ==
  /\ Uncovered("autoBackup") /\ ~saving
  /\ SendAndWait(ArchiveAsk("saveAuto", Nobody))
  /\ stored' = [stored EXCEPT !.auto = archive.auto]
  /\ UNCHANGED <<mode, archive, kept>>

-----------------------------------------------------------------------------
(* The settings the page asked for when it opened.                          *)
SettingsReply(q) ==
  /\ q \in pending /\ q.kind = "settings"
  /\ pending' = pending \ {q}
  /\ \/ archive' = [archive EXCEPT !.cleanup = q.cleanup, !.auto = q.auto,
                      !.drifted = @ \/ PreviewAsked \/ archive.preview # Nobody]
     \/ UNCHANGED archive
  /\ UNCHANGED <<mode, saving, kept, stored>>

AfterArchiveReply(q) ==
  CASE q.kind = "detail" -> [archive EXCEPT !.detail = q.backup, !.ticked = FilesOf(q.backup)]
    [] q.kind = "preview" -> [archive EXCEPT !.preview = q.cleanup]
    [] q.kind = "cleanup" -> [archive EXCEPT !.preview = Nobody, !.confirm = FALSE]
    [] q.kind = "saveCleanup" -> [archive EXCEPT !.cleanup = q.cleanup, !.preview = Nobody]
    [] q.kind = "saveAuto" -> [archive EXCEPT !.auto = q.auto]

(* A reply a dialog waits for.                                              *)
ArchiveReply(q) ==
  /\ q \in pending /\ q.ok /\ q.kind \notin {"settings", "delete"}
  /\ q.kind = "detail" => q.backup \in kept
  /\ pending' = pending \ {q}
  /\ archive' = AfterArchiveReply(q)
  /\ saving' = FALSE
  /\ UNCHANGED <<mode, kept, stored>>

(* A deleted backup that is on display, now or since it was last opened, is *)
(* dropped with its dialog; the handler was made before it set `saving`, so *)
(* its closeModal closes.                                                   *)
DeleteReply(q) ==
  /\ q \in pending /\ q.ok /\ q.kind = "delete"
  /\ pending' = pending \ {q}
  /\ IF archive.detail = q.backup
       THEN /\ mode' = "none"
            /\ archive' = [archive EXCEPT !.doomed = Nobody, !.detail = Nobody, !.ticked = {},
                             !.preview = Nobody, !.confirm = FALSE, !.drifted = FALSE]
       ELSE archive' = [archive EXCEPT !.doomed = Nobody] /\ UNCHANGED mode
  /\ saving' = FALSE
  /\ UNCHANGED <<kept, stored>>

ArchiveReplyFails(q) ==
  /\ q \in pending /\ q.kind # "settings"
  /\ pending' = pending \ {q}
  /\ saving' = FALSE
  /\ archive' = [archive EXCEPT !.lost = @ \/ (q.kind = "delete" /\ q.ok)]
  /\ UNCHANGED <<mode, kept, stored>>

ArchiveNext ==
  \/ OpenCleanup \/ OpenAutoBackup \/ CloseArchive
  \/ \E b \in Backup : OpenBackupDetail(b) \/ RequestDeleteBackup(b)
  \/ \E file \in BackupFile : ToggleDownloadFile(file)
  \/ ToggleAllDownloadFiles \/ CancelDeleteBackup \/ ConfirmDeleteBackup
  \/ \E r \in Rule : EditCleanup(r) \/ EditAutoBackup(r)
  \/ PreviewCleanup \/ BackToRule \/ AskCleanup \/ CancelCleanup \/ SubmitCleanup
  \/ SaveCleanupSettings \/ SaveAutoBackupSettings
  \/ \E q \in pending : SettingsReply(q) \/ ArchiveReply(q) \/ DeleteReply(q) \/ ArchiveReplyFails(q)

ArchiveSpec == ArchiveInit /\ [][ArchiveNext]_archiveVars

-----------------------------------------------------------------------------
(* What is ticked is what a download delivers, of a backup that is there:   *)
(* the ticks of another backup, or a backup deleted since it was last       *)
(* shown, are never left in the dialog, unless that answer was lost.        *)
DownloadIsWhatIsTicked ==
  mode = "detail" /\ ~saving /\ archive.detail # Nobody =>
    Downloaded = archive.ticked /\ (archive.detail \in kept \/ archive.lost)

(* The question "delete N backups?" is about the rule that was previewed:   *)
(* the cleanup it starts is the one shown.  A rule edited while its preview *)
(* is on the way, or settings that arrive behind it, are the exceptions.    *)
CleanupIsAsPreviewed ==
  Confirming /\ ~archive.drifted => archive.cleanup = archive.preview
=============================================================================
