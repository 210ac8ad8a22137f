---------------------------- MODULE BackupsPage ----------------------------
(* BackupsWorkspace, the page /backups: all its dialogs share one mode and *)
(* one flag `saving`, whoever set it (BackupForm and BackupArchive have    *)
(* the dialogs).                                                           *)
EXTENDS BackupPaths, Naturals, FiniteSets

VARIABLES
  mode,        \* the dialog that is open
  saving       \* a request the page waits for is under way, or was

workspace == <<mode, saving>>

ModalMode == {"none", "backup", "browse", "path", "detail", "cleanup", "autoBackup"}

WorkspaceTypeOK == mode \in ModalMode /\ saving \in BOOLEAN

WorkspaceInit == mode = "none" /\ saving = FALSE
=============================================================================
