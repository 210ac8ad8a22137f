----------------------------- MODULE Inventory -----------------------------
(* The devices and backups the web pages know.                             *)
CONSTANTS
  Device,      \* robots and computers
  Computer,    \* the devices of the group "computer"
  Backup,      \* backups in the tables when the pages open, two files each
  Nobody,      \* null: no device, no backup, no call, no path
  MaxSent      \* requests of a page under way at a time (bound)

ASSUME DevicesOK == Computer \subseteq Device /\ Nobody \notin Device \cup Backup

FilesOf(b) == IF b = Nobody THEN {} ELSE {b} \X {1, 2}
BackupFile == UNION {FilesOf(b) : b \in Backup}
=============================================================================
