-------------------------- MODULE MCBackupProgress --------------------------
(* Instances of BackupProgress: combined backups c1, c2 and the fleet's     *)
(* auto backup a1 of one device.                                           *)
EXTENDS BackupProgress, TLC

Symmetry == Permutations(State) \cup Permutations(CombinedRun)
=============================================================================
