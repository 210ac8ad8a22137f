---------------------------- MODULE MCBackupJobs ----------------------------
(* Instances of BackupJobs: a combined job c1, a fleet job a1 and a cleanup *)
(* job k1, enqueued or run by the request itself.                           *)
EXTENDS BackupJobs

(* Bound of the safety instance: two of the three jobs are made, any two.   *)
TwoJobs == Cardinality({j \in Job : job'[j].status # "none"}) <= 2
=============================================================================
