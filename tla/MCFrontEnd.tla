----------------------------- MODULE MCFrontEnd -----------------------------
(* An instance of FrontEnd: a computer k with the path x, a robot b that    *)
(* gets the common folder F with the files a and c, backups p and q of two  *)
(* files each, of which the server takes one for a table that the page does *)
(* not.                                                                     *)
EXTENDS FrontEnd

CONSTANTS k, b, F, a, c, x, p, q

FilesInF == [path \in Path |-> IF path \in {a, c} THEN {F} ELSE {}]
OwnOfK == [d \in Device |-> IF d = k THEN {x} ELSE {}]
OnlyF == {F}
KindOfEach ==
  [file \in BackupFile |->
     IF file[1] = p THEN (IF file[2] = 1 THEN "folder" ELSE "other")
     ELSE (IF file[2] = 1 THEN "database" ELSE "zip")]
TableEach == {<<p, 2>>, <<q, 1>>}

(* Bounds of this instance: the first backup is of k, since the provider    *)
(* makes no difference between devices; in a dialog that a reply to an      *)
(* earlier one got into, the user changes no more paths of the server;      *)
(* while the answer to a restore or an upload is awaited, the user edits    *)
(* neither ticks nor target paths.                                          *)
FirstIsOfK == call'[1].device \in {Nobody, k}
NoPathsOnceMixed == panel.mixed => UNCHANGED <<own, common>>
NoEditsWhileAwaited ==
  page' = page /\ wizard.saving /\ posted' = posted =>
    wizard'.ticked \in {{}, wizard.ticked} /\ wizard'.groupPaths = wizard.groupPaths

Bounded == FirstIsOfK /\ NoPathsOnceMixed /\ NoEditsWhileAwaited
=============================================================================
