----------------------------- MODULE BackupPaths -----------------------------
(***************************************************************************)
(* Remote paths: the targets the server offers for a device, the folders a *)
(* browser opens, and the selection that both pages with a backup form     *)
(* keep.  A path is a model value; Above gives the folders above it.       *)
(***************************************************************************)
EXTENDS Inventory

CONSTANTS
  Path,        \* remote paths, all of which start with "/"
  Above,       \* the folders a path lies in, all levels
  Typed        \* the paths users type in (bound)

ASSUME PathsOK == Above \in [Path -> SUBSET Path] /\ Nobody \notin Path
                /\ Typed \subseteq Path

ASSUME NestedOK == \A p \in Path : \A f \in Above[p] : Above[f] \subseteq Above[p]

VARIABLES
  own,         \* per device: its own backup paths on the server
  common       \* the targets of robots that have none of their own

paths == <<own, common>>

Folder == UNION {Above[p] : p \in Path}
Inside(folder) ==       \* listDeviceFiles: what a folder holds, one level
  {p \in Path : folder \in Above[p] /\ \A f \in Above[p] : f = folder \/ f \in Above[folder]}

(* GET /devices/backup-targets for a device, by its own group.              *)
TargetsOf(d) == IF d \in Computer \/ own[d] # {} THEN own[d] ELSE common

OwnPaths(d, ps) == own' = [own EXCEPT ![d] = ps] /\ UNCHANGED common
CommonPaths(ps) == common' = ps /\ UNCHANGED own

PathsTypeOK == own \in [Device -> SUBSET Path] /\ common \in SUBSET Path

-----------------------------------------------------------------------------
(* A path is backed up when it is selected or lies in a selected folder.    *)
Covered(p, selected) == p \in selected \/ Above[p] \cap selected # {}

(* findParentFolder: the first selected target folder that holds the path;  *)
(* findOpenedParentFolder: else the opened folder.                          *)
ParentFolders(p, selected, folders, opened) ==
  LET found == Above[p] \cap selected \cap folders
  IN IF found # {} THEN {{f} : f \in found} ELSE {Above[p] \cap {opened}}

(* Mutant: the files of the listing are not taken out one by one but with   *)
(* everything else.                                                         *)
ToggledForgets(p, selected, folders, opened, visible) ==
  IF p \in selected THEN {selected \ {p}}
  ELSE {IF opened = Nobody \/ visible = {} \/ ~(visible \subseteq (selected \ parent) \cup {p})
          THEN (selected \ parent) \cup {p}
          ELSE {opened} : parent \in ParentFolders(p, selected, folders, opened)}

(* toggleBackupPath, togglePath: a path selected inside a selected folder   *)
(* takes the folder's place, and when all that is visible of the opened     *)
(* folder is selected, the folder takes their place.                        *)
Toggled(p, selected, folders, opened, visible) ==
  IF p \in selected THEN {selected \ {p}}
  ELSE {LET next == (selected \ parent) \cup {p}
        IN IF opened = Nobody \/ visible = {} \/ ~(visible \subseteq next) THEN next
           ELSE (next \ visible) \cup {opened}
        : parent \in ParentFolders(p, selected, folders, opened)}

(* What a change of a selection drops stays covered, or it is a folder that *)
(* gives way to what is added inside it.                                    *)
KeepsSelection(before, after) ==
  after \ before # {} =>
    \A p \in before \ after : Covered(p, after) \/ \E q \in after \ before : p \in Above[q]
=============================================================================
