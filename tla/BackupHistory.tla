---------------------------- MODULE BackupHistory ----------------------------
(***************************************************************************)
(* What the list of a device's backups promises whoever restores one,      *)
(* without saying how backups are made: one of them at a time is under     *)
(* way; a backup that has ended does not begin again, one that is deleted  *)
(* does not come back; what a backup stores is written once, when it ends  *)
(* well; and further down the list nothing older is stored: of a path each *)
(* backup stores nothing, or a content no older than every backup before   *)
(* it and no newer than the device's.  Retention is shown to implement     *)
(* this specification.                                                     *)
(***************************************************************************)
EXTENDS Naturals

CONSTANTS
  Path,        \* what is backed up
  Id           \* numbers of backups, in the order they are begun

VARIABLES
  latest,      \* per path: its latest content, by number
  state,       \* per backup: how far it is
  content      \* per backup and path: the content it stored when it
               \* ended well, or 0

historyVars == <<latest, state, content>>

HistoryInit ==
  /\ latest = [p \in Path |-> 1]
  /\ state = [b \in Id |-> "none"]
  /\ content = [b \in Id |-> [p \in Path |-> 0]]

Change ==
  /\ latest' \in [Path -> Nat]
  /\ \A p \in Path : latest[p] <= latest'[p]
  /\ UNCHANGED <<state, content>>

(* A backup is added at the end of the list: one that runs from now on, or  *)
(* one by hand, whose contents are none of this list's.                    *)
Begin(b, how) ==
  /\ \A n \in Id : n >= b => state[n] = "none"
  /\ how = "running" => \A n \in Id : state[n] # "running"
  /\ state' = [state EXCEPT ![b] = how]
  /\ UNCHANGED <<latest, content>>

Follows(b, p, new) ==
  /\ new <= latest[p]
  /\ \A n \in Id : content[n][p] <= new /\ (n > b => content[n][p] = 0)

Succeed(b) ==
  /\ state[b] = "running"
  /\ state' = [state EXCEPT ![b] = "success"]
  /\ content' = [content EXCEPT ![b] = content'[b]]
  /\ content'[b] \in [Path -> Nat]
  /\ \A p \in Path : content'[b][p] = 0 \/ Follows(b, p, content'[b][p])
  /\ UNCHANGED latest

GiveUp(b) ==
  /\ state[b] = "running"
  /\ state' = [state EXCEPT ![b] = "failed"]
  /\ UNCHANGED <<latest, content>>

Delete(b) ==
  /\ state[b] # "none"
  /\ state' = [state EXCEPT ![b] = "deleted"]
  /\ UNCHANGED <<latest, content>>

HistoryNext ==
  \/ Change
  \/ \E b \in Id : \/ \E how \in {"running", "success"} : Begin(b, how)
                   \/ Succeed(b) \/ GiveUp(b) \/ Delete(b)

HistorySpec == HistoryInit /\ [][HistoryNext]_historyVars
=============================================================================
