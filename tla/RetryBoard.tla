----------------------------- MODULE RetryBoard -----------------------------
(***************************************************************************)
(* What the PENDING rows of backup_jobs promise, whatever writes them and  *)
(* in whatever order they are taken: a device waits for one retry; a retry *)
(* begins with no try used, gets none back, and is over before it has used *)
(* more than it may; one whose device is deleted has no device for good.   *)
(* FleetRetries is shown to implement this specification.                  *)
(***************************************************************************)
EXTENDS Naturals

CONSTANTS
  Device,      \* devices that may wait for a retry
  JobId,       \* what tells rows apart
  Tries,       \* tries of a retry
  None         \* no device

VARIABLE rows  \* the PENDING rows

BoardInit == rows = {}

(* A device could not be reached, and waits for nothing yet.                *)
Open(d, id) ==
  /\ \A r \in rows : r.device # d /\ r.id # id
  /\ rows' = rows \cup {[id |-> id, device |-> d, retries |-> 0]}

UseTry(r) ==
  /\ r.retries + 1 < Tries
  /\ rows' = (rows \ {r}) \cup {[r EXCEPT !.retries = @ + 1]}

Close(r) == rows' = rows \ {r}

Orphan(d) ==
  rows' = {IF r.device = d THEN [r EXCEPT !.device = None] ELSE r : r \in rows}

BoardNext ==
  \/ \E d \in Device, id \in JobId : Open(d, id)
  \/ \E r \in rows : UseTry(r) \/ Close(r)
  \/ \E d \in Device : Orphan(d)

BoardSpec == BoardInit /\ [][BoardNext]_rows
=============================================================================
