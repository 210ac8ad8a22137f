--------------------------- MODULE RetentionProofs ---------------------------
(***************************************************************************)
(* Proofs about Retention: its types; that cleanups leave the newest full  *)
(* baseline, when no run outlives the retention time (Brisk); and, without *)
(* that, that a cleanup ends within its quota, that what a check finds     *)
(* unchanged is stored, and that Retention implements BackupHistory.       *)
(***************************************************************************)
EXTENDS Retention, FiniteSetTheorems, TLAPS

LEMMA Constants ==
  /\ MaxBackups \in Nat /\ MaxVersion \in Nat \ {0} /\ MaxTime \in Nat
  /\ Retain \in Nat /\ ZipModes \subseteq BOOLEAN
  /\ Policy \subseteq [keep : BOOLEAN, all : BOOLEAN]
BY RetentionOK DEF RetentionOK

(* What a check finds, and what a download fetches, are contents.           *)
LEMMA HereStored ==
  ASSUME TypeOK, NEW paths PROVE Here(paths) \in Stored
BY Constants DEF TypeOK, Here, Stored

LEMMA NothingStored == Nothing \in Stored
BY Constants DEF Nothing, Stored

LEMMA NoRunTyped == NoRun \in Run
BY NothingStored DEF NoRun, Run, RunPc

LEMMA NoDelTyped == NoDel \in Del
BY DEF NoDel, Del, DelPc

(* What Went does to the thread that calls it, and to the others.           *)
LEMMA WentTyped ==
  ASSUME TypeOK, NEW d \in Deleter, NEW b \in Id, NEW pc \in DelPc, Went(d, b, pc)
  PROVE  /\ del' \in [Deleter -> Del]
         /\ \A e \in Deleter : e # d => del'[e] = del[e]
         /\ del'[d].pc = pc /\ del'[d].by = del[d].by
         /\ del'[d].todo = IF pc = "check" THEN del[d].todo \ {b} ELSE del[d].todo
<1> DEFINE left == IF pc = "check" THEN del[d].todo \ {b} ELSE del[d].todo
           new == [del[d] EXCEPT !.pc = pc, !.todo = left]
<1>1. del[d] \in Del /\ left \in SUBSET Id
  BY DEF TypeOK, Del
<1>2. new \in Del /\ new.pc = pc /\ new.by = del[d].by /\ new.todo = left
  BY <1>1 DEF Del
<1>3. del' = [del EXCEPT ![d] = new]
  BY DEF Went
<1> HIDE DEF new
<1> QED BY <1>2, <1>3 DEF TypeOK

-----------------------------------------------------------------------------
(* Types, action by action.                                                 *)
LEMMA DeviceTyped == ASSUME TypeOK, Device PROVE TypeOK'
<1>1. CASE Tick
  BY <1>1, Constants DEF TypeOK, Tick
<1>2. ASSUME NEW p \in Path, Edit(p) \/ Remove(p) PROVE TypeOK'
  <2>1. version[p] + 1 \in 0..MaxVersion
    BY <1>2, Constants DEF TypeOK, Edit, Remove, Stored
  <2>2. version' \in Stored
    BY <1>2, <2>1 DEF TypeOK, Edit, Remove, Stored
  <2> QED BY <1>2, <2>2 DEF TypeOK, Edit, Remove
<1> QED BY <1>1, <1>2 DEF Device

LEMMA BackupTyped == ASSUME TypeOK, Backup PROVE TypeOK'
<1>r. NoRun \in Run /\ Nothing \in Stored
  BY NoRunTyped, NothingStored
<1>1. ASSUME NEW forced \in BOOLEAN, StartRun(forced) PROVE TypeOK'
  <2>1. Recent \in SUBSET Id /\ (forced \/ BaselineDue(Recent)) \in BOOLEAN
    BY DEF Recent, Successes, BaselineDue
  <2>2. run' \in Run
    BY <1>1, <1>r, <2>1 DEF StartRun, Run, RunPc
  <2> QED BY <1>1, <2>2 DEF TypeOK, StartRun
<1>2. CASE Check
  <2>1. run' \in Run
    BY <1>2, <1>r, HereStored DEF TypeOK, Check, Run, RunPc
  <2> QED BY <1>2, <2>1 DEF TypeOK, Check
<1>3. CASE NoBackup
  BY <1>3, <1>r DEF TypeOK, NoBackup
<1>4. ASSUME NEW zip \in ZipModes, CreateBackup(zip) PROVE TypeOK'
  <2>1. count + 1 \in Id /\ count + 1 \in 0..MaxBackups
    BY <1>4, Constants DEF TypeOK, CreateBackup, Id
  <2>2. zip \in BOOLEAN
    BY Constants
  <2>3. row' \in [Id -> Row]
    BY <1>4, <2>1, <2>2 DEF TypeOK, CreateBackup, Row
  <2>4. status' \in [Id -> Status]
    BY <1>4, <2>1 DEF TypeOK, CreateBackup, Status
  <2>5. run' \in Run
    BY <1>4, <1>r DEF TypeOK, CreateBackup, NoRun, Run, RunPc
  <2> QED BY <1>4, <2>1, <2>3, <2>4, <2>5 DEF TypeOK, CreateBackup
<1>5. CASE Download
  <2>1. run' \in Run
    BY <1>5, <1>r, HereStored DEF TypeOK, Download, NoRun, Run, RunPc
  <2> QED BY <1>5, <2>1 DEF TypeOK, Download
<1>6. CASE Save
  <2>1. PICK b \in Id :
          /\ status' = [status EXCEPT ![b] = "success"]
          /\ manifest' = [manifest EXCEPT ![b] = run.found]
          /\ files' = [files EXCEPT ![b] = run.fetched]
          /\ saved' = saved \cup {b}
    BY <1>6 DEF Save
  <2>2. run.found \in Stored /\ run.fetched \in Stored
    BY DEF TypeOK, Run
  <2>3. /\ status' \in [Id -> Status] /\ saved' \in SUBSET Id
        /\ manifest' \in [Id -> Stored] /\ files' \in [Id -> Stored]
    BY <2>1, <2>2 DEF TypeOK, Status
  <2> QED BY <1>6, <1>r, <2>3 DEF TypeOK, Save
<1>7. CASE Fail
  BY <1>7, <1>r DEF TypeOK, Fail, Status
<1>8. CASE Vanished
  BY <1>8, <1>r DEF TypeOK, Vanished
<1>9. CASE Manual
  <2>1. count + 1 \in Id /\ count + 1 \in 0..MaxBackups
    BY <1>9, Constants DEF TypeOK, Manual, Id
  <2>2. [NoRow EXCEPT !.created = now] \in Row
    BY DEF TypeOK, NoRow, Row
  <2> QED BY <1>9, <2>1, <2>2 DEF TypeOK, Manual, Status
<1> QED BY <1>1, <1>2, <1>3, <1>4, <1>5, <1>6, <1>7, <1>8, <1>9 DEF Backup

LEMMA DeletionTyped ==
  ASSUME TypeOK, NEW d \in Deleter, Deletion(d) PROVE TypeOK'
<1>n. NoDel \in Del
  BY NoDelTyped
<1>1. ASSUME NEW policy \in Policy, StartCleanup(d, policy) PROVE TypeOK'
  <2>1. policy.keep \in BOOLEAN /\ policy.all \in BOOLEAN
    BY Constants
  <2>2. Settled \in SUBSET Id /\ MonthlyExcess \in SUBSET Id
    BY DEF Settled, MonthlyExcess
  <2>3. del' \in [Deleter -> Del]
    BY <1>1, <2>1, <2>2 DEF TypeOK, StartCleanup, Del, DelPc
  <2> QED BY <1>1, <2>3 DEF TypeOK, StartCleanup
<1>2. CASE Skip(d) \/ Choose(d)
  <2>1. del' \in [Deleter -> Del]
    BY <1>2, WentTyped DEF Skip, Choose, DelPc
  <2> QED BY <1>2, <2>1 DEF TypeOK, Skip, Choose
<1>3. CASE GiveUp(d) \/ FinishCleanup(d)
  BY <1>3, <1>n DEF TypeOK, GiveUp, FinishCleanup
<1>4. ASSUME NEW b \in Id, StartDelete(d, b) PROVE TypeOK'
  <2>1. [NoDel EXCEPT !.pc = "unlink", !.todo = {b}] \in Del
    BY DEF NoDel, Del, DelPc
  <2> QED BY <1>4, <2>1 DEF TypeOK, StartDelete
<1>5. CASE Unlink(d)
  <2>1. \A b \in Id : GoneFor(d, b) \in {"no", "cleanup", "user"}
    BY DEF TypeOK, GoneFor, Del
  <2>2. gone' \in [Id -> {"no", "cleanup", "user"}]
    BY <1>5, <2>1 DEF TypeOK, Unlink
  <2>3. del' \in [Deleter -> Del]
    BY <1>5, WentTyped DEF Unlink, DelPc
  <2> QED BY <1>5, <2>2, <2>3 DEF TypeOK, Unlink
<1>6. CASE CommitDelete(d)
  <2>1. \A b \in Id : GoneFor(d, b) \in {"no", "cleanup", "user"}
    BY DEF TypeOK, GoneFor, Del
  <2>2. /\ gone' \in [Id -> {"no", "cleanup", "user"}]
        /\ status' \in [Id -> Status]
    BY <1>6, <2>1 DEF TypeOK, CommitDelete, Status
  <2>3. del' \in [Deleter -> Del]
    BY <1>6, WentTyped DEF CommitDelete, DelPc
  <2> QED BY <1>6, <2>2, <2>3 DEF TypeOK, CommitDelete
<1> QED BY <1>1, <1>2, <1>3, <1>4, <1>5, <1>6 DEF Deletion

LEMMA Typed == ASSUME TypeOK, [Next]_vars PROVE TypeOK'
<1>1. CASE Device BY <1>1, DeviceTyped
<1>2. CASE Backup BY <1>2, BackupTyped
<1>3. ASSUME NEW d \in Deleter, Deletion(d) PROVE TypeOK'
  BY <1>3, DeletionTyped
<1>4. CASE Restart
  BY <1>4, NoRunTyped, NoDelTyped DEF TypeOK, Restart, Status
<1>5. CASE UNCHANGED vars
  BY <1>5 DEF TypeOK, vars
<1> QED BY <1>1, <1>2, <1>3, <1>4, <1>5 DEF Next

LEMMA InitTyped == Init => TypeOK
<1>1. SUFFICES ASSUME Init PROVE TypeOK
  OBVIOUS
<1>2. NoRow \in Row
  BY Constants DEF NoRow, Row
<1>3. [p \in Path |-> 1] \in Stored
  BY Constants DEF Stored
<1> QED
  BY <1>1, <1>2, <1>3, NothingStored, NoRunTyped, NoDelTyped, Constants DEF Init, TypeOK, Status

(* Every reachable state of Retention is well typed, for any paths, threads *)
(* that clean up, history and policies.                                     *)
THEOREM TypeCorrect == Spec => []TypeOK
BY InitTyped, Typed, PTL DEF Spec

-----------------------------------------------------------------------------
(* Why the newest baseline stays.  What a row is does not change once it    *)
(* is saved; no row that a cleanup has yet to look at is running; and a row *)
(* it has chosen is no baseline, is one a user is deleting, or has a newer  *)
(* baseline after it.                                                       *)
Replaced(b) == \E n \in Id : n > b /\ Baseline(n)

RowsGrow ==
  /\ \A b \in Id : b > count => status[b] = "none"
  /\ \A b \in saved : status[b] \in {"success", "deleted"}
  /\ \A b \in Id : gone[b] = "no" \/ b \in saved \/ status[b] = "deleted"
  /\ \A b \in Id : status[b] = "running" => ~(now > row[b].created + Retain)

TodoIsSettled ==
  \A d \in Deleter : \A b \in del[d].todo :
    /\ status[b] # "none"
    /\ del[d].by = "cleanup" => status[b] # "running"

ChosenIsReplaced ==
  \A d \in Deleter : del[d].by = "cleanup" /\ del[d].pc \in {"unlink", "commit"} =>
    \A b \in Id :
      Next1(d, b) /\ Baseline(b) /\ gone[b] # "user" => Replaced(b)

IInv ==
  TypeOK /\ RowsGrow /\ TodoIsSettled /\ ChosenIsReplaced /\ NewestBaselineStays

(* A row that is saved is what it was; a row that has ended does not run    *)
(* again; and what a user deleted stays deleted by a user.                  *)
Kept ==
  /\ \A b \in saved : b \in saved' /\ row'[b] = row[b] /\ files'[b] = files[b]
  /\ \A b \in Id : status[b] # "none" => status'[b] # "none"
  /\ \A b \in Id : status[b] \notin {"none", "running"} => status'[b] # "running"

(* Steps that leave the records of the backups as they are.                 *)
RecordsStay ==
  UNCHANGED <<count, row, status, files, saved>>

LEMMA StayKept ==
  ASSUME RecordsStay, UNCHANGED <<now, gone>>, RowsGrow PROVE RowsGrow' /\ Kept
BY DEF RecordsStay, RowsGrow, Kept

(* The next id has no row yet.                                              *)
LEMMA NextIsFree ==
  ASSUME TypeOK, RowsGrow, count < MaxBackups
  PROVE  count + 1 \in Id /\ status[count + 1] = "none" /\ count + 1 \notin saved
<1>1. count \in Nat /\ MaxBackups \in Nat
  BY Constants DEF TypeOK
<1>2. count + 1 \in Id /\ count + 1 > count
  BY <1>1 DEF Id
<1>3. status[count + 1] = "none"
  BY <1>2 DEF RowsGrow
<1> QED BY <1>2, <1>3 DEF RowsGrow

LEMMA TickGrows ==
  ASSUME Brisk, TypeOK, RowsGrow, Tick PROVE RowsGrow' /\ Kept
<1>1. ASSUME NEW b \in Id, status[b] = "running" PROVE ~(now + 1 > row[b].created + Retain)
  <2>1. now + 1 <= row[b].created + Retain
    BY <1>1 DEF Tick
  <2>2. now \in Nat /\ row[b].created \in Nat /\ Retain \in Nat
    BY Constants DEF TypeOK, Row
  <2> QED BY <2>1, <2>2
<1>2. /\ now' = now + 1 /\ count' = count /\ row' = row /\ status' = status
      /\ files' = files /\ saved' = saved /\ gone' = gone
  BY DEF Tick
<1> QED BY <1>1, <1>2 DEF RowsGrow, Kept

LEMMA BackupGrows ==
  ASSUME TypeOK, RowsGrow, Backup PROVE RowsGrow' /\ Kept
<1>0. count \in Nat
  BY Constants DEF TypeOK
<1>1. ASSUME RecordsStay, UNCHANGED <<now, gone>> PROVE RowsGrow' /\ Kept
  BY <1>1, StayKept
<1>2. ASSUME NEW zip \in ZipModes, CreateBackup(zip) PROVE RowsGrow' /\ Kept
  <2>1. count + 1 \in Id /\ status[count + 1] = "none" /\ count + 1 \notin saved
    BY <1>2, NextIsFree DEF CreateBackup
  <2>2. \A b \in Id : b # count + 1 => status'[b] = status[b] /\ row'[b] = row[b]
    BY <1>2 DEF TypeOK, CreateBackup
  <2>3. status'[count + 1] = "running" /\ row'[count + 1].created = now
    BY <1>2, <2>1 DEF TypeOK, CreateBackup
  <2>4. /\ count' = count + 1 /\ now' = now /\ saved' = saved /\ files' = files
        /\ gone' = gone
    BY <1>2 DEF CreateBackup
  <2>5. \A b \in Id : b > count + 1 => status'[b] = "none"
    BY <1>0, <2>2 DEF RowsGrow, Id
  <2>6. ~(now > now + Retain)
    BY Constants DEF TypeOK
  <2>7. \A b \in saved : b \in Id /\ b # count + 1
    BY <2>1 DEF TypeOK
  <2>8. \A b \in Id : status'[b] = "running" => ~(now' > row'[b].created + Retain)
    BY <2>2, <2>3, <2>4, <2>6 DEF RowsGrow
  <2>9. \A b \in Id : gone'[b] = "no" \/ b \in saved' \/ status'[b] = "deleted"
    BY <2>1, <2>2, <2>4 DEF RowsGrow
  <2>10. RowsGrow'
    BY <2>2, <2>4, <2>5, <2>7, <2>8, <2>9 DEF RowsGrow
  <2> QED BY <2>1, <2>2, <2>3, <2>4, <2>7, <2>10 DEF Kept
<1>3. CASE Manual
  <2>1. count + 1 \in Id /\ status[count + 1] = "none" /\ count + 1 \notin saved
    BY <1>3, NextIsFree DEF Manual
  <2>2. \A b \in Id : b # count + 1 => status'[b] = status[b] /\ row'[b] = row[b]
    BY <1>3 DEF TypeOK, Manual
  <2>3. status'[count + 1] = "success"
    BY <1>3, <2>1 DEF TypeOK, Manual
  <2>4. /\ count' = count + 1 /\ now' = now /\ saved' = saved /\ files' = files
        /\ gone' = gone
    BY <1>3 DEF Manual
  <2>5. \A b \in Id : b > count + 1 => status'[b] = "none"
    BY <1>0, <2>2 DEF RowsGrow, Id
  <2>6. \A b \in saved : b \in Id /\ b # count + 1
    BY <2>1 DEF TypeOK
  <2>7. \A b \in Id : status'[b] = "running" => ~(now' > row'[b].created + Retain)
    BY <2>2, <2>3, <2>4 DEF RowsGrow
  <2>8. \A b \in Id : gone'[b] = "no" \/ b \in saved' \/ status'[b] = "deleted"
    BY <2>1, <2>2, <2>4 DEF RowsGrow
  <2>9. RowsGrow'
    BY <2>2, <2>4, <2>5, <2>6, <2>7, <2>8 DEF RowsGrow
  <2> QED BY <2>1, <2>2, <2>3, <2>4, <2>6, <2>9 DEF Kept
<1>4. CASE Save
  <2>1. PICK b \in Id :
          /\ Mine(b)
          /\ status' = [status EXCEPT ![b] = "success"]
          /\ files' = [files EXCEPT ![b] = run.fetched]
          /\ saved' = saved \cup {b}
    BY <1>4 DEF Save
  <2>2. b \notin saved /\ ~(b > count)
    BY <2>1 DEF Mine, RowsGrow
  <2>3. /\ \A n \in Id : n # b => status'[n] = status[n] /\ files'[n] = files[n]
        /\ status'[b] = "success"
    BY <2>1 DEF TypeOK
  <2>4. saved \subseteq Id
    BY DEF TypeOK
  <2>5. UNCHANGED <<now, count, row, gone>>
    BY <1>4 DEF Save
  <2>6. RowsGrow'
    BY <2>1, <2>2, <2>3, <2>4, <2>5 DEF RowsGrow
  <2>7. Kept
    BY <2>1, <2>2, <2>3, <2>4, <2>5 DEF Kept
  <2> QED BY <2>6, <2>7
<1>5. CASE Fail
  <2>1. PICK b \in Id : Mine(b) /\ status' = [status EXCEPT ![b] = "failed"]
    BY <1>5 DEF Fail
  <2>2. b \notin saved /\ ~(b > count)
    BY <2>1 DEF Mine, RowsGrow
  <2>3. /\ \A n \in Id : n # b => status'[n] = status[n]
        /\ status'[b] = "failed"
    BY <2>1 DEF TypeOK
  <2>4. saved \subseteq Id
    BY DEF TypeOK
  <2>5. UNCHANGED <<now, count, row, files, saved, gone>>
    BY <1>5 DEF Fail
  <2>6. RowsGrow'
    BY <2>1, <2>2, <2>3, <2>4, <2>5 DEF RowsGrow, Mine
  <2> QED BY <2>1, <2>3, <2>5, <2>6 DEF Kept, Mine
<1>6. (\E forced \in BOOLEAN : StartRun(forced)) \/ Check \/ NoBackup \/ Download \/ Vanished
        => RecordsStay /\ UNCHANGED <<now, gone>>
  BY DEF StartRun, Check, NoBackup, Download, Vanished, RecordsStay
<1> QED BY <1>1, <1>2, <1>3, <1>4, <1>5, <1>6 DEF Backup

LEMMA DeletionGrows ==
  ASSUME TypeOK, RowsGrow, TodoIsSettled, NEW d \in Deleter, Deletion(d)
  PROVE  RowsGrow' /\ Kept
<1>1. ASSUME RecordsStay, UNCHANGED <<now, gone>> PROVE RowsGrow' /\ Kept
  BY <1>1, StayKept
<1>2. CASE Unlink(d)
  <2>1. PICK b \in Id :
          gone' = IF b \in saved THEN [gone EXCEPT ![b] = GoneFor(d, b)] ELSE gone
    BY <1>2 DEF Unlink
  <2>2. UNCHANGED <<now, count, row, status, files, saved>>
    BY <1>2 DEF Unlink
  <2>3. \A n \in Id : gone'[n] = gone[n] \/ n \in saved
    BY <2>1 DEF TypeOK
  <2> QED BY <2>2, <2>3 DEF RowsGrow, Kept
<1>3. CASE CommitDelete(d)
  <2>1. PICK b \in Id :
          /\ Next1(d, b)
          /\ gone' = [gone EXCEPT ![b] = GoneFor(d, b)]
          /\ status' = [status EXCEPT ![b] = "deleted"]
    BY <1>3 DEF CommitDelete
  <2>2. UNCHANGED <<now, count, row, files, saved>>
    BY <1>3 DEF CommitDelete
  <2>3. status[b] # "none"
    BY <2>1 DEF Next1, TodoIsSettled
  <2>4. /\ \A n \in Id : n # b => status'[n] = status[n] /\ gone'[n] = gone[n]
        /\ status'[b] = "deleted"
    BY <2>1 DEF TypeOK
  <2>5. saved \subseteq Id
    BY DEF TypeOK
  <2>6. RowsGrow'
    BY <2>2, <2>3, <2>4, <2>5 DEF RowsGrow
  <2> QED BY <2>2, <2>4, <2>6 DEF Kept
<1>4. ASSUME \/ \E policy \in Policy : StartCleanup(d, policy)
             \/ Skip(d) \/ Choose(d) \/ GiveUp(d) \/ FinishCleanup(d)
             \/ \E b \in Id : StartDelete(d, b)
      PROVE  RecordsStay /\ UNCHANGED <<now, gone>>
  BY <1>4 DEF StartCleanup, Skip, Choose, GiveUp, FinishCleanup, StartDelete, RecordsStay
<1> QED BY <1>1, <1>2, <1>3, <1>4 DEF Deletion

LEMMA Grows ==
  ASSUME Brisk, TypeOK, RowsGrow, TodoIsSettled, [Next]_vars
  PROVE  RowsGrow' /\ Kept
<1>1. CASE Device
  <2>1. CASE Tick BY <2>1, TickGrows
  <2>2. ASSUME NEW p \in Path, Edit(p) \/ Remove(p) PROVE RowsGrow' /\ Kept
    BY <2>2, StayKept DEF Edit, Remove, RecordsStay
  <2> QED BY <1>1, <2>1, <2>2 DEF Device
<1>2. CASE Backup BY <1>2, BackupGrows
<1>3. ASSUME NEW d \in Deleter, Deletion(d) PROVE RowsGrow' /\ Kept
  BY <1>3, DeletionGrows
<1>4. CASE Restart
  <2>1. /\ \A b \in Id : status'[b] = IF status[b] = "running" THEN "failed" ELSE status[b]
        /\ UNCHANGED <<now, count, row, files, saved, gone>>
    BY <1>4 DEF Restart
  <2>2. saved \subseteq Id
    BY DEF TypeOK
  <2>3. RowsGrow'
    BY <2>1, <2>2 DEF RowsGrow
  <2> QED BY <2>1, <2>3 DEF Kept
<1>5. CASE UNCHANGED vars
  BY <1>5, StayKept DEF vars, RecordsStay
<1> QED BY <1>1, <1>2, <1>3, <1>4, <1>5 DEF Next

(* What a cleanup has before it is settled: it lists no running row that    *)
(* Brisk does not exclude, and settled rows stay settled.                   *)
LEMMA TodoStaysSettled ==
  ASSUME TypeOK, RowsGrow, TodoIsSettled, Kept, [Next]_vars
  PROVE  TodoIsSettled'
<1>t. \A d \in Deleter : del[d].todo \subseteq Id /\ del[d].by \in {"cleanup", "user"}
  BY DEF TypeOK, Del
<1>1. ASSUME NEW d \in Deleter,
             del'[d].todo \subseteq del[d].todo, del'[d].by = del[d].by
      PROVE  \A b \in del'[d].todo :
               /\ status'[b] # "none"
               /\ del'[d].by = "cleanup" => status'[b] # "running"
  BY <1>1, <1>t DEF TodoIsSettled, Kept
<1>2. ASSUME UNCHANGED del PROVE TodoIsSettled'
  BY <1>1, <1>2 DEF TodoIsSettled
<1>3. CASE Restart
  BY <1>3 DEF Restart, NoDel, TodoIsSettled
<1>4. ASSUME NEW d \in Deleter, Deletion(d) PROVE TodoIsSettled'
  <2>1. ASSUME NEW mine \in Del,
               del' = [del EXCEPT ![d] = mine],
               \A b \in mine.todo :
                 /\ status'[b] # "none"
                 /\ mine.by = "cleanup" => status'[b] # "running"
        PROVE  TodoIsSettled'
    <3>1. del'[d] = mine /\ \A e \in Deleter : e # d => del'[e] = del[e]
      BY <2>1 DEF TypeOK
    <3> QED BY <1>1, <2>1, <3>1 DEF TodoIsSettled
  <2>2. ASSUME NEW policy \in Policy, StartCleanup(d, policy) PROVE TodoIsSettled'
    <3>1. status' = status
      BY <2>2 DEF StartCleanup
    <3>2. \A b \in Id :
            Exists(b) /\ now > row[b].created + Retain => status[b] \notin {"none", "running"}
      BY DEF RowsGrow, Exists
    <3>3. \A b \in MonthlyExcess : b \in Id /\ status[b] \notin {"none", "running"}
      BY DEF MonthlyExcess, Settled, Exists
    <3>4. \A b \in del'[d].todo : status[b] \notin {"none", "running"}
      BY <2>2, <3>2, <3>3 DEF TypeOK, StartCleanup, Exists
    <3>5. del'[d] \in Del /\ del' = [del EXCEPT ![d] = del'[d]]
      <4>1. TypeOK'
        BY <2>2, DeletionTyped DEF Deletion
      <4> QED BY <2>2, <4>1 DEF TypeOK, StartCleanup
    <3> QED BY <2>1, <3>1, <3>4, <3>5
  <2>3. ASSUME NEW b \in Id, NEW pc \in DelPc, Went(d, b, pc) PROVE TodoIsSettled'
    <3>1. /\ \A e \in Deleter : e # d => del'[e] = del[e]
          /\ del'[d].todo \subseteq del[d].todo /\ del'[d].by = del[d].by
      BY <2>3, WentTyped
    <3> QED BY <1>1, <3>1 DEF TodoIsSettled
  <2>4. Skip(d) \/ Choose(d) \/ Unlink(d) \/ CommitDelete(d) =>
          \E b \in Id, pc \in DelPc : Went(d, b, pc)
    BY DEF Skip, Choose, Unlink, CommitDelete, DelPc
  <2>5. CASE GiveUp(d) \/ FinishCleanup(d)
    <3>1. del' = [del EXCEPT ![d] = NoDel] /\ NoDel.todo = {}
      BY <2>5 DEF GiveUp, FinishCleanup, NoDel
    <3> QED BY <2>1, <3>1, NoDelTyped
  <2>6. ASSUME NEW b \in Id, StartDelete(d, b) PROVE TodoIsSettled'
    <3>1. status[b] # "none" /\ status' = status
      BY <2>6 DEF StartDelete, Exists
    <3>2. [NoDel EXCEPT !.pc = "unlink", !.todo = {b}] \in Del
      BY DEF NoDel, Del, DelPc
    <3> QED BY <2>1, <2>6, <3>1, <3>2 DEF StartDelete, NoDel
  <2> QED BY <1>4, <2>2, <2>3, <2>4, <2>5, <2>6 DEF Deletion
<1>5. CASE Device \/ Backup \/ UNCHANGED vars
  BY <1>2, <1>5 DEF Device, Backup, Tick, Edit, Remove, StartRun, Check, NoBackup,
     CreateBackup, Download, Save, Fail, Vanished, Manual, vars
<1> QED BY <1>3, <1>4, <1>5 DEF Next

-----------------------------------------------------------------------------
(* Baselines stay baselines, so what is replaced stays replaced.            *)
LEMMA BaselinesStay ==
  ASSUME TypeOK, Kept, NEW b \in Id
  PROVE  (Baseline(b) => Baseline(b)') /\ (Replaced(b) => Replaced(b)')
<1>1. ASSUME NEW n \in Id, Baseline(n) PROVE Baseline(n)'
  BY <1>1 DEF Baseline, Kept
<1> QED BY <1>1 DEF Replaced

(* A row that is not just being saved is a baseline only if it was one.     *)
LEMMA OldBaseline ==
  ASSUME Kept, NEW b \in Id, b \in saved \/ saved' = saved, Baseline(b)'
  PROVE  Baseline(b)
BY DEF Baseline, Kept

(* What a cleanup does not skip is no baseline, or is replaced, or its      *)
(* files were deleted by somebody: then by a user, or it was replaced.      *)
LEMMA NotSkipped ==
  ASSUME TypeOK, RowsGrow, NewestBaselineStays, NEW d \in Deleter, NEW b \in Id,
         Exists(b), ~SkipReason(d, b), Baseline(b), gone[b] # "user"
  PROVE  Replaced(b)
<1>1. status[b] = "success"
  BY DEF Baseline, Exists, RowsGrow
<1>2. CASE Legible(b)
  <2>1. FullBaseline(b)
    BY <1>1, <1>2 DEF FullBaseline, Baseline
  <2>2. PICK n \in Id : n > b /\ FullBaseline(n)
    BY <2>1 DEF SkipReason
  <2>3. Baseline(n)
    BY <2>2 DEF FullBaseline, Legible, Baseline
  <2> QED BY <2>2, <2>3 DEF Replaced
<1>3. CASE ~Legible(b)
  <2>1. gone[b] = "cleanup"
    BY <1>3 DEF TypeOK, Legible, Baseline
  <2> QED BY <2>1 DEF NewestBaselineStays, Replaced
<1> QED BY <1>2, <1>3

(* What is deleted for a cleanup was chosen by one.                         *)
LEMMA DeletedIsReplaced ==
  ASSUME TypeOK, ChosenIsReplaced, NewestBaselineStays,
         NEW d \in Deleter, del[d].pc \in {"unlink", "commit"},
         NEW b \in Id, Next1(d, b), GoneFor(d, b) = "cleanup", Baseline(b)
  PROVE  Replaced(b)
<1>1. gone[b] # "user" /\ del[d].by = "cleanup"
  BY DEF GoneFor
<1> QED BY <1>1 DEF ChosenIsReplaced

LEMMA ChosenStaysReplaced ==
  ASSUME IInv, TypeOK', Kept, [Next]_vars
  PROVE  ChosenIsReplaced'
<1>i. TypeOK /\ RowsGrow /\ TodoIsSettled /\ ChosenIsReplaced /\ NewestBaselineStays
  BY DEF IInv
<1>1. ASSUME NEW d \in Deleter, del'[d] = del[d],
             \A b \in Id : gone[b] = "user" => gone'[b] = "user",
             del'[d].by = "cleanup", del'[d].pc \in {"unlink", "commit"},
             NEW b \in Id, Next1(d, b)', Baseline(b)', gone'[b] # "user",
             saved' = saved \/ Save
      PROVE  Replaced(b)'
  <2>1. Next1(d, b) /\ gone[b] # "user"
    BY <1>1 DEF Next1
  <2>2. b \in saved \/ saved' = saved
    <3>1. CASE Save
      <4>1. PICK n \in Id : Mine(n) /\ saved' = saved \cup {n}
        BY <3>1 DEF Save
      <4>2. n # b
        BY <1>i, <1>1, <2>1, <4>1 DEF Next1, TodoIsSettled, Mine
      <4> QED BY <1>1, <4>1, <4>2 DEF Baseline
    <3> QED BY <1>1, <3>1
  <2>3. Baseline(b)
    BY <1>1, <2>2, OldBaseline
  <2> QED BY <1>i, <1>1, <2>1, <2>3, BaselinesStay DEF ChosenIsReplaced
<1>2. ASSUME UNCHANGED <<del, gone>>, saved' = saved \/ Save PROVE ChosenIsReplaced'
  BY <1>1, <1>2 DEF ChosenIsReplaced
<1>3. CASE Restart
  BY <1>3 DEF Restart, NoDel, ChosenIsReplaced
<1>4. ASSUME NEW d \in Deleter, Deletion(d) PROVE ChosenIsReplaced'
  <2>0. saved' = saved
    BY <1>4 DEF Deletion, StartCleanup, Skip, Choose, GiveUp, FinishCleanup, StartDelete,
       Unlink, CommitDelete
  <2>1. ASSUME \A e \in Deleter : e # d => del'[e] = del[e],
               \A b \in Id : gone[b] = "user" => gone'[b] = "user",
               \A b \in Id :
                 /\ del'[d].by = "cleanup" /\ del'[d].pc \in {"unlink", "commit"}
                 /\ Next1(d, b)' /\ Baseline(b) /\ gone'[b] # "user"
                 => Replaced(b)
        PROVE  ChosenIsReplaced'
    <3>1. ASSUME NEW b \in Id,
                 del'[d].by = "cleanup", del'[d].pc \in {"unlink", "commit"},
                 Next1(d, b)', Baseline(b)', gone'[b] # "user"
          PROVE  Replaced(b)'
      <4>1. Baseline(b)
        BY <2>0, <3>1, OldBaseline
      <4> QED BY <1>i, <2>1, <3>1, <4>1, BaselinesStay
    <3> QED BY <1>1, <2>0, <2>1, <3>1 DEF ChosenIsReplaced
  <2>2. CASE \/ \E policy \in Policy : StartCleanup(d, policy)
             \/ GiveUp(d) \/ FinishCleanup(d)
             \/ \E b \in Id : StartDelete(d, b)
    <3>1. gone' = gone /\ \A e \in Deleter : e # d => del'[e] = del[e]
      BY <1>i, <2>2 DEF TypeOK, StartCleanup, GiveUp, FinishCleanup, StartDelete
    <3>2. del'[d].pc = "check" \/ del'[d].by = "user"
      <4>1. ASSUME NEW policy \in Policy, StartCleanup(d, policy) PROVE del'[d].pc = "check"
        BY <1>i, <4>1 DEF TypeOK, StartCleanup
      <4>2. CASE GiveUp(d) \/ FinishCleanup(d)
        BY <1>i, <4>2 DEF TypeOK, GiveUp, FinishCleanup, NoDel
      <4>3. ASSUME NEW b \in Id, StartDelete(d, b) PROVE del'[d].by = "user"
        BY <1>i, <4>3 DEF TypeOK, StartDelete, NoDel
      <4> QED BY <2>2, <4>1, <4>2, <4>3
    <3>3. ~(del'[d].by = "cleanup" /\ del'[d].pc \in {"unlink", "commit"})
      BY <3>2
    <3> QED BY <2>1, <3>1, <3>3
  <2>3. CASE Skip(d)
    <3>1. PICK b \in Id : Went(d, b, "check")
      BY <2>3 DEF Skip
    <3>2. del'[d].pc = "check" /\ \A e \in Deleter : e # d => del'[e] = del[e]
      BY <1>i, <3>1, WentTyped DEF DelPc
    <3> QED BY <2>1, <2>3, <3>2 DEF Skip
  <2>4. CASE Choose(d)
    <3>1. PICK b \in Id :
            Next1(d, b) /\ Exists(b) /\ ~SkipReason(d, b) /\ Went(d, b, "unlink")
      BY <2>4 DEF Choose
    <3>2. del'[d].todo = del[d].todo /\ \A e \in Deleter : e # d => del'[e] = del[e]
      BY <1>i, <3>1, WentTyped DEF DelPc
    <3>3. \A n \in Id : Next1(d, n)' => n = b
      BY <3>1, <3>2 DEF Next1, Id
    <3>4. gone' = gone
      BY <2>4 DEF Choose
    <3>5. Baseline(b) /\ gone[b] # "user" => Replaced(b)
      BY <1>i, <3>1, NotSkipped
    <3> QED BY <2>1, <3>2, <3>3, <3>4, <3>5
  <2>5. CASE Unlink(d)
    <3>1. PICK b \in Id :
            /\ Next1(d, b) /\ Went(d, b, "commit")
            /\ gone' = IF b \in saved THEN [gone EXCEPT ![b] = GoneFor(d, b)] ELSE gone
      BY <2>5 DEF Unlink
    <3>2. /\ del'[d].todo = del[d].todo /\ del'[d].by = del[d].by
          /\ \A e \in Deleter : e # d => del'[e] = del[e]
      BY <1>i, <3>1, WentTyped DEF DelPc
    <3>3. \A n \in Id : gone[n] = "user" => gone'[n] = "user"
      BY <1>i, <3>1 DEF TypeOK, GoneFor
    <3>4. \A n \in Id : Next1(d, n)' => Next1(d, n)
      BY <3>2 DEF Next1
    <3>5. del[d].pc = "unlink"
      BY <2>5 DEF Unlink
    <3> QED BY <1>i, <2>1, <3>2, <3>3, <3>4, <3>5 DEF ChosenIsReplaced
  <2>6. CASE CommitDelete(d)
    <3>1. PICK b \in Id :
            /\ Went(d, b, "check")
            /\ gone' = [gone EXCEPT ![b] = GoneFor(d, b)]
      BY <2>6 DEF CommitDelete
    <3>2. del'[d].pc = "check" /\ \A e \in Deleter : e # d => del'[e] = del[e]
      BY <1>i, <3>1, WentTyped DEF DelPc
    <3>3. \A n \in Id : gone[n] = "user" => gone'[n] = "user"
      BY <1>i, <3>1 DEF TypeOK, GoneFor
    <3> QED BY <2>1, <3>2, <3>3
  <2> QED BY <1>4, <2>2, <2>3, <2>4, <2>5, <2>6 DEF Deletion
<1>5. CASE Device \/ Backup \/ UNCHANGED vars
  <2>1. UNCHANGED <<del, gone>> /\ (saved' = saved \/ Save)
    BY <1>5 DEF Device, Backup, Tick, Edit, Remove, StartRun, Check, NoBackup,
       CreateBackup, Download, Save, Fail, Vanished, Manual, vars
  <2> QED BY <1>2, <2>1
<1> QED BY <1>3, <1>4, <1>5 DEF Next

LEMMA NewestStays ==
  ASSUME IInv, Kept, [Next]_vars
  PROVE  NewestBaselineStays'
<1>i. TypeOK /\ RowsGrow /\ TodoIsSettled /\ ChosenIsReplaced /\ NewestBaselineStays
  BY DEF IInv
<1>0. SUFFICES ASSUME NEW b \in Id, Baseline(b)', gone'[b] = "cleanup"
               PROVE  Replaced(b)'
  BY DEF NewestBaselineStays, Replaced
<1>1. ASSUME gone'[b] = gone[b], saved' = saved PROVE Replaced(b)'
  <2>1. Replaced(b)
    BY <1>i, <1>0, <1>1, OldBaseline DEF NewestBaselineStays, Replaced
  <2> QED BY <1>i, <2>1, BaselinesStay
<1>2. CASE Save
  <2>1. PICK n \in Id : Mine(n) /\ saved' = saved \cup {n}
    BY <1>2 DEF Save
  <2>2. gone' = gone
    BY <1>2 DEF Save
  <2>3. n # b
    BY <1>i, <1>0, <2>1, <2>2 DEF RowsGrow, Mine
  <2>4. b \in saved
    BY <1>0, <2>1, <2>3 DEF Baseline
  <2>5. Replaced(b)
    BY <1>i, <1>0, <2>2, <2>4, OldBaseline DEF NewestBaselineStays, Replaced
  <2> QED BY <1>i, <2>5, BaselinesStay
<1>3. ASSUME NEW d \in Deleter, Unlink(d) \/ CommitDelete(d) PROVE Replaced(b)'
  <2>1. PICK n \in Id :
          /\ Next1(d, n)
          /\ gone' = gone \/ gone' = [gone EXCEPT ![n] = GoneFor(d, n)]
    BY <1>3 DEF Unlink, CommitDelete
  <2>2. saved' = saved /\ del[d].pc \in {"unlink", "commit"}
    BY <1>3 DEF Unlink, CommitDelete
  <2>3. CASE gone'[b] = gone[b]
    BY <1>1, <2>2, <2>3
  <2>4. CASE gone'[b] # gone[b]
    <3>1. n = b /\ GoneFor(d, b) = "cleanup"
      BY <1>i, <1>0, <2>1, <2>4 DEF TypeOK
    <3>2. Baseline(b)
      BY <1>0, <2>2, OldBaseline
    <3> QED BY <1>i, <2>1, <2>2, <3>1, <3>2, DeletedIsReplaced, BaselinesStay
  <2> QED BY <2>3, <2>4
<1>4. ASSUME NEW d \in Deleter, Deletion(d), ~Unlink(d), ~CommitDelete(d)
      PROVE  UNCHANGED <<gone, saved>>
  BY <1>4 DEF Deletion, StartCleanup, Skip, Choose, GiveUp, FinishCleanup, StartDelete
<1>5. Device \/ (Backup /\ ~Save) \/ Restart \/ UNCHANGED vars => UNCHANGED <<gone, saved>>
  BY DEF Device, Backup, Tick, Edit, Remove, StartRun, Check, NoBackup,
     CreateBackup, Download, Fail, Vanished, Manual, Restart, vars
<1> QED BY <1>1, <1>2, <1>3, <1>4, <1>5 DEF Next

LEMMA InitHolds == Init => IInv
<1>1. ASSUME Init PROVE RowsGrow /\ TodoIsSettled /\ ChosenIsReplaced /\ NewestBaselineStays
  BY <1>1 DEF Init, NoDel, RowsGrow, TodoIsSettled, ChosenIsReplaced, NewestBaselineStays
<1> QED BY <1>1, InitTyped DEF IInv

LEMMA Inductive == ASSUME Brisk, IInv, [Next]_vars PROVE IInv'
<1>1. TypeOK' BY Typed DEF IInv
<1>2. RowsGrow' /\ Kept BY Grows DEF IInv
<1>3. TodoIsSettled' BY <1>2, TodoStaysSettled DEF IInv
<1>4. ChosenIsReplaced' BY <1>1, <1>2, ChosenStaysReplaced
<1>5. NewestBaselineStays' BY <1>2, NewestStays
<1> QED BY <1>1, <1>2, <1>3, <1>4, <1>5 DEF IInv

(* When every run ends before its row is old enough to be cleaned up, no    *)
(* interleaving of cleanups, deletions, runs and restarts takes the newest  *)
(* full baseline from a device, for any paths, policies and threads.        *)
THEOREM CleanupKeepsBaseline ==
  ASSUME Brisk PROVE Spec => []NewestBaselineStays
<1>1. ASSUME IInv, [Next]_vars PROVE IInv'
  BY <1>1, Inductive
<1>2. IInv => NewestBaselineStays
  BY DEF IInv
<1> QED BY InitHolds, <1>1, <1>2, PTL DEF Spec

-----------------------------------------------------------------------------
(* What holds of the rows whether or not runs are brisk: ids are given in   *)
(* order, and a thread is at rows that were made.  Of a row that has ended  *)
(* nothing changes but that it is deleted, and it does not become a         *)
(* baseline again.                                                         *)
Ended == {"success", "failed", "deleted"}

Made ==
  /\ \A b \in Id : b > count => status[b] = "none"
  /\ \A d \in Deleter : \A b \in del[d].todo : status[b] # "none"

LEMMA FreeRow ==
  ASSUME TypeOK, Made, count < MaxBackups
  PROVE  count + 1 \in Id /\ status[count + 1] = "none"
<1>1. count \in Nat /\ MaxBackups \in Nat
  BY Constants DEF TypeOK
<1>2. count + 1 \in Id /\ count + 1 > count
  BY <1>1 DEF Id
<1> QED BY <1>2 DEF Made

LEMMA BaselineFades ==
  ASSUME NEW n \in Id, n \in saved' => n \in saved,
         row'[n] = row[n], files'[n] = files[n],
         status'[n] = "success" => status[n] = "success",
         gone'[n] = "no" => gone[n] = "no"
  PROVE  FullBaseline(n)' => FullBaseline(n)
BY DEF FullBaseline, Legible

(* Who deletes files is never nobody.                                       *)
LEMMA GoneForSomebody ==
  ASSUME TypeOK, NEW d \in Deleter, NEW b \in Id
  PROVE  GoneFor(d, b) \in {"cleanup", "user"}
BY DEF TypeOK, Del, GoneFor

LEMMA EndedStays ==
  ASSUME TypeOK, Made, [Next]_vars, NEW n \in Id, status[n] \in Ended
  PROVE  /\ status'[n] \in {status[n], "deleted"} /\ row'[n] = row[n]
         /\ FullBaseline(n)' => FullBaseline(n)
<1>1. ASSUME UNCHANGED <<row, status, files, saved, gone>>
      PROVE  /\ status'[n] \in {status[n], "deleted"} /\ row'[n] = row[n]
             /\ FullBaseline(n)' => FullBaseline(n)
  BY <1>1, BaselineFades
<1>2. ASSUME (\E zip \in ZipModes : CreateBackup(zip)) \/ Manual
      PROVE  /\ status'[n] \in {status[n], "deleted"} /\ row'[n] = row[n]
             /\ FullBaseline(n)' => FullBaseline(n)
  <2>1. n # count + 1
    BY <1>2, FreeRow DEF CreateBackup, Manual, Ended
  <2>2. row'[n] = row[n] /\ status'[n] = status[n]
    BY <1>2, <2>1 DEF TypeOK, CreateBackup, Manual
  <2>3. files' = files /\ saved' = saved /\ gone' = gone
    BY <1>2 DEF CreateBackup, Manual
  <2> QED BY <2>2, <2>3, BaselineFades
<1>3. ASSUME Save \/ Fail
      PROVE  /\ status'[n] \in {status[n], "deleted"} /\ row'[n] = row[n]
             /\ FullBaseline(n)' => FullBaseline(n)
  <2>1. PICK b \in Id :
          /\ Mine(b)
          /\ \E to \in {"success", "failed"} : status' = [status EXCEPT ![b] = to]
          /\ files' = files \/ files' = [files EXCEPT ![b] = run.fetched]
          /\ saved' = saved \/ saved' = saved \cup {b}
    BY <1>3 DEF Save, Fail
  <2>2. n # b
    BY <2>1 DEF Mine, Ended
  <2>3. status'[n] = status[n] /\ files'[n] = files[n] /\ (n \in saved' => n \in saved)
    BY <2>1, <2>2 DEF TypeOK
  <2>4. row' = row /\ gone' = gone
    BY <1>3 DEF Save, Fail
  <2> QED BY <2>3, <2>4, BaselineFades
<1>4. ASSUME NEW d \in Deleter, Unlink(d) \/ CommitDelete(d)
      PROVE  /\ status'[n] \in {status[n], "deleted"} /\ row'[n] = row[n]
             /\ FullBaseline(n)' => FullBaseline(n)
  <2>1. PICK b \in Id :
          /\ status' = status \/ status' = [status EXCEPT ![b] = "deleted"]
          /\ gone' = gone \/ gone' = [gone EXCEPT ![b] = GoneFor(d, b)]
    BY <1>4 DEF Unlink, CommitDelete
  <2>2. status'[n] \in {status[n], "deleted"}
    BY <2>1 DEF TypeOK
  <2>3. gone'[n] = "no" => gone[n] = "no"
    BY <2>1, GoneForSomebody DEF TypeOK
  <2>4. row' = row /\ files' = files /\ saved' = saved
    BY <1>4 DEF Unlink, CommitDelete
  <2> QED BY <2>2, <2>3, <2>4, BaselineFades
<1>5. ASSUME Restart
      PROVE  /\ status'[n] \in {status[n], "deleted"} /\ row'[n] = row[n]
             /\ FullBaseline(n)' => FullBaseline(n)
  <2>1. status'[n] = status[n]
    BY <1>5 DEF Restart, Ended
  <2>2. UNCHANGED <<row, files, saved, gone>>
    BY <1>5 DEF Restart
  <2> QED BY <2>1, <2>2, BaselineFades
<1>6. ASSUME NEW d \in Deleter, Deletion(d), ~Unlink(d), ~CommitDelete(d)
      PROVE  UNCHANGED <<row, status, files, saved, gone>>
  BY <1>6 DEF Deletion, StartCleanup, Skip, Choose, GiveUp, FinishCleanup, StartDelete
<1>7. \/ Device \/ (\E forced \in BOOLEAN : StartRun(forced)) \/ Check \/ NoBackup
      \/ Download \/ Vanished \/ UNCHANGED vars
      => UNCHANGED <<row, status, files, saved, gone>>
  BY DEF Device, Tick, Edit, Remove, StartRun, Check, NoBackup, Download, Vanished, vars
<1> QED BY <1>1, <1>2, <1>3, <1>4, <1>5, <1>6, <1>7 DEF Next, Backup

(* A row, once made, stays: deleting is a status too.                       *)
LEMMA RowsStayMade ==
  ASSUME TypeOK, Made, [Next]_vars
  PROVE  /\ \A b \in Id : status[b] # "none" => status'[b] # "none"
         /\ \A b \in Id : b > count' => status'[b] = "none"
<1>0. count \in Nat
  BY Constants DEF TypeOK
<1>1. ASSUME UNCHANGED <<count, status>>
      PROVE  /\ \A b \in Id : status[b] # "none" => status'[b] # "none"
             /\ \A b \in Id : b > count' => status'[b] = "none"
  BY <1>1 DEF Made
<1>2. ASSUME (\E zip \in ZipModes : CreateBackup(zip)) \/ Manual
      PROVE  /\ \A b \in Id : status[b] # "none" => status'[b] # "none"
             /\ \A b \in Id : b > count' => status'[b] = "none"
  <2>1. /\ \A b \in Id : b # count + 1 => status'[b] = status[b]
        /\ count + 1 \in Id => status'[count + 1] # "none"
    BY <1>2 DEF TypeOK, CreateBackup, Manual
  <2>2. count' = count + 1
    BY <1>2 DEF CreateBackup, Manual
  <2>3. \A b \in Id : b > count + 1 => b > count /\ b # count + 1
    BY <1>0 DEF Id
  <2> QED BY <2>1, <2>2, <2>3 DEF Made
<1>3. ASSUME Save \/ Fail \/ (\E d \in Deleter : CommitDelete(d))
      PROVE  /\ \A b \in Id : status[b] # "none" => status'[b] # "none"
             /\ \A b \in Id : b > count' => status'[b] = "none"
  <2>1. PICK b \in Id : status[b] # "none"
          /\ \E to \in {"success", "failed", "deleted"} : status' = [status EXCEPT ![b] = to]
    BY <1>3 DEF Save, Fail, CommitDelete, Mine, Next1, Made
  <2>2. count' = count
    BY <1>3 DEF Save, Fail, CommitDelete
  <2>3. ~(b > count)
    BY <2>1 DEF Made
  <2> QED BY <2>1, <2>2, <2>3 DEF TypeOK, Made
<1>4. CASE Restart
  BY <1>4 DEF Restart, Made
<1>5. ASSUME NEW d \in Deleter, Deletion(d), ~CommitDelete(d) PROVE UNCHANGED <<count, status>>
  BY <1>5 DEF Deletion, StartCleanup, Skip, Choose, GiveUp, FinishCleanup, StartDelete, Unlink
<1>6. \/ Device \/ (\E forced \in BOOLEAN : StartRun(forced)) \/ Check \/ NoBackup
      \/ Download \/ Vanished \/ UNCHANGED vars
      => UNCHANGED <<count, status>>
  BY DEF Device, Tick, Edit, Remove, StartRun, Check, NoBackup, Download, Vanished, vars
<1> QED BY <1>1, <1>2, <1>3, <1>4, <1>5, <1>6 DEF Next, Backup

(* A thread that cleans up or deletes is moved by its own steps only.       *)
LEMMA ThreadMoves ==
  ASSUME TypeOK, [Next]_vars, NEW d \in Deleter
  PROVE  \/ del'[d] = del[d] \/ del'[d] = NoDel
         \/ \E policy \in Policy : StartCleanup(d, policy)
         \/ \E b \in Id : StartDelete(d, b)
         \/ Skip(d) \/ Choose(d) \/ Unlink(d) \/ CommitDelete(d)
<1>1. ASSUME NEW e \in Deleter, Deletion(e), e # d PROVE del'[d] = del[d]
  <2>1. ASSUME NEW b \in Id, NEW pc \in DelPc, Went(e, b, pc) PROVE del'[d] = del[d]
    BY <1>1, <2>1, WentTyped
  <2>2. Skip(e) \/ Choose(e) \/ Unlink(e) \/ CommitDelete(e) =>
          \E b \in Id, pc \in DelPc : Went(e, b, pc)
    BY DEF Skip, Choose, Unlink, CommitDelete, DelPc
  <2>3. CASE \/ \E policy \in Policy : StartCleanup(e, policy)
             \/ GiveUp(e) \/ FinishCleanup(e) \/ \E b \in Id : StartDelete(e, b)
    BY <1>1, <2>3 DEF TypeOK, StartCleanup, GiveUp, FinishCleanup, StartDelete
  <2> QED BY <1>1, <2>1, <2>2, <2>3 DEF Deletion
<1>2. CASE GiveUp(d) \/ FinishCleanup(d)
  BY <1>2 DEF TypeOK, GiveUp, FinishCleanup
<1>3. CASE Deletion(d)
  BY <1>2, <1>3 DEF Deletion
<1>4. CASE Restart
  BY <1>4 DEF Restart
<1>5. CASE Device \/ Backup \/ UNCHANGED vars
  BY <1>5 DEF Device, Backup, Tick, Edit, Remove, StartRun, Check, NoBackup,
     CreateBackup, Download, Save, Fail, Vanished, Manual, vars
<1> QED BY <1>1, <1>3, <1>4, <1>5 DEF Next

LEMMA MadeStays ==
  ASSUME TypeOK, Made, [Next]_vars
  PROVE  Made'
<1>1. /\ \A b \in Id : status[b] # "none" => status'[b] # "none"
      /\ \A b \in Id : b > count' => status'[b] = "none"
  BY RowsStayMade
<1>2. ASSUME NEW d \in Deleter, NEW b \in del'[d].todo PROVE status'[b] # "none"
  <2>1. ASSUME b \in del[d].todo PROVE status'[b] # "none"
    <3>1. b \in Id /\ status[b] # "none"
      BY <2>1 DEF TypeOK, Del, Made
    <3> QED BY <1>1, <3>1
  <2>2. CASE del'[d] = del[d] \/ del'[d] = NoDel
    BY <1>2, <2>1, <2>2 DEF NoDel
  <2>3. ASSUME NEW policy \in Policy, StartCleanup(d, policy) PROVE status'[b] # "none"
    <3>1. b \in Id /\ Exists(b)
      BY <1>2, <2>3 DEF TypeOK, StartCleanup, MonthlyExcess, Settled
    <3> QED BY <2>3, <3>1 DEF StartCleanup, Exists
  <2>4. ASSUME NEW n \in Id, StartDelete(d, n) PROVE status'[b] # "none"
    <3>1. b = n /\ Exists(b)
      BY <1>2, <2>4 DEF TypeOK, StartDelete, NoDel
    <3> QED BY <2>4, <3>1 DEF StartDelete, Exists
  <2>5. CASE Skip(d) \/ Choose(d) \/ Unlink(d) \/ CommitDelete(d)
    <3>1. PICK n \in Id, pc \in DelPc : Went(d, n, pc)
      BY <2>5 DEF Skip, Choose, Unlink, CommitDelete, DelPc
    <3>2. b \in del[d].todo
      BY <1>2, <3>1, WentTyped
    <3> QED BY <2>1, <3>2
  <2> QED BY <2>2, <2>3, <2>4, <2>5, ThreadMoves
<1> QED BY <1>1, <1>2 DEF Made

LEMMA InitMade == Init => Made
BY DEF Init, NoDel, Made

-----------------------------------------------------------------------------
(* Counting ids.  A set of ids has a least one, and a finite number.        *)
LEMMA LeastOf ==
  ASSUME NEW T \in SUBSET Nat, T # {}
  PROVE  \E m \in T : \A n \in T : m <= n
<1>1. PICK m \in T : \A n \in T : ~(<<n, m>> \in OpToRel(<, Nat))
  BY NatLessThanWellFounded, WFMin
<1>2. \A n \in T : ~(n < m)
  BY <1>1 DEF OpToRel
<1> QED BY <1>2

LEMMA GreatestOf ==
  ASSUME NEW T \in SUBSET Id, T # {}
  PROVE  \E m \in T : \A n \in T : n <= m
<1> DEFINE D == {x \in 0..MaxBackups : MaxBackups - x \in T}
<1>1. MaxBackups \in Nat /\ \A n \in T : n \in Nat /\ n <= MaxBackups
  BY Constants DEF Id
<1>2. D \in SUBSET Nat /\ \A n \in T : MaxBackups - n \in D
  BY <1>1
<1>3. PICK k \in D : \A j \in D : k <= j
  BY <1>2, LeastOf
<1>4. \A n \in T : n <= MaxBackups - k
  <2>1. ASSUME NEW n \in T PROVE n <= MaxBackups - k
    <3>1. k <= MaxBackups - n
      BY <1>2, <1>3
    <3> QED BY <1>1, <3>1
  <2> QED BY <2>1
<1> QED BY <1>4

LEMMA IdsAreFinite ==
  ASSUME NEW T \in SUBSET Id
  PROVE  IsFiniteSet(T) /\ Cardinality(T) \in Nat
<1>1. IsFiniteSet(Id)
  BY Constants, FS_Interval DEF Id
<1> QED BY <1>1, FS_Subset, FS_CardinalityType

(* _monthly_backup_excess of any list of backups: what it leaves of a month *)
(* is at most the limit.                                                   *)
ExcessOf(P) ==
  {b \in P : Cardinality({n \in P : n > b /\ Month(n) = Month(b)}) >= MaxPerMonth}

LEMMA ExcessLeavesTheLimit ==
  ASSUME NEW P \in SUBSET Id, NEW b \in P
  PROVE  Cardinality({n \in P : Month(n) = Month(b)} \ ExcessOf(P)) <= MaxPerMonth
<1> DEFINE T == {n \in P : Month(n) = Month(b)} \ ExcessOf(P)
<1>a. MaxPerMonth \in Nat /\ Id \in SUBSET Nat
  BY RetentionOK DEF RetentionOK, Id
<1>b. T \in SUBSET P
  OBVIOUS
<1>0. MaxPerMonth \in Nat /\ T \in SUBSET Id /\ T \in SUBSET Nat
  BY <1>a, <1>b
<1>1. CASE T = {}
  BY <1>0, <1>1, FS_EmptySet
<1>2. CASE T # {}
  <2>1. PICK m \in T : \A n \in T : m <= n
    BY <1>0, <1>2, LeastOf
  <2> DEFINE A == {n \in P : n > m /\ Month(n) = Month(m)}
  <2>2. m \in P /\ Month(m) = Month(b) /\ ~(Cardinality(A) >= MaxPerMonth)
    BY <2>1 DEF ExcessOf
  <2>3. A \in SUBSET Id /\ Cardinality(A) \in Nat /\ IsFiniteSet(A)
    BY IdsAreFinite
  <2>4. T \ {m} \in SUBSET A
    BY <1>0, <2>1, <2>2
  <2>5. Cardinality(T \ {m}) <= Cardinality(A)
    BY <2>3, <2>4, FS_Subset
  <2>6. IsFiniteSet(T) /\ Cardinality(T) \in Nat /\ m \in T
    BY <1>0, <2>1, IdsAreFinite
  <2>7. Cardinality(T \ {m}) = Cardinality(T) - 1
    BY <2>6, FS_RemoveElement
  <2> QED BY <1>0, <2>2, <2>3, <2>5, <2>6, <2>7
<1> QED BY <1>1, <1>2

(* When all that _monthly_backup_excess names were deleted at once, no more *)
(* than the limit would be left of any month.                              *)
THEOREM MonthsAreWithinTheLimit ==
  ASSUME TypeOK, NEW b \in Settled
  PROVE  Cardinality({n \in Settled : Month(n) = Month(b)} \ MonthlyExcess) <= MaxPerMonth
<1>1. Settled \in SUBSET Id /\ MonthlyExcess = ExcessOf(Settled)
  BY DEF Settled, MonthlyExcess, ExcessOf
<1> QED BY <1>1, ExcessLeavesTheLimit

(* With at most one more.                                                   *)
LEMMA OneMoreThanTheLimit ==
  ASSUME NEW P \in SUBSET Id, NEW b \in P, NEW left \in SUBSET P,
         \A n \in left : Month(n) = Month(b),
         \A n, m \in left \cap ExcessOf(P) : n = m
  PROVE  Cardinality(left) <= MaxPerMonth + 1
<1> DEFINE T == {n \in P : Month(n) = Month(b)} \ ExcessOf(P)
<1>0. MaxPerMonth \in Nat /\ T \in SUBSET Id /\ left \in SUBSET Id
  BY RetentionOK DEF RetentionOK
<1>1. Cardinality(T) <= MaxPerMonth /\ IsFiniteSet(T) /\ Cardinality(T) \in Nat
  BY <1>0, ExcessLeavesTheLimit, IdsAreFinite
<1>2. PICK x : left \in SUBSET (T \cup {x})
  <2>1. CASE left \cap ExcessOf(P) = {}
    BY <2>1
  <2>2. ASSUME NEW x \in left \cap ExcessOf(P) PROVE left \in SUBSET (T \cup {x})
    OBVIOUS
  <2> QED BY <2>1, <2>2
<1> HIDE DEF T
<1>3. IsFiniteSet(T \cup {x}) /\ Cardinality(T \cup {x}) <= Cardinality(T) + 1
  <2>1. /\ IsFiniteSet(T \cup {x})
        /\ Cardinality(T \cup {x}) = IF x \in T THEN Cardinality(T) ELSE Cardinality(T) + 1
    BY <1>1, FS_AddElement
  <2> QED BY <1>1, <2>1
<1>4. Cardinality(left) <= Cardinality(T \cup {x})
  BY <1>2, <1>3, FS_Subset
<1>5. Cardinality(left) \in Nat /\ Cardinality(T \cup {x}) \in Nat
  BY <1>0, <1>3, IdsAreFinite, FS_CardinalityType
<1> QED BY <1>0, <1>1, <1>3, <1>4, <1>5

-----------------------------------------------------------------------------
(* The quota.  A cleanup goes through its candidates from the oldest on, so *)
(* of the excess, what it has been at is older than what it has not.  What  *)
(* is left of what it has been at is the newest full baseline among the     *)
(* backups it listed: there is one at most, since a backup of its list does *)
(* not become a baseline later.                                            *)
Cleaning(d) == del[d].pc # "idle" /\ del[d].by = "cleanup" /\ ~del[d].all
Spared(d) == {n \in ExcessOf(del[d].pool) \ del[d].todo : Exists(n)}
NoBaselineAfter(d, b) == \A m \in del[d].pool : m > b => ~FullBaseline(m)

PoolHasEnded(d) == \A n \in del[d].pool : IsAuto(n) /\ status[n] \in Ended
ExcessIsOfPool(d) == del[d].keep => del[d].excess = ExcessOf(del[d].pool)
OldestFirst(d) == \A n \in ExcessOf(del[d].pool) \ del[d].todo : \A m \in del[d].todo : n < m
SparedIsNewest(d) == \A n \in Spared(d) : NoBaselineAfter(d, n)
SparedIsOne(d) == \A n, m \in Spared(d) : n = m

QuotaInv(d) ==
  Cleaning(d) =>
    PoolHasEnded(d) /\ ExcessIsOfPool(d) /\ OldestFirst(d) /\ SparedIsNewest(d) /\ SparedIsOne(d)

LEMMA ExcessInPool == \A P : ExcessOf(P) \subseteq P
BY DEF ExcessOf

(* What the cleanup keeps of its list while it goes on.                     *)
SameCleanup(d) ==
  /\ del'[d].by = del[d].by /\ del'[d].all = del[d].all /\ del'[d].keep = del[d].keep
  /\ del'[d].excess = del[d].excess /\ del'[d].pool = del[d].pool

LEMMA WentSame ==
  ASSUME TypeOK, NEW d \in Deleter, NEW b \in Id, NEW pc \in DelPc, Went(d, b, pc)
  PROVE  SameCleanup(d)
<1> DEFINE left == IF pc = "check" THEN del[d].todo \ {b} ELSE del[d].todo
           new == [del[d] EXCEPT !.pc = pc, !.todo = left]
<1>1. del[d] \in Del
  BY DEF TypeOK
<1>2. /\ new.by = del[d].by /\ new.all = del[d].all /\ new.keep = del[d].keep
      /\ new.excess = del[d].excess /\ new.pool = del[d].pool
  BY <1>1 DEF Del
<1>3. del' = [del EXCEPT ![d] = new]
  BY DEF Went
<1> HIDE DEF new
<1> QED BY <1>2, <1>3 DEF TypeOK, SameCleanup

(* The list of a cleanup through a step: its excess stays, baselines only   *)
(* become fewer, and what is deleted stays deleted.                        *)
LEMMA PoolStays ==
  ASSUME TypeOK, Made, [Next]_vars, NEW d \in Deleter, PoolHasEnded(d),
         del'[d].pool = del[d].pool
  PROVE  /\ PoolHasEnded(d)'
         /\ ExcessOf(del[d].pool)' = ExcessOf(del[d].pool)
         /\ \A n \in del[d].pool : Exists(n)' => Exists(n)
         /\ \A b : NoBaselineAfter(d, b) => NoBaselineAfter(d, b)'
<1>1. del[d].pool \in SUBSET Id
  BY DEF TypeOK, Del
<1>2. \A n \in del[d].pool :
        /\ status'[n] \in {status[n], "deleted"} /\ row'[n] = row[n]
        /\ FullBaseline(n)' => FullBaseline(n)
  BY <1>1, EndedStays DEF PoolHasEnded
<1>3. PoolHasEnded(d)'
  BY <1>2 DEF PoolHasEnded, IsAuto, Ended
<1>4. ExcessOf(del[d].pool)' = ExcessOf(del[d].pool)
  <2> DEFINE P == del[d].pool
  <2>1. ExcessOf(P)' = {b \in P : Cardinality({n \in P : n > b /\ Month(n)' = Month(b)'}) >= MaxPerMonth}
    BY DEF ExcessOf
  <2>2. \A n \in P : Month(n)' = Month(n)
    BY <1>2 DEF Month
  <2>3. ASSUME NEW b \in P
        PROVE  {n \in P : n > b /\ Month(n)' = Month(b)'} = {n \in P : n > b /\ Month(n) = Month(b)}
    BY <2>2
  <2>4. ExcessOf(P)' = {b \in P : Cardinality({n \in P : n > b /\ Month(n) = Month(b)}) >= MaxPerMonth}
    BY <2>1, <2>3
  <2> QED BY <2>4 DEF ExcessOf
<1>5. \A n \in del[d].pool : Exists(n)' => Exists(n)
  BY <1>2 DEF PoolHasEnded, Ended, Exists
<1>6. \A b : NoBaselineAfter(d, b) => NoBaselineAfter(d, b)'
  BY <1>2 DEF NoBaselineAfter
<1> QED BY <1>3, <1>4, <1>5, <1>6

(* A step of a cleanup that leaves its candidates as they are, and one that *)
(* is done with the oldest of them: then that is deleted, or not of the     *)
(* excess, or the one baseline the cleanup may not take.                   *)
LEMMA QuotaStands ==
  ASSUME TypeOK, Made, [Next]_vars, NEW d \in Deleter, QuotaInv(d), Cleaning(d),
         SameCleanup(d), del'[d].todo = del[d].todo
  PROVE  QuotaInv(d)'
<1>1. PoolHasEnded(d) /\ ExcessIsOfPool(d) /\ OldestFirst(d) /\ SparedIsNewest(d) /\ SparedIsOne(d)
  BY DEF QuotaInv
<1>2. /\ PoolHasEnded(d)'
      /\ ExcessOf(del[d].pool)' = ExcessOf(del[d].pool)
      /\ \A n \in del[d].pool : Exists(n)' => Exists(n)
      /\ \A b : NoBaselineAfter(d, b) => NoBaselineAfter(d, b)'
  BY <1>1, PoolStays DEF SameCleanup
<1>3. Spared(d)' \subseteq Spared(d)
  BY <1>2, ExcessInPool DEF Spared
<1>4. ExcessIsOfPool(d)'
  BY <1>1, <1>2 DEF ExcessIsOfPool, SameCleanup
<1>5. OldestFirst(d)'
  BY <1>1, <1>2 DEF OldestFirst
<1>6. SparedIsNewest(d)' /\ SparedIsOne(d)'
  BY <1>1, <1>2, <1>3 DEF SparedIsNewest, SparedIsOne
<1> QED BY <1>2, <1>4, <1>5, <1>6 DEF QuotaInv

LEMMA QuotaGoesOn ==
  ASSUME TypeOK, Made, [Next]_vars, NEW d \in Deleter, QuotaInv(d), Cleaning(d),
         SameCleanup(d), NEW b \in Id, Next1(d, b), del'[d].todo = del[d].todo \ {b},
         b \in ExcessOf(del[d].pool) /\ Exists(b)' => Spared(d) = {} /\ NoBaselineAfter(d, b)
  PROVE  QuotaInv(d)'
<1>1. PoolHasEnded(d) /\ ExcessIsOfPool(d) /\ OldestFirst(d) /\ SparedIsNewest(d) /\ SparedIsOne(d)
  BY DEF QuotaInv
<1>2. /\ PoolHasEnded(d)'
      /\ ExcessOf(del[d].pool)' = ExcessOf(del[d].pool)
      /\ \A n \in del[d].pool : Exists(n)' => Exists(n)
      /\ \A n : NoBaselineAfter(d, n) => NoBaselineAfter(d, n)'
  BY <1>1, PoolStays DEF SameCleanup
<1>3. ExcessIsOfPool(d)'
  BY <1>1, <1>2 DEF ExcessIsOfPool, SameCleanup
<1>4. OldestFirst(d)'
  <2>1. del[d].todo \subseteq Nat
    BY DEF TypeOK, Del, Id
  <2>2. \A m \in del'[d].todo : b < m
    BY <2>1 DEF Next1
  <2> QED BY <1>1, <1>2, <2>2 DEF OldestFirst
<1>5. \A n \in Spared(d)' : n \in Spared(d) \/ n = b
  BY <1>2, ExcessInPool DEF Spared
<1>6. b \in Spared(d)' => Spared(d) = {} /\ NoBaselineAfter(d, b)
  BY <1>2 DEF Spared
<1>7. SparedIsOne(d)'
  BY <1>1, <1>5, <1>6 DEF SparedIsOne
<1>8. SparedIsNewest(d)'
  BY <1>1, <1>2, <1>5, <1>6 DEF SparedIsNewest
<1> QED BY <1>2, <1>3, <1>4, <1>7, <1>8 DEF QuotaInv

(* Skipping a backup of the excess means that it is a full baseline and     *)
(* that no newer one exists: none was skipped before.                      *)
LEMMA SkipSparesOne ==
  ASSUME TypeOK, NEW d \in Deleter, QuotaInv(d), Cleaning(d), NEW b \in Id,
         Next1(d, b), SkipReason(d, b), b \in ExcessOf(del[d].pool)
  PROVE  Spared(d) = {} /\ NoBaselineAfter(d, b)
<1>1. PoolHasEnded(d) /\ ExcessIsOfPool(d) /\ OldestFirst(d) /\ SparedIsNewest(d)
  BY DEF QuotaInv
<1>2. b \in del[d].pool /\ del[d].pool \subseteq Id
  BY ExcessInPool DEF TypeOK, Del
<1>3. IsAuto(b) /\ (del[d].keep => b \in del[d].excess)
  BY <1>1, <1>2 DEF PoolHasEnded, ExcessIsOfPool
<1>4. FullBaseline(b) /\ ~\E n \in Id : n > b /\ IsAuto(n) /\ FullBaseline(n)
  BY <1>3 DEF SkipReason, Cleaning
<1>5. NoBaselineAfter(d, b)
  BY <1>1, <1>2, <1>4 DEF NoBaselineAfter, PoolHasEnded
<1>6. ASSUME NEW n \in Spared(d) PROVE FALSE
  <2>1. n < b /\ n \in Id
    BY <1>1, <1>2, <1>6, ExcessInPool DEF OldestFirst, Spared, Next1
  <2>2. NoBaselineAfter(d, n)
    BY <1>1, <1>6 DEF SparedIsNewest
  <2> QED BY <1>2, <1>4, <2>1, <2>2 DEF NoBaselineAfter, Id
<1> QED BY <1>5, <1>6

LEMMA QuotaBegins ==
  ASSUME TypeOK, NEW d \in Deleter, NEW policy \in Policy, StartCleanup(d, policy)
  PROVE  QuotaInv(d)'
<1>1. SUFFICES ASSUME Cleaning(d)' PROVE QuotaInv(d)'
  BY DEF QuotaInv
<1> DEFINE keep == policy.keep
           all == policy.all
           new == [pc |-> "check", by |-> "cleanup", keep |-> keep /\ ~all, all |-> all,
                   todo |-> IF all THEN {b \in Id : Exists(b) /\ status[b] # "running"}
                            ELSE {b \in Id : Exists(b) /\ now > row[b].created + Retain}
                                   \cup MonthlyExcess,
                   excess |-> IF keep /\ ~all THEN MonthlyExcess ELSE {},
                   pool |-> IF all THEN {} ELSE Settled]
<1>2. del'[d] = new
  BY DEF TypeOK, StartCleanup
<1>3. ~all
  BY <1>1, <1>2 DEF Cleaning
<1>4. /\ del'[d].pool = Settled /\ MonthlyExcess \subseteq del'[d].todo
      /\ del'[d].keep => del'[d].excess = MonthlyExcess
  <2>1. /\ del'[d].pool = (IF all THEN {} ELSE Settled)
        /\ del'[d].todo = (IF all THEN {b \in Id : Exists(b) /\ status[b] # "running"}
                            ELSE {b \in Id : Exists(b) /\ now > row[b].created + Retain}
                                   \cup MonthlyExcess)
        /\ del'[d].excess = (IF keep /\ ~all THEN MonthlyExcess ELSE {})
    BY <1>2
  <2>2. del'[d].keep = (keep /\ ~all)
    BY <1>2
  <2>3. del'[d].keep => keep /\ ~all
    BY <2>2
  <2> HIDE DEF keep, all, new
  <2> QED BY <1>3, <2>1, <2>3
<1>5. row' = row /\ status' = status
  BY DEF StartCleanup
<1>6. ExcessOf(del[d].pool)' = MonthlyExcess
  BY <1>4, <1>5 DEF ExcessOf, MonthlyExcess, Month
<1>7. PoolHasEnded(d)'
  <2>1. \A n \in Settled : n \in Id /\ IsAuto(n) /\ status[n] \in Status \ {"none", "running"}
    BY DEF TypeOK, Settled, Exists
  <2>2. Status \ {"none", "running"} = Ended
    BY DEF Status, Ended
  <2> QED BY <1>4, <1>5, <2>1, <2>2 DEF PoolHasEnded, IsAuto
<1>8. ExcessIsOfPool(d)' /\ OldestFirst(d)' /\ Spared(d)' = {}
  BY <1>4, <1>6 DEF ExcessIsOfPool, OldestFirst, Spared
<1> QED BY <1>7, <1>8 DEF QuotaInv, SparedIsNewest, SparedIsOne

LEMMA QuotaStays ==
  ASSUME TypeOK, Made, [Next]_vars, NEW d \in Deleter, QuotaInv(d)
  PROVE  QuotaInv(d)'
<1>1. CASE del'[d] = del[d]
  <2>1. Cleaning(d)' <=> Cleaning(d)
    BY <1>1 DEF Cleaning
  <2>2. CASE Cleaning(d)
    BY <1>1, <2>2, QuotaStands DEF SameCleanup
  <2> QED BY <2>1, <2>2 DEF QuotaInv
<1>2. CASE del'[d] = NoDel
  BY <1>2 DEF NoDel, Cleaning, QuotaInv
<1>3. CASE \E policy \in Policy : StartCleanup(d, policy)
  BY <1>3, QuotaBegins
<1>4. CASE \E b \in Id : StartDelete(d, b)
  <2>1. del'[d].by = "user"
    BY <1>4 DEF TypeOK, StartDelete, NoDel
  <2> QED BY <2>1 DEF Cleaning, QuotaInv
<1>5. ASSUME NEW b \in Id, NEW pc \in DelPc, Went(d, b, pc), del[d].pc # "idle", Next1(d, b),
             pc = "check" =>
               (b \in ExcessOf(del[d].pool) /\ Exists(b)' /\ Cleaning(d)
                  => Spared(d) = {} /\ NoBaselineAfter(d, b))
      PROVE  QuotaInv(d)'
  <2>1. /\ SameCleanup(d)
        /\ del'[d].todo = IF pc = "check" THEN del[d].todo \ {b} ELSE del[d].todo
    BY <1>5, WentTyped, WentSame
  <2>2. Cleaning(d)' => Cleaning(d)
    BY <1>5, <2>1 DEF Cleaning, SameCleanup
  <2>3. CASE Cleaning(d) /\ pc = "check"
    BY <1>5, <2>1, <2>3, QuotaGoesOn
  <2>4. CASE Cleaning(d) /\ pc # "check"
    BY <2>1, <2>4, QuotaStands
  <2> QED BY <2>2, <2>3, <2>4 DEF QuotaInv
<1>6. CASE Skip(d)
  <2>1. PICK b \in Id : Next1(d, b) /\ SkipReason(d, b) /\ Went(d, b, "check")
    BY <1>6 DEF Skip
  <2>2. b \in ExcessOf(del[d].pool) /\ Cleaning(d) => Spared(d) = {} /\ NoBaselineAfter(d, b)
    BY <2>1, SkipSparesOne
  <2>3. del[d].pc # "idle" /\ "check" \in DelPc
    BY <1>6 DEF Skip, DelPc
  <2> QED BY <1>5, <2>1, <2>2, <2>3
<1>7. CASE Choose(d) \/ Unlink(d)
  <2>1. PICK b \in Id, pc \in {"unlink", "commit"} : Next1(d, b) /\ Went(d, b, pc)
    BY <1>7 DEF Choose, Unlink
  <2>2. del[d].pc # "idle" /\ pc \in DelPc /\ pc # "check"
    BY <1>7, <2>1 DEF Choose, Unlink, DelPc
  <2> QED BY <1>5, <2>1, <2>2
<1>8. CASE CommitDelete(d)
  <2>1. PICK b \in Id : Next1(d, b) /\ status' = [status EXCEPT ![b] = "deleted"] /\ Went(d, b, "check")
    BY <1>8 DEF CommitDelete
  <2>2. ~Exists(b)'
    BY <2>1 DEF TypeOK, Exists
  <2>3. del[d].pc # "idle" /\ "check" \in DelPc
    BY <1>8 DEF CommitDelete, DelPc
  <2> QED BY <1>5, <2>1, <2>2, <2>3
<1> QED BY <1>1, <1>2, <1>3, <1>4, <1>6, <1>7, <1>8, ThreadMoves

(* At the end nothing is left to do, so what is left of the excess is what  *)
(* was spared.                                                             *)
LEMMA QuotaFollows ==
  ASSUME TypeOK, \A d \in Deleter : QuotaInv(d)
  PROVE  QuotaKept
<1>1. SUFFICES ASSUME NEW d \in Deleter, del[d].pc = "check", del[d].todo = {},
                      del[d].by = "cleanup", ~del[d].all, NEW b \in del[d].pool
               PROVE  Cardinality({n \in del[d].pool : Exists(n) /\ Month(n) = Month(b)})
                        <= MaxPerMonth + 1
  BY DEF QuotaKept
<1> DEFINE P == del[d].pool
           left == {n \in P : Exists(n) /\ Month(n) = Month(b)}
<1>2. SparedIsOne(d)
  BY <1>1 DEF QuotaInv, Cleaning
<1>3. P \in SUBSET Id /\ left \in SUBSET P
  BY DEF TypeOK, Del
<1>4. left \cap ExcessOf(P) \subseteq Spared(d)
  BY <1>1 DEF Spared
<1>5. \A n, m \in left \cap ExcessOf(P) : n = m
  BY <1>2, <1>4 DEF SparedIsOne
<1>6. \A n \in left : Month(n) = Month(b)
  OBVIOUS
<1> HIDE DEF left
<1>7. Cardinality(left) <= MaxPerMonth + 1
  BY <1>1, <1>3, <1>5, <1>6, OneMoreThanTheLimit
<1> QED BY <1>7 DEF left

(* Whatever runs, deletions and other cleanups do meanwhile, a cleanup that *)
(* comes to its end has left of each month at most the limit of the auto    *)
(* backups it found, and the one baseline it may not take.                  *)
THEOREM QuotaIsKept == Spec => []QuotaKept
<1> DEFINE Inv == TypeOK /\ Made /\ \A d \in Deleter : QuotaInv(d)
<1>1. Init => Inv
  <2>1. Init => \A d \in Deleter : QuotaInv(d)
    BY DEF Init, NoDel, Cleaning, QuotaInv
  <2> QED BY <2>1, InitTyped, InitMade
<1>2. Inv /\ [Next]_vars => Inv'
  BY Typed, MadeStays, QuotaStays
<1>3. Inv => QuotaKept
  BY QuotaFollows
<1> QED BY <1>1, <1>2, <1>3, PTL DEF Spec

-----------------------------------------------------------------------------
(* Why what a check finds unchanged is stored.  Contents grow: a backup     *)
(* stores none newer than the device has, and none older than an earlier    *)
(* backup stores of the same path.  A manifest may list a content its own   *)
(* backup does not store; then an earlier one stores it, or the device has  *)
(* a newer one, which no check compares equal.                             *)
Stores(p, content) == \E b \in saved : files[b][p] >= content
IsPastOrStored(p, content) ==
  content < version[p] \/ (content = version[p] /\ Stores(p, content))

FilesAreOld == \A b \in saved : \A p \in Path : files[b][p] <= version[p]
FilesGrow ==
  \A b, n \in saved : b < n =>
    \A p \in Path : files[n][p] # 0 => files[b][p] <= files[n][p]
ListedIsStored ==
  \A b \in saved : \A p \in Path : manifest[b][p] # 0 => IsPastOrStored(p, manifest[b][p])

(* Of a run: what it found, and what it fetched since.                      *)
FoundIsStored ==
  run.pc \in {"checked", "download"} => \A p \in Path : run.found[p] # 0 =>
    /\ run.found[p] <= version[p]
    /\ p \notin present => run.found[p] < version[p]
    /\ p \notin run.changed => Stores(p, run.found[p])
    /\ \A n \in saved : files[n][p] <= run.found[p]
FetchedIsNewest ==
  run.pc = "save" => \A p \in Path :
    /\ run.fetched[p] <= version[p]
    /\ run.fetched[p] # 0 => \A n \in saved : files[n][p] <= run.fetched[p]
    /\ run.found[p] # 0 => IsPastOrStored(p, run.found[p])
                           \/ (run.found[p] = version[p] /\ run.fetched[p] = version[p])

Contents == FilesAreOld /\ FilesGrow /\ ListedIsStored /\ FoundIsStored /\ FetchedIsNewest

(* One row at a time is running, of the run that made it, and it is newer   *)
(* than every backup that was saved.                                       *)
OneRunningRow ==
  /\ \A b \in saved : status[b] # "none"
  /\ \A b \in Id : Mine(b) => \A n \in saved : n < b
  /\ \A b, n \in Id : Mine(b) /\ Mine(n) => b = n
  /\ run.pc \in {"idle", "check", "checked"} => \A b \in Id : ~Mine(b)

StoredInv == TypeOK /\ Made /\ OneRunningRow /\ Contents

LEMMA VersionsAreNumbers ==
  ASSUME TypeOK, NEW p \in Path
  PROVE  /\ version[p] \in Nat /\ run.found[p] \in Nat /\ run.fetched[p] \in Nat
         /\ \A b \in saved : files[b][p] \in Nat /\ manifest[b][p] \in Nat
BY Constants DEF TypeOK, Run, Stored

(* The steps that touch neither the contents nor what is stored; all but    *)
(* those of the device itself and of the end of a backup.                  *)
NothingStoredNew == UNCHANGED <<version, present, manifest, files, saved>>

LEMMA WhatMovesContents ==
  ASSUME TypeOK, [Next]_vars
  PROVE  \/ NothingStoredNew /\ UNCHANGED run
         \/ NothingStoredNew /\ run'.pc \in {"idle", "check"}
         \/ Check \/ Download \/ Save
         \/ \E zip \in ZipModes : CreateBackup(zip)
         \/ \E p \in Path : Edit(p) \/ Remove(p)
<1>1. ASSUME NEW d \in Deleter, Deletion(d) PROVE NothingStoredNew /\ UNCHANGED run
  BY <1>1 DEF Deletion, StartCleanup, Skip, Choose, GiveUp, FinishCleanup, StartDelete, Unlink,
     CommitDelete, NothingStoredNew
<1>2. Tick \/ Manual \/ UNCHANGED vars => NothingStoredNew /\ UNCHANGED run
  BY DEF Tick, Manual, vars, NothingStoredNew
<1>3. (\E forced \in BOOLEAN : StartRun(forced)) \/ NoBackup \/ Fail \/ Vanished \/ Restart
        => NothingStoredNew /\ run'.pc \in {"idle", "check"}
  BY DEF StartRun, NoBackup, Fail, Vanished, Restart, NoRun, NothingStoredNew
<1> QED BY <1>1, <1>2, <1>3 DEF Next, Device, Backup

(* The rows of the runs.                                                    *)
LEMMA OneRowStays ==
  ASSUME TypeOK, Made, OneRunningRow, [Next]_vars
  PROVE  OneRunningRow'
<1>1. ASSUME saved' = saved,
             \A b \in Id : Mine(b)' => Mine(b),
             run'.pc \in {"idle", "check", "checked"}
               => run.pc \in {"idle", "check", "checked"} \/ \A b \in Id : ~Mine(b)'
      PROVE  OneRunningRow'
  <2>1. \A b \in Id : status[b] # "none" => status'[b] # "none"
    BY RowsStayMade
  <2>2. saved \subseteq Id
    BY DEF TypeOK
  <2> QED BY <1>1, <2>1, <2>2 DEF OneRunningRow
<1>2. ASSUME NEW zip \in ZipModes, CreateBackup(zip) PROVE OneRunningRow'
  <2>1. count + 1 \in Id /\ status[count + 1] = "none"
    BY <1>2, FreeRow DEF CreateBackup
  <2>2. \A b \in Id : b # count + 1 => status'[b] = status[b]
    BY <1>2 DEF TypeOK, CreateBackup
  <2>3. saved' = saved /\ run'.pc = "download" /\ run.pc = "checked"
    BY <1>2 DEF CreateBackup, NoRun
  <2>4. \A b \in Id : Mine(b)' => b = count + 1
    BY <2>2, <2>3 DEF OneRunningRow, Mine
  <2>5. \A n \in saved : n \in Id /\ n < count + 1 /\ n # count + 1
    <3> TAKE n \in saved
    <3>1. n \in Id /\ ~(n > count)
      BY DEF TypeOK, Made, OneRunningRow
    <3>2. count \in Nat /\ n \in Nat
      BY <3>1, Constants DEF TypeOK, Id
    <3> QED BY <3>1, <3>2
  <2>6. \A n \in saved : status'[n] # "none"
    BY <2>2, <2>5 DEF OneRunningRow
  <2> QED BY <2>3, <2>4, <2>5, <2>6 DEF OneRunningRow
<1>3. ASSUME Save \/ Fail PROVE OneRunningRow'
  <2>1. PICK b \in Id, to \in {"success", "failed"} :
          /\ Mine(b) /\ status' = [status EXCEPT ![b] = to]
          /\ saved' \subseteq saved \cup {b}
    BY <1>3 DEF Save, Fail
  <2>2. status'[b] = to /\ \A n \in Id : n # b => status'[n] = status[n]
    BY <2>1 DEF TypeOK
  <2>3. \A n \in Id : ~Mine(n)'
    BY <2>1, <2>2 DEF OneRunningRow, Mine
  <2>4. \A n \in saved' : status'[n] # "none"
    BY <2>1, <2>2 DEF TypeOK, OneRunningRow
  <2> QED BY <2>3, <2>4 DEF OneRunningRow
<1>4. CASE Check \/ NoBackup \/ Download \/ (\E forced \in BOOLEAN : StartRun(forced))
  <2>1. saved' = saved /\ status' = status
    BY <1>4 DEF Check, NoBackup, Download, StartRun
  <2>2. run.pc \in {"idle", "check", "checked"} \/ run'.pc = "save"
    BY <1>4 DEF Check, NoBackup, Download, StartRun, NoRun
  <2> QED BY <1>1, <2>1, <2>2 DEF Mine
<1>5. CASE Vanished
  BY <1>1, <1>5 DEF Vanished, Mine
<1>6. CASE Manual
  <2>1. \A b \in Id : Mine(b)' => Mine(b)
    BY <1>6 DEF TypeOK, Manual, Mine
  <2> QED BY <1>1, <1>6, <2>1 DEF Manual
<1>7. ASSUME NEW d \in Deleter, Deletion(d) PROVE OneRunningRow'
  <2>1. \A b \in Id : Mine(b)' => Mine(b)
    <3>1. CASE CommitDelete(d)
      BY <3>1 DEF TypeOK, CommitDelete, Mine
    <3>2. CASE ~CommitDelete(d)
      BY <1>7, <3>2 DEF Deletion, StartCleanup, Skip, Choose, GiveUp, FinishCleanup, StartDelete,
         Unlink, Mine
    <3> QED BY <3>1, <3>2
  <2>2. UNCHANGED <<saved, run>>
    BY <1>7 DEF Deletion, StartCleanup, Skip, Choose, GiveUp, FinishCleanup, StartDelete, Unlink,
       CommitDelete
  <2> QED BY <1>1, <2>1, <2>2
<1>8. CASE Restart
  <2>1. \A b \in Id : ~Mine(b)'
    BY <1>8 DEF Restart, Mine
  <2> QED BY <1>1, <1>8, <2>1 DEF Restart
<1>9. CASE Device \/ UNCHANGED vars
  BY <1>1, <1>9 DEF Device, Tick, Edit, Remove, vars, Mine
<1> QED BY <1>2, <1>3, <1>4, <1>5, <1>6, <1>7, <1>8, <1>9 DEF Next, Backup

(* What is stored, when nothing new is.                                     *)
LEMMA RecordsStand ==
  ASSUME FilesAreOld, FilesGrow, ListedIsStored, NothingStoredNew
  PROVE  /\ FilesAreOld' /\ FilesGrow' /\ ListedIsStored'
         /\ \A p, c : Stores(p, c) => Stores(p, c)'
         /\ \A p, c : IsPastOrStored(p, c) => IsPastOrStored(p, c)'
BY DEF NothingStoredNew, FilesAreOld, FilesGrow, ListedIsStored, IsPastOrStored, Stores

LEMMA ContentsStand ==
  ASSUME TypeOK, Contents, NothingStoredNew, run' = run \/ run'.pc \in {"idle", "check"}
  PROVE  Contents'
<1>1. /\ FilesAreOld' /\ FilesGrow' /\ ListedIsStored'
      /\ \A p, c : Stores(p, c) => Stores(p, c)'
      /\ \A p, c : IsPastOrStored(p, c) => IsPastOrStored(p, c)'
  BY RecordsStand DEF Contents
<1>2. version' = version /\ present' = present /\ files' = files /\ saved' = saved
  BY DEF NothingStoredNew
<1>3. CASE run' = run
  <2>1. FoundIsStored'
    BY <1>1, <1>2, <1>3 DEF Contents, FoundIsStored
  <2>2. FetchedIsNewest'
    BY <1>1, <1>2, <1>3 DEF Contents, FetchedIsNewest
  <2> QED BY <1>1, <2>1, <2>2 DEF Contents
<1>4. CASE run'.pc \in {"idle", "check"}
  BY <1>1, <1>4 DEF Contents, FoundIsStored, FetchedIsNewest
<1> QED BY <1>3, <1>4

(* The device moves on: what was the latest content becomes a past one.     *)
LEMMA DeviceContents ==
  ASSUME TypeOK, Contents, NEW p \in Path, Edit(p) \/ Remove(p)
  PROVE  Contents'
<1>1. /\ manifest' = manifest /\ files' = files /\ saved' = saved /\ run' = run
      /\ \A q \in Path : \/ version'[q] = version[q] /\ (q \in present' <=> q \in present)
                         \/ version'[q] = version[q] + 1
  BY DEF TypeOK, Stored, Edit, Remove
<1>2. ASSUME NEW q \in Path
      PROVE  /\ version[q] \in Nat /\ version'[q] \in Nat /\ version[q] <= version'[q]
             /\ \/ version'[q] = version[q] /\ (q \in present' <=> q \in present)
                \/ version[q] < version'[q]
  BY <1>1, VersionsAreNumbers
<1>3. ASSUME NEW q \in Path, NEW c \in Nat, IsPastOrStored(q, c) PROVE IsPastOrStored(q, c)'
  BY <1>1, <1>2, <1>3 DEF IsPastOrStored, Stores
<1>4. FilesAreOld'
  BY <1>1, <1>2, VersionsAreNumbers DEF Contents, FilesAreOld
<1>5. FilesGrow'
  BY <1>1 DEF Contents, FilesGrow
<1>6. ListedIsStored'
  BY <1>1, <1>3, VersionsAreNumbers DEF Contents, ListedIsStored
<1>7. FoundIsStored'
  <2>1. SUFFICES ASSUME run.pc \in {"checked", "download"}, NEW q \in Path, run.found[q] # 0
                 PROVE  /\ run.found[q] <= version'[q]
                        /\ q \notin present' => run.found[q] < version'[q]
                        /\ q \notin run.changed => Stores(q, run.found[q])'
                        /\ \A n \in saved : files[n][q] <= run.found[q]
    BY <1>1 DEF FoundIsStored
  <2>2. /\ run.found[q] <= version[q]
        /\ q \notin present => run.found[q] < version[q]
        /\ q \notin run.changed => Stores(q, run.found[q])
        /\ \A n \in saved : files[n][q] <= run.found[q]
    BY <2>1 DEF Contents, FoundIsStored
  <2>3. q \notin run.changed => Stores(q, run.found[q])'
    BY <1>1, <2>2 DEF Stores
  <2> QED BY <1>2, <2>2, <2>3, VersionsAreNumbers
<1>8. FetchedIsNewest'
  <2>1. SUFFICES ASSUME run.pc = "save", NEW q \in Path
                 PROVE  /\ run.fetched[q] <= version'[q]
                        /\ run.fetched[q] # 0 => \A n \in saved : files[n][q] <= run.fetched[q]
                        /\ run.found[q] # 0 => IsPastOrStored(q, run.found[q])'
                             \/ (run.found[q] = version'[q] /\ run.fetched[q] = version'[q])
    BY <1>1 DEF FetchedIsNewest
  <2>2. /\ run.fetched[q] <= version[q]
        /\ run.fetched[q] # 0 => \A n \in saved : files[n][q] <= run.fetched[q]
        /\ run.found[q] # 0 => IsPastOrStored(q, run.found[q])
             \/ (run.found[q] = version[q] /\ run.fetched[q] = version[q])
    BY <2>1 DEF Contents, FetchedIsNewest
  <2>3. run.fetched[q] \in Nat /\ run.found[q] \in Nat
    BY VersionsAreNumbers
  <2>4. run.fetched[q] <= version'[q]
    BY <1>2, <2>2, <2>3
  <2>5. ASSUME run.found[q] = version[q], run.fetched[q] = version[q]
        PROVE  IsPastOrStored(q, run.found[q])'
                 \/ (run.found[q] = version'[q] /\ run.fetched[q] = version'[q])
    <3>1. CASE version[q] < version'[q]
      BY <1>1, <2>5, <3>1 DEF IsPastOrStored
    <3>2. CASE version'[q] = version[q]
      BY <2>5, <3>2
    <3> QED BY <1>2, <3>1, <3>2
  <2>6. ASSUME IsPastOrStored(q, run.found[q]) PROVE IsPastOrStored(q, run.found[q])'
    <3>1. run'.found[q] = run.found[q]
      BY <1>1
    <3> QED BY <1>3, <2>3, <2>6, <3>1 DEF IsPastOrStored
  <2> QED BY <2>2, <2>4, <2>5, <2>6
<1> QED BY <1>4, <1>5, <1>6, <1>7, <1>8 DEF Contents

(* A check compares with manifests, and what compares equal is stored.      *)
LEMMA CheckContents ==
  ASSUME TypeOK, Contents, Check
  PROVE  Contents'
<1>1. PICK seen \in SUBSET run.past :
        run' = [pc |-> "checked", full |-> run.full, past |-> {},
                changed |-> {p \in present : run.full \/ ~Same(p, version[p], seen)},
                found |-> Here(present), fetched |-> Nothing]
  BY DEF Check
<1>2. NothingStoredNew
  BY DEF Check, NothingStoredNew
<1>3. /\ FilesAreOld' /\ FilesGrow' /\ ListedIsStored'
      /\ \A p, c : Stores(p, c) => Stores(p, c)'
  BY <1>2, RecordsStand DEF Contents
<1>4. /\ run'.pc = "checked" /\ run'.found = Here(present)
      /\ run'.changed = {p \in present : run.full \/ ~Same(p, version[p], seen)}
  BY <1>1
<1>5. ASSUME NEW p \in Path, NEW c, c = run'.found[p], c # 0
      PROVE  /\ c <= version'[p]
             /\ p \notin present' => c < version'[p]
             /\ p \notin run'.changed => Stores(p, c)'
             /\ \A n \in saved' : files'[n][p] <= c
  <2>1. p \in present /\ c = version[p] /\ version[p] \in Nat
    BY <1>4, <1>5, VersionsAreNumbers DEF Here
  <2>2. version' = version /\ present' = present /\ files' = files /\ saved' = saved
    BY <1>2 DEF NothingStoredNew
  <2>3. \A n \in saved : files[n][p] <= version[p]
    BY DEF Contents, FilesAreOld
  <2>4. ASSUME p \notin run'.changed PROVE Stores(p, c)
    <3>1. PICK b \in seen : Lists(b, p) /\ manifest[b][p] = version[p]
      BY <1>4, <2>1, <2>4 DEF Same
    <3>2. b \in saved /\ manifest[b][p] # 0
      BY <3>1 DEF Lists, Legible
    <3>3. IsPastOrStored(p, c)
      BY <2>1, <3>1, <3>2 DEF Contents, ListedIsStored
    <3> QED BY <2>1, <3>3 DEF IsPastOrStored
  <2> QED BY <1>3, <2>1, <2>2, <2>3, <2>4
<1>6. FoundIsStored'
  BY <1>5 DEF FoundIsStored, Stores
<1>7. FetchedIsNewest'
  BY <1>4 DEF FetchedIsNewest
<1> QED BY <1>3, <1>6, <1>7 DEF Contents

(* The row keeps what the check found.                                      *)
LEMMA CreateContents ==
  ASSUME TypeOK, Contents, NEW zip \in ZipModes, CreateBackup(zip)
  PROVE  Contents'
<1>1. NothingStoredNew
  BY DEF CreateBackup, NothingStoredNew
<1>2. /\ FilesAreOld' /\ FilesGrow' /\ ListedIsStored'
      /\ \A p, c : Stores(p, c) => Stores(p, c)'
  BY <1>1, RecordsStand DEF Contents
<1>3. /\ run.pc = "checked" /\ run'.pc = "download"
      /\ run'.found = run.found /\ run'.changed = run.changed
  BY DEF CreateBackup, NoRun
<1>4. FoundIsStored'
  BY <1>1, <1>2, <1>3 DEF Contents, FoundIsStored, NothingStoredNew
<1>5. FetchedIsNewest'
  BY <1>3 DEF FetchedIsNewest
<1> QED BY <1>2, <1>4, <1>5 DEF Contents

(* The download takes the changed paths as they are by now.                 *)
LEMMA DownloadContents ==
  ASSUME TypeOK, Contents, Download
  PROVE  Contents'
<1>1. NothingStoredNew
  BY DEF Download, NothingStoredNew
<1>2. /\ FilesAreOld' /\ FilesGrow' /\ ListedIsStored'
      /\ \A p, c : IsPastOrStored(p, c) => IsPastOrStored(p, c)'
  BY <1>1, RecordsStand DEF Contents
<1>3. /\ run.pc = "download" /\ run'.pc = "save" /\ run'.found = run.found
      /\ run'.fetched = Here(run.changed \cap present)
  BY DEF Download, NoRun
<1>4. version' = version /\ files' = files /\ saved' = saved
  BY <1>1 DEF NothingStoredNew
<1>5. ASSUME NEW p \in Path
      PROVE  /\ run'.fetched[p] <= version[p]
             /\ run'.fetched[p] # 0 => \A n \in saved : files[n][p] <= run'.fetched[p]
             /\ run.found[p] # 0 => IsPastOrStored(p, run.found[p])
                  \/ (run.found[p] = version[p] /\ run'.fetched[p] = version[p])
  <2>1. run'.fetched[p] = IF p \in run.changed \cap present THEN version[p] ELSE 0
    BY <1>3 DEF Here
  <2>2. version[p] \in Nat /\ run.found[p] \in Nat
    BY VersionsAreNumbers
  <2>3. \A n \in saved : files[n][p] <= version[p]
    BY DEF Contents, FilesAreOld
  <2>4. ASSUME run.found[p] # 0
        PROVE  IsPastOrStored(p, run.found[p])
                 \/ (run.found[p] = version[p] /\ run'.fetched[p] = version[p])
    <3>1. /\ run.found[p] <= version[p]
          /\ p \notin present => run.found[p] < version[p]
          /\ p \notin run.changed => Stores(p, run.found[p])
      BY <1>3, <2>4 DEF Contents, FoundIsStored
    <3> QED BY <2>1, <2>2, <3>1 DEF IsPastOrStored
  <2> QED BY <2>1, <2>2, <2>3, <2>4
<1>6. FetchedIsNewest'
  BY <1>2, <1>3, <1>4, <1>5 DEF FetchedIsNewest
<1>7. FoundIsStored'
  BY <1>3 DEF FoundIsStored
<1> QED BY <1>2, <1>6, <1>7 DEF Contents

(* Saving adds the newest backup.  What its manifest lists is past, or      *)
(* stored, by an earlier backup or by this one.                            *)
LEMMA SaveContents ==
  ASSUME TypeOK, Made, OneRunningRow, Contents, Save
  PROVE  Contents'
<1>1. PICK b \in Id :
        /\ Mine(b)
        /\ manifest' = [manifest EXCEPT ![b] = run.found]
        /\ files' = [files EXCEPT ![b] = run.fetched]
        /\ saved' = saved \cup {b}
  BY DEF Save
<1>2. version' = version /\ run.pc = "save" /\ run'.pc = "idle"
  BY DEF Save, NoRun
<1>3. \A n \in saved : n \in Id /\ n < b /\ n # b
  <2> TAKE n \in saved
  <2>1. n \in Id /\ n < b
    BY <1>1 DEF TypeOK, OneRunningRow
  <2> QED BY <2>1 DEF Id
<1>4. /\ files'[b] = run.fetched /\ manifest'[b] = run.found /\ b \in saved'
      /\ \A n \in saved : files'[n] = files[n] /\ manifest'[n] = manifest[n] /\ n \in saved'
  BY <1>1, <1>3 DEF TypeOK
<1>5. ASSUME NEW p \in Path
      PROVE  /\ run.fetched[p] <= version[p]
             /\ run.fetched[p] # 0 => \A n \in saved : files[n][p] <= run.fetched[p]
             /\ run.found[p] # 0 => IsPastOrStored(p, run.found[p])
                  \/ (run.found[p] = version[p] /\ run.fetched[p] = version[p])
  BY <1>2 DEF Contents, FetchedIsNewest
<1>6. ASSUME NEW p \in Path, NEW c, IsPastOrStored(p, c) PROVE IsPastOrStored(p, c)'
  BY <1>2, <1>4, <1>6 DEF IsPastOrStored, Stores
<1>7. FilesAreOld'
  BY <1>1, <1>2, <1>4, <1>5 DEF Contents, FilesAreOld
<1>8. FilesGrow'
  <2>1. SUFFICES ASSUME NEW m \in saved', NEW n \in saved', m < n, NEW p \in Path,
                        files'[n][p] # 0
                 PROVE  files'[m][p] <= files'[n][p]
    BY DEF FilesGrow
  <2>2. m \in saved
    <3>1. n \in Id /\ n <= b
      BY <1>1, <1>3 DEF Id
    <3> QED BY <1>1, <2>1, <3>1 DEF Id
  <2>3. CASE n = b
    BY <1>4, <1>5, <2>1, <2>2, <2>3
  <2>4. CASE n \in saved
    BY <1>4, <2>1, <2>2, <2>4 DEF Contents, FilesGrow
  <2> QED BY <1>1, <2>1, <2>3, <2>4
<1>9. ListedIsStored'
  <2>1. ASSUME NEW p \in Path, NEW c, c = run.found[p], c # 0 PROVE IsPastOrStored(p, c)'
    <3>1. CASE IsPastOrStored(p, c)
      BY <1>6, <3>1
    <3>2. CASE c = version[p] /\ run.fetched[p] = version[p]
      <4>1. version[p] \in Nat /\ files'[b][p] >= version[p]
        BY <1>4, <3>2, VersionsAreNumbers
      <4> QED BY <1>2, <1>4, <3>2, <4>1 DEF IsPastOrStored, Stores
    <3> QED BY <1>5, <2>1, <3>1, <3>2
  <2>2. ASSUME NEW n \in saved, NEW p \in Path, NEW c, c = manifest[n][p], c # 0
        PROVE  IsPastOrStored(p, c)'
    <3>1. IsPastOrStored(p, c)
      BY <2>2 DEF Contents, ListedIsStored
    <3> QED BY <1>6, <3>1
  <2> QED BY <1>1, <1>4, <2>1, <2>2 DEF ListedIsStored, IsPastOrStored, Stores
<1>10. FoundIsStored' /\ FetchedIsNewest'
  BY <1>2 DEF FoundIsStored, FetchedIsNewest
<1> QED BY <1>7, <1>8, <1>9, <1>10 DEF Contents

LEMMA ContentsStay ==
  ASSUME TypeOK, Made, OneRunningRow, Contents, [Next]_vars
  PROVE  Contents'
BY WhatMovesContents, ContentsStand, CheckContents, DownloadContents, SaveContents,
   CreateContents, DeviceContents

(* The newest of the backups that store a path stores what was found.       *)
LEMMA StoredFollows ==
  ASSUME StoredInv
  PROVE  UnchangedIsStored
<1>0. TypeOK /\ Contents
  BY DEF StoredInv
<1>1. SUFFICES ASSUME NEW p \in Path, Unchanged(p) PROVE StoredLast(p, run.found[p])
  BY DEF UnchangedIsStored
<1>2. run.pc = "checked" /\ run.found[p] # 0 /\ p \notin run.changed
  BY <1>1 DEF Unchanged
<1>3. Stores(p, run.found[p]) /\ \A n \in saved : files[n][p] <= run.found[p]
  BY <1>0, <1>2 DEF Contents, FoundIsStored
<1>4. PICK b \in saved : files[b][p] >= run.found[p]
  BY <1>3 DEF Stores
<1>5. /\ run.found[p] \in Nat /\ \A n \in saved : files[n][p] \in Nat
  BY <1>0, VersionsAreNumbers
<1> DEFINE T == {n \in saved : files[n][p] # 0}
<1>6. T \in SUBSET Id /\ b \in T
  BY <1>0, <1>2, <1>4, <1>5 DEF TypeOK
<1>7. PICK last \in T : \A n \in T : n <= last
  BY <1>6, GreatestOf
<1>8. files[b][p] <= files[last][p]
  <2>1. b = last \/ b < last
    BY <1>6, <1>7 DEF Id
  <2>2. CASE b < last
    BY <1>0, <1>7, <2>2 DEF Contents, FilesGrow
  <2> QED BY <1>4, <1>5, <2>1, <2>2
<1>9. last \in saved /\ files[last][p] = run.found[p]
  BY <1>3, <1>4, <1>5, <1>7, <1>8
<1>10. \A n \in saved : n > last => files[n][p] = 0
  <2>1. \A n \in saved : n \in Nat
    BY <1>0 DEF TypeOK, Id
  <2> QED BY <1>7, <2>1
<1> QED BY <1>9, <1>10 DEF StoredLast

LEMMA InitStored == Init => StoredInv
<1>1. Init => OneRunningRow /\ Contents
  BY DEF Init, NoRun, OneRunningRow, Mine, Contents, FilesAreOld, FilesGrow, ListedIsStored,
     FoundIsStored, FetchedIsNewest
<1> QED BY <1>1, InitTyped, InitMade DEF StoredInv

LEMMA StoredStays == ASSUME StoredInv, [Next]_vars PROVE StoredInv'
BY Typed, MadeStays, OneRowStays, ContentsStay DEF StoredInv

(* What a check finds unchanged is the content stored last, however edits,  *)
(* removals, failing backups, deletions, cleanups and restarts interleave   *)
(* with the runs.                                                          *)
THEOREM UnchangedStored == Spec => []UnchangedIsStored
<1>1. Init => StoredInv
  BY InitStored
<1>2. StoredInv /\ [Next]_vars => StoredInv'
  BY StoredStays
<1>3. StoredInv => UnchangedIsStored
  BY StoredFollows
<1> QED BY <1>1, <1>2, <1>3, PTL DEF Spec

(* Of two saved backups that store a path, the later one never stores the   *)
(* older content, although each was compared with manifests of others and   *)
(* fetched later than it was compared: whoever restores the later one does  *)
(* not go back.                                                            *)
THEOREM LaterIsNotOlder == Spec => []FilesGrow
<1>1. StoredInv /\ [Next]_vars => StoredInv'
  BY StoredStays
<1>2. StoredInv => FilesGrow
  BY DEF StoredInv, Contents
<1> QED BY InitStored, <1>1, <1>2, PTL DEF Spec

-----------------------------------------------------------------------------
(* Retention implements BackupHistory: steps of the device, of rows and of  *)
(* the end of a backup are its steps; all others it does not see.  What is  *)
(* needed beside StoredInv: only saved backups store anything.             *)
OnlySavedStore == \A b \in Id : b \notin saved => files[b] = Nothing

HistoryInv == StoredInv /\ OnlySavedStore

LEMMA OnlySavedGoOnStoring ==
  ASSUME TypeOK, OnlySavedStore, [Next]_vars
  PROVE  OnlySavedStore'
<1>1. CASE files' = files /\ saved' = saved
  BY <1>1 DEF OnlySavedStore, Nothing
<1>2. CASE Save
  <2>1. PICK b \in Id : files' = [files EXCEPT ![b] = run.fetched] /\ saved' = saved \cup {b}
    BY <1>2 DEF Save
  <2> QED BY <2>1 DEF TypeOK, OnlySavedStore, Nothing
<1>3. \/ Save
      \/ files' = files /\ saved' = saved
  BY WhatMovesContents DEF NothingStoredNew, Check, Download, CreateBackup, Edit, Remove
<1> QED BY <1>1, <1>2, <1>3

LEMMA LogStutters ==
  ASSUME UNCHANGED <<version, status, files>> PROVE UNCHANGED Log!historyVars
BY DEF Log!historyVars

LEMMA DeviceIsLogged ==
  ASSUME TypeOK, NEW p \in Path, Edit(p) \/ Remove(p)
  PROVE  Log!Change
<1>1. version' = [version EXCEPT ![p] = version[p] + 1] /\ status' = status /\ files' = files
  BY DEF Edit, Remove
<1>2. version \in [Path -> Nat]
  BY Constants DEF TypeOK, Stored
<1> QED BY <1>1, <1>2 DEF Log!Change

LEMMA NewRowIsLogged ==
  ASSUME TypeOK, Made, OneRunningRow, Manual \/ \E zip \in ZipModes : CreateBackup(zip)
  PROVE  Log!HistoryNext
<1>1. count < MaxBackups /\ version' = version /\ files' = files
  BY DEF Manual, CreateBackup
<1>2. count + 1 \in Id /\ count \in Nat
  BY <1>1, FreeRow DEF TypeOK
<1>3. \A n \in Id : n >= count + 1 => status[n] = "none"
  BY <1>2 DEF Made, Id
<1>4. CASE Manual
  <2>1. Log!Begin(count + 1, "success")
    BY <1>1, <1>3, <1>4 DEF Log!Begin, Manual
  <2> QED BY <1>2, <2>1 DEF Log!HistoryNext
<1>5. ASSUME NEW zip \in ZipModes, CreateBackup(zip) PROVE Log!HistoryNext
  <2>1. \A n \in Id : status[n] # "running"
    BY <1>5 DEF CreateBackup, OneRunningRow, Mine
  <2>2. Log!Begin(count + 1, "running")
    BY <1>1, <1>3, <1>5, <2>1 DEF Log!Begin, CreateBackup
  <2> QED BY <1>2, <2>2 DEF Log!HistoryNext
<1> QED BY <1>4, <1>5

LEMMA SaveIsLogged ==
  ASSUME HistoryInv, Save
  PROVE  Log!HistoryNext
<1>0. TypeOK /\ OneRunningRow /\ Contents /\ OnlySavedStore
  BY DEF HistoryInv, StoredInv
<1>1. PICK b \in Id :
        /\ Mine(b)
        /\ status' = [status EXCEPT ![b] = "success"]
        /\ files' = [files EXCEPT ![b] = run.fetched]
  BY DEF Save
<1>2. version' = version /\ run.pc = "save"
  BY DEF Save
<1>3. \A n \in saved : n \in Id /\ n < b
  BY <1>0, <1>1 DEF TypeOK, OneRunningRow
<1>4. files'[b] = run.fetched /\ run.fetched \in Stored /\ Stored \subseteq [Path -> Nat]
  BY <1>0, <1>1, Constants DEF TypeOK, Run, Stored
<1>5. ASSUME NEW p \in Path, NEW new, new = run.fetched[p], new # 0
      PROVE  Log!Follows(b, p, new)
  <2>1. new \in Nat /\ new <= version[p] /\ \A n \in saved : files[n][p] <= new
    BY <1>0, <1>2, <1>4, <1>5 DEF Contents, FetchedIsNewest
  <2>2. ASSUME NEW n \in Id PROVE files[n][p] <= new /\ (n > b => files[n][p] = 0)
    <3>1. CASE n \in saved
      BY <1>3, <2>1, <3>1 DEF Id
    <3>2. CASE n \notin saved
      BY <1>0, <2>1, <3>2 DEF OnlySavedStore, Nothing
    <3> QED BY <3>1, <3>2
  <2> QED BY <2>1, <2>2 DEF Log!Follows
<1>6. Log!Succeed(b)
  BY <1>1, <1>2, <1>4, <1>5 DEF Log!Succeed, Mine
<1> QED BY <1>6 DEF Log!HistoryNext

(* The rows of a run that fails, and of all runs at a restart.              *)
LEMMA FailureIsLogged ==
  ASSUME TypeOK, OneRunningRow, Fail \/ Restart
  PROVE  Log!HistoryNext \/ UNCHANGED Log!historyVars
<1>1. version' = version /\ files' = files
  BY DEF Fail, Restart
<1>2. ASSUME NEW b \in Id, Mine(b), status' = [status EXCEPT ![b] = "failed"]
      PROVE  Log!HistoryNext
  BY <1>1, <1>2 DEF Log!HistoryNext, Log!GiveUp, Mine
<1>3. CASE Fail
  BY <1>2, <1>3 DEF Fail
<1>4. CASE Restart
  <2>1. status' = [b \in Id |-> IF Mine(b) THEN "failed" ELSE status[b]]
    BY <1>4 DEF Restart, Mine
  <2>2. CASE \A b \in Id : ~Mine(b)
    <3>1. status' = status
      BY <2>1, <2>2 DEF TypeOK
    <3> QED BY <1>1, <3>1, LogStutters
  <2>3. ASSUME NEW b \in Id, Mine(b) PROVE Log!HistoryNext
    <3>1. \A n \in Id : Mine(n) <=> n = b
      BY <2>3 DEF OneRunningRow
    <3>2. status' = [status EXCEPT ![b] = "failed"]
      BY <2>1, <3>1 DEF TypeOK
    <3> QED BY <1>2, <2>3, <3>2
  <2> QED BY <2>2, <2>3
<1> QED BY <1>3, <1>4

LEMMA DeletionIsLogged ==
  ASSUME Made, NEW d \in Deleter, Deletion(d)
  PROVE  Log!HistoryNext \/ UNCHANGED Log!historyVars
<1>1. CASE CommitDelete(d)
  <2>1. PICK b \in Id : Next1(d, b) /\ status' = [status EXCEPT ![b] = "deleted"]
    BY <1>1 DEF CommitDelete
  <2>2. status[b] # "none" /\ version' = version /\ files' = files
    BY <1>1, <2>1 DEF Made, Next1, CommitDelete
  <2>3. Log!Delete(b)
    BY <2>1, <2>2 DEF Log!Delete
  <2> QED BY <2>3 DEF Log!HistoryNext
<1>2. CASE ~CommitDelete(d)
  BY <1>2, LogStutters DEF Deletion, StartCleanup, Skip, Choose, GiveUp, FinishCleanup, StartDelete,
     Unlink
<1> QED BY <1>1, <1>2

LEMMA StepIsLogged ==
  ASSUME HistoryInv, [Next]_vars
  PROVE  Log!HistoryNext \/ UNCHANGED Log!historyVars
<1>0. TypeOK /\ Made /\ OneRunningRow
  BY DEF HistoryInv, StoredInv
<1>1. ASSUME NEW p \in Path, Edit(p) \/ Remove(p) PROVE Log!HistoryNext
  BY <1>0, <1>1, DeviceIsLogged DEF Log!HistoryNext
<1>2. CASE Tick \/ (\E forced \in BOOLEAN : StartRun(forced)) \/ Check \/ NoBackup \/ Download
           \/ Vanished \/ UNCHANGED vars
  BY <1>2, LogStutters DEF Tick, StartRun, Check, NoBackup, Download, Vanished, vars
<1> QED BY <1>0, <1>1, <1>2, NewRowIsLogged, SaveIsLogged, FailureIsLogged, DeletionIsLogged
        DEF Next, Device, Backup

(* Runs, cleanups, deletions, edits and restarts together keep the promise  *)
(* of BackupHistory: no row that has ended is written again, a deleted one  *)
(* does not come back, and contents only grow down the list.               *)
THEOREM HistoryRefinement == Spec => ImplementsBackupHistory
<1>1. Init => HistoryInv
  BY InitStored DEF HistoryInv, Init, OnlySavedStore
<1>2. HistoryInv /\ [Next]_vars => HistoryInv'
  BY StoredStays, OnlySavedGoOnStoring DEF HistoryInv, StoredInv
<1>3. Init => Log!HistoryInit
  BY DEF Init, Log!HistoryInit, Nothing
<1>4. HistoryInv /\ [Next]_vars => [Log!HistoryNext]_(Log!historyVars)
  BY StepIsLogged
<1> QED BY <1>1, <1>2, <1>3, <1>4, PTL DEF Spec, ImplementsBackupHistory, Log!HistorySpec
=============================================================================
