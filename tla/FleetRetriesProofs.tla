------------------------- MODULE FleetRetriesProofs -------------------------
(***************************************************************************)
(* Fleet runs and pending retries for any devices, limits and threads of   *)
(* one API process.  Every step is one of JobLock or leaves it alone, so   *)
(* what JobLockProofs shows of the lock holds here; in particular only one *)
(* thread is in a run.  From that follows that between the search for a    *)
(* PENDING row and the insert no other run inserts one, and that only the  *)
(* tick that has a list ends rows; and that the rows, whoever writes them, *)
(* keep the promise of RetryBoard.                                         *)
(***************************************************************************)
EXTENDS FleetRetries, JobLockProofs, SequenceTheorems

LEMMA StepsOfTheLock == [RetriesNext]_allVars => [Next]_vars
<1> USE DEF Next, Step, Start
<1>1. ASSUME NEW t \in Thread, LockStep(t) PROVE [Next]_vars
  BY <1>1 DEF LockStep
<1>2. ASSUME NEW t \in Thread, NEW d \in Device, DeviceStep(t, d) PROVE [Next]_vars
  BY <1>2 DEF DeviceStep, SkipDevice, DeviceAnswers, AttemptFails, DeviceIsOffline, Offline,
              InsertRetry
<1>3. ASSUME NEW t \in Thread, BeginFleet(t) \/ EndFleet(t) \/ FleetRaises(t) PROVE [Next]_vars
  BY <1>3 DEF BeginFleet, EndFleet, FleetRaises
<1>4. ASSUME NEW t \in Thread, ListRetries(t) \/ FailRetry(t) \/ RecordRetry(t) PROVE [Next]_vars
  BY <1>4 DEF ListRetries, FailRetry, RecordRetry, Record
<1>5. ASSUME NEW t \in Thread, EndTick(t) \/ StartFleet(t) \/ FleetRefused(t) PROVE [Next]_vars
  BY <1>5 DEF EndTick, StartFleet, FleetRefused
<1>6. ASSUME NEW t \in Thread, BootApi(t) \/ BeginTick(t) PROVE [Next]_vars
  BY <1>6 DEF BootApi, BeginTick, Entry
<1>7. ASSUME NEW d \in Device, DeleteDevice(d) PROVE [Next]_vars
  BY <1>7 DEF DeleteDevice
<1>8. ASSUME NEW p \in Process, CrashFleet(p) PROVE [Next]_vars
  BY <1>8 DEF CrashFleet
<1>9. CASE TimePasses
  BY <1>9 DEF TimePasses
<1>10. CASE UNCHANGED allVars
  BY <1>10 DEF allVars
<1> QED
  BY <1>1, <1>2, <1>3, <1>4, <1>5, <1>6, <1>7, <1>8, <1>9, <1>10
     DEF RetriesNext, ThreadStep, RunStep, TickStep

LEMMA RetriesAreLocked == RetriesSpec => Spec
<1>1. RetriesInit => Init
  BY DEF RetriesInit
<1> QED
  BY <1>1, StepsOfTheLock, PTL DEF RetriesSpec, Spec

(* A fleet run that retries and records keeps the fleet's exclusion.        *)
THEOREM RetriesKeepTheLease == RetriesSpec => ImplementsFleetLease
BY RetriesAreLocked, FleetRefinement, PTL

-----------------------------------------------------------------------------
(* A row leaves the queue, or moves to its end: what the others are, and    *)
(* where they were.                                                        *)
Moved(i, k) == IF i < k THEN i ELSE i + 1

LEMMA RemoveAtProperties ==
  ASSUME NEW S, NEW q \in Seq(S), NEW k \in 1..Len(q)
  PROVE  /\ RemoveAt(q, k) \in Seq(S)
         /\ Len(RemoveAt(q, k)) = Len(q) - 1
         /\ \A i \in 1..Len(q) - 1 : Moved(i, k) \in 1..Len(q) /\ RemoveAt(q, k)[i] = q[Moved(i, k)]
<1> DEFINE before == SubSeq(q, 1, k - 1)
           after == SubSeq(q, k + 1, Len(q))
<1>1. Len(q) \in Nat /\ \A i \in 1..Len(q) : q[i] \in S
  OBVIOUS
<1>2. /\ before \in Seq(S) /\ Len(before) = k - 1
      /\ \A i \in 1..k - 1 : before[i] = q[i]
  <2>1. \A i \in 1..k - 1 : q[i] \in S
    BY <1>1
  <2> QED
    BY <1>1, <2>1, SubSeqProperties
<1>3. /\ after \in Seq(S) /\ Len(after) = Len(q) - k
      /\ \A i \in 1..Len(q) - k : after[i] = q[i + k]
  <2>1. \A i \in k + 1..Len(q) : q[i] \in S
    BY <1>1
  <2>2. /\ SubSeq(q, k + 1, Len(q)) \in Seq(S)
        /\ Len(SubSeq(q, k + 1, Len(q))) = IF k + 1 <= Len(q) THEN Len(q) - (k + 1) + 1 ELSE 0
        /\ \A i \in 1..Len(q) - (k + 1) + 1 : SubSeq(q, k + 1, Len(q))[i] = q[k + 1 + i - 1]
    <3> HIDE DEF before, after
    <3> QED
      BY <1>1, <2>1, SubSeqProperties
  <2> QED
    BY <1>1, <2>2
<1> HIDE DEF before, after
<1> DEFINE joined == before \o after
<1>4. /\ joined \in Seq(S) /\ Len(joined) = Len(before) + Len(after)
      /\ \A i \in 1..Len(before) + Len(after) :
           joined[i] = IF i <= Len(before) THEN before[i] ELSE after[i - Len(before)]
  BY <1>2, <1>3, ConcatProperties
<1>5. RemoveAt(q, k) = joined
  BY DEF RemoveAt, before, after
<1> HIDE DEF joined
<1>6. Len(joined) = Len(q) - 1 /\ k \in Int /\ 1 <= k /\ k <= Len(q)
  BY <1>1, <1>2, <1>3, <1>4
<1>7. ASSUME NEW i \in 1..Len(q) - 1, i < k
      PROVE  joined[i] = q[i]
  <2>1. i \in 1..Len(before) + Len(after) /\ i <= Len(before) /\ i \in 1..k - 1
    BY <1>1, <1>2, <1>3, <1>6, <1>7
  <2> QED
    BY <1>2, <1>4, <2>1
<1>8. ASSUME NEW i \in 1..Len(q) - 1, ~(i < k)
      PROVE  joined[i] = q[i + 1]
  <2>1. i - (k - 1) \in 1..Len(q) - k /\ i - (k - 1) + k = i + 1
    BY <1>1, <1>6, <1>8
  <2>2. joined[i] = after[i - (k - 1)]
    <3>1. /\ i \in 1..Len(before) + Len(after) /\ ~(i <= Len(before))
          /\ i - Len(before) = i - (k - 1)
      BY <1>1, <1>2, <1>3, <1>6, <1>8
    <3> QED
      BY <1>4, <3>1
  <2>3. after[i - (k - 1)] = q[i - (k - 1) + k]
    BY <1>3, <2>1
  <2> QED
    BY <2>1, <2>2, <2>3
<1>9. \A i \in 1..Len(q) - 1 : Moved(i, k) \in 1..Len(q) /\ joined[i] = q[Moved(i, k)]
  BY <1>1, <1>6, <1>7, <1>8 DEF Moved
<1> QED
  BY <1>4, <1>5, <1>6, <1>9

LEMMA UpdatedProperties ==
  ASSUME NEW S, queue \in Seq(S), NEW k \in DOMAIN queue, NEW pending \in S
  PROVE  /\ Updated(k, pending) \in Seq(S)
         /\ Len(Updated(k, pending)) = Len(queue)
         /\ \A i \in 1..Len(queue) - 1 : /\ Moved(i, k) \in DOMAIN queue
                                        /\ Updated(k, pending)[i] = queue[Moved(i, k)]
         /\ Updated(k, pending)[Len(queue)] = pending
<1>1. Len(queue) \in Nat /\ DOMAIN queue = 1..Len(queue)
  OBVIOUS
<1>2. /\ RemoveAt(queue, k) \in Seq(S)
      /\ Len(RemoveAt(queue, k)) = Len(queue) - 1
      /\ \A i \in 1..Len(queue) - 1 : /\ Moved(i, k) \in 1..Len(queue)
                                     /\ RemoveAt(queue, k)[i] = queue[Moved(i, k)]
  BY <1>1, RemoveAtProperties
<1> DEFINE rest == RemoveAt(queue, k)
<1> HIDE DEF rest
<1>3. /\ Append(rest, pending) \in Seq(S)
      /\ Len(Append(rest, pending)) = Len(rest) + 1
      /\ \A i \in 1..Len(rest) : Append(rest, pending)[i] = rest[i]
      /\ Append(rest, pending)[Len(rest) + 1] = pending
  BY <1>2, AppendProperties DEF rest
<1> DEFINE longer == Append(rest, pending)
<1> HIDE DEF longer
<1>4. Updated(k, pending) = longer
  BY DEF Updated, longer, rest
<1>5. /\ longer \in Seq(S) /\ Len(longer) = Len(queue)
      /\ \A i \in 1..Len(queue) - 1 : longer[i] = rest[i]
      /\ longer[Len(queue)] = pending
  BY <1>1, <1>2, <1>3 DEF longer, rest
<1> QED
  BY <1>1, <1>2, <1>4, <1>5 DEF rest

(* A row keeps its device and its id while others come and go.              *)
Same(r, p) == r.id = p.id /\ r.device = p.device

LEMMA RemovedRows ==
  ASSUME queue \in Seq(PendingRows), NEW k \in DOMAIN queue, queue' = RemoveAt(queue, k)
  PROVE  /\ queue' \in Seq(PendingRows)
         /\ \A i \in DOMAIN queue' : \E j \in DOMAIN queue : j # k /\ Same(queue'[i], queue[j])
         /\ \A i, j \in DOMAIN queue' : i # j =>
              \E m, n \in DOMAIN queue : m # n /\ Same(queue'[i], queue[m]) /\ Same(queue'[j], queue[n])
         /\ \A j \in DOMAIN queue \ {k} : \E i \in DOMAIN queue' : queue'[i] = queue[j]
<1>1. Len(queue) \in Nat /\ DOMAIN queue = 1..Len(queue)
  OBVIOUS
<1>2. /\ queue' \in Seq(PendingRows) /\ Len(queue') = Len(queue) - 1
      /\ \A i \in 1..Len(queue) - 1 : Moved(i, k) \in 1..Len(queue) /\ queue'[i] = queue[Moved(i, k)]
  BY <1>1, RemoveAtProperties
<1>3. DOMAIN queue' = 1..Len(queue) - 1
  BY <1>2
<1>4. \A i \in DOMAIN queue' : Moved(i, k) \in DOMAIN queue \ {k} /\ queue'[i] = queue[Moved(i, k)]
  BY <1>1, <1>2, <1>3 DEF Moved
<1>5. \A i, j \in DOMAIN queue' : i # j => Moved(i, k) # Moved(j, k)
  BY <1>1, <1>3 DEF Moved
<1>6. \A j \in DOMAIN queue \ {k} : \E i \in DOMAIN queue' : Moved(i, k) = j
  <2>1. ASSUME NEW j \in DOMAIN queue \ {k} PROVE \E i \in DOMAIN queue' : Moved(i, k) = j
    <3>1. CASE j < k
      BY <1>1, <1>3, <3>1 DEF Moved
    <3>2. CASE j > k
      <4>1. j - 1 \in DOMAIN queue' /\ Moved(j - 1, k) = j
        BY <1>1, <1>3, <3>2 DEF Moved
      <4> QED
        BY <4>1
    <3> QED
      BY <1>1, <3>1, <3>2
  <2> QED
    BY <2>1
<1>7. \A i \in DOMAIN queue' : \E j \in DOMAIN queue : j # k /\ Same(queue'[i], queue[j])
  BY <1>4 DEF Same
<1>8. \A i, j \in DOMAIN queue' : i # j =>
        \E m, n \in DOMAIN queue : m # n /\ Same(queue'[i], queue[m]) /\ Same(queue'[j], queue[n])
  BY <1>4, <1>5 DEF Same
<1>9. \A j \in DOMAIN queue \ {k} : \E i \in DOMAIN queue' : queue'[i] = queue[j]
  BY <1>4, <1>6
<1> QED
  BY <1>2, <1>7, <1>8, <1>9

LEMMA UpdatedRows ==
  ASSUME queue \in Seq(PendingRows), NEW k \in DOMAIN queue, NEW pending \in PendingRows,
         Same(pending, queue[k]), queue' = Updated(k, pending)
  PROVE  /\ queue' \in Seq(PendingRows)
         /\ \A i \in DOMAIN queue' : \E j \in DOMAIN queue : Same(queue'[i], queue[j])
         /\ \A i, j \in DOMAIN queue' : i # j =>
              \E m, n \in DOMAIN queue : m # n /\ Same(queue'[i], queue[m]) /\ Same(queue'[j], queue[n])
         /\ \A j \in DOMAIN queue : \E i \in DOMAIN queue' : Same(queue'[i], queue[j])
<1> DEFINE From(i) == IF i = Len(queue) THEN k ELSE Moved(i, k)
<1>1. Len(queue) \in Nat /\ DOMAIN queue = 1..Len(queue)
  OBVIOUS
<1>2. /\ queue' \in Seq(PendingRows) /\ Len(queue') = Len(queue)
      /\ \A i \in 1..Len(queue) - 1 : Moved(i, k) \in DOMAIN queue /\ queue'[i] = queue[Moved(i, k)]
      /\ queue'[Len(queue)] = pending
  <2>1. /\ Updated(k, pending) \in Seq(PendingRows)
        /\ Len(Updated(k, pending)) = Len(queue)
        /\ \A i \in 1..Len(queue) - 1 : /\ Moved(i, k) \in DOMAIN queue
                                       /\ Updated(k, pending)[i] = queue[Moved(i, k)]
        /\ Updated(k, pending)[Len(queue)] = pending
    BY UpdatedProperties
  <2> QED
    BY <2>1
<1>3. DOMAIN queue' = DOMAIN queue
  BY <1>1, <1>2
<1>4. \A i \in DOMAIN queue' : From(i) \in DOMAIN queue /\ Same(queue'[i], queue[From(i)])
  <2>1. ASSUME NEW i \in DOMAIN queue'
        PROVE From(i) \in DOMAIN queue /\ Same(queue'[i], queue[From(i)])
    <3>1. CASE i = Len(queue)
      BY <1>2, <3>1
    <3>2. CASE i # Len(queue)
      BY <1>1, <1>2, <1>3, <3>2 DEF Same
    <3> QED
      BY <3>1, <3>2
  <2> QED
    BY <2>1
<1>5. \A i, j \in DOMAIN queue' : i # j => From(i) # From(j)
  BY <1>1, <1>3 DEF Moved
<1>6. \A j \in DOMAIN queue : \E i \in DOMAIN queue' : From(i) = j
  <2>1. ASSUME NEW j \in DOMAIN queue PROVE \E i \in DOMAIN queue' : From(i) = j
    <3>1. CASE j < k
      BY <1>1, <1>3, <3>1 DEF Moved
    <3>2. CASE j > k
      <4>1. j - 1 \in DOMAIN queue' /\ From(j - 1) = j
        BY <1>1, <1>3, <3>2 DEF Moved
      <4> QED
        BY <4>1
    <3>3. CASE j = k
      <4>1. Len(queue) \in DOMAIN queue' /\ From(Len(queue)) = j
        BY <1>1, <1>3, <3>3
      <4> QED
        BY <4>1
    <3> QED
      BY <1>1, <3>1, <3>2, <3>3
  <2> QED
    BY <2>1
<1> HIDE DEF From
<1>7. \A i, j \in DOMAIN queue' : i # j =>
        \E m, n \in DOMAIN queue : m # n /\ Same(queue'[i], queue[m]) /\ Same(queue'[j], queue[n])
  BY <1>4, <1>5
<1>8. \A j \in DOMAIN queue : \E i \in DOMAIN queue' : Same(queue'[i], queue[j])
  BY <1>4, <1>6
<1> QED
  BY <1>2, <1>4, <1>7, <1>8

-----------------------------------------------------------------------------
(* A run is in its loop over the devices only while its thread is at work.  *)
RunsWork == \A t \in Thread : fleet[t].at # "out" => pc[t] = "work"

(* The search found no PENDING row, and there still is none.                *)
InsertIsNew ==
  \A t \in Thread, d \in Device : fleet[t].at = "insert" /\ At(t, d)
    => \A k \in DOMAIN queue : queue[k].device # d

IdsDiffer == \A i, j \in DOMAIN queue : i # j => queue[i].id # queue[j].id

(* Only the thread of the pending tick is in it, and has a list.            *)
TickHasDuty == \A t \in Thread : op[t] \in {"pending", "pendingRun"} => "pending" \in Duty[t]
ListHasDuty == \A t \in Thread : tick[t].jobs # <<>> => "pending" \in Duty[t]

ListsDiffer ==
  \A t \in Thread : \A i, j \in DOMAIN tick[t].jobs : i # j => tick[t].jobs[i] # tick[t].jobs[j]

QueueInv == OneRetryPerDevice /\ IdsDiffer
ListInv == ListHasDuty /\ ListsDiffer /\ ListedIsPending
RunInv == RetriesTypeOK /\ RunsWork /\ InsertIsNew
RetriesInv == RunInv /\ QueueInv /\ ListInv

LEMMA RetriesInitInv == RetriesInit => RetriesInv
<1> SUFFICES ASSUME RetriesInit PROVE RetriesInv
  OBVIOUS
<1>1. NoFleet \in Fleets /\ NoTick \in Ticks
  BY RetriesOK DEF Fleets, Ticks, NoFleet, NoTick
<1>2. RetriesTypeOK
  BY <1>1 DEF RetriesInit, RetriesTypeOK
<1>3. DOMAIN queue = {} /\ \A t \in Thread : fleet[t].at = "out" /\ tick[t].jobs = <<>>
  BY DEF RetriesInit, NoFleet, NoTick
<1>4. \A t \in Thread : DOMAIN tick[t].jobs = {}
  BY <1>3
<1> QED
  BY <1>2, <1>3, <1>4
     DEF RetriesInv, RunInv, RunsWork, InsertIsNew, ListHasDuty, QueueInv, ListInv,
         OneRetryPerDevice, IdsDiffer, ListsDiffer, ListedIsPending, ToSet

(* Two threads of the one process are not at work together.                 *)
LEMMA OneAtWork ==
  ASSUME IInv, NEW t \in Thread, NEW u \in Thread, pc[t] = "work", pc[u] = "work"
  PROVE  t = u
BY OneApi, ConstantsOK DEF IInv, RunHoldsRunLock, LeasePcs, Acquiring, RunOps

LEMMA DutyStep ==
  ASSUME IInv, TickHasDuty, [Next]_vars
  PROVE  TickHasDuty'
<1> USE DEF IInv, TypeOK, TickHasDuty
<1>1. ASSUME NEW t \in Thread, Boot(t) \/ StartRun(t) \/ \E entry \in Entry : StartSweeper(t, entry)
      PROVE TickHasDuty'
  BY <1>1 DEF Boot, StartRun, StartSweeper, RunHoldsRunLock, Entry
<1>2. ASSUME NEW t \in Thread, SweepRead(t) \/ SweepDelete(t) \/ SweepFails(t)
      PROVE TickHasDuty'
  BY <1>2 DEF SweepRead, SweepDelete, SweepFails, AfterSweep, Finish
<1>3. ASSUME NEW t \in Thread, Probe(t) \/ ProbeDelete(t) \/ ProbeFails(t) \/ PendingDone(t)
      PROVE TickHasDuty'
  BY <1>3 DEF Probe, ProbeDelete, ProbeFails, PendingDone, Finish
<1>4. ASSUME NEW t \in Thread,
             \/ SelectForUpdate(t) \/ SelectFails(t) \/ CommitTakeover(t) \/ CommitStaleDelete(t)
             \/ CommitInsert(t) \/ CommitLost(t) \/ EndWork(t)
      PROVE TickHasDuty'
  BY <1>4 DEF SelectForUpdate, SelectFails, CommitTakeover, CommitStaleDelete, CommitInsert,
              CommitLost, EndWork
<1>5. ASSUME NEW t \in Thread, ReleaseRead(t) \/ ReleaseDelete(t) \/ ReleaseRaises(t) \/ RefuseRun(t)
      PROVE TickHasDuty'
  BY <1>5 DEF ReleaseRead, ReleaseDelete, ReleaseRaises, RefuseRun, ReturnTo, Finish
<1>6. ASSUME NEW p \in Process, Crash(p)
      PROVE TickHasDuty'
  BY <1>6 DEF Crash
<1>7. CASE Tick \/ UNCHANGED vars
  BY <1>7 DEF Tick, vars
<1> QED
  BY <1>1, <1>2, <1>3, <1>4, <1>5, <1>6, <1>7 DEF Next, Step, Start

(* A thread that is at work is left at it by the steps of others.           *)
LEMMA WorkGoesOn ==
  ASSUME IInv, NEW u \in Thread,
         \/ Boot(u) \/ StartRun(u) \/ (\E entry \in Entry : StartSweeper(u, entry))
         \/ SweepRead(u) \/ SweepDelete(u) \/ SweepFails(u)
         \/ Probe(u) \/ ProbeDelete(u) \/ ProbeFails(u) \/ PendingDone(u)
         \/ SelectForUpdate(u) \/ SelectFails(u) \/ CommitTakeover(u) \/ CommitStaleDelete(u)
         \/ CommitInsert(u) \/ CommitLost(u)
         \/ ReleaseRead(u) \/ ReleaseDelete(u) \/ ReleaseRaises(u) \/ RefuseRun(u)
  PROVE  \A t \in Thread : pc[t] = "work" => pc'[t] = "work"
<1> SUFFICES ASSUME NEW t \in Thread, pc[t] = "work" PROVE pc'[t] = "work"
  OBVIOUS
<1> USE DEF IInv, TypeOK, Goto, Finish
<1>1. CASE Boot(u)
  BY <1>1 DEF Boot, StoppedIsIdle
<1>2. CASE StartRun(u) \/ \E entry \in Entry : StartSweeper(u, entry)
  BY <1>2 DEF StartRun, StartSweeper
<1>3. CASE SweepRead(u) \/ SweepDelete(u) \/ SweepFails(u)
  BY <1>3 DEF SweepRead, SweepDelete, SweepFails, AfterSweep
<1>4. CASE Probe(u) \/ ProbeDelete(u) \/ ProbeFails(u) \/ PendingDone(u)
  BY <1>4 DEF Probe, ProbeDelete, ProbeFails, PendingDone
<1>5. CASE \/ SelectForUpdate(u) \/ SelectFails(u) \/ CommitTakeover(u) \/ CommitStaleDelete(u)
           \/ CommitInsert(u) \/ CommitLost(u)
  BY <1>5 DEF SelectForUpdate, SelectFails, CommitTakeover, CommitStaleDelete, CommitInsert,
              CommitLost
<1>6. CASE ReleaseRead(u) \/ ReleaseDelete(u) \/ ReleaseRaises(u) \/ RefuseRun(u)
  BY <1>6 DEF ReleaseRead, ReleaseDelete, ReleaseRaises, RefuseRun, ReturnTo
<1> QED
  BY <1>1, <1>2, <1>3, <1>4, <1>5, <1>6

-----------------------------------------------------------------------------
(* Steps that leave the queue and the lists as they are.                    *)
LEMMA SameLists ==
  ASSUME QueueInv, ListInv, UNCHANGED queue, \A t \in Thread : tick'[t].jobs = tick[t].jobs
  PROVE  QueueInv' /\ ListInv'
<1>1. QueueInv'
  BY DEF QueueInv, OneRetryPerDevice, IdsDiffer
<1>2. ListHasDuty'
  BY DEF ListInv, ListHasDuty
<1>3. ListsDiffer'
  BY DEF ListInv, ListsDiffer
<1>4. ListedIsPending'
  <2>1. Ids' = Ids
    BY DEF Ids
  <2> QED
    BY <2>1 DEF ListInv, ListedIsPending
<1> QED
  BY <1>1, <1>2, <1>3, <1>4 DEF ListInv

LEMMA QuietSteps ==
  ASSUME IInv, RetriesInv,
         \/ \E t \in Thread : LockStep(t) \/ StartFleet(t) \/ BootApi(t) \/ BeginTick(t)
         \/ TimePasses \/ UNCHANGED allVars
  PROVE  RetriesInv'
<1>1. UNCHANGED retries
  BY DEF LockStep, StartFleet, BootApi, BeginTick, TimePasses, allVars
<1>2. \A u \in Thread : pc[u] = "work" => pc'[u] = "work"
  <2>1. ASSUME NEW t \in Thread, LockStep(t)
        PROVE \A u \in Thread : pc[u] = "work" => pc'[u] = "work"
    BY <2>1, WorkGoesOn DEF LockStep
  <2>2. ASSUME NEW t \in Thread, StartFleet(t) \/ BootApi(t) \/ BeginTick(t)
        PROVE \A u \in Thread : pc[u] = "work" => pc'[u] = "work"
    BY <2>2, WorkGoesOn DEF StartFleet, BootApi, BeginTick, Entry
  <2>3. CASE TimePasses \/ UNCHANGED allVars
    BY <2>3 DEF TimePasses, Tick, allVars, vars
  <2> QED
    BY <2>1, <2>2, <2>3
<1>3. RunInv'
  BY <1>1, <1>2 DEF RetriesInv, RunInv, RetriesTypeOK, RunsWork, InsertIsNew, At, retries
<1> QED
  BY <1>1, <1>3, SameLists DEF RetriesInv, retries

(* Steps of a run that only go on with its devices.                         *)
LEMMA FleetTypes ==
  ASSUME RetriesTypeOK, NEW t \in Thread
  PROVE  /\ NoFleet \in Fleets
         /\ \A chosen \in SUBSET Device, b \in BOOLEAN :
              [at |-> "next", left |-> chosen, failed |-> 0, online |-> b] \in Fleets
         /\ [fleet[t] EXCEPT !.at = "insert"] \in Fleets
         /\ fleet[t].left \subseteq Device
         /\ fleet[t].failed + 1 < Attempts =>
              [fleet[t] EXCEPT !.failed = fleet[t].failed + 1] \in Fleets
<1>1. fleet[t] \in Fleets /\ Attempts \in Nat \ {0}
  BY RetriesOK DEF RetriesTypeOK
<1> QED
  BY <1>1 DEF Fleets, NoFleet

LEMMA ProceedTypes ==
  ASSUME RetriesTypeOK, NEW t \in Thread, NEW d, NEW b \in BOOLEAN, Proceed(t, d, b)
  PROVE  /\ fleet' \in [Thread -> Fleets]
         /\ fleet'[t].at = "next"
         /\ \A u \in Thread \ {t} : fleet'[u] = fleet[u]
<1>1. fleet[t].left \ {d} \in SUBSET Device /\ (b /\ op[t] = "pendingRun") \in BOOLEAN
  BY FleetTypes
<1>2. [at |-> "next", left |-> fleet[t].left \ {d}, failed |-> 0,
       online |-> b /\ op[t] = "pendingRun"] \in Fleets
  BY <1>1, FleetTypes
<1> QED
  BY <1>2 DEF Proceed, RetriesTypeOK
-----------------------------------------------------------------------------
(* While one thread is at work the others are in no run.                    *)
LEMMA OthersAreOut ==
  ASSUME IInv, RunsWork, NEW t \in Thread, pc[t] = "work", RetriesTypeOK
  PROVE  \A u \in Thread \ {t} : fleet[u].at = "out"
BY OneAtWork DEF RunsWork

LEMMA RunMoves ==
  ASSUME IInv, RunInv, NEW t \in Thread, pc[t] = "work", UNCHANGED pc,
         devices' \subseteq Device, queue' \in Seq(PendingRows), tick' \in [Thread -> Ticks],
         fleet' \in [Thread -> Fleets], \A u \in Thread \ {t} : fleet'[u] = fleet[u],
         fleet'[t].at = "insert" =>
           \A d \in Device : At(t, d)' => \A k \in DOMAIN queue' : queue'[k].device # d
  PROVE  RunInv'
<1>1. \A u \in Thread \ {t} : fleet'[u].at = "out"
  BY OthersAreOut DEF RunInv
<1>2. RetriesTypeOK'
  BY DEF RetriesTypeOK
<1>3. RunsWork'
  BY <1>1 DEF RunsWork
<1>4. InsertIsNew'
  <2> SUFFICES ASSUME NEW u \in Thread, NEW d \in Device, fleet'[u].at = "insert", At(u, d)'
               PROVE \A k \in DOMAIN queue' : queue'[k].device # d
    BY DEF InsertIsNew
  <2>1. u = t
    BY <1>1
  <2> QED
    BY <2>1
<1> QED
  BY <1>2, <1>3, <1>4 DEF RunInv

LEMMA FleetGoesOn ==
  ASSUME IInv, RetriesInv, NEW t \in Thread, NEW d,
         \/ BeginFleet(t) \/ SkipDevice(t, d) \/ DeviceAnswers(t, d) \/ AttemptFails(t, d)
  PROVE  RetriesInv'
<1> USE DEF RetriesInv
<1>1. /\ pc[t] = "work"
      /\ UNCHANGED <<pc, devices, queue, tick>>
  BY DEF BeginFleet, SkipDevice, DeviceAnswers, AttemptFails, Trying, vars
<1>2. QueueInv' /\ ListInv'
  BY <1>1, SameLists
<1>3. RetriesTypeOK
  BY DEF RunInv
<1>4. /\ fleet' \in [Thread -> Fleets]
      /\ fleet'[t].at = "next"
      /\ \A u \in Thread \ {t} : fleet'[u] = fleet[u]
  <2>1. CASE BeginFleet(t)
    <3>1. PICK chosen \in SUBSET (IF op[t] = "pendingRun"
                                  THEN {queue[k].device : k \in HeadAt(t)} \cap devices
                                  ELSE devices) :
            fleet' = [fleet EXCEPT ![t] =
              [at |-> "next", left |-> chosen, failed |-> 0, online |-> FALSE]]
      BY <2>1 DEF BeginFleet
    <3>2. chosen \in SUBSET Device
      BY <1>3 DEF RetriesTypeOK
    <3>3. [at |-> "next", left |-> chosen, failed |-> 0, online |-> FALSE] \in Fleets
      BY <1>3, <3>2, FleetTypes
    <3> QED
      BY <1>3, <3>1, <3>3 DEF RetriesTypeOK
  <2>2. CASE SkipDevice(t, d)
    BY <1>3, <2>2, ProceedTypes DEF SkipDevice
  <2>3. CASE DeviceAnswers(t, d)
    BY <1>3, <2>3, ProceedTypes DEF DeviceAnswers
  <2>4. CASE AttemptFails(t, d)
    <3>1. /\ fleet[t].failed + 1 < Attempts /\ fleet[t].at = "next"
          /\ fleet' = [fleet EXCEPT ![t].failed = fleet[t].failed + 1]
      BY <2>4 DEF AttemptFails, Trying
    <3>2. [fleet[t] EXCEPT !.failed = fleet[t].failed + 1] \in Fleets
      BY <1>3, <3>1, FleetTypes
    <3> QED
      BY <1>3, <3>1, <3>2 DEF RetriesTypeOK, Fleets
  <2> QED
    BY <2>1, <2>2, <2>3, <2>4
<1>5. RunInv'
  <2>1. /\ devices' \subseteq Device /\ queue' \in Seq(PendingRows)
        /\ tick' \in [Thread -> Ticks]
    BY <1>1, <1>3 DEF RetriesTypeOK
  <2> QED
    BY <1>1, <1>4, <2>1, RunMoves
<1> QED
  BY <1>2, <1>5

(* Each row stems from one of its own: rows stay apart.                     *)
LEMMA RowsStayApart ==
  ASSUME QueueInv,
         \A i, j \in DOMAIN queue' : i # j =>
           \E m, n \in DOMAIN queue : m # n /\ Same(queue'[i], queue[m]) /\ Same(queue'[j], queue[n])
  PROVE  QueueInv'
<1>1. OneRetryPerDevice'
  BY DEF QueueInv, OneRetryPerDevice, Same
<1>2. IdsDiffer'
  BY DEF QueueInv, IdsDiffer, Same
<1> QED
  BY <1>1, <1>2 DEF QueueInv

LEMMA NoRowIsLost ==
  ASSUME ListInv, UNCHANGED tick,
         \A j \in DOMAIN queue : \E i \in DOMAIN queue' : Same(queue'[i], queue[j])
  PROVE  ListInv'
<1>1. Ids \subseteq Ids'
  BY DEF Ids, Same
<1>2. ListedIsPending'
  BY <1>1 DEF ListInv, ListedIsPending
<1> QED
  BY <1>2 DEF ListInv, ListHasDuty, ListsDiffer

LEMMA OfflineStep ==
  ASSUME IInv, RetriesInv, NEW t \in Thread, NEW d \in Device, DeviceIsOffline(t, d)
  PROVE  RetriesInv'
<1> USE DEF RetriesInv
<1> DEFINE found == {k \in DOMAIN queue : queue[k].device = d}
<1>1. /\ pc[t] = "work" /\ At(t, d)
      /\ UNCHANGED <<pc, devices, tick>>
  BY DEF DeviceIsOffline, Offline, Trying, vars
<1>2. RetriesTypeOK
  BY DEF RunInv
<1>3. devices' \subseteq Device /\ tick' \in [Thread -> Ticks] /\ queue \in Seq(PendingRows)
  BY <1>1, <1>2 DEF RetriesTypeOK
<1>4. CASE found = {} /\ fleet' = [fleet EXCEPT ![t].at = "insert"] /\ UNCHANGED queue
  <2>1. /\ fleet' \in [Thread -> Fleets]
        /\ fleet'[t].left = fleet[t].left
        /\ \A u \in Thread \ {t} : fleet'[u] = fleet[u]
    BY <1>2, <1>4, FleetTypes DEF RetriesTypeOK, Fleets
  <2>2. \A e \in Device : At(t, e)' => e = d
    <3>1. ASSUME NEW e \in Device, At(t, e)' PROVE e = d
      <4>1. e \in Nat /\ d \in Nat /\ e <= d /\ d <= e
        BY <1>1, <2>1, <3>1, RetriesOK DEF At
      <4> QED
        BY <4>1
    <3> QED
      BY <3>1
  <2>3. \A e \in Device : At(t, e)' => \A k \in DOMAIN queue' : queue'[k].device # e
    BY <1>4, <2>2
  <2>4. RunInv'
    BY <1>1, <1>3, <1>4, <2>1, <2>3, RunMoves
  <2> QED
    BY <1>1, <1>4, <2>4, SameLists
<1>5. CASE \E k \in found : queue' = Updated(k, queue[k]) /\ Proceed(t, d, FALSE)
  <2>1. PICK k \in DOMAIN queue : queue' = Updated(k, queue[k]) /\ Proceed(t, d, FALSE)
    BY <1>5
  <2>2. queue[k] \in PendingRows /\ Same(queue[k], queue[k])
    BY <1>3 DEF Same
  <2>3. /\ queue' \in Seq(PendingRows)
        /\ \A i, j \in DOMAIN queue' : i # j =>
             \E m, n \in DOMAIN queue : m # n /\ Same(queue'[i], queue[m]) /\ Same(queue'[j], queue[n])
        /\ \A j \in DOMAIN queue : \E i \in DOMAIN queue' : Same(queue'[i], queue[j])
    BY <1>3, <2>1, <2>2, UpdatedRows
  <2>4. /\ fleet' \in [Thread -> Fleets] /\ fleet'[t].at = "next"
        /\ \A u \in Thread \ {t} : fleet'[u] = fleet[u]
    BY <1>2, <2>1, ProceedTypes
  <2>5. RunInv'
    BY <1>1, <1>3, <2>3, <2>4, RunMoves
  <2> QED
    BY <1>1, <2>3, <2>5, RowsStayApart, NoRowIsLost
<1> QED
  BY <1>4, <1>5 DEF DeviceIsOffline, Offline

LEMMA InsertStep ==
  ASSUME IInv, RetriesInv, NEW t \in Thread, NEW d \in Device, InsertRetry(t, d)
  PROVE  RetriesInv'
<1> USE DEF RetriesInv
<1>1. PICK n \in 1..Copies :
        /\ <<d, n>> \notin Ids
        /\ queue' = Append(queue, [id |-> <<d, n>>, device |-> d, retries |-> 0])
  BY DEF InsertRetry
<1> DEFINE new == [id |-> <<d, n>>, device |-> d, retries |-> 0]
<1>2. /\ pc[t] = "work" /\ fleet[t].at = "insert" /\ At(t, d) /\ Proceed(t, d, FALSE)
      /\ UNCHANGED <<pc, devices, tick>>
  BY DEF InsertRetry, vars
<1>3. RetriesTypeOK
  BY DEF RunInv
<1>4. devices' \subseteq Device /\ tick' \in [Thread -> Ticks] /\ queue \in Seq(PendingRows)
  BY <1>2, <1>3 DEF RetriesTypeOK
<1>5. new \in PendingRows
  <2>1. <<d, n>> \in JobId /\ 0 \in 0..Tries - 1
    BY RetriesOK DEF JobId
  <2> QED
    BY <2>1 DEF PendingRows
<1>6. new.id = <<d, n>> /\ new.device = d
  OBVIOUS
<1> HIDE DEF new
<1>7. /\ queue' \in Seq(PendingRows)
      /\ Len(queue) \in Nat
      /\ DOMAIN queue = 1..Len(queue) /\ DOMAIN queue' = 1..Len(queue) + 1
      /\ \A k \in DOMAIN queue : queue'[k] = queue[k]
      /\ queue'[Len(queue) + 1] = new
  <2>1. queue' = Append(queue, new)
    BY <1>1 DEF new
  <2> QED
    BY <1>4, <1>5, <2>1, AppendProperties
<1>8. \A k \in DOMAIN queue : queue[k].device # d /\ queue[k].id # <<d, n>>
  BY <1>1, <1>2 DEF RunInv, InsertIsNew, Ids
<1>9. OneRetryPerDevice'
  <2> SUFFICES ASSUME NEW i \in DOMAIN queue', NEW j \in DOMAIN queue',
                      i # j, queue'[i].device = queue'[j].device
               PROVE queue'[i].device = None
    BY DEF OneRetryPerDevice
  <2>1. CASE i \in DOMAIN queue /\ j \in DOMAIN queue
    BY <1>7, <2>1 DEF QueueInv, OneRetryPerDevice
  <2>2. CASE i = Len(queue) + 1 \/ j = Len(queue) + 1
    BY <1>6, <1>7, <1>8, <2>2
  <2> QED
    BY <1>7, <2>1, <2>2
<1>10. IdsDiffer'
  <2> SUFFICES ASSUME NEW i \in DOMAIN queue', NEW j \in DOMAIN queue', i # j
               PROVE queue'[i].id # queue'[j].id
    BY DEF IdsDiffer
  <2>1. CASE i \in DOMAIN queue /\ j \in DOMAIN queue
    BY <1>7, <2>1 DEF QueueInv, IdsDiffer
  <2>2. CASE i = Len(queue) + 1 \/ j = Len(queue) + 1
    BY <1>6, <1>7, <1>8, <2>2
  <2> QED
    BY <1>7, <2>1, <2>2
<1>11. ListInv'
  <2>1. \A j \in DOMAIN queue : \E i \in DOMAIN queue' : Same(queue'[i], queue[j])
    BY <1>7 DEF Same
  <2> QED
    BY <1>2, <2>1, NoRowIsLost
<1>12. RunInv'
  <2>1. /\ fleet' \in [Thread -> Fleets] /\ fleet'[t].at = "next"
        /\ \A u \in Thread \ {t} : fleet'[u] = fleet[u]
    BY <1>2, <1>3, ProceedTypes
  <2> QED
    BY <1>2, <1>4, <1>7, <2>1, RunMoves
<1> QED
  BY <1>9, <1>10, <1>11, <1>12 DEF QueueInv
-----------------------------------------------------------------------------
(* The end of a run: only the response is new to the tick.                  *)
LEMMA RespondTypes ==
  ASSUME RetriesTypeOK, NEW t \in Thread,
         NEW r \in {"none", "online", "offline", "raised"}, Respond(t, r)
  PROVE  /\ tick' \in [Thread -> Ticks]
         /\ \A u \in Thread : tick'[u].jobs = tick[u].jobs
<1>1. tick[t] \in Ticks
  BY DEF RetriesTypeOK
<1>2. [tick[t] EXCEPT !.response = r] \in Ticks /\ [tick[t] EXCEPT !.response = r].jobs = tick[t].jobs
  BY <1>1 DEF Ticks
<1>3. CASE tick' = [tick EXCEPT ![t].response = r]
  BY <1>2, <1>3 DEF RetriesTypeOK
<1>4. CASE tick' = tick
  BY <1>4 DEF RetriesTypeOK
<1> QED
  BY <1>3, <1>4 DEF Respond

LEMMA RunEnds ==
  ASSUME IInv, RetriesInv, NEW t \in Thread, EndFleet(t) \/ FleetRaises(t)
  PROVE  RetriesInv'
<1> USE DEF RetriesInv
<1>1. /\ pc[t] = "work" /\ UNCHANGED <<devices, queue>>
      /\ fleet' = [fleet EXCEPT ![t] = NoFleet]
      /\ \E r \in {"none", "online", "offline", "raised"} : Respond(t, r)
  BY DEF EndFleet, FleetRaises, EndWork
<1>2. RetriesTypeOK
  BY DEF RunInv
<1>3. tick' \in [Thread -> Ticks] /\ \A u \in Thread : tick'[u].jobs = tick[u].jobs
  BY <1>1, <1>2, RespondTypes
<1>4. \A u \in Thread : fleet'[u].at = "out"
  <2>1. \A u \in Thread \ {t} : fleet[u].at = "out"
    BY <1>1, <1>2, OthersAreOut DEF RunInv
  <2> QED
    BY <1>1, <1>2, <2>1 DEF RetriesTypeOK, NoFleet
<1>5. RetriesTypeOK'
  <2>1. fleet' \in [Thread -> Fleets]
    BY <1>1, <1>2, FleetTypes DEF RetriesTypeOK
  <2> QED
    BY <1>1, <1>2, <1>3, <2>1 DEF RetriesTypeOK
<1>6. RunInv'
  BY <1>4, <1>5 DEF RunInv, RunsWork, InsertIsNew
<1> QED
  BY <1>1, <1>3, <1>6, SameLists

(* Steps that are none of a run.                                            *)
LEMMA RunsUnmoved ==
  ASSUME RunInv, UNCHANGED fleet, \A u \in Thread : pc[u] = "work" => pc'[u] = "work",
         devices' \subseteq Device, queue' \in Seq(PendingRows), tick' \in [Thread -> Ticks],
         \A i \in DOMAIN queue' : \E j \in DOMAIN queue : queue'[i].device \in {queue[j].device, None}
  PROVE  RunInv'
<1>1. RetriesTypeOK' /\ RunsWork'
  BY DEF RunInv, RetriesTypeOK, RunsWork
<1>2. InsertIsNew'
  <2> SUFFICES ASSUME NEW t \in Thread, NEW d \in Device, fleet[t].at = "insert", At(t, d),
                      NEW i \in DOMAIN queue'
               PROVE queue'[i].device # d
    BY DEF InsertIsNew, At
  <2>1. PICK j \in DOMAIN queue : queue'[i].device \in {queue[j].device, None}
    OBVIOUS
  <2> QED
    BY <2>1, RetriesOK DEF RunInv, InsertIsNew
<1> QED
  BY <1>1, <1>2 DEF RunInv

LEMMA RefusedStep ==
  ASSUME IInv, RetriesInv, NEW t \in Thread, FleetRefused(t)
  PROVE  RetriesInv'
<1> USE DEF RetriesInv
<1>1. /\ RefuseRun(t) \/ ReleaseRaises(t)
      /\ Respond(t, "raised") /\ UNCHANGED <<devices, queue, fleet>>
  BY DEF FleetRefused
<1>2. RetriesTypeOK
  BY DEF RunInv
<1>3. tick' \in [Thread -> Ticks] /\ \A u \in Thread : tick'[u].jobs = tick[u].jobs
  BY <1>1, <1>2, RespondTypes
<1>4. \A u \in Thread : pc[u] = "work" => pc'[u] = "work"
  BY <1>1, WorkGoesOn
<1>5. devices' \subseteq Device /\ queue' \in Seq(PendingRows)
  BY <1>1, <1>2 DEF RetriesTypeOK
<1>6. RunInv'
  BY <1>1, <1>3, <1>4, <1>5, RunsUnmoved
<1> QED
  BY <1>1, <1>3, <1>6, SameLists

-----------------------------------------------------------------------------
(* The steps of the tick.                                                   *)
LEMMA ListStep ==
  ASSUME IInv, TickHasDuty, RetriesInv, NEW t \in Thread, ListRetries(t)
  PROVE  RetriesInv'
<1> USE DEF RetriesInv
<1> DEFINE taken == IF Len(queue) < Limit THEN Len(queue) ELSE Limit
           jobs == [k \in 1..taken |-> queue[k].id]
<1>1. /\ pc[t] = "pendingLoop" /\ UNCHANGED <<pc, devices, queue, fleet>>
      /\ tick' = [tick EXCEPT ![t] = [at |-> "loop", jobs |-> jobs, response |-> "none"]]
  BY DEF ListRetries, vars
<1>2. /\ tick \in [Thread -> Ticks] /\ queue \in Seq(PendingRows) /\ Limit \in Nat
      /\ devices \subseteq Device
  BY RetriesOK DEF RunInv, RetriesTypeOK
<1>3. /\ taken \in Nat /\ DOMAIN jobs = 1..taken /\ 1..taken \subseteq DOMAIN queue
      /\ \A k \in 1..taken : jobs[k] = queue[k].id
  BY <1>2
<1>4. jobs \in Seq(JobId)
  <2>1. \A k \in 1..taken : queue[k].id \in JobId
    <3>1. \A r \in PendingRows : r.id \in JobId
      BY DEF PendingRows
    <3>2. \A k \in DOMAIN queue : queue[k] \in PendingRows
      BY <1>2
    <3> QED
      BY <1>3, <3>1, <3>2
  <2>2. jobs \in [1..taken -> JobId]
    BY <2>1
  <2> QED
    BY <1>3, <2>2, SeqDef
<1> HIDE DEF jobs, taken
<1>5. /\ tick' \in [Thread -> Ticks] /\ tick'[t].jobs = jobs
      /\ \A u \in Thread \ {t} : tick'[u] = tick[u]
  <2>1. [at |-> "loop", jobs |-> jobs, response |-> "none"] \in Ticks
    BY <1>4 DEF Ticks
  <2> QED
    BY <1>1, <1>2, <2>1
<1>6. RunInv'
  <2>1. /\ devices' \subseteq Device /\ queue' \in Seq(PendingRows)
        /\ \A i \in DOMAIN queue' : \E j \in DOMAIN queue : queue'[i].device \in {queue[j].device, None}
    BY <1>1, <1>2
  <2> QED
    BY <1>1, <1>5, <2>1, RunsUnmoved
<1>7. QueueInv'
  BY <1>1 DEF QueueInv, OneRetryPerDevice, IdsDiffer
<1>8. ListHasDuty'
  <2>1. "pending" \in Duty[t]
    BY <1>1 DEF IInv, RunHoldsRunLock, TickHasDuty
  <2> QED
    BY <1>5, <2>1 DEF ListInv, ListHasDuty
<1>9. ListsDiffer'
  <2>1. \A i, j \in DOMAIN jobs : i # j => jobs[i] # jobs[j]
    BY <1>3 DEF QueueInv, IdsDiffer
  <2> QED
    BY <1>5, <2>1 DEF ListInv, ListsDiffer
<1>10. ListedIsPending'
  <2>1. ToSet(jobs) \subseteq Ids
    BY <1>3 DEF ToSet, Ids
  <2>2. Ids' = Ids
    BY <1>1 DEF Ids
  <2> QED
    BY <1>5, <2>1, <2>2 DEF ListInv, ListedIsPending
<1> QED
  BY <1>6, <1>7, <1>8, <1>9, <1>10 DEF ListInv

(* The list goes on to its next row; the one before may have ended.         *)
LEMMA NextOnList ==
  ASSUME tick \in [Thread -> Ticks], ListInv, NEW t \in Thread, tick[t].jobs # <<>>,
         tick' = [tick EXCEPT ![t].jobs = Tail(tick[t].jobs), ![t].response = "none"],
         \A id \in Ids : id # Head(tick[t].jobs) => id \in Ids'
  PROVE  tick' \in [Thread -> Ticks] /\ ListInv'
<1> DEFINE jobs == tick[t].jobs
<1>1. tick[t] \in Ticks /\ jobs \in Seq(JobId) /\ jobs # <<>>
  BY DEF Ticks
<1>2. /\ Tail(jobs) \in Seq(JobId) /\ Len(Tail(jobs)) = Len(jobs) - 1
      /\ \A i \in 1..Len(Tail(jobs)) : Tail(jobs)[i] = jobs[i + 1]
  BY <1>1, HeadTailProperties
<1>3. Len(jobs) \in Nat /\ DOMAIN jobs = 1..Len(jobs) /\ Len(jobs) # 0 /\ Head(jobs) = jobs[1]
  BY <1>1
<1>4. /\ DOMAIN Tail(jobs) = 1..Len(jobs) - 1
      /\ \A i \in DOMAIN Tail(jobs) : /\ i + 1 \in DOMAIN jobs /\ i + 1 # 1
                                     /\ Tail(jobs)[i] = jobs[i + 1]
  BY <1>2, <1>3
<1>5. /\ tick' \in [Thread -> Ticks] /\ tick'[t].jobs = Tail(jobs)
      /\ \A u \in Thread \ {t} : tick'[u] = tick[u]
  <2>1. tick' = [tick EXCEPT ![t] = [tick[t] EXCEPT !.jobs = Tail(jobs), !.response = "none"]]
    BY <1>1
  <2>2. [tick[t] EXCEPT !.jobs = Tail(jobs), !.response = "none"] \in Ticks
    BY <1>1, <1>2 DEF Ticks
  <2>3. [tick[t] EXCEPT !.jobs = Tail(jobs), !.response = "none"].jobs = Tail(jobs)
    BY <1>1 DEF Ticks
  <2> QED
    BY <2>1, <2>2, <2>3
<1>6. "pending" \in Duty[t] /\ \A i, j \in DOMAIN jobs : i # j => jobs[i] # jobs[j]
  BY DEF ListInv, ListHasDuty, ListsDiffer
<1>7. ToSet(jobs) \subseteq Ids
  BY DEF ListInv, ListedIsPending
<1> HIDE DEF jobs
<1>8. \A u \in Thread \ {t} : tick[u].jobs = <<>>
  BY <1>6, OneApi DEF ListInv, ListHasDuty
<1>9. ListHasDuty' /\ ListsDiffer'
  <2>1. ListHasDuty'
    BY <1>5, <1>6, <1>8 DEF ListHasDuty
  <2>2. \A i, j \in DOMAIN Tail(jobs) : i # j => Tail(jobs)[i] # Tail(jobs)[j]
    <3>1. ASSUME NEW i \in DOMAIN Tail(jobs), NEW j \in DOMAIN Tail(jobs), i # j
          PROVE Tail(jobs)[i] # Tail(jobs)[j]
      <4>1. i + 1 # j + 1
        BY <1>3, <1>4, <3>1
      <4> QED
        BY <1>4, <1>6, <4>1
    <3> QED
      BY <3>1
  <2>3. \A u \in Thread \ {t} : DOMAIN tick'[u].jobs = {}
    BY <1>5, <1>8
  <2>4. ListsDiffer'
    <3>1. ASSUME NEW u \in Thread
          PROVE \A i, j \in DOMAIN tick'[u].jobs : i # j => tick'[u].jobs[i] # tick'[u].jobs[j]
      <4>1. CASE u = t
        <5> DEFINE rest == Tail(jobs)
        <5>1. tick'[u].jobs = rest
          BY <1>5, <4>1
        <5>2. \A i, j \in DOMAIN rest : i # j => rest[i] # rest[j]
          BY <2>2
        <5> HIDE DEF rest
        <5> QED
          BY <5>1, <5>2
      <4>2. CASE u # t
        BY <2>3, <4>2
      <4> QED
        BY <4>1, <4>2
    <3> QED
      BY <3>1 DEF ListsDiffer
  <2> QED
    BY <2>1, <2>4
<1>10. ToSet(Tail(jobs)) \subseteq Ids'
  <2>1. ASSUME NEW i \in DOMAIN Tail(jobs) PROVE Tail(jobs)[i] \in Ids'
    <3>1. i + 1 \in DOMAIN jobs /\ i + 1 # 1 /\ 1 \in DOMAIN jobs /\ Tail(jobs)[i] = jobs[i + 1]
      BY <1>3, <1>4
    <3>2. jobs[i + 1] # Head(jobs)
      BY <1>3, <1>6, <3>1
    <3>3. jobs[i + 1] \in Ids
      BY <1>7, <3>1 DEF ToSet
    <3> QED
      BY <3>1, <3>2, <3>3 DEF jobs
  <2> QED
    BY <2>1 DEF ToSet
<1>11. ListedIsPending'
  <2>1. \A u \in Thread \ {t} : ToSet(tick'[u].jobs) = {}
    BY <1>5, <1>8 DEF ToSet
  <2> QED
    BY <1>5, <1>10, <2>1 DEF ListedIsPending
<1> QED
  BY <1>5, <1>9, <1>11 DEF ListInv

LEMMA RecordStep ==
  ASSUME IInv, RetriesInv, NEW t \in Thread, FailRetry(t) \/ RecordRetry(t)
  PROVE  RetriesInv'
<1> USE DEF RetriesInv
<1>1. PICK k \in HeadAt(t) :
        \/ Record(t, RemoveAt(queue, k))
        \/ /\ queue[k].retries + 1 < Tries
           /\ Record(t, Updated(k, [queue[k] EXCEPT !.retries = @ + 1]))
  BY DEF FailRetry, RecordRetry
<1>2. /\ UNCHANGED <<pc, devices, fleet>>
      /\ tick' = [tick EXCEPT ![t].jobs = Tail(tick[t].jobs), ![t].response = "none"]
  BY <1>1 DEF Record, vars
<1>3. k \in DOMAIN queue /\ tick[t].jobs # <<>> /\ queue[k].id = Head(tick[t].jobs)
  BY <1>1 DEF HeadAt
<1>4. /\ tick \in [Thread -> Ticks] /\ queue \in Seq(PendingRows) /\ devices \subseteq Device
      /\ queue[k] \in PendingRows
  BY <1>3 DEF RunInv, RetriesTypeOK
<1>5. /\ queue' \in Seq(PendingRows)
      /\ \A i \in DOMAIN queue' : \E j \in DOMAIN queue : Same(queue'[i], queue[j])
      /\ \A i, j \in DOMAIN queue' : i # j =>
           \E m, n \in DOMAIN queue : m # n /\ Same(queue'[i], queue[m]) /\ Same(queue'[j], queue[n])
      /\ \A j \in DOMAIN queue \ {k} : \E i \in DOMAIN queue' : Same(queue'[i], queue[j])
  <2>1. CASE Record(t, RemoveAt(queue, k))
    <3>1. queue' = RemoveAt(queue, k)
      BY <2>1 DEF Record
    <3>2. /\ queue' \in Seq(PendingRows)
          /\ \A i \in DOMAIN queue' : \E j \in DOMAIN queue : j # k /\ Same(queue'[i], queue[j])
          /\ \A i, j \in DOMAIN queue' : i # j =>
               \E m, n \in DOMAIN queue : m # n /\ Same(queue'[i], queue[m]) /\ Same(queue'[j], queue[n])
          /\ \A j \in DOMAIN queue \ {k} : \E i \in DOMAIN queue' : queue'[i] = queue[j]
      BY <1>3, <1>4, <3>1, RemovedRows
    <3>3. \A j \in DOMAIN queue \ {k} : \E i \in DOMAIN queue' : Same(queue'[i], queue[j])
      BY <3>2 DEF Same
    <3> QED
      BY <3>2, <3>3
  <2>2. CASE /\ queue[k].retries + 1 < Tries
             /\ Record(t, Updated(k, [queue[k] EXCEPT !.retries = @ + 1]))
    <3> DEFINE tried == [queue[k] EXCEPT !.retries = @ + 1]
    <3>1. tried \in PendingRows /\ Same(tried, queue[k])
      <4>1. Tries \in Nat /\ queue[k].retries \in 0..Tries - 1
        BY <1>4, RetriesOK DEF PendingRows
      <4>2. queue[k].retries + 1 \in 0..Tries - 1
        BY <2>2, <4>1
      <4> QED
        BY <1>4, <4>2 DEF PendingRows, Same
    <3>2. queue' = Updated(k, tried)
      BY <2>2 DEF Record
    <3> HIDE DEF tried
    <3> QED
      BY <1>3, <1>4, <3>1, <3>2, UpdatedRows
  <2> QED
    BY <1>1, <2>1, <2>2
<1>6. \A id \in Ids : id # Head(tick[t].jobs) => id \in Ids'
  <2>1. ASSUME NEW j \in DOMAIN queue, queue[j].id # queue[k].id PROVE queue[j].id \in Ids'
    <3>1. PICK i \in DOMAIN queue' : Same(queue'[i], queue[j])
      BY <1>5, <2>1
    <3> QED
      BY <3>1 DEF Ids, Same
  <2> QED
    BY <1>3, <2>1 DEF Ids
<1>7. tick' \in [Thread -> Ticks] /\ ListInv'
  BY <1>2, <1>3, <1>4, <1>6, NextOnList
<1>8. QueueInv'
  BY <1>5, RowsStayApart
<1>9. RunInv'
  <2>1. \A i \in DOMAIN queue' : \E j \in DOMAIN queue : queue'[i].device \in {queue[j].device, None}
    BY <1>5 DEF Same
  <2>2. devices' \subseteq Device
    BY <1>2, <1>4
  <2> QED
    BY <1>2, <1>5, <1>7, <2>1, <2>2, RunsUnmoved
<1> QED
  BY <1>7, <1>8, <1>9

LEMMA TickEnds ==
  ASSUME IInv, RetriesInv, NEW t \in Thread, EndTick(t)
  PROVE  RetriesInv'
<1> USE DEF RetriesInv
<1>1. /\ tick' = [tick EXCEPT ![t] = NoTick] /\ UNCHANGED <<devices, queue, fleet>>
  BY DEF EndTick
<1>2. \A u \in Thread : pc[u] = "work" => pc'[u] = "work"
  BY WorkGoesOn DEF EndTick
<1>3. tick \in [Thread -> Ticks] /\ queue \in Seq(PendingRows) /\ devices \subseteq Device
  BY DEF RunInv, RetriesTypeOK
<1>4. NoTick \in Ticks /\ NoTick.jobs = <<>>
  BY DEF NoTick, Ticks
<1>5. /\ tick' \in [Thread -> Ticks] /\ tick'[t].jobs = <<>>
      /\ \A u \in Thread \ {t} : tick'[u] = tick[u]
  BY <1>1, <1>3, <1>4
<1>6. RunInv'
  <2>1. /\ devices' \subseteq Device /\ queue' \in Seq(PendingRows)
        /\ \A i \in DOMAIN queue' : \E j \in DOMAIN queue : queue'[i].device \in {queue[j].device, None}
    BY <1>1, <1>3
  <2> QED
    BY <1>1, <1>2, <1>5, <2>1, RunsUnmoved
<1>7. QueueInv'
  BY <1>1 DEF QueueInv, OneRetryPerDevice, IdsDiffer
<1>8. ListHasDuty' /\ ListsDiffer'
  <2>1. DOMAIN tick'[t].jobs = {}
    BY <1>5
  <2> QED
    BY <1>5, <2>1 DEF ListInv, ListHasDuty, ListsDiffer
<1>9. ListedIsPending'
  <2>1. ToSet(tick'[t].jobs) = {}
    BY <1>5 DEF ToSet
  <2>2. Ids' = Ids
    BY <1>1 DEF Ids
  <2> QED
    BY <1>5, <2>1, <2>2 DEF ListInv, ListedIsPending
<1> QED
  BY <1>6, <1>7, <1>8, <1>9 DEF ListInv

-----------------------------------------------------------------------------
LEMMA DeviceGone ==
  ASSUME RetriesInv, NEW d \in Device, DeleteDevice(d)
  PROVE  RetriesInv'
<1> USE DEF RetriesInv
<1>1. /\ devices' = devices \ {d} /\ UNCHANGED <<pc, fleet, tick>>
      /\ queue' = [k \in DOMAIN queue |->
           IF queue[k].device = d THEN [queue[k] EXCEPT !.device = None] ELSE queue[k]]
  BY DEF DeleteDevice, vars
<1>2. tick \in [Thread -> Ticks] /\ queue \in Seq(PendingRows) /\ devices \subseteq Device
  BY DEF RunInv, RetriesTypeOK
<1>3. Len(queue) \in Nat /\ DOMAIN queue = 1..Len(queue) /\ DOMAIN queue' = DOMAIN queue
  BY <1>1, <1>2
<1>4. \A k \in DOMAIN queue : /\ queue'[k] \in PendingRows
                             /\ queue'[k].id = queue[k].id
                             /\ queue'[k].device \in {queue[k].device, None}
  <2>1. ASSUME NEW k \in DOMAIN queue
        PROVE  /\ queue'[k] \in PendingRows /\ queue'[k].id = queue[k].id
               /\ queue'[k].device \in {queue[k].device, None}
    <3>1. queue[k] \in PendingRows
      BY <1>2
    <3> QED
      BY <1>1, <3>1 DEF PendingRows
  <2> QED
    BY <2>1
<1>5. queue' \in Seq(PendingRows)
  <2>1. queue' \in [1..Len(queue) -> PendingRows]
    BY <1>1, <1>3, <1>4
  <2> QED
    BY <1>3, <2>1, SeqDef
<1>6. QueueInv'
  <2>1. OneRetryPerDevice'
    BY <1>3, <1>4 DEF QueueInv, OneRetryPerDevice
  <2>2. IdsDiffer'
    BY <1>3, <1>4 DEF QueueInv, IdsDiffer
  <2> QED
    BY <2>1, <2>2 DEF QueueInv
<1>7. ListInv'
  <2>1. Ids' = Ids
    BY <1>3, <1>4 DEF Ids
  <2>2. ListedIsPending'
    BY <1>1, <2>1 DEF ListInv, ListedIsPending
  <2> QED
    BY <1>1, <2>2 DEF ListInv, ListHasDuty, ListsDiffer
<1>8. RunInv'
  <2>1. \A i \in DOMAIN queue' : \E j \in DOMAIN queue : queue'[i].device \in {queue[j].device, None}
    BY <1>3, <1>4
  <2>2. devices' \subseteq Device /\ tick' \in [Thread -> Ticks]
    BY <1>1, <1>2
  <2> QED
    BY <1>1, <1>5, <2>1, <2>2, RunsUnmoved
<1> QED
  BY <1>6, <1>7, <1>8

LEMMA CrashStep ==
  ASSUME RetriesInv, NEW p \in Process, CrashFleet(p)
  PROVE  RetriesInv'
<1> USE DEF RetriesInv
<1>1. \A t \in Thread : ProcessOf[t] = p
  BY OneApi, ConstantsOK
<1>2. /\ \A t \in Thread : fleet'[t] = NoFleet /\ tick'[t] = NoTick
      /\ fleet' \in [Thread -> Fleets] /\ tick' \in [Thread -> Ticks]
      /\ UNCHANGED <<devices, queue>>
  <2>1. NoFleet \in Fleets /\ NoTick \in Ticks
    BY RetriesOK DEF Fleets, Ticks, NoFleet, NoTick
  <2> QED
    BY <1>1, <2>1 DEF CrashFleet
<1>3. \A t \in Thread : fleet'[t].at = "out" /\ tick'[t].jobs = <<>>
  BY <1>2 DEF NoFleet, NoTick
<1>4. RunInv'
  <2>1. RetriesTypeOK'
    BY <1>2 DEF RunInv, RetriesTypeOK
  <2> QED
    BY <1>3, <2>1 DEF RunInv, RunsWork, InsertIsNew
<1>5. QueueInv'
  BY <1>2 DEF QueueInv, OneRetryPerDevice, IdsDiffer
<1>6. ListInv'
  <2>1. \A t \in Thread : DOMAIN tick'[t].jobs = {}
    BY <1>3
  <2> QED
    BY <1>3, <2>1 DEF ListInv, ListHasDuty, ListsDiffer, ListedIsPending, ToSet
<1> QED
  BY <1>4, <1>5, <1>6

LEMMA RetriesStep ==
  ASSUME IInv, TickHasDuty, RetriesInv, [RetriesNext]_allVars
  PROVE  RetriesInv'
<1>1. ASSUME NEW t \in Thread, LockStep(t) \/ StartFleet(t) \/ BootApi(t) \/ BeginTick(t)
      PROVE RetriesInv'
  BY <1>1, QuietSteps
<1>2. ASSUME NEW t \in Thread, RunStep(t) PROVE RetriesInv'
  <2>1. ASSUME NEW d \in Device, DeviceStep(t, d) PROVE RetriesInv'
    BY <2>1, FleetGoesOn, OfflineStep, InsertStep DEF DeviceStep
  <2>2. CASE BeginFleet(t)
    BY <2>2, FleetGoesOn
  <2>3. CASE EndFleet(t) \/ FleetRaises(t)
    BY <2>3, RunEnds
  <2> QED
    BY <1>2, <2>1, <2>2, <2>3 DEF RunStep
<1>3. ASSUME NEW t \in Thread, TickStep(t) PROVE RetriesInv'
  BY <1>1, <1>3, ListStep, RecordStep, TickEnds DEF TickStep
<1>4. ASSUME NEW t \in Thread, FleetRefused(t) PROVE RetriesInv'
  BY <1>4, RefusedStep
<1>5. ASSUME NEW d \in Device, DeleteDevice(d) PROVE RetriesInv'
  BY <1>5, DeviceGone
<1>6. ASSUME NEW p \in Process, CrashFleet(p) PROVE RetriesInv'
  BY <1>6, CrashStep
<1>7. CASE TimePasses \/ UNCHANGED allVars
  BY <1>7, QuietSteps
<1> QED
  BY <1>1, <1>2, <1>3, <1>4, <1>5, <1>6, <1>7 DEF RetriesNext, ThreadStep

-----------------------------------------------------------------------------
LEMMA RetriesInductive == RetriesSpec => [](IInv /\ TickHasDuty /\ RetriesInv)
<1>1. RetriesInit => TickHasDuty /\ RetriesInv
  <2>1. RetriesInit => TickHasDuty
    BY DEF RetriesInit, Init, TickHasDuty
  <2> QED
    BY <2>1, RetriesInitInv
<1>2. IInv /\ TickHasDuty /\ RetriesInv /\ [RetriesNext]_allVars => TickHasDuty' /\ RetriesInv'
  BY StepsOfTheLock, DutyStep, RetriesStep
<1>3. RetriesSpec => []IInv
  BY RetriesAreLocked, Inductive, PTL
<1> QED
  BY <1>1, <1>2, <1>3, PTL DEF RetriesSpec

(* Rows, runs and ticks stay within their types.                            *)
THEOREM RetriesTyped == RetriesSpec => []RetriesTypeOK
<1>1. RetriesInv => RetriesTypeOK
  BY DEF RetriesInv, RunInv
<1> QED
  BY <1>1, RetriesInductive, PTL

(* No two rows of a device are PENDING, though no constraint of the table   *)
(* says so: searches and inserts of two runs never mingle.                  *)
THEOREM OneRetry == RetriesSpec => []OneRetryPerDevice
<1>1. RetriesInv => OneRetryPerDevice
  BY DEF RetriesInv, QueueInv
<1> QED
  BY <1>1, RetriesInductive, PTL

(* What a tick read before it ran anything is PENDING when its turn comes.  *)
THEOREM ListedArePending == RetriesSpec => []ListedIsPending
<1>1. RetriesInv => ListedIsPending
  BY DEF RetriesInv, ListInv
<1> QED
  BY <1>1, RetriesInductive, PTL

-----------------------------------------------------------------------------
(* FleetRetries implements RetryBoard.  The order of the rows and who reads *)
(* them are left out: an update in place of an order takes one row away and *)
(* puts one there, as ids differ.                                          *)
LEMMA RowsWithoutOne ==
  ASSUME queue \in Seq(PendingRows), IdsDiffer, NEW k \in DOMAIN queue
  PROVE  /\ queue' = RemoveAt(queue, k) => ToSet(queue)' = ToSet(queue) \ {queue[k]}
         /\ \A pending \in PendingRows : queue' = Updated(k, pending)
              => ToSet(queue)' = (ToSet(queue) \ {queue[k]}) \cup {pending}
<1> DEFINE others == {queue[j] : j \in DOMAIN queue \ {k}}
<1>1. Len(queue) \in Nat /\ DOMAIN queue = 1..Len(queue)
  OBVIOUS
<1>2. others = ToSet(queue) \ {queue[k]}
  BY DEF IdsDiffer, ToSet
<1>3. \A i \in 1..Len(queue) - 1 : Moved(i, k) \in DOMAIN queue \ {k}
  BY <1>1 DEF Moved
<1>4. ASSUME NEW j \in DOMAIN queue \ {k} PROVE \E i \in 1..Len(queue) - 1 : Moved(i, k) = j
  <2>1. CASE j < k
    BY <1>1, <2>1 DEF Moved
  <2>2. CASE j > k
    <3>1. j - 1 \in 1..Len(queue) - 1 /\ Moved(j - 1, k) = j
      BY <1>1, <2>2 DEF Moved
    <3> QED
      BY <3>1
  <2> QED
    BY <1>1, <2>1, <2>2
<1>5. {queue[Moved(i, k)] : i \in 1..Len(queue) - 1} = others
  BY <1>3, <1>4
<1> HIDE DEF others
<1>6. ASSUME queue' = RemoveAt(queue, k) PROVE ToSet(queue)' = others
  <2>1. /\ queue' \in Seq(PendingRows) /\ Len(queue') = Len(queue) - 1
        /\ \A i \in 1..Len(queue) - 1 : queue'[i] = queue[Moved(i, k)]
    BY <1>1, <1>6, RemoveAtProperties
  <2>2. DOMAIN queue' = 1..Len(queue) - 1
    BY <2>1
  <2> QED
    BY <1>5, <2>1, <2>2 DEF ToSet
<1>7. ASSUME NEW pending \in PendingRows, queue' = Updated(k, pending)
      PROVE  ToSet(queue)' = others \cup {pending}
  <2>1. /\ queue' \in Seq(PendingRows) /\ Len(queue') = Len(queue)
        /\ \A i \in 1..Len(queue) - 1 : queue'[i] = queue[Moved(i, k)]
        /\ queue'[Len(queue)] = pending
    <3>1. /\ Updated(k, pending) \in Seq(PendingRows)
          /\ Len(Updated(k, pending)) = Len(queue)
          /\ \A i \in 1..Len(queue) - 1 : /\ Moved(i, k) \in DOMAIN queue
                                         /\ Updated(k, pending)[i] = queue[Moved(i, k)]
          /\ Updated(k, pending)[Len(queue)] = pending
      BY UpdatedProperties
    <3> QED
      BY <1>7, <3>1
  <2>2. DOMAIN queue' = 1..Len(queue) /\ Len(queue) \in 1..Len(queue)
    BY <1>1, <2>1
  <2>3. ToSet(queue)' = {queue'[i] : i \in 1..Len(queue) - 1} \cup {pending}
    <3>1. DOMAIN queue' = (1..Len(queue) - 1) \cup {Len(queue)}
      BY <1>1, <2>2
    <3>2. ToSet(queue)' = {queue'[i] : i \in DOMAIN queue'}
      BY DEF ToSet
    <3> QED
      BY <2>1, <3>1, <3>2
  <2>4. {queue'[i] : i \in 1..Len(queue) - 1} = others
    BY <1>5, <2>1
  <2> QED
    BY <2>3, <2>4
<1> QED
  BY <1>2, <1>6, <1>7

LEMMA BoardStutters ==
  ASSUME UNCHANGED queue PROVE UNCHANGED ToSet(queue)
OBVIOUS

LEMMA OfflineOnBoard ==
  ASSUME RetriesInv, NEW t \in Thread, NEW d \in Device, DeviceIsOffline(t, d)
  PROVE  UNCHANGED ToSet(queue)
<1>1. queue \in Seq(PendingRows) /\ IdsDiffer
  BY DEF RetriesInv, RunInv, RetriesTypeOK, QueueInv
<1>2. CASE UNCHANGED queue
  BY <1>2, BoardStutters
<1>3. ASSUME NEW k \in DOMAIN queue, queue' = Updated(k, queue[k]) PROVE UNCHANGED ToSet(queue)
  <2>1. queue[k] \in PendingRows /\ queue[k] \in ToSet(queue)
    BY <1>1 DEF ToSet
  <2>2. ToSet(queue)' = (ToSet(queue) \ {queue[k]}) \cup {queue[k]}
    BY <1>1, <1>3, <2>1, RowsWithoutOne
  <2> QED
    BY <2>1, <2>2
<1> QED
  BY <1>2, <1>3 DEF DeviceIsOffline, Offline

LEMMA InsertOnBoard ==
  ASSUME RetriesInv, NEW t \in Thread, NEW d \in Device, InsertRetry(t, d)
  PROVE  Board!BoardNext
<1>1. PICK n \in 1..Copies :
        /\ <<d, n>> \notin Ids
        /\ queue' = Append(queue, [id |-> <<d, n>>, device |-> d, retries |-> 0])
  BY DEF InsertRetry
<1> DEFINE new == [id |-> <<d, n>>, device |-> d, retries |-> 0]
<1>2. queue \in Seq(PendingRows) /\ <<d, n>> \in JobId
  BY DEF RetriesInv, RunInv, RetriesTypeOK, JobId
<1>3. \A r \in ToSet(queue) : r.device # d /\ r.id # <<d, n>>
  BY <1>1 DEF RetriesInv, RunInv, InsertIsNew, InsertRetry, Ids, ToSet
<1>4. ToSet(queue)' = ToSet(queue) \cup {new}
  <2>1. queue' = Append(queue, new)
    BY <1>1
  <2> HIDE DEF new
  <2>2. /\ Len(queue) \in Nat /\ DOMAIN queue = 1..Len(queue)
        /\ DOMAIN queue' = 1..Len(queue) + 1
        /\ \A k \in 1..Len(queue) : queue'[k] = queue[k]
        /\ queue'[Len(queue) + 1] = new
    BY <1>2, <2>1
  <2>3. DOMAIN queue' = DOMAIN queue \cup {Len(queue) + 1}
    BY <2>2
  <2> QED
    BY <2>2, <2>3 DEF ToSet
<1>5. Board!Open(d, <<d, n>>)
  BY <1>3, <1>4 DEF Board!Open
<1> QED
  BY <1>2, <1>5 DEF Board!BoardNext

LEMMA RecordOnBoard ==
  ASSUME RetriesInv, NEW t \in Thread, FailRetry(t) \/ RecordRetry(t)
  PROVE  Board!BoardNext
<1>1. PICK k \in DOMAIN queue :
        \/ queue' = RemoveAt(queue, k)
        \/ /\ queue[k].retries + 1 < Tries
           /\ queue' = Updated(k, [queue[k] EXCEPT !.retries = @ + 1])
  BY DEF FailRetry, RecordRetry, Record, HeadAt
<1>2. queue \in Seq(PendingRows) /\ IdsDiffer /\ queue[k] \in ToSet(queue)
  BY DEF RetriesInv, RunInv, RetriesTypeOK, QueueInv, ToSet
<1>3. CASE queue' = RemoveAt(queue, k)
  <2>1. Board!Close(queue[k])
    BY <1>2, <1>3, RowsWithoutOne DEF Board!Close
  <2> QED
    BY <1>2, <2>1 DEF Board!BoardNext
<1>4. CASE /\ queue[k].retries + 1 < Tries
           /\ queue' = Updated(k, [queue[k] EXCEPT !.retries = @ + 1])
  <2> DEFINE tried == [queue[k] EXCEPT !.retries = @ + 1]
  <2>1. tried \in PendingRows
    <3>1. queue[k] \in PendingRows /\ Tries \in Nat
      BY <1>2, RetriesOK
    <3>2. queue[k].retries + 1 \in 0..Tries - 1
      BY <1>4, <3>1 DEF PendingRows
    <3> QED
      BY <3>1, <3>2 DEF PendingRows
  <2>2. ToSet(queue)' = (ToSet(queue) \ {queue[k]}) \cup {tried}
    BY <1>2, <1>4, <2>1, RowsWithoutOne
  <2>3. Board!UseTry(queue[k])
    BY <1>4, <2>2 DEF Board!UseTry
  <2> QED
    BY <1>2, <2>3 DEF Board!BoardNext
<1> QED
  BY <1>1, <1>3, <1>4

LEMMA DeletionOnBoard ==
  ASSUME RetriesInv, NEW d \in Device, DeleteDevice(d)
  PROVE  Board!BoardNext
<1>1. /\ queue \in Seq(PendingRows)
      /\ queue' = [k \in DOMAIN queue |->
           IF queue[k].device = d THEN [queue[k] EXCEPT !.device = None] ELSE queue[k]]
  BY DEF DeleteDevice, RetriesInv, RunInv, RetriesTypeOK
<1>2. Board!Orphan(d)
  BY <1>1 DEF Board!Orphan, ToSet
<1> QED
  BY <1>2 DEF Board!BoardNext

LEMMA StepOnBoard ==
  ASSUME RetriesInv, [RetriesNext]_allVars
  PROVE  Board!BoardNext \/ UNCHANGED ToSet(queue)
<1>1. ASSUME NEW t \in Thread,
             \/ LockStep(t) \/ StartFleet(t) \/ BootApi(t) \/ BeginTick(t) \/ FleetRefused(t)
             \/ BeginFleet(t) \/ EndFleet(t) \/ FleetRaises(t) \/ ListRetries(t) \/ EndTick(t)
      PROVE  UNCHANGED ToSet(queue)
  <2>1. UNCHANGED queue
    BY <1>1 DEF LockStep, StartFleet, BootApi, BeginTick, FleetRefused, BeginFleet, EndFleet,
                FleetRaises, ListRetries, EndTick, retries
  <2> QED
    BY <2>1, BoardStutters
<1>2. ASSUME NEW t \in Thread, NEW d \in Device, SkipDevice(t, d) \/ DeviceAnswers(t, d) \/ AttemptFails(t, d)
      PROVE  UNCHANGED ToSet(queue)
  BY <1>2, BoardStutters DEF SkipDevice, DeviceAnswers, AttemptFails
<1>3. CASE (\E p \in Process : CrashFleet(p)) \/ TimePasses \/ UNCHANGED allVars
  BY <1>3, BoardStutters DEF CrashFleet, TimePasses, allVars, retries
<1>4. ASSUME NEW t \in Thread, ThreadStep(t) PROVE Board!BoardNext \/ UNCHANGED ToSet(queue)
  BY <1>1, <1>2, <1>4, OfflineOnBoard, InsertOnBoard, RecordOnBoard
     DEF ThreadStep, RunStep, DeviceStep, TickStep
<1> QED
  BY <1>1, <1>3, <1>4, DeletionOnBoard DEF RetriesNext

(* Whatever fleet runs, ticks, deletions, crashes and restarts do to the    *)
(* PENDING rows at the same time, a device waits for one retry, a retry is  *)
(* given no try back, and none uses more tries than it has.                *)
THEOREM RetryRefinement == RetriesSpec => ImplementsRetryBoard
<1>1. RetriesInit => ToSet(queue) = {}
  BY DEF RetriesInit, ToSet
<1>2. RetriesInv /\ [RetriesNext]_allVars => [Board!BoardNext]_(ToSet(queue))
  BY StepOnBoard
<1> QED
  BY <1>1, <1>2, RetriesInductive, PTL
     DEF RetriesSpec, ImplementsRetryBoard, Board!BoardSpec, Board!BoardInit
=============================================================================
