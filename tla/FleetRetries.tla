---------------------------- MODULE FleetRetries ----------------------------
(* What a fleet auto backup does while it holds the lock of JobLock, and    *)
(* the auto_backup_pending rows of backup_jobs: a run leaves one for each   *)
(* device it could not reach, and the pending tick runs a fleet backup of   *)
(* that one device for each, until the device answers or the tries are used *)
(* up.  A step of JobLock is a step here, with what it means for the run    *)
(* and the tick it belongs to.                                             *)
EXTENDS JobLock, SequencesExt

CONSTANTS
  Device,       \* device ids, the order in which a run takes them
  Attempts,     \* AUTO_BACKUP_MAX_RETRIES: attempts at a device in one run
  Tries,        \* AUTO_BACKUP_PENDING_MAX_RETRIES: runs for one pending row
  Limit,        \* pending rows one tick takes
  Copies        \* rows of one device at a time; what tells them apart is
                \* used again once no row and no tick has it

ASSUME RetriesOK ==
  /\ Device \subseteq Nat
  /\ {Attempts, Tries, Limit, Copies} \subseteq Nat \ {0}
  /\ None \notin Device

(* One API process, whose scheduler runs a job once at a time               *)
(* (docker-compose.yml has one container; max_instances = 1).              *)
ASSUME OneApi ==
  /\ \A p, q \in Process : p = q
  /\ \A t, u \in Thread : "pending" \in Duty[t] \cap Duty[u] => t = u

VARIABLES
  devices,      \* devices that exist
  queue,        \* the PENDING rows, in the order of their updated_at
  fleet,        \* per thread: its place in _run_auto_backups, the devices
                \* left, the attempts that failed at the first of them, and
                \* whether the device of a pending row was online
  tick          \* per thread: its place in process_pending_auto_backups, the
                \* rows left and how the run for the first of them ended

retries == <<devices, queue, fleet, tick>>
allVars == <<vars, retries>>

NoFleet == [at |-> "out", left |-> {}, failed |-> 0, online |-> FALSE]
NoTick == [at |-> "out", jobs |-> <<>>, response |-> "none"]

JobId == Device \X (1..Copies)
PendingRows == [id : JobId, device : Device \cup {None}, retries : 0..Tries - 1]
Fleets == [at : {"out", "next", "insert"}, left : SUBSET Device,
           failed : 0..Attempts - 1, online : BOOLEAN]
Ticks == [at : {"out", "loop"}, jobs : Seq(JobId),
          response : {"none", "online", "offline", "raised"}]

RetriesTypeOK ==
  /\ devices \subseteq Device
  /\ queue \in Seq(PendingRows)
  /\ fleet \in [Thread -> Fleets]
  /\ tick \in [Thread -> Ticks]

RetriesInit ==
  /\ Init
  /\ devices = Device
  /\ queue = <<>>
  /\ fleet = [t \in Thread |-> NoFleet]
  /\ tick = [t \in Thread |-> NoTick]

-----------------------------------------------------------------------------
Ids == {queue[k].id : k \in DOMAIN queue}

(* The row at k is updated, which gives it the latest updated_at.           *)
Updated(k, pending) == Append(RemoveAt(queue, k), pending)

(* Where the row is that the tick is at.                                    *)
HeadAt(t) == {k \in DOMAIN queue : tick[t].jobs # <<>> /\ queue[k].id = Head(tick[t].jobs)}

-----------------------------------------------------------------------------
(* _run_auto_backups: the devices asked for that exist and have automatic   *)
(* backups; of a pending row, its device or none.                          *)
BeginFleet(t) ==
  /\ pc[t] = "work" /\ fleet[t].at = "out"
  /\ \E chosen \in SUBSET (IF op[t] = "pendingRun"
                           THEN {queue[k].device : k \in HeadAt(t)} \cap devices
                           ELSE devices) :
       fleet' = [fleet EXCEPT ![t] =
         [at |-> "next", left |-> chosen, failed |-> 0, online |-> FALSE]]
  /\ UNCHANGED <<vars, devices, queue, tick>>

At(t, d) == d \in fleet[t].left /\ \A e \in fleet[t].left : d <= e

(* The run is done with d.                                                  *)
Proceed(t, d, online) ==
  fleet' = [fleet EXCEPT ![t] = [at |-> "next", left |-> fleet[t].left \ {d},
                                 failed |-> 0, online |-> online /\ op[t] = "pendingRun"]]

Trying(t, d) == pc[t] = "work" /\ fleet[t].at = "next" /\ At(t, d)

(* A device without backup paths is passed over, unless no device has any.  *)
SkipDevice(t, d) ==
  /\ Trying(t, d) /\ op[t] = "auto"
  /\ Proceed(t, d, FALSE)
  /\ UNCHANGED <<vars, devices, queue, tick>>

(* Mutant: a device that answers has no use for its pending row any more.   *)
AnswerEndsRetry(t, d) ==
  /\ Trying(t, d) /\ d \in devices
  /\ Proceed(t, d, TRUE)
  /\ queue' = SelectSeq(queue, LAMBDA r : r.device # d)
  /\ UNCHANGED <<vars, devices, tick>>

DeviceAnswers(t, d) ==
  /\ Trying(t, d) /\ d \in devices
  /\ Proceed(t, d, TRUE)
  /\ UNCHANGED <<vars, devices, queue, tick>>

AttemptFails(t, d) ==
  /\ Trying(t, d) /\ d \in devices
  /\ fleet[t].failed + 1 < Attempts
  /\ fleet' = [fleet EXCEPT ![t].failed = fleet[t].failed + 1]
  /\ UNCHANGED <<vars, devices, queue, tick>>

(* The last attempt failed; ensure_pending_auto_backup_job looks for a      *)
(* PENDING row of the device and updates the message of the one it finds.   *)
Offline(t, d, found) ==
  /\ Trying(t, d) /\ d \in devices
  /\ fleet[t].failed + 1 = Attempts
  /\ \/ /\ found = {}
        /\ fleet' = [fleet EXCEPT ![t].at = "insert"]
        /\ UNCHANGED queue
     \/ \E k \in found : queue' = Updated(k, queue[k]) /\ Proceed(t, d, FALSE)
  /\ UNCHANGED <<vars, devices, tick>>

(* Mutant: a row that was tried before is not taken for this failure's.     *)
OfflineAnew(t, d) == Offline(t, d, {k \in DOMAIN queue : queue[k].device = d /\ queue[k].retries = 0})

(* Mutant: the failure of a device that waits already begins its retry anew.*)
OfflineAfresh(t, d) ==
  /\ Trying(t, d) /\ d \in devices /\ fleet[t].failed + 1 = Attempts
  /\ \/ \E k \in DOMAIN queue :
           /\ queue[k].device = d
           /\ queue' = Updated(k, [queue[k] EXCEPT !.retries = 0])
           /\ Proceed(t, d, FALSE)
     \/ /\ \A k \in DOMAIN queue : queue[k].device # d
        /\ fleet' = [fleet EXCEPT ![t].at = "insert"]
        /\ UNCHANGED queue
  /\ UNCHANGED <<vars, devices, tick>>

DeviceIsOffline(t, d) == Offline(t, d, {k \in DOMAIN queue : queue[k].device = d})

InsertRetry(t, d) ==
  /\ pc[t] = "work" /\ fleet[t].at = "insert" /\ At(t, d) /\ d \in devices
  /\ \E n \in 1..Copies :
       LET Free(m) == <<d, m>> \notin Ids /\ \A u \in Thread : <<d, m>> \notin ToSet(tick[u].jobs)
       IN /\ Free(n) /\ \A m \in 1..n - 1 : ~Free(m)
          /\ queue' = Append(queue, [id |-> <<d, n>>, device |-> d, retries |-> 0])
  /\ Proceed(t, d, FALSE)
  /\ UNCHANGED <<vars, devices, tick>>

(* How the run for the row the tick is at ended.                            *)
Respond(t, response) ==
  tick' = IF op[t] = "pendingRun" THEN [tick EXCEPT ![t].response = response] ELSE tick

EndFleet(t) ==
  /\ EndWork(t)
  /\ fleet[t].at = "next" /\ fleet[t].left = {}
  /\ Respond(t, IF fleet[t].online THEN "online" ELSE "offline")
  /\ fleet' = [fleet EXCEPT ![t] = NoFleet]
  /\ UNCHANGED <<devices, queue>>

(* No path of any device, no credentials of the next one, a device deleted  *)
(* by now, or a statement that fails: the exception ends the run, and what  *)
(* is left of its devices is not looked at.                                *)
FleetRaises(t) ==
  /\ EndWork(t)
  /\ fleet[t].at # "out" /\ fleet[t].left # {}
  /\ fleet[t].at = "insert" => DbMayFail \/ \E d \in fleet[t].left \ devices : At(t, d)
  /\ Respond(t, "raised")
  /\ fleet' = [fleet EXCEPT ![t] = NoFleet]
  /\ UNCHANGED <<devices, queue>>

-----------------------------------------------------------------------------
(* process_pending_auto_backups lists what is PENDING, oldest update first. *)
ListRetries(t) ==
  /\ pc[t] = "pendingLoop" /\ tick[t].at = "out"
  /\ LET taken == IF Len(queue) < Limit THEN Len(queue) ELSE Limit IN
       tick' = [tick EXCEPT ![t] =
         [at |-> "loop", jobs |-> [k \in 1..taken |-> queue[k].id], response |-> "none"]]
  /\ UNCHANGED <<vars, devices, queue, fleet>>

AtRetry(t) == pc[t] = "pendingLoop" /\ tick[t].at = "loop" /\ tick[t].jobs # <<>>

(* Done with the row at k (it is PENDING still: ListedIsPending).           *)
Record(t, queueAfter) ==
  /\ queue' = queueAfter
  /\ tick' = [tick EXCEPT ![t].jobs = Tail(tick[t].jobs), ![t].response = "none"]
  /\ UNCHANGED <<vars, devices, fleet>>

(* The device of the row was deleted: FAILED, and on to the next row.       *)
FailRetry(t) ==
  /\ AtRetry(t) /\ tick[t].response = "none"
  /\ \E k \in HeadAt(t) : queue[k].device = None /\ Record(t, RemoveAt(queue, k))

(* run_auto_backups, by the tick for the row it is at or by anyone else.  A *)
(* device deleted after its row was read makes it a run without devices.   *)
StartFleet(t) ==
  /\ StartRun(t)
  /\ pc[t] = "pendingLoop" =>
       AtRetry(t) /\ tick[t].response = "none" /\ \E k \in HeadAt(t) : queue[k].device # None
  /\ UNCHANGED retries

(* Mutant: the row is given up one try late.                                *)
RecordRetryLate(t) ==
  /\ AtRetry(t) /\ tick[t].response # "none"
  /\ \E k \in HeadAt(t) :
       LET again == tick[t].response # "online" /\ queue[k].retries < Tries IN
       \/ again /\ Record(t, Updated(k, [queue[k] EXCEPT !.retries = @ + 1]))
       \/ ~again /\ Record(t, RemoveAt(queue, k))

(* Mutant: a run that was refused or failed is no try.                      *)
RecordChecksOnly(t) ==
  /\ AtRetry(t) /\ tick[t].response # "none"
  /\ \E k \in HeadAt(t) :
       LET again == tick[t].response # "online" /\ queue[k].retries + 1 < Tries IN
       \/ tick[t].response = "raised" /\ Record(t, Updated(k, queue[k]))
       \/ tick[t].response # "raised" /\ again
            /\ Record(t, Updated(k, [queue[k] EXCEPT !.retries = @ + 1]))
       \/ tick[t].response # "raised" /\ ~again /\ Record(t, RemoveAt(queue, k))

(* Online: SUCCESS.  Otherwise, refused and failed runs included, one more  *)
(* try is used up: PENDING with a new updated_at, or SKIPPED after the last.*)
RecordRetry(t) ==
  /\ AtRetry(t) /\ tick[t].response # "none"
  /\ \E k \in HeadAt(t) :
       LET again == tick[t].response # "online" /\ queue[k].retries + 1 < Tries IN
       \/ again /\ Record(t, Updated(k, [queue[k] EXCEPT !.retries = @ + 1]))
       \/ ~again /\ Record(t, RemoveAt(queue, k))

(* The list is done with, or a statement of the tick itself failed.         *)
EndTick(t) ==
  /\ \/ PendingDone(t) /\ tick[t].at = "loop" /\ tick[t].jobs = <<>>
     \/ ProbeFails(t)
  /\ tick' = [tick EXCEPT ![t] = NoTick]
  /\ UNCHANGED <<devices, queue, fleet>>

(* The run was refused, or its release failed: the caller gets an error.    *)
FleetRefused(t) ==
  /\ RefuseRun(t) \/ ReleaseRaises(t)
  /\ Respond(t, "raised")
  /\ UNCHANGED <<devices, queue, fleet>>

-----------------------------------------------------------------------------
(* DELETE /devices/{id}: pending rows lose their device.                    *)
DeleteDevice(d) ==
  /\ d \in devices
  /\ devices' = devices \ {d}
  /\ queue' = [k \in DOMAIN queue |->
       IF queue[k].device = d THEN [queue[k] EXCEPT !.device = None] ELSE queue[k]]
  /\ UNCHANGED <<vars, fleet, tick>>

CrashFleet(p) ==
  /\ Crash(p)
  /\ fleet' = [t \in Thread |-> IF ProcessOf[t] = p THEN NoFleet ELSE fleet[t]]
  /\ tick' = [t \in Thread |-> IF ProcessOf[t] = p THEN NoTick ELSE tick[t]]
  /\ UNCHANGED <<devices, queue>>

(* Statements of the lock that change nothing here.                         *)
LockStep(t) ==
  /\ \/ SweepRead(t) \/ SweepDelete(t) \/ SweepFails(t) \/ Probe(t) \/ ProbeDelete(t)
     \/ SelectForUpdate(t) \/ SelectFails(t)
     \/ CommitTakeover(t) \/ CommitStaleDelete(t) \/ CommitInsert(t) \/ CommitLost(t)
     \/ ReleaseRead(t) \/ ReleaseDelete(t)
  /\ UNCHANGED retries

DeviceStep(t, d) ==
  \/ SkipDevice(t, d) \/ DeviceAnswers(t, d) \/ AttemptFails(t, d)
  \/ DeviceIsOffline(t, d) \/ InsertRetry(t, d)

RunStep(t) == BeginFleet(t) \/ EndFleet(t) \/ FleetRaises(t) \/ \E d \in Device : DeviceStep(t, d)

TickStep(t) ==
  \/ ListRetries(t) \/ FailRetry(t) \/ RecordRetry(t) \/ EndTick(t)
  \/ pc[t] = "pendingLoop" /\ StartFleet(t)

ThreadStep(t) == LockStep(t) \/ RunStep(t) \/ TickStep(t) \/ FleetRefused(t)

BeginTick(t) == StartSweeper(t, "pending") /\ UNCHANGED retries
BootApi(t) == Boot(t) /\ UNCHANGED retries
TimePasses == Tick /\ UNCHANGED retries

RetriesNext ==
  \/ \E t \in Thread : ThreadStep(t) \/ BootApi(t) \/ BeginTick(t) \/ StartFleet(t)
  \/ \E d \in Device : DeleteDevice(d)
  \/ \E p \in Process : CrashFleet(p)
  \/ TimePasses

RetriesSpec == RetriesInit /\ [][RetriesNext]_allVars

(* Fairness: a thread inside an entry point keeps executing (attempts at a  *)
(* device have timeouts and their number a limit), the clock advances, a    *)
(* stopped API is started again (restart: unless-stopped), the scheduler    *)
(* keeps firing the pending tick, and the API does not crash for ever.      *)
RetriesFairness ==
  /\ \A t \in Thread : WF_allVars(ThreadStep(t))
  /\ WF_allVars(\E t \in Thread : BootApi(t))
  /\ WF_allVars(\E t \in Thread : BeginTick(t))
  /\ WF_allVars(TimePasses)
  /\ <>[][\A p \in Process : ~Crash(p)]_allVars

FairRetriesSpec == RetriesSpec /\ RetriesFairness

-----------------------------------------------------------------------------
(* A device waits for one retry at most: the search for its PENDING row and *)
(* the insert are two statements without a constraint, so this is what runs *)
(* that exclude each other promise (ensure_pending_auto_backup_job under    *)
(* _AUTO_BACKUP_LOCK), past leases that run out and rows removed from under *)
(* a run.                                                                  *)
OneRetryPerDevice ==
  \A i, j \in DOMAIN queue : i # j /\ queue[i].device = queue[j].device => queue[i].device = None

(* Runs and ticks, whose failures meet at the same rows                     *)
(* (ensure_pending_auto_backup_job and process_pending_auto_backups),       *)
(* together keep the promise of RetryBoard: a retry is not given back a try *)
(* it has used, and none is opened beside one that is open.                *)
Board == INSTANCE RetryBoard WITH rows <- ToSet(queue)
ImplementsRetryBoard == Board!BoardSpec

(* What the tick still has on its list is PENDING: no run that comes between*)
(* its list and its turn, for the same device or another, ends a row, so    *)
(* the result the tick writes is the only one the row gets.                 *)
ListedIsPending == \A t \in Thread : ToSet(tick[t].jobs) \subseteq Ids

(* A pending retry ends, SUCCESS, SKIPPED or FAILED, as long as ticks do    *)
(* get past the lock now and then: refused and failing runs use up tries    *)
(* too, and rows that fleet runs touch do not lose their turn.              *)
Waiting(d) == \E id \in Ids : id[1] = d
TicksGetIn == []<>(\E t \in Thread : tick[t].at = "loop")
PendingRetryEnds == TicksGetIn => \A d \in Device : Waiting(d) ~> ~Waiting(d)
=============================================================================
