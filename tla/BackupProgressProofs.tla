------------------------ MODULE BackupProgressProofs ------------------------
(***************************************************************************)
(* TypeOK, CombinedCancelledOnlyIfAsked, CancelStopsTheBackup and          *)
(* CancelStaysOnDisplay for any number of runs and objects.  The           *)
(* invariants follow the event from the entry on display to the run that   *)
(* captures it: it is not set unless somebody asked since the backup       *)
(* started, and it is set if somebody told this backup to stop.            *)
(***************************************************************************)
EXTENDS BackupProgress, TLAPS

(* The event run r would capture now, or has captured, is set only if asked.*)
SeesOnlyItsOwnCancel(r) ==
  /\ pc[r] = "prepare" =>
       active \in State /\ (state[active].cancel => r \in asked)
  /\ pc[r] = "download" =>
       event[r] \in State /\ (state[event[r]].cancel => r \in asked)
  /\ pc[r] = "cancelling" => r \in asked
  /\ outcome[r] = "cancelled" => r \in asked

IInv == TypeOK /\ \A r \in CombinedRun : SeesOnlyItsOwnCancel(r)

Objects == [status : Status, stage : Stage, cancel : BOOLEAN, by : CombinedRun \cup {None}]

-----------------------------------------------------------------------------
(* Collecting keeps the objects well typed and those in use as they are.    *)
LEMMA CollectTypes ==
  ASSUME NEW f \in [State -> Objects]
  PROVE  Collect(f) \in [State -> Objects]
BY DEF Collect, NewState, Objects, Status, Stage

LEMMA CollectKeeps ==
  ASSUME NEW f \in [State -> Objects], NEW s \in State,
         s = active' \/ \E r \in Run : event'[r] = s
  PROVE  Collect(f)[s] = f[s]
BY DEF Collect

(* Settling changes no event.                                               *)
LEMMA SettleKeepsEvents ==
  ASSUME TypeOK, NEW st \in Status \cap Stage, Settle(st), NEW s \in State,
         s = active' \/ \E r \in Run : event'[r] = s
  PROVE  state'[s].cancel = state[s].cancel
<1> DEFINE f == IF active = None THEN state
                ELSE [state EXCEPT ![active].status = st, ![active].stage = st]
<1>1. state \in [State -> Objects] /\ active \in State \cup {None}
  BY DEF TypeOK, Objects
<1>2. f \in [State -> Objects]
  BY <1>1 DEF Objects
<1>3. f[s].cancel = state[s].cancel
  BY <1>1 DEF Objects
<1>4. state' = Collect(f)
  BY DEF Settle
<1> HIDE DEF f
<1>5. Collect(f)[s] = f[s]
  BY <1>2, CollectKeeps
<1> QED BY <1>3, <1>4, <1>5

LEMMA SettleTypes ==
  ASSUME TypeOK, NEW st \in Status \cap Stage, Settle(st)
  PROVE  state' \in [State -> Objects]
<1> DEFINE f == IF active = None THEN state
                ELSE [state EXCEPT ![active].status = st, ![active].stage = st]
<1>1. f \in [State -> Objects]
  BY DEF TypeOK, Objects
<1>2. state' = Collect(f)
  BY DEF Settle
<1> HIDE DEF f
<1> QED BY <1>1, <1>2, CollectTypes

-----------------------------------------------------------------------------
LEMMA InitTypes == Init => TypeOK
BY DEF Init, TypeOK, Pc, Outcome, NewState, Status, Stage, Run

LEMMA NextTypes ==
  ASSUME TypeOK, [Next]_vars
  PROVE  TypeOK'
<1>1. ASSUME NEW r \in CombinedRun, StartCombined(r) PROVE TypeOK'
  <2>1. r \in Run
    BY DEF Run
  <2>2. PICK s \in State : active' = s /\ state' = Collect([state EXCEPT ![s] = NewState(r)])
    BY <1>1 DEF StartCombined
  <2>3. [state EXCEPT ![s] = NewState(r)] \in [State -> Objects]
    BY DEF TypeOK, Objects, NewState, Status, Stage
  <2>4. state' \in [State -> Objects]
    BY <2>2, <2>3, CollectTypes
  <2> QED
    BY <1>1, <2>1, <2>2, <2>4 DEF StartCombined, Begin, Goto, TypeOK, Pc, Outcome, Objects
<1>2. ASSUME NEW r \in AutoRun, StartAuto(r) PROVE TypeOK'
  BY <1>2 DEF StartAuto, Begin, Goto, TypeOK, Pc, Outcome, Run
<1>3. ASSUME NEW r \in Run, Step(r) PROVE TypeOK'
  <2>1. CASE EndEarly(r)
    BY <2>1 DEF EndEarly, End, Goto, TypeOK, Pc, Outcome
  <2>2. CASE Capture(r)
    BY <2>2 DEF Capture, Goto, TypeOK, Pc
  <2>3. CASE Report(r)
    BY <2>3 DEF Report, TypeOK, Stage
  <2>4. CASE SeeCancel(r) \/ LastLook(r) \/ WorkFails(r) \/ Save(r)
    BY <2>4 DEF SeeCancel, LastLook, WorkFails, Save, Goto, TypeOK, Pc
  <2>5. CASE Complete(r)
    <3>1. state' \in [State -> Objects]
      BY <2>5, SettleTypes DEF Complete, Status, Stage
    <3> QED
      BY <2>5, <3>1 DEF Complete, End, Goto, TypeOK, Pc, Outcome, Objects
  <2>6. CASE Fail(r)
    <3>1. state' \in [State -> Objects]
      BY <2>6, SettleTypes DEF Fail, Status, Stage
    <3> QED
      BY <2>6, <3>1 DEF Fail, End, Goto, TypeOK, Pc, Outcome, Objects
  <2> QED
    BY <1>3, <2>1, <2>2, <2>3, <2>4, <2>5, <2>6 DEF Step
<1>4. CASE Cancel
  <2>1. state' \in [State -> Objects]
    <3>1. state \in [State -> Objects] /\ active \in State
      BY <1>4 DEF Cancel, TypeOK, Objects
    <3> DEFINE f == [state EXCEPT ![active].status = "cancelled"]
               g == [f EXCEPT ![active].stage = "cancelled"]
               h == [g EXCEPT ![active].cancel = TRUE]
    <3>2. f \in [State -> Objects]
      BY <3>1 DEF Objects, Status
    <3>3. g \in [State -> Objects]
      <4> HIDE DEF f
      <4> QED BY <3>1, <3>2 DEF Objects, Stage
    <3>4. h \in [State -> Objects]
      <4> HIDE DEF g
      <4> QED BY <3>1, <3>3 DEF Objects
    <3>5. state' = h
      BY <1>4 DEF Cancel
    <3> QED BY <3>4, <3>5
  <2> QED
    BY <1>4, <2>1 DEF Cancel, TypeOK, Objects, Run
<1>5. CASE Restart
  BY <1>5 DEF Restart, TypeOK, Pc, Outcome, NewState, Status, Stage, Run
<1>6. CASE UNCHANGED vars
  BY <1>6 DEF vars, TypeOK
<1> QED
  BY <1>1, <1>2, <1>3, <1>4, <1>5, <1>6 DEF Next

(* Every reachable state is well typed, whatever the runs and objects.      *)
THEOREM TypeCorrect == Spec => []TypeOK
<1>1. Init => TypeOK
  BY InitTypes
<1>2. TypeOK /\ [Next]_vars => TypeOK'
  BY NextTypes
<1> QED
  BY <1>1, <1>2, PTL DEF Spec

-----------------------------------------------------------------------------
LEMMA InitSees == Init => \A r \in CombinedRun : SeesOnlyItsOwnCancel(r)
BY DEF Init, SeesOnlyItsOwnCancel, Run

(* A run's own step.                                                        *)
LEMMA OwnStepSees ==
  ASSUME TypeOK, NEW r \in CombinedRun, SeesOnlyItsOwnCancel(r),
         StartCombined(r) \/ Step(r)
  PROVE  SeesOnlyItsOwnCancel(r)'
<1>1. r \in Run /\ r \notin AutoRun
  BY RunsOK DEF RunsOK, Run
<1>2. CASE StartCombined(r)
  <2>1. PICK s \in State : active' = s /\ state' = Collect([state EXCEPT ![s] = NewState(r)])
    BY <1>2 DEF StartCombined
  <2>2. [state EXCEPT ![s] = NewState(r)] \in [State -> Objects]
    BY DEF TypeOK, Objects, NewState, Status, Stage
  <2>3. state'[s] = NewState(r)
    <3>1. state'[s] = [state EXCEPT ![s] = NewState(r)][s]
      BY <2>1, <2>2, CollectKeeps
    <3> QED BY <3>1 DEF TypeOK
  <2>4. pc'[r] = "prepare" /\ outcome'[r] = "none"
    BY <1>1, <1>2 DEF StartCombined, Begin, Goto, TypeOK
  <2> QED
    BY <2>1, <2>3, <2>4 DEF SeesOnlyItsOwnCancel, NewState
<1>3. CASE EndEarly(r)
  <2>1. pc'[r] = "idle" /\ outcome'[r] = "failed"
    BY <1>1, <1>3 DEF EndEarly, End, Goto, TypeOK
  <2> QED BY <2>1 DEF SeesOnlyItsOwnCancel
<1>4. CASE Capture(r)
  <2>1. pc'[r] = "download" /\ event'[r] = active /\ pc[r] = "prepare"
    BY <1>1, <1>4 DEF Capture, Goto, TypeOK
  <2> QED BY <1>4, <2>1 DEF Capture, SeesOnlyItsOwnCancel
<1>5. CASE Report(r)
  BY <1>5 DEF Report, SeesOnlyItsOwnCancel, TypeOK
<1>6. CASE SeeCancel(r)
  <2>1. pc'[r] = "cancelling" /\ pc[r] = "download"
    BY <1>1, <1>6 DEF SeeCancel, Goto, TypeOK
  <2> QED BY <1>6, <2>1 DEF SeeCancel, IsSet, SeesOnlyItsOwnCancel
<1>7. CASE LastLook(r) \/ WorkFails(r) \/ Save(r)
  <2>1. pc'[r] \in {"save", "failing", "saved"}
    BY <1>1, <1>7 DEF LastLook, WorkFails, Save, Goto, TypeOK
  <2> QED BY <1>7, <2>1 DEF LastLook, WorkFails, Save, SeesOnlyItsOwnCancel
<1>8. CASE Complete(r)
  <2>1. pc'[r] = "idle" /\ outcome'[r] = "success"
    BY <1>1, <1>8 DEF Complete, End, Goto, TypeOK
  <2> QED BY <2>1 DEF SeesOnlyItsOwnCancel
<1>9. CASE Fail(r)
  <2>1. pc'[r] = "idle"
    BY <1>1, <1>9 DEF Fail, End, Goto, TypeOK
  <2>2. CASE pc[r] = "cancelling"
    BY <1>9, <2>1, <2>2 DEF Fail, End, SeesOnlyItsOwnCancel
  <2>3. CASE pc[r] # "cancelling"
    <3>1. outcome'[r] = "failed"
      BY <1>1, <1>9, <2>3 DEF Fail, End, TypeOK
    <3> QED BY <2>1, <3>1 DEF SeesOnlyItsOwnCancel
  <2> QED BY <2>2, <2>3
<1> QED
  BY <1>2, <1>3, <1>4, <1>5, <1>6, <1>7, <1>8, <1>9 DEF Step

(* A step of another run: it neither sets an event nor takes back that      *)
(* somebody asked, and the object r looks at stays what it is, or is new.   *)
LEMMA OtherStepSees ==
  ASSUME TypeOK, NEW r \in CombinedRun, SeesOnlyItsOwnCancel(r), NEW q \in Run, q # r,
         \/ q \in CombinedRun /\ StartCombined(q)
         \/ q \in AutoRun /\ StartAuto(q)
         \/ Step(q)
  PROVE  SeesOnlyItsOwnCancel(r)'
<1>1. r \in Run
  BY DEF Run
<1>2. pc'[r] = pc[r] /\ outcome'[r] = outcome[r] /\ event'[r] = event[r]
  <2>1. CASE StartCombined(q) \/ StartAuto(q)
    BY <1>1, <2>1 DEF StartCombined, StartAuto, Begin, Goto, TypeOK
  <2>2. CASE EndEarly(q) \/ Complete(q) \/ Fail(q)
    BY <1>1, <2>2 DEF EndEarly, Complete, Fail, End, Goto, TypeOK
  <2>3. CASE Capture(q) \/ Report(q) \/ SeeCancel(q) \/ LastLook(q) \/ WorkFails(q) \/ Save(q)
    BY <1>1, <2>3 DEF Capture, Report, SeeCancel, LastLook, WorkFails, Save, Goto, TypeOK
  <2> QED BY <2>1, <2>2, <2>3 DEF Step
<1>3. r \in asked => r \in asked'
  <2>1. CASE StartCombined(q) \/ StartAuto(q)
    BY <2>1 DEF StartCombined, StartAuto, Begin
  <2>2. CASE EndEarly(q) \/ Complete(q) \/ Fail(q)
    BY <2>2 DEF EndEarly, Complete, Fail, End
  <2>3. CASE Capture(q) \/ Report(q) \/ SeeCancel(q) \/ LastLook(q) \/ WorkFails(q) \/ Save(q)
    BY <2>3 DEF Capture, Report, SeeCancel, LastLook, WorkFails, Save
  <2> QED BY <2>1, <2>2, <2>3 DEF Step
<1>4. CASE q \in CombinedRun /\ StartCombined(q)
  <2>1. PICK s \in State :
          Unused(s) /\ active' = s /\ state' = Collect([state EXCEPT ![s] = NewState(q)])
    BY <1>4 DEF StartCombined
  <2> DEFINE f == [state EXCEPT ![s] = NewState(q)]
  <2>2. f \in [State -> Objects] /\ f[s] = NewState(q) /\ \A u \in State \ {s} : f[u] = state[u]
    BY <1>4 DEF TypeOK, Objects, NewState, Status, Stage
  <2>3. state' = Collect(f)
    BY <2>1
  <2> HIDE DEF f
  <2>4. state'[s] = NewState(q)
    BY <2>1, <2>2, <2>3, CollectKeeps
  <2>5. event[r] \in State => state'[event[r]] = state[event[r]]
    <3>1. event[r] # s
      BY <1>1, <2>1 DEF Unused
    <3>2. event[r] \in State => Collect(f)[event[r]] = f[event[r]]
      BY <1>1, <1>2, <2>2, CollectKeeps
    <3> QED BY <2>2, <2>3, <3>1, <3>2
  <2> QED
    BY <1>2, <1>3, <2>1, <2>4, <2>5 DEF SeesOnlyItsOwnCancel, NewState
<1>5. CASE \/ StartAuto(q) \/ EndEarly(q) \/ Capture(q)
           \/ SeeCancel(q) \/ LastLook(q) \/ WorkFails(q) \/ Save(q)
  <2>1. active' = active /\ state' = state
    BY <1>5 DEF StartAuto, EndEarly, End, Capture, SeeCancel, LastLook, WorkFails, Save
  <2> QED BY <1>2, <1>3, <2>1 DEF SeesOnlyItsOwnCancel
<1>6. CASE Report(q)
  <2>1. active' = active /\ \A s \in State : state'[s].cancel = state[s].cancel
    BY <1>6 DEF Report, TypeOK
  <2> QED BY <1>2, <1>3, <2>1 DEF SeesOnlyItsOwnCancel
<1>7. CASE Complete(q) \/ Fail(q)
  <2>1. active' = active
    BY <1>7 DEF Complete, Fail, End
  <2>2. PICK st \in Status \cap Stage : Settle(st)
    <3>1. CASE Complete(q)
      BY <3>1 DEF Complete, Status, Stage
    <3>2. CASE Fail(q)
      BY <3>2 DEF Fail, Status, Stage
    <3> QED BY <1>7, <3>1, <3>2
  <2>3. active \in State => state'[active].cancel = state[active].cancel
    BY <2>1, <2>2, SettleKeepsEvents
  <2>4. event[r] \in State => state'[event[r]].cancel = state[event[r]].cancel
    BY <1>1, <1>2, <2>2, SettleKeepsEvents
  <2> QED BY <1>2, <1>3, <2>1, <2>3, <2>4 DEF SeesOnlyItsOwnCancel
<1> QED
  BY <1>4, <1>5, <1>6, <1>7 DEF Step

LEMMA NextSees ==
  ASSUME IInv, [Next]_vars, NEW r \in CombinedRun
  PROVE  SeesOnlyItsOwnCancel(r)'
<1>1. TypeOK /\ SeesOnlyItsOwnCancel(r) /\ r \in Run
  BY DEF IInv, Run
<1>2. ASSUME NEW q \in CombinedRun, StartCombined(q) PROVE SeesOnlyItsOwnCancel(r)'
  BY <1>1, <1>2, OwnStepSees, OtherStepSees DEF Run
<1>3. ASSUME NEW q \in AutoRun, StartAuto(q) PROVE SeesOnlyItsOwnCancel(r)'
  BY <1>1, <1>3, OtherStepSees, RunsOK DEF RunsOK, Run
<1>4. ASSUME NEW q \in Run, Step(q) PROVE SeesOnlyItsOwnCancel(r)'
  BY <1>1, <1>4, OwnStepSees, OtherStepSees
<1>5. CASE Cancel
  <2>1. pc' = pc /\ event' = event /\ outcome' = outcome /\ active' = active
    BY <1>5 DEF Cancel
  <2>2. pc[r] # "idle" => r \in asked'
    BY <1>1, <1>5 DEF Cancel, UnderWay
  <2>3. r \in asked => r \in asked'
    BY <1>5 DEF Cancel
  <2> QED BY <1>1, <2>1, <2>2, <2>3 DEF SeesOnlyItsOwnCancel
<1>6. CASE Restart
  BY <1>1, <1>6 DEF Restart, SeesOnlyItsOwnCancel
<1>7. CASE UNCHANGED vars
  BY <1>1, <1>7 DEF vars, SeesOnlyItsOwnCancel
<1> QED
  BY <1>2, <1>3, <1>4, <1>5, <1>6, <1>7 DEF Next

(* However many backups of a device overlap, a combined backup ends as      *)
(* cancelled only if somebody asked for that since it started.             *)
THEOREM CancelNeedsAsking == Spec => []CombinedCancelledOnlyIfAsked
<1>1. Init => IInv
  BY InitTypes, InitSees DEF IInv
<1>2. IInv /\ [Next]_vars => IInv'
  BY NextTypes, NextSees DEF IInv
<1>3. IInv => CombinedCancelledOnlyIfAsked
  BY DEF IInv, SeesOnlyItsOwnCancel, CombinedCancelledOnlyIfAsked
<1> QED
  BY <1>1, <1>2, <1>3, PTL DEF Spec

-----------------------------------------------------------------------------
(* What a step does to the objects in use.  Starting a combined backup puts *)
(* a new object in place and keeps those the runs have captured.           *)
LEMMA StartReplaces ==
  ASSUME TypeOK, NEW q \in CombinedRun, StartCombined(q)
  PROVE  /\ active' \in State /\ active' # active /\ event' = event
         /\ state'[active'] = NewState(q)
         /\ \A r \in Run : event[r] # active'
         /\ \A r \in Run : event[r] \in State => state'[event[r]] = state[event[r]]
<1>1. PICK s \in State :
        Unused(s) /\ active' = s /\ state' = Collect([state EXCEPT ![s] = NewState(q)])
  BY DEF StartCombined
<1> DEFINE f == [state EXCEPT ![s] = NewState(q)]
<1>2. f \in [State -> Objects] /\ f[s] = NewState(q) /\ \A u \in State \ {s} : f[u] = state[u]
  BY DEF TypeOK, Objects, NewState, Status, Stage
<1>3. event' = event /\ s # active /\ \A r \in Run : event[r] # s
  BY <1>1 DEF StartCombined, Begin, Unused
<1>4. state' = Collect(f)
  BY <1>1
<1> HIDE DEF f
<1>5. state'[s] = NewState(q)
  BY <1>1, <1>2, <1>4, CollectKeeps
<1>6. ASSUME NEW r \in Run, event[r] \in State PROVE state'[event[r]] = state[event[r]]
  <2>1. Collect(f)[event[r]] = f[event[r]]
    BY <1>2, <1>3, <1>6, CollectKeeps
  <2> QED BY <1>2, <1>3, <1>4, <1>6, <2>1
<1> QED BY <1>1, <1>3, <1>5, <1>6

(* Settling writes the entry on display and no other object in use.         *)
LEMMA SettleWrites ==
  ASSUME TypeOK, NEW st \in Status \cap Stage, Settle(st), NEW s \in State,
         s = active' \/ \E r \in Run : event'[r] = s
  PROVE  /\ state'[s].cancel = state[s].cancel /\ state'[s].by = state[s].by
         /\ s = active => state'[s].status = st /\ state'[s].stage = st
         /\ s # active => state'[s] = state[s]
<1> DEFINE f == [state EXCEPT ![active].status = st]
           g == [f EXCEPT ![active].stage = st]
           h == IF active = None THEN state ELSE g
<1>1. state \in [State -> Objects] /\ active \in State \cup {None} /\ None \notin State
  BY RunsOK DEF TypeOK, Objects, RunsOK
<1>2. CASE active = None
  <2>1. state' = Collect(state)
    BY <1>2 DEF Settle
  <2> QED BY <1>1, <1>2, <2>1, CollectKeeps
<1>3. CASE active # None
  <2>1. /\ f \in [State -> Objects] /\ f[active].status = st
        /\ f[active].cancel = state[active].cancel /\ f[active].by = state[active].by
        /\ \A u \in State \ {active} : f[u] = state[u]
    BY <1>1, <1>3 DEF Objects
  <2>2. /\ g \in [State -> Objects] /\ g[active].status = st /\ g[active].stage = st
        /\ g[active].cancel = f[active].cancel /\ g[active].by = f[active].by
        /\ \A u \in State \ {active} : g[u] = f[u]
    <3> HIDE DEF f
    <3> QED BY <1>1, <1>3, <2>1 DEF Objects
  <2>3. state' = Collect(g)
    BY <1>3 DEF Settle
  <2> HIDE DEF f, g
  <2>4. state'[s] = g[s]
    BY <2>2, <2>3, CollectKeeps
  <2> QED BY <2>1, <2>2, <2>4
<1> QED BY <1>2, <1>3

(* No step of a run changes the event of an object in use or its maker.     *)
LEMMA StepKeepsObjects ==
  ASSUME TypeOK, NEW q \in Run, Step(q) \/ StartAuto(q)
  PROVE  /\ active' = active
         /\ \A s \in State : (s = active' \/ \E r \in Run : event'[r] = s)
              => state'[s].cancel = state[s].cancel /\ state'[s].by = state[s].by
<1>1. CASE \/ StartAuto(q) \/ EndEarly(q) \/ Capture(q)
           \/ SeeCancel(q) \/ LastLook(q) \/ WorkFails(q) \/ Save(q)
  BY <1>1 DEF StartAuto, EndEarly, End, Capture, SeeCancel, LastLook, WorkFails, Save
<1>2. CASE Report(q)
  BY <1>2 DEF Report, TypeOK
<1>3. CASE Complete(q) \/ Fail(q)
  <2>1. active' = active
    BY <1>3 DEF Complete, Fail, End
  <2>2. PICK st \in Status \cap Stage : Settle(st)
    <3>1. CASE Complete(q)
      BY <3>1 DEF Complete, Status, Stage
    <3>2. CASE Fail(q)
      BY <3>2 DEF Fail, Status, Stage
    <3> QED BY <1>3, <3>1, <3>2
  <2> QED BY <2>1, <2>2, SettleWrites
<1> QED BY <1>1, <1>2, <1>3 DEF Step

(* A run's place, event and being told are its own.                         *)
LEMMA OthersStay ==
  ASSUME TypeOK, NEW r \in Run, NEW q \in Run, q # r,
         StartCombined(q) \/ StartAuto(q) \/ Step(q)
  PROVE  pc'[r] = pc[r] /\ event'[r] = event[r] /\ (r \in told' <=> r \in told)
<1>1. CASE StartCombined(q) \/ StartAuto(q)
  BY <1>1 DEF StartCombined, StartAuto, Begin, Goto, TypeOK
<1>2. CASE EndEarly(q) \/ Complete(q) \/ Fail(q)
  BY <1>2 DEF EndEarly, Complete, Fail, End, Goto, TypeOK
<1>3. CASE Capture(q) \/ Report(q) \/ SeeCancel(q) \/ LastLook(q) \/ WorkFails(q) \/ Save(q)
  BY <1>3 DEF Capture, Report, SeeCancel, LastLook, WorkFails, Save, Goto, TypeOK
<1> QED BY <1>1, <1>2, <1>3 DEF Step

-----------------------------------------------------------------------------
(* A cancel that arrives before run r's last look is in the event r will    *)
(* capture, or has captured, as long as that event is the one of r's own    *)
(* start(): the entry on display is r's, and the event is that entry's.     *)
(* After the last look no such cancel is left.                             *)
OfRun(s, r) == s # None /\ state[s].by = r

CancelReaches(r) ==
  /\ pc[r] = "prepare" /\ OfRun(active, r) => (r \in told => state[active].cancel)
  /\ pc[r] = "download" /\ OfRun(event[r], r) => (r \in told => state[event[r]].cancel)
  /\ pc[r] = "download" /\ OfRun(event[r], r) /\ OfRun(active, r) => event[r] = active
  /\ pc[r] \in {"save", "saved"} /\ r \in told => ~OfRun(event[r], r)

CancelInv == TypeOK /\ \A r \in CombinedRun : CancelReaches(r)

LEMMA OwnStepReaches ==
  ASSUME TypeOK, NEW r \in CombinedRun, CancelReaches(r), StartCombined(r) \/ Step(r)
  PROVE  CancelReaches(r)'
<1>1. r \in Run
  BY DEF Run
<1>2. CASE StartCombined(r)
  <2>1. pc'[r] = "prepare" /\ r \notin told'
    BY <1>1, <1>2 DEF StartCombined, Begin, Goto, TypeOK
  <2> QED BY <2>1 DEF CancelReaches
<1>3. CASE EndEarly(r) \/ Complete(r) \/ Fail(r)
  <2>1. pc'[r] = "idle"
    BY <1>1, <1>3 DEF EndEarly, Complete, Fail, End, Goto, TypeOK
  <2> QED BY <2>1 DEF CancelReaches
<1>4. CASE Capture(r)
  <2>1. pc[r] = "prepare" /\ pc'[r] = "download" /\ event'[r] = active
    BY <1>1, <1>4 DEF Capture, Goto, TypeOK
  <2> QED BY <1>4, <2>1 DEF Capture, CancelReaches, OfRun
<1>5. CASE Report(r)
  <2>1. /\ pc' = pc /\ event' = event /\ told' = told /\ active' = active
        /\ \A s \in State : state'[s].cancel = state[s].cancel /\ state'[s].by = state[s].by
    BY <1>5 DEF Report, TypeOK
  <2>2. active \in State \cup {None} /\ event[r] \in State \cup {None}
    BY <1>1 DEF TypeOK
  <2> QED BY <2>1, <2>2 DEF CancelReaches, OfRun
<1>6. CASE SeeCancel(r) \/ WorkFails(r)
  <2>1. pc'[r] \in {"cancelling", "failing"}
    BY <1>1, <1>6 DEF SeeCancel, WorkFails, Goto, TypeOK
  <2> QED BY <2>1 DEF CancelReaches
<1>7. CASE LastLook(r)
  <2>1. pc[r] = "download" /\ pc'[r] = "save"
    BY <1>1, <1>7 DEF LastLook, Goto, TypeOK
  <2>2. OfRun(event[r], r) => r \notin told
    BY <1>7, <2>1 DEF LastLook, IsSet, CancelReaches, OfRun
  <2> QED BY <1>7, <2>1, <2>2 DEF LastLook, CancelReaches, OfRun
<1>8. CASE Save(r)
  <2>1. pc[r] = "save" /\ pc'[r] = "saved"
    BY <1>1, <1>8 DEF Save, Goto, TypeOK
  <2> QED BY <1>8, <2>1 DEF Save, CancelReaches, OfRun
<1> QED
  BY <1>2, <1>3, <1>4, <1>5, <1>6, <1>7, <1>8, RunsOK DEF Step, RunsOK

LEMMA OtherStepReaches ==
  ASSUME TypeOK, NEW r \in CombinedRun, CancelReaches(r), NEW q \in Run, q # r,
         \/ q \in CombinedRun /\ StartCombined(q)
         \/ q \in AutoRun /\ StartAuto(q)
         \/ Step(q)
  PROVE  CancelReaches(r)'
<1>1. r \in Run
  BY DEF Run
<1>2. pc'[r] = pc[r] /\ event'[r] = event[r] /\ (r \in told' <=> r \in told)
  BY <1>1, OthersStay
<1>3. active \in State \cup {None} /\ event[r] \in State \cup {None}
  BY <1>1 DEF TypeOK
<1>4. CASE q \in CombinedRun /\ StartCombined(q)
  <2>1. state'[active'] = NewState(q)
    BY <1>4, StartReplaces
  <2>2. ~OfRun(active, r)'
    BY <2>1 DEF OfRun, NewState
  <2>3. event[r] \in State => state'[event[r]] = state[event[r]]
    BY <1>1, <1>4, StartReplaces
  <2> QED BY <1>2, <1>3, <2>2, <2>3 DEF CancelReaches, OfRun
<1>5. CASE StartAuto(q) \/ Step(q)
  <2>1. active' = active
    BY <1>5, StepKeepsObjects
  <2>2. active \in State => state'[active].cancel = state[active].cancel
                             /\ state'[active].by = state[active].by
    BY <1>5, <2>1, StepKeepsObjects
  <2>3. event[r] \in State => state'[event[r]].cancel = state[event[r]].cancel
                               /\ state'[event[r]].by = state[event[r]].by
    BY <1>1, <1>2, <1>5, StepKeepsObjects
  <2> QED BY <1>2, <1>3, <2>1, <2>2, <2>3 DEF CancelReaches, OfRun
<1> QED BY <1>4, <1>5

(* The cancel itself: it sets the event of the entry on display, which is   *)
(* the event of every run it tells.                                        *)
LEMMA CancelWrites ==
  ASSUME TypeOK, Cancel
  PROVE  /\ active \in State
         /\ state'[active].status = "cancelled" /\ state'[active].stage = "cancelled"
         /\ state'[active].cancel /\ state'[active].by = state[active].by
         /\ \A s \in State \ {active} : state'[s] = state[s]
<1>1. state \in [State -> Objects] /\ active \in State
  BY DEF Cancel, TypeOK, Objects
<1> DEFINE f == [state EXCEPT ![active].status = "cancelled"]
           g == [f EXCEPT ![active].stage = "cancelled"]
           h == [g EXCEPT ![active].cancel = TRUE]
<1>2. /\ f \in [State -> Objects] /\ f[active].status = "cancelled"
      /\ f[active].by = state[active].by
      /\ \A s \in State \ {active} : f[s] = state[s]
  BY <1>1 DEF Objects, Status
<1>3. /\ g \in [State -> Objects] /\ g[active].status = f[active].status
      /\ g[active].stage = "cancelled" /\ g[active].by = f[active].by
      /\ \A s \in State \ {active} : g[s] = f[s]
  <2> HIDE DEF f
  <2> QED BY <1>1, <1>2 DEF Objects, Stage
<1>4. /\ h[active].status = g[active].status /\ h[active].stage = g[active].stage
      /\ h[active].cancel /\ h[active].by = g[active].by
      /\ \A s \in State \ {active} : h[s] = g[s]
  <2> HIDE DEF g
  <2> QED BY <1>1, <1>3 DEF Objects
<1>5. state' = h
  BY DEF Cancel
<1> HIDE DEF f, g, h
<1> QED BY <1>1, <1>2, <1>3, <1>4, <1>5

LEMMA CancelKeepsReaching ==
  ASSUME TypeOK, NEW r \in CombinedRun, CancelReaches(r), Cancel
  PROVE  CancelReaches(r)'
<1>1. pc' = pc /\ event' = event /\ active' = active
  BY DEF Cancel
<1>2. active \in State /\ None \notin State /\ event[r] \in State \cup {None}
  BY CancelWrites, RunsOK DEF RunsOK, TypeOK, Run
<1>3. \A s \in State : state'[s].by = state[s].by
                       /\ (state[s].cancel \/ s = active => state'[s].cancel)
  BY CancelWrites
<1>4. r \in told' => \/ r \in told
                     \/ OfRun(active, r) /\ pc[r] \in {"prepare", "download"}
  BY <1>2 DEF Cancel, OfRun
<1>5. \A s \in State \cup {None} : OfRun(s, r)' <=> OfRun(s, r)
  BY <1>3 DEF OfRun
<1>6. /\ OfRun(active, r)' <=> OfRun(active, r)
      /\ OfRun(event[r], r)' <=> OfRun(event[r], r)
      /\ OfRun(event[r], r) => event[r] \in State
  BY <1>1, <1>2, <1>5 DEF OfRun
<1>7. CASE pc[r] = "prepare"
  BY <1>1, <1>2, <1>3, <1>7 DEF CancelReaches
<1>8. CASE pc[r] = "download"
  <2>1. OfRun(event[r], r) /\ r \in told' => state'[event[r]].cancel
    BY <1>2, <1>3, <1>4, <1>6, <1>8 DEF CancelReaches
  <2> QED BY <1>1, <1>6, <1>8, <2>1 DEF CancelReaches
<1>9. CASE pc[r] \notin {"prepare", "download"}
  BY <1>1, <1>4, <1>6, <1>9 DEF CancelReaches
<1> QED BY <1>7, <1>8, <1>9

LEMMA NextReaches ==
  ASSUME CancelInv, [Next]_vars, NEW r \in CombinedRun
  PROVE  CancelReaches(r)'
<1>1. TypeOK /\ CancelReaches(r) /\ r \in Run
  BY DEF CancelInv, Run
<1>2. ASSUME NEW q \in CombinedRun, StartCombined(q) PROVE CancelReaches(r)'
  BY <1>1, <1>2, OwnStepReaches, OtherStepReaches DEF Run
<1>3. ASSUME NEW q \in AutoRun, StartAuto(q) PROVE CancelReaches(r)'
  BY <1>1, <1>3, OtherStepReaches, RunsOK DEF RunsOK, Run
<1>4. ASSUME NEW q \in Run, Step(q) PROVE CancelReaches(r)'
  BY <1>1, <1>4, OwnStepReaches, OtherStepReaches
<1>5. CASE Cancel
  BY <1>1, <1>5, CancelKeepsReaching
<1>6. CASE Restart
  BY <1>1, <1>6 DEF Restart, CancelReaches
<1>7. CASE UNCHANGED vars
  BY <1>1, <1>7 DEF vars, CancelReaches, OfRun
<1> QED
  BY <1>2, <1>3, <1>4, <1>5, <1>6, <1>7 DEF Next

(* A combined backup that is told to stop before its last look at its own   *)
(* event does not get to save, however the device's runs overlap.          *)
THEOREM CancelStops == Spec => []CancelStopsTheBackup
<1>1. Init => CancelInv
  <2>1. Init => \A r \in CombinedRun : CancelReaches(r)
    BY DEF Init, CancelReaches, Run
  <2> QED BY <2>1, InitTypes DEF CancelInv
<1>2. CancelInv /\ [Next]_vars => CancelInv'
  BY NextTypes, NextReaches DEF CancelInv
<1>3. CancelInv => CancelStopsTheBackup
  BY DEF CancelInv, TypeOK, CancelReaches, CancelStopsTheBackup, OfRun
<1> QED
  BY <1>1, <1>2, <1>3, PTL DEF Spec

-----------------------------------------------------------------------------
(* The display: an entry shown as cancelled has its event set, which is     *)
(* what drops the late reports.                                            *)
ShownCancelled ==
  \A s \in State : state[s].status = "cancelled" => state[s].cancel /\ state[s].stage = "cancelled"

LEMMA CollectShows ==
  ASSUME NEW f \in [State -> Objects],
         \A s \in State : f[s].status = "cancelled" => f[s].cancel /\ f[s].stage = "cancelled",
         state' = Collect(f)
  PROVE  ShownCancelled'
BY DEF Collect, NewState, ShownCancelled

LEMMA SettleShows ==
  ASSUME TypeOK, ShownCancelled, NEW st \in Status \cap Stage, Settle(st), active' = active,
         st = "cancelled" => IsSet(active)
  PROVE  ShownCancelled'
<1>1. ASSUME NEW s \in State, state'[s].status = "cancelled"
      PROVE  state'[s].cancel /\ state'[s].stage = "cancelled"
  <2>1. CASE s = active' \/ \E r \in Run : event'[r] = s
    <3>1. /\ state'[s].cancel = state[s].cancel
          /\ s = active => state'[s].status = st /\ state'[s].stage = st
          /\ s # active => state'[s] = state[s]
      BY <2>1, SettleWrites
    <3> QED BY <1>1, <3>1 DEF ShownCancelled, IsSet
  <2>2. CASE ~(s = active' \/ \E r \in Run : event'[r] = s)
    <3>1. state'[s] = NewState(None)
      BY <2>2 DEF Settle, Collect
    <3> QED BY <1>1, <3>1 DEF NewState
  <2> QED BY <2>1, <2>2
<1> QED BY <1>1 DEF ShownCancelled

LEMMA FailShows ==
  ASSUME NEW r \in Run, Fail(r)
  PROVE  \E st \in Status \cap Stage :
           Settle(st) /\ active' = active /\ st = (IF IsSet(active) THEN "cancelled" ELSE "failed")
BY DEF Fail, End, Status, Stage

LEMMA NextShows ==
  ASSUME TypeOK, ShownCancelled, [Next]_vars
  PROVE  ShownCancelled'
<1>1. ASSUME NEW q \in CombinedRun, StartCombined(q) PROVE ShownCancelled'
  <2>1. PICK s \in State : state' = Collect([state EXCEPT ![s] = NewState(q)])
    BY <1>1 DEF StartCombined
  <2> DEFINE f == [state EXCEPT ![s] = NewState(q)]
  <2>2. /\ f \in [State -> Objects]
        /\ \A u \in State : f[u] = NewState(q) \/ f[u] = state[u]
    BY DEF TypeOK, Objects, NewState, Status, Stage
  <2>3. \A u \in State : f[u].status = "cancelled" => f[u].cancel /\ f[u].stage = "cancelled"
    <3> HIDE DEF f
    <3> QED BY <2>2 DEF ShownCancelled, NewState
  <2> HIDE DEF f
  <2> QED BY <2>1, <2>2, <2>3, CollectShows DEF f
<1>2. ASSUME NEW q \in AutoRun, StartAuto(q) PROVE ShownCancelled'
  BY <1>2 DEF StartAuto, ShownCancelled
<1>3. ASSUME NEW q \in Run, Step(q) PROVE ShownCancelled'
  <2>1. CASE \/ EndEarly(q) \/ Capture(q) \/ SeeCancel(q) \/ LastLook(q)
             \/ WorkFails(q) \/ Save(q)
    BY <2>1 DEF EndEarly, Capture, SeeCancel, LastLook, WorkFails, Save, ShownCancelled
  <2>2. CASE Report(q)
    BY <2>2 DEF Report, IsSet, ShownCancelled, TypeOK
  <2>3. CASE Complete(q)
    BY <2>3, SettleShows DEF Complete, End, Status, Stage
  <2>4. CASE Fail(q)
    BY <2>4, FailShows, SettleShows
  <2> QED BY <1>3, <2>1, <2>2, <2>3, <2>4 DEF Step
<1>4. CASE Cancel
  BY <1>4, CancelWrites DEF ShownCancelled
<1>5. CASE Restart
  BY <1>5 DEF Restart, NewState, ShownCancelled
<1>6. CASE UNCHANGED vars
  BY <1>6 DEF vars, ShownCancelled
<1> QED BY <1>1, <1>2, <1>3, <1>4, <1>5, <1>6 DEF Next

(* One step of the tracker, seen by the user.                              *)
LEMMA StepStaysOnDisplay ==
  ASSUME TypeOK, ShownCancelled, Next, NEW s \in State,
         s = active, s = active', state[s].status = "cancelled"
  PROVE  \/ state'[s].status = "cancelled" /\ state'[s].stage = "cancelled"
         \/ /\ state'[s].status = "completed"
            /\ \E r \in Run : pc[r] = "saved" /\ pc'[r] = "idle"
<1>1. ASSUME NEW q \in CombinedRun, StartCombined(q) PROVE FALSE
  BY <1>1, StartReplaces
<1>2. state[s].cancel /\ state[s].stage = "cancelled" /\ IsSet(active)
  BY RunsOK DEF ShownCancelled, IsSet, RunsOK
<1>3. ASSUME NEW q \in AutoRun, StartAuto(q) PROVE state' = state
  BY <1>3 DEF StartAuto
<1>4. ASSUME NEW q \in Run, Step(q)
      PROVE  \/ state' = state
             \/ /\ state'[s].status = "cancelled"
                /\ state'[s].stage = "cancelled"
             \/ /\ state'[s].status = "completed"
                /\ pc[q] = "saved" /\ pc'[q] = "idle"
  <2>1. CASE \/ EndEarly(q) \/ Capture(q) \/ SeeCancel(q) \/ LastLook(q)
             \/ WorkFails(q) \/ Save(q)
    BY <2>1 DEF EndEarly, Capture, SeeCancel, LastLook, WorkFails, Save
  <2>2. CASE Report(q)
    BY <1>2, <2>2 DEF Report
  <2>3. CASE Complete(q)
    BY <2>3, SettleWrites DEF Complete, End, Goto, Status, Stage, TypeOK
  <2>4. CASE Fail(q)
    <3>1. Settle("cancelled")
      BY <1>2, <2>4 DEF Fail
    <3> QED BY <3>1, SettleWrites DEF Status, Stage
  <2> QED BY <1>4, <2>1, <2>2, <2>3, <2>4 DEF Step
<1>5. CASE Cancel
  BY <1>5, CancelWrites
<1>6. CASE Restart
  BY <1>6, RunsOK DEF Restart, RunsOK
<1>7. CASE \E q \in AutoRun : StartAuto(q)
  BY <1>2, <1>3, <1>7
<1>8. CASE \E q \in Run : Step(q)
  BY <1>2, <1>4, <1>8
<1> QED BY <1>1, <1>5, <1>6, <1>7, <1>8 DEF Next

(* Once a cancel is on display, neither a late progress report nor an error *)
(* replaces it, the cancelled run's own included: it stays until a run that *)
(* has saved its backup completes.                                         *)
THEOREM CancelStays == Spec => CancelStaysOnDisplay
<1> DEFINE Keeps == \A s \in State :
             s = active /\ s = active' /\ state[s].status = "cancelled"
               => \/ state'[s].status = "cancelled" /\ state'[s].stage = "cancelled"
                  \/ /\ state'[s].status = "completed"
                     /\ \E r \in Run : pc[r] = "saved" /\ pc'[r] = "idle"
<1>1. Init => TypeOK /\ ShownCancelled
  BY InitTypes DEF Init, NewState, ShownCancelled
<1>2. TypeOK /\ ShownCancelled /\ [Next]_vars => (TypeOK /\ ShownCancelled)'
  BY NextTypes, NextShows
<1>3. TypeOK /\ ShownCancelled /\ [Next]_vars => [Keeps]_vars
  BY StepStaysOnDisplay
<1> QED
  BY <1>1, <1>2, <1>3, PTL DEF Spec, CancelStaysOnDisplay
=============================================================================
