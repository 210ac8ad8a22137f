------------------------- MODULE ActiveBackupProofs -------------------------
(***************************************************************************)
(* The properties of the backup on display for any number of devices,      *)
(* calls and polls.  The argument is about what may still be under way: a  *)
(* call that holds its 100 % has an answer about a saved backup; and while *)
(* a display is clean every other call is over, and all polls, cancels and *)
(* marks of cancellation there are have come from the display itself.      *)
(***************************************************************************)
EXTENDS ActiveBackup, TLAPS

Displays ==
  [open : BOOLEAN, minimized : BOOLEAN, status : DisplayStatus,
   device : Device \cup {Nobody}, result : Call \cup {Nobody},
   info : Device \cup {Nobody}, cancelling : BOOLEAN,
   of : Call \cup {Nobody}, asked : BOOLEAN, clean : BOOLEAN]
CallStates ==
  [pc : {"idle", "awaiting", "holding"}, device : Device \cup {Nobody},
   cancelling : BOOLEAN, answer : {"none", "ok", "error"}]

(* An open display is of a device, which cancelBackup names.                *)
OpenHasDevice == display.open => display.device \in Device

(* A call that holds has been answered, with a backup that is saved.        *)
HoldingIsAnswered ==
  \A r \in Call : call[r].pc = "holding" => job[r] = "saved" /\ call[r].answer = "ok"

(* What is under way while a clean display is open is its own.              *)
OnlyItsOwn ==
  display.open /\ display.clean =>
    /\ display.of \in Call /\ display.device \in Device
    /\ call[display.of].device = display.device
    /\ ~call[display.of].cancelling
    /\ call[display.of].answer = "error" => call[display.of].pc = "idle"
    /\ \A r \in Call : r # display.of => call[r].pc = "idle" /\ ServerIsDone(r)
    /\ \A info \in polls :
         info.device = display.device /\ (info.status = "cancelled" => display.asked)
    /\ cancels # {} => cancels \subseteq {display.device} /\ display.asked
    /\ entry[display.device] = "cancelled" => display.asked

ActiveInv ==
  /\ ActiveTypeOK /\ OpenHasDevice
  /\ PollerIsOfTheDisplay
  /\ HoldingIsAnswered /\ SuccessHasItsResult
  /\ OnlyItsOwn /\ CleanDisplayIsTrue

-----------------------------------------------------------------------------
LEMMA ActiveInitTypes == ActiveInit => ActiveTypeOK /\ OpenHasDevice
BY DEF ActiveInit, ActiveTypeOK, OpenHasDevice, InitialState, IdleCall, DisplayStatus, EntryStatus, Info

(* Showing the reply to a poll changes the status and whose progress it is. *)
LEMMA ShownIs ==
  ASSUME display \in Displays, NEW info \in Info
  PROVE  LET next == Shown(info) IN
         /\ next \in Displays
         /\ next.open = display.open /\ next.device = display.device /\ next.of = display.of
         /\ next.result = display.result /\ next.cancelling = display.cancelling
         /\ next.asked = display.asked /\ next.clean = display.clean
         /\ next.status # display.status => next.status = "cancelled" /\ info.status = "cancelled"
         /\ next.info \in {display.info, info.device}
<1>1. CASE info.status = "idle" \/ ~display.open
  BY <1>1 DEF Shown
<1>2. CASE ~(info.status = "idle" \/ ~display.open)
  <2> DEFINE status == IF info.status = "cancelled" THEN "cancelled" ELSE display.status
  <2>1. Shown(info) = [display EXCEPT !.info = info.device, !.status = status]
    BY <1>2 DEF Shown, Displays
  <2>2. status \in DisplayStatus /\ (status # display.status => status = "cancelled" /\ info.status = "cancelled")
    BY DEF Displays, DisplayStatus
  <2> HIDE DEF status
  <2> QED BY <2>1, <2>2 DEF Displays, Info
<1> QED BY <1>1, <1>2

LEMMA ActiveNextTypes ==
  ASSUME ActiveTypeOK, OpenHasDevice, [ActiveNext]_activeVars
  PROVE  ActiveTypeOK'
<1>0. display \in Displays /\ call \in [Call -> CallStates]
  BY DEF ActiveTypeOK, Displays, CallStates
<1>1. ASSUME NEW r \in Call, NEW d \in Device, StartBackup(r, d) PROVE ActiveTypeOK'
  <2>1. display' \in Displays
    BY <1>0, <1>1 DEF StartBackup, InitialState, Displays, DisplayStatus, Quiet
  <2>2. call' \in [Call -> CallStates]
    BY <1>0, <1>1 DEF StartBackup, CallStates, Displays
  <2>3. [device |-> d, status |-> entry[d]] \in Info
    BY DEF ActiveTypeOK, Info
  <2> QED
    BY <1>1, <2>1, <2>2, <2>3 DEF StartBackup, ActiveTypeOK, Displays, CallStates
<1>2. CASE Poll
  BY <1>2 DEF Poll, ActiveTypeOK, Info
<1>3. ASSUME NEW info \in polls, PollReply(info) \/ PollFails(info) PROVE ActiveTypeOK'
  <2>1. info \in Info
    BY DEF ActiveTypeOK
  <2>2. display' \in Displays
    BY <1>0, <1>3, <2>1, ShownIs DEF PollReply, PollFails
  <2> QED
    BY <1>3, <2>2 DEF PollReply, PollFails, ActiveTypeOK, Displays
<1>4. ASSUME NEW r \in Call, Progress(r) PROVE ActiveTypeOK'
  <2>0. call[r] \in CallStates
    BY <1>0
  <2>1. CASE PostSucceeds(r)
    <3>1. [call[r] EXCEPT !.pc = "holding", !.answer = "ok"] \in CallStates
      BY <2>0 DEF CallStates
    <3>2. call' \in [Call -> CallStates]
      BY <1>0, <2>1, <3>1 DEF PostSucceeds
    <3>3. display' \in Displays
      BY <1>0, <2>0, <2>1 DEF PostSucceeds, Displays, CallStates
    <3> QED BY <2>1, <3>2, <3>3 DEF PostSucceeds, ActiveTypeOK, Displays, CallStates
  <2>2. CASE HoldEnds(r)
    <3>1. [call[r] EXCEPT !.pc = "idle", !.cancelling = FALSE] \in CallStates
      BY <2>0 DEF CallStates
    <3>2. call' \in [Call -> CallStates]
      BY <1>0, <2>2, <3>1 DEF HoldEnds
    <3>3. display' \in Displays
      BY <1>0, <2>2 DEF HoldEnds, Displays, DisplayStatus
    <3> QED BY <2>2, <3>2, <3>3 DEF HoldEnds, ActiveTypeOK, Displays, CallStates
  <2>3. CASE PostFails(r)
    <3>1. [call[r] EXCEPT !.pc = "idle", !.cancelling = FALSE, !.answer = "error"] \in CallStates
      BY <2>0 DEF CallStates
    <3>2. call' \in [Call -> CallStates]
      BY <1>0, <2>3, <3>1 DEF PostFails
    <3>3. display' \in Displays
      BY <1>0, <2>3 DEF PostFails, Displays, DisplayStatus
    <3> QED BY <2>3, <3>2, <3>3 DEF PostFails, ActiveTypeOK, Displays, CallStates
  <2>4. CASE ServerStarts(r) \/ ServerSaves(r) \/ ServerFails(r)
    BY <2>4 DEF ServerStarts, ServerSaves, ServerFails, ActiveTypeOK, EntryStatus
  <2> QED BY <1>4, <2>1, <2>2, <2>3, <2>4 DEF Progress
<1>5. CASE Minimize \/ Maximize \/ CloseModal \/ CancelBackup
  <2>1. display' \in Displays
    <3>1. CASE Minimize BY <1>0, <3>1 DEF Minimize, Displays
    <3>2. CASE Maximize BY <1>0, <3>2 DEF Maximize, Displays
    <3>3. CASE CloseModal BY <3>3 DEF CloseModal, InitialState, Displays, DisplayStatus
    <3>4. CASE CancelBackup BY <1>0, <3>4 DEF CancelBackup, Displays
    <3> QED BY <1>5, <3>1, <3>2, <3>3, <3>4
  <2>2. CASE Minimize \/ Maximize \/ CloseModal
    BY <2>1, <2>2 DEF Minimize, Maximize, CloseModal, ActiveTypeOK, Displays
  <2>3. CASE CancelBackup
    <3>1. cancels' \subseteq Device
      BY <1>0, <2>3 DEF CancelBackup, ActiveTypeOK, OpenHasDevice
    <3> QED BY <2>1, <2>3, <3>1 DEF CancelBackup, ActiveTypeOK, Displays
  <2> QED BY <1>5, <2>2, <2>3
<1>6. ASSUME NEW d \in Device, CancelEnds(d) PROVE ActiveTypeOK'
  <2>1. Cancelled(d) \in [Device -> EntryStatus]
    BY DEF Cancelled, ActiveTypeOK, EntryStatus
  <2> QED
    BY <1>6, <2>1 DEF CancelEnds, ActiveTypeOK
<1>7. CASE UNCHANGED activeVars
  BY <1>7 DEF activeVars, ActiveTypeOK
<1> QED
  BY <1>1, <1>2, <1>3, <1>4, <1>5, <1>6, <1>7 DEF ActiveNext

LEMMA NextHasDevice ==
  ASSUME ActiveTypeOK, OpenHasDevice, [ActiveNext]_activeVars
  PROVE  OpenHasDevice'
<1>0. display \in Displays /\ display' \in Displays
  BY ActiveNextTypes DEF ActiveTypeOK, Displays
<1>1. ASSUME NEW r \in Call, NEW d \in Device, StartBackup(r, d) PROVE OpenHasDevice'
  BY <1>1 DEF StartBackup, InitialState, OpenHasDevice
<1>2. CASE display'.open = display.open /\ display'.device = display.device
  BY <1>2 DEF OpenHasDevice
<1>3. CASE CloseModal
  BY <1>3 DEF CloseModal, InitialState, OpenHasDevice
<1>4. ASSUME NEW info \in polls, PollReply(info) \/ PollFails(info) PROVE OpenHasDevice'
  <2>1. display'.open = display.open /\ display'.device = display.device
    BY <1>0, <1>4, ShownIs DEF PollReply, PollFails, ActiveTypeOK
  <2> QED BY <2>1, <1>2
<1>5. ASSUME NEW r \in Call, Progress(r) PROVE OpenHasDevice'
  <2>1. display'.open = display.open /\ display'.device = display.device
    BY <1>0, <1>5 DEF Progress, PostSucceeds, HoldEnds, PostFails, ServerStarts, ServerSaves, ServerFails, Displays
  <2> QED BY <2>1, <1>2
<1>6. CASE Poll \/ Minimize \/ Maximize \/ CancelBackup \/ (\E d \in Device : CancelEnds(d)) \/ UNCHANGED activeVars
  <2>1. display'.open = display.open /\ display'.device = display.device
    BY <1>0, <1>6 DEF Poll, Minimize, Maximize, CancelBackup, CancelEnds, activeVars, Displays
  <2> QED BY <2>1, <1>2
<1> QED
  BY <1>1, <1>3, <1>4, <1>5, <1>6 DEF ActiveNext

(* The state of the display and of all that is under way is well typed.     *)
THEOREM ActiveTypes == ActiveSpec => []ActiveTypeOK
<1>1. ActiveInit => ActiveTypeOK /\ OpenHasDevice
  BY ActiveInitTypes
<1>2. ActiveTypeOK /\ OpenHasDevice /\ [ActiveNext]_activeVars => (ActiveTypeOK /\ OpenHasDevice)'
  BY ActiveNextTypes, NextHasDevice
<1> QED BY <1>1, <1>2, PTL DEF ActiveSpec

-----------------------------------------------------------------------------
(* Only these steps change the poller; all others keep whose display it is. *)
LEMMA NextPoller ==
  ASSUME ActiveTypeOK, OpenHasDevice, PollerIsOfTheDisplay, [ActiveNext]_activeVars
  PROVE  PollerIsOfTheDisplay'
<1>0. display \in Displays
  BY DEF ActiveTypeOK, Displays
<1>1. ASSUME NEW r \in Call, NEW d \in Device, StartBackup(r, d) PROVE PollerIsOfTheDisplay'
  BY <1>1 DEF StartBackup, InitialState, PollerIsOfTheDisplay
<1>2. ASSUME poller' = poller, display'.open = display.open, display'.device = display.device
      PROVE  PollerIsOfTheDisplay'
  BY <1>2 DEF PollerIsOfTheDisplay
<1>3. ASSUME poller' = Nobody PROVE PollerIsOfTheDisplay'
  BY <1>3 DEF PollerIsOfTheDisplay
<1>4. ASSUME NEW info \in polls, PollReply(info) \/ PollFails(info) PROVE PollerIsOfTheDisplay'
  <2>1. poller' = poller /\ display'.open = display.open /\ display'.device = display.device
    BY <1>0, <1>4, ShownIs DEF PollReply, PollFails, ActiveTypeOK
  <2> QED BY <2>1, <1>2
<1>5. ASSUME NEW r \in Call, Progress(r) PROVE PollerIsOfTheDisplay'
  <2>1. CASE PostSucceeds(r) \/ ServerStarts(r) \/ ServerSaves(r) \/ ServerFails(r)
    <3>1. poller' = poller /\ display'.open = display.open /\ display'.device = display.device
      BY <1>0, <2>1 DEF PostSucceeds, ServerStarts, ServerSaves, ServerFails, Displays
    <3> QED BY <3>1, <1>2
  <2>2. CASE HoldEnds(r) \/ PostFails(r)
    BY <2>2, <1>3 DEF HoldEnds, PostFails
  <2> QED BY <1>5, <2>1, <2>2 DEF Progress
<1>6. CASE Poll \/ Minimize \/ Maximize \/ CancelBackup \/ (\E d \in Device : CancelEnds(d)) \/ UNCHANGED activeVars
  <2>1. poller' = poller /\ display'.open = display.open /\ display'.device = display.device
    BY <1>0, <1>6 DEF Poll, Minimize, Maximize, CancelBackup, CancelEnds, activeVars, Displays
  <2> QED BY <2>1, <1>2
<1>7. CASE CloseModal
  BY <1>7, <1>3 DEF CloseModal
<1> QED
  BY <1>1, <1>4, <1>5, <1>6, <1>7 DEF ActiveNext

(* A saved backup stays saved, and its answer stays what it is.             *)
LEMMA SavedStays ==
  ASSUME ActiveTypeOK, [ActiveNext]_activeVars, NEW q \in Call,
         job[q] = "saved", call[q].answer = "ok"
  PROVE  job'[q] = "saved" /\ call'[q].answer = "ok"
<1>0. call \in [Call -> CallStates] /\ job \in [Call -> {"none", "sent", "running", "saved", "failed"}]
  BY DEF ActiveTypeOK, CallStates
<1>1. ASSUME NEW r \in Call, NEW d \in Device, StartBackup(r, d)
      PROVE  job'[q] = "saved" /\ call'[q].answer = "ok"
  BY <1>0, <1>1 DEF StartBackup
<1>2. ASSUME NEW r \in Call, Progress(r)
      PROVE  job'[q] = "saved" /\ call'[q].answer = "ok"
  <2>0. call[q] \in CallStates /\ call[r] \in CallStates
    BY <1>0
  <2>1. CASE PostSucceeds(r) \/ HoldEnds(r) \/ PostFails(r)
    <3>1. call' = [call EXCEPT ![r] = call'[r]] /\ UNCHANGED job
      BY <1>0, <2>1 DEF PostSucceeds, HoldEnds, PostFails
    <3>2. CASE q # r
      BY <1>0, <3>1, <3>2
    <3>3. CASE q = r
      <4>1. CASE PostSucceeds(r)
        BY <1>0, <2>0, <3>3, <4>1 DEF PostSucceeds, CallStates
      <4>2. CASE HoldEnds(r)
        BY <1>0, <2>0, <3>3, <4>2 DEF HoldEnds, CallStates
      <4>3. CASE PostFails(r)
        BY <3>3, <4>3 DEF PostFails
      <4> QED BY <2>1, <4>1, <4>2, <4>3
    <3> QED BY <3>2, <3>3
  <2>2. CASE ServerStarts(r) \/ ServerSaves(r) \/ ServerFails(r)
    BY <1>0, <2>2 DEF ServerStarts, ServerSaves, ServerFails
  <2> QED BY <1>2, <2>1, <2>2 DEF Progress
<1>3. CASE UNCHANGED <<job, call>>
  BY <1>3
<1> QED
  BY <1>1, <1>2, <1>3
  DEF ActiveNext, Poll, PollReply, PollFails, Minimize, Maximize, CloseModal, CancelBackup, CancelEnds, activeVars

LEMMA NextAnswered ==
  ASSUME ActiveTypeOK, HoldingIsAnswered, [ActiveNext]_activeVars
  PROVE  HoldingIsAnswered'
<1>0. call \in [Call -> CallStates]
  BY DEF ActiveTypeOK, CallStates
<1> SUFFICES ASSUME NEW q \in Call, call'[q].pc = "holding"
             PROVE  job'[q] = "saved" /\ call'[q].answer = "ok"
  BY DEF HoldingIsAnswered
<1>1. CASE call[q].pc = "holding"
  BY <1>1, SavedStays DEF HoldingIsAnswered
<1>2. CASE call[q].pc # "holding"
  <2>1. PICK r \in Call : (\E d \in Device : StartBackup(r, d)) \/ Progress(r)
    BY <1>2 DEF ActiveNext, Poll, PollReply, PollFails, Minimize, Maximize, CloseModal, CancelBackup,
                CancelEnds, activeVars
  <2>0. call[r] \in CallStates
    BY <1>0
  <2>2. PostSucceeds(q)
    <3>1. ASSUME NEW d \in Device, StartBackup(r, d) PROVE FALSE
      BY <1>0, <1>2, <3>1 DEF StartBackup
    <3>2. CASE ServerStarts(r) \/ ServerSaves(r) \/ ServerFails(r)
      BY <1>2, <3>2 DEF ServerStarts, ServerSaves, ServerFails
    <3>3. CASE HoldEnds(r)
      BY <1>0, <1>2, <2>0, <3>3 DEF HoldEnds, CallStates
    <3>4. CASE PostFails(r)
      BY <1>0, <1>2, <2>0, <3>4 DEF PostFails, CallStates
    <3>5. CASE PostSucceeds(r)
      BY <1>0, <1>2, <3>5 DEF PostSucceeds
    <3> QED BY <2>1, <3>1, <3>2, <3>3, <3>4, <3>5 DEF Progress
  <2> QED BY <1>0, <2>2 DEF PostSucceeds, CallStates
<1> QED BY <1>1, <1>2

(* A display becomes a success only when a hold ends, which it shows then.  *)
LEMMA NextResult ==
  ASSUME ActiveTypeOK, HoldingIsAnswered, SuccessHasItsResult, [ActiveNext]_activeVars
  PROVE  SuccessHasItsResult'
<1>0. display \in Displays
  BY DEF ActiveTypeOK, Displays
<1>1. ASSUME NEW r \in Call, HoldEnds(r) PROVE SuccessHasItsResult'
  <2>1. display'.result = r
    BY <1>0, <1>1 DEF HoldEnds, Displays
  <2>2. job[r] = "saved" /\ call[r].answer = "ok"
    BY <1>1 DEF HoldEnds, HoldingIsAnswered
  <2>3. job'[r] = "saved" /\ call'[r].answer = "ok"
    BY <2>2, SavedStays
  <2> QED BY <2>1, <2>3, CallsOK DEF SuccessHasItsResult
<1>2. ASSUME display'.status = "success" => display.status = "success" /\ display'.result = display.result
      PROVE  SuccessHasItsResult'
  <2> SUFFICES ASSUME display'.status = "success"
               PROVE  /\ display'.result # Nobody
                      /\ job'[display'.result] = "saved" /\ call'[display'.result].answer = "ok"
    BY DEF SuccessHasItsResult
  <2>1. /\ display.result \in Call
        /\ job[display.result] = "saved" /\ call[display.result].answer = "ok"
    BY <1>0, <1>2 DEF SuccessHasItsResult, Displays
  <2> QED BY <1>2, <2>1, SavedStays, CallsOK
<1>3. ASSUME NEW r \in Call, NEW d \in Device, StartBackup(r, d) PROVE SuccessHasItsResult'
  BY <1>3 DEF StartBackup, InitialState, SuccessHasItsResult
<1>4. ASSUME NEW info \in polls, PollReply(info) \/ PollFails(info) PROVE SuccessHasItsResult'
  <2>1. display'.status = "success" => display.status = "success" /\ display'.result = display.result
    BY <1>0, <1>4, ShownIs DEF PollReply, PollFails, ActiveTypeOK
  <2> QED BY <2>1, <1>2
<1>5. ASSUME NEW r \in Call, Progress(r), ~HoldEnds(r) PROVE SuccessHasItsResult'
  <2>1. display'.status = "success" => display.status = "success" /\ display'.result = display.result
    BY <1>0, <1>5 DEF Progress, PostSucceeds, PostFails, ServerStarts, ServerSaves, ServerFails, Displays
  <2> QED BY <2>1, <1>2
<1>6. CASE CloseModal
  BY <1>6 DEF CloseModal, InitialState, SuccessHasItsResult
<1>7. CASE Poll \/ Minimize \/ Maximize \/ CancelBackup \/ (\E d \in Device : CancelEnds(d)) \/ UNCHANGED activeVars
  <2>1. display'.status = display.status /\ display'.result = display.result
    BY <1>0, <1>7 DEF Poll, Minimize, Maximize, CancelBackup, CancelEnds, activeVars, Displays
  <2> QED BY <2>1, <1>2
<1> QED
  BY <1>1, <1>3, <1>4, <1>5, <1>6, <1>7 DEF ActiveNext

-----------------------------------------------------------------------------
(* While a clean display is open, the only call that goes on is its own.    *)
LEMMA OwnCallGoesOn ==
  ASSUME OnlyItsOwn, display.open, display.clean, NEW r \in Call, Progress(r)
  PROVE  r = display.of
BY DEF OnlyItsOwn, Progress, PostSucceeds, HoldEnds, PostFails, ServerStarts, ServerSaves, ServerFails,
       ServerIsDone

LEMMA NextOwn ==
  ASSUME ActiveTypeOK, OpenHasDevice, PollerIsOfTheDisplay, OnlyItsOwn, [ActiveNext]_activeVars
  PROVE  OnlyItsOwn'
<1>0. /\ display \in Displays /\ call \in [Call -> CallStates]
      /\ polls \subseteq Info /\ entry \in [Device -> EntryStatus]
      /\ job \in [Call -> {"none", "sent", "running", "saved", "failed"}]
  BY DEF ActiveTypeOK, Displays, CallStates
<1>1. ASSUME NEW r \in Call, NEW d \in Device, StartBackup(r, d) PROVE OnlyItsOwn'
  <2> SUFFICES ASSUME display'.clean PROVE OnlyItsOwn'
    BY DEF OnlyItsOwn
  <2>1. /\ display'.of = r /\ display'.device = d /\ ~display'.asked
        /\ Quiet /\ ~display.cancelling /\ entry[d] # "cancelled"
    BY <1>1 DEF StartBackup, InitialState
  <2>2. call' = [call EXCEPT ![r] = [pc |-> "awaiting", device |-> d,
                                    cancelling |-> display.cancelling, answer |-> "none"]]
    BY <1>1 DEF StartBackup
  <2>3. \A q \in Call : q # r => call'[q].pc = "idle" /\ ServerIsDone(q)'
    BY <1>0, <1>1, <2>1, <2>2 DEF StartBackup, Quiet, ServerIsDone
  <2>4. polls' = {[device |-> d, status |-> entry[d]]} /\ cancels' = {} /\ entry' = entry
    BY <1>1, <2>1 DEF StartBackup, Quiet
  <2> QED BY <1>0, <2>1, <2>2, <2>3, <2>4 DEF OnlyItsOwn
<1>2. CASE CloseModal
  BY <1>2 DEF CloseModal, InitialState, OnlyItsOwn
<1>3. ASSUME NEW r \in Call, Progress(r), display'.open, display'.clean PROVE OnlyItsOwn'
  <2>1. /\ display'.open = display.open /\ display'.clean = display.clean /\ display'.of = display.of
        /\ display'.device = display.device /\ display'.asked = display.asked
    BY <1>0, <1>3 DEF Progress, PostSucceeds, HoldEnds, PostFails, ServerStarts, ServerSaves, ServerFails, Displays
  <2>2. display.open /\ display.clean
    BY <1>3, <2>1
  <2>3. r = display.of
    BY <1>3, <2>2, OwnCallGoesOn
  <2>4. polls' = polls /\ cancels' = cancels
    BY <1>3 DEF Progress, PostSucceeds, HoldEnds, PostFails, ServerStarts, ServerSaves, ServerFails
  <2>5. entry' = entry \/ entry' = [entry EXCEPT ![display.device] = "active"]
    BY <1>3, <2>2, <2>3
    DEF Progress, PostSucceeds, HoldEnds, PostFails, ServerStarts, ServerSaves, ServerFails, OnlyItsOwn
  <2>6. call' = [call EXCEPT ![r] = call'[r]] /\ job' = [job EXCEPT ![r] = job'[r]]
    BY <1>0, <1>3 DEF Progress, PostSucceeds, HoldEnds, PostFails, ServerStarts, ServerSaves, ServerFails
  <2>7. /\ call'[r].device = call[r].device
        /\ ~call[r].cancelling => ~call'[r].cancelling
        /\ (call[r].answer = "error" => call[r].pc = "idle") => (call'[r].answer = "error" => call'[r].pc = "idle")
    <3>0. call[r] \in CallStates
      BY <1>0
    <3>1. CASE PostSucceeds(r) BY <1>0, <3>0, <3>1 DEF PostSucceeds, CallStates
    <3>2. CASE HoldEnds(r) BY <1>0, <3>0, <3>2 DEF HoldEnds, CallStates
    <3>3. CASE PostFails(r) BY <1>0, <3>0, <3>3 DEF PostFails, CallStates
    <3>4. CASE ServerStarts(r) \/ ServerSaves(r) \/ ServerFails(r)
      BY <3>4 DEF ServerStarts, ServerSaves, ServerFails
    <3> QED BY <1>3, <3>1, <3>2, <3>3, <3>4 DEF Progress
  <2>8. \A q \in Call : q # r => call'[q] = call[q] /\ job'[q] = job[q]
    BY <1>0, <2>6
  <2>9. entry'[display.device] = "cancelled" => entry[display.device] = "cancelled"
    BY <1>0, <2>5
  <2> QED
    BY <2>1, <2>2, <2>3, <2>4, <2>7, <2>8, <2>9 DEF OnlyItsOwn, ServerIsDone
<1>4. ASSUME call' = call, job' = job, display.open, display.clean,
             display'.of = display.of, display'.device = display.device, display.asked => display'.asked,
             \A info \in polls' :
               info \in polls \/ (info.device = display.device /\ info.status = entry[info.device]),
             cancels' # {} => display'.asked /\ cancels' \subseteq {display.device},
             entry' = entry \/ display'.asked
      PROVE  OnlyItsOwn'
  BY <1>4 DEF OnlyItsOwn, ServerIsDone
<1>5. ASSUME NEW info \in polls, PollReply(info) \/ PollFails(info), display'.open, display'.clean
      PROVE  OnlyItsOwn'
  <2>0. info \in Info /\ (PollReply(info) \/ PollFails(info))
    BY <1>0, <1>5
  <2>1. /\ display'.open = display.open /\ display'.clean = display.clean /\ display'.of = display.of
        /\ display'.device = display.device /\ display'.asked = display.asked
    BY <1>0, <2>0, ShownIs DEF PollReply, PollFails
  <2>2. call' = call /\ job' = job /\ polls' \subseteq polls /\ cancels' = cancels /\ entry' = entry
    BY <1>5 DEF PollReply, PollFails
  <2>3. cancels' # {} => display'.asked /\ cancels' \subseteq {display.device}
    BY <1>5, <2>1, <2>2 DEF OnlyItsOwn
  <2> QED BY <1>4, <1>5, <2>1, <2>2, <2>3
<1>6. ASSUME Poll \/ Minimize \/ Maximize \/ CancelBackup \/ (\E d \in Device : CancelEnds(d)) \/ UNCHANGED activeVars,
             display'.open, display'.clean
      PROVE  OnlyItsOwn'
  <2>1. /\ display'.open = display.open /\ display'.clean = display.clean /\ display'.of = display.of
        /\ display'.device = display.device
        /\ display.asked => display'.asked
        /\ call' = call /\ job' = job
    BY <1>0, <1>6 DEF Poll, Minimize, Maximize, CancelBackup, CancelEnds, activeVars, Displays
  <2>2. \A info \in polls' :
          info \in polls \/ (info.device = display.device /\ info.status = entry[info.device])
    BY <1>6 DEF Poll, Minimize, Maximize, CancelBackup, CancelEnds, activeVars, PollerIsOfTheDisplay
  <2>3. cancels # {} => display.asked /\ cancels \subseteq {display.device}
    BY <1>6, <2>1 DEF OnlyItsOwn
  <2>4. (cancels' # {} => display'.asked /\ cancels' \subseteq {display.device}) /\ (entry' = entry \/ display'.asked)
    <3>1. CASE CancelBackup
      BY <1>0, <2>3, <3>1 DEF CancelBackup, Displays
    <3>2. ASSUME NEW d \in Device, CancelEnds(d)
          PROVE  (cancels' # {} => display'.asked /\ cancels' \subseteq {display.device}) /\ display'.asked
      BY <2>1, <2>3, <3>2 DEF CancelEnds
    <3>3. CASE Poll \/ Minimize \/ Maximize \/ UNCHANGED activeVars
      BY <2>1, <2>3, <3>3 DEF Poll, Minimize, Maximize, activeVars
    <3> QED BY <1>6, <3>1, <3>2, <3>3
  <2> QED BY <1>4, <1>6, <2>1, <2>2, <2>4
<1>7. CASE ~(display'.open /\ display'.clean)
  BY <1>7 DEF OnlyItsOwn
<1> QED
  BY <1>1, <1>2, <1>3, <1>5, <1>6, <1>7 DEF ActiveNext

-----------------------------------------------------------------------------
(* What a step may make of a clean display: what its own call or device     *)
(* gives it.                                                                *)
LEMMA NextClean ==
  ASSUME ActiveTypeOK, OpenHasDevice, OnlyItsOwn, CleanDisplayIsTrue, [ActiveNext]_activeVars
  PROVE  CleanDisplayIsTrue'
<1>0. display \in Displays /\ call \in [Call -> CallStates] /\ polls \subseteq Info
  BY DEF ActiveTypeOK, Displays, CallStates
<1> SUFFICES ASSUME display'.open, display'.clean PROVE CleanDisplayIsTrue'
  BY DEF CleanDisplayIsTrue
<1>1. ASSUME NEW r \in Call, NEW d \in Device, StartBackup(r, d) PROVE CleanDisplayIsTrue'
  BY <1>1 DEF StartBackup, InitialState, CleanDisplayIsTrue
<1>2. CASE CloseModal
  BY <1>2 DEF CloseModal, InitialState
<1>3. ASSUME NEW info \in polls, PollReply(info) \/ PollFails(info) PROVE CleanDisplayIsTrue'
  <2>1. /\ display'.open = display.open /\ display'.clean = display.clean /\ display'.of = display.of
        /\ display'.device = display.device /\ display'.asked = display.asked
        /\ display'.result = display.result
        /\ display'.status # display.status => display'.status = "cancelled" /\ info.status = "cancelled"
        /\ display'.info \in {display.info, info.device}
    BY <1>0, <1>3, ShownIs DEF PollReply, PollFails
  <2>2. info.device = display.device /\ (info.status = "cancelled" => display.asked)
    BY <2>1 DEF OnlyItsOwn
  <2>3. call' = call
    BY <1>3 DEF PollReply, PollFails
  <2> QED BY <2>1, <2>2, <2>3 DEF CleanDisplayIsTrue
<1>4. ASSUME NEW r \in Call, Progress(r) PROVE CleanDisplayIsTrue'
  <2>1. /\ display'.open = display.open /\ display'.clean = display.clean /\ display'.of = display.of
        /\ display'.device = display.device /\ display'.asked = display.asked
    BY <1>0, <1>4 DEF Progress, PostSucceeds, HoldEnds, PostFails, ServerStarts, ServerSaves, ServerFails, Displays
  <2>2. r = display.of
    BY <1>4, <2>1, OwnCallGoesOn
  <2>3. /\ call[r] \in CallStates /\ call[r].device = display.device /\ ~call[r].cancelling
        /\ call[r].answer = "error" => call[r].pc = "idle"
    BY <1>0, <2>1, <2>2 DEF OnlyItsOwn
  <2>4. CASE PostSucceeds(r)
    <3>1. call[r].answer # "error"
      BY <2>3, <2>4 DEF PostSucceeds
    <3>2. display'.status = display.status /\ display'.result = display.result
          /\ display'.info = display.device
      BY <1>0, <2>3, <2>4 DEF PostSucceeds, Displays
    <3> QED BY <2>1, <2>2, <3>1, <3>2 DEF CleanDisplayIsTrue
  <2>5. CASE HoldEnds(r)
    <3>1. display'.status = "success" /\ display'.result = r /\ display'.info = display.info
      BY <1>0, <2>5 DEF HoldEnds, Displays
    <3> QED BY <2>1, <2>2, <3>1 DEF CleanDisplayIsTrue
  <2>6. CASE PostFails(r)
    <3>1. display'.status = "error" /\ display'.info = display.info
      BY <1>0, <2>3, <2>6 DEF PostFails, Displays
    <3>2. call'[r].answer = "error"
      BY <1>0, <2>3, <2>6 DEF PostFails, CallStates
    <3> QED BY <2>1, <2>2, <3>1, <3>2 DEF CleanDisplayIsTrue
  <2>7. CASE ServerStarts(r) \/ ServerSaves(r) \/ ServerFails(r)
    BY <2>7 DEF ServerStarts, ServerSaves, ServerFails, CleanDisplayIsTrue
  <2> QED BY <1>4, <2>4, <2>5, <2>6, <2>7 DEF Progress
<1>5. CASE Poll \/ Minimize \/ Maximize \/ CancelBackup \/ (\E d \in Device : CancelEnds(d)) \/ UNCHANGED activeVars
  <2>1. /\ display'.open = display.open /\ display'.clean = display.clean /\ display'.of = display.of
        /\ display'.device = display.device /\ display'.status = display.status
        /\ display'.result = display.result /\ display'.info = display.info
        /\ display.asked => display'.asked
        /\ call' = call
    BY <1>0, <1>5 DEF Poll, Minimize, Maximize, CancelBackup, CancelEnds, activeVars, Displays
  <2> QED BY <2>1 DEF CleanDisplayIsTrue
<1> QED
  BY <1>1, <1>2, <1>3, <1>4, <1>5 DEF ActiveNext

-----------------------------------------------------------------------------
LEMMA ActiveInitInv == ActiveInit => ActiveInv
<1> SUFFICES ASSUME ActiveInit PROVE ActiveInv
  OBVIOUS
<1>1. ~display.open /\ display.status = "loading" /\ poller = Nobody /\ \A r \in Call : call[r].pc = "idle"
  BY DEF ActiveInit, InitialState, IdleCall
<1> QED
  BY <1>1, ActiveInitTypes
  DEF ActiveInv, PollerIsOfTheDisplay, HoldingIsAnswered, SuccessHasItsResult, OnlyItsOwn, CleanDisplayIsTrue

LEMMA ActiveNextInv == ActiveInv /\ [ActiveNext]_activeVars => ActiveInv'
BY ActiveNextTypes, NextHasDevice, NextPoller, NextAnswered, NextResult, NextOwn, NextClean DEF ActiveInv

LEMMA ActiveInductive == ActiveSpec => []ActiveInv
BY ActiveInitInv, ActiveNextInv, PTL DEF ActiveSpec

(* However the answers of earlier calls come in, the interval that polls is *)
(* the one of the backup on display.                                        *)
THEOREM PollersAreOfTheDisplay == ActiveSpec => []PollerIsOfTheDisplay
<1>1. ActiveInv => PollerIsOfTheDisplay
  BY DEF ActiveInv
<1> QED BY <1>1, ActiveInductive, PTL

(* "Finished" is shown with the result of a saved and answered backup only. *)
THEOREM SuccessesHaveTheirResults == ActiveSpec => []SuccessHasItsResult
<1>1. ActiveInv => SuccessHasItsResult
  BY DEF ActiveInv
<1> QED BY <1>1, ActiveInductive, PTL

(* A backup started with nothing of an earlier one under way is shown as    *)
(* what became of it.                                                       *)
THEOREM CleanDisplaysAreTrue == ActiveSpec => []CleanDisplayIsTrue
<1>1. ActiveInv => CleanDisplayIsTrue
  BY DEF ActiveInv
<1> QED BY <1>1, ActiveInductive, PTL
=============================================================================
