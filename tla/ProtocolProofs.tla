---------------------------- MODULE ProtocolProofs ----------------------------
(***************************************************************************)
(* Theorems about the realtime side of the FluidNC core, for all heights,  *)
(* queue and planner capacities, and whatever is sent and however often.   *)
(***************************************************************************)
EXTENDS Protocol, SequenceTheorems, TLAPS

-----------------------------------------------------------------------------
(* Facts about the operators. *)

\* A sent event is queued or dropped; the queue stays within its capacity.
LEMMA SentType ==
  ASSUME NEW q \in Seq(Events), Len(q) <= QueueMax, NEW e \in Events
  PROVE  sent(q, e) \in Seq(Events) /\ Len(sent(q, e)) <= QueueMax
<1>1. QueueMax \in Nat
  BY ProtocolAssumption
<1>2. Append(q, e) \in Seq(Events) /\ Len(Append(q, e)) = Len(q) + 1
  OBVIOUS
<1> QED BY <1>1, <1>2 DEF sent

\* What is left of a queue whose head was taken.
LEMMA RestType ==
  ASSUME QueueOK, queue # <<>>
  PROVE  Tail(queue) \in Seq(Events) /\ Len(Tail(queue)) <= QueueMax
<1>1. QueueMax \in Nat
  BY ProtocolAssumption
<1>2. Tail(queue) \in Seq(Events) /\ Len(Tail(queue)) = Len(queue) - 1
  BY DEF QueueOK
<1> QED BY <1>1, <1>2 DEF QueueOK

\* What the handlers do to sys leaves it with bits there are.
LEMMA HandlersType ==
  ASSUME NEW s \in Sys
  PROVE  /\ start_holding(s) \in Sys /\ cancel_jogging(s) \in Sys /\ hold_complete(s) \in Sys
         /\ holdStopped(s) \in Sys /\ motionDone(s) \in Sys /\ restarted(s) \in Sys
         /\ restores(s) \in Sys /\ polled(s) \in Sys /\ initiate_cycle(s) \in Sys
<1> USE DEF Sys, States, SuspendBits, StepBits
<1>1. start_holding(s) \in Sys
  BY DEF start_holding
<1>2. cancel_jogging(s) \in Sys
  BY DEF cancel_jogging
<1>3. hold_complete(s) \in Sys
  BY DEF hold_complete
<1>4. holdStopped(s) \in Sys
  BY DEF holdStopped
<1>5. motionDone(s) \in Sys
  BY DEF motionDone
<1>6. restarted(s) \in Sys
  BY DEF restarted
<1>7. restores(s) \in Sys
  BY DEF restores
<1>8. polled(s) \in Sys
  BY DEF polled
<1>9. initiate_cycle(s) \in Sys
  BY DEF initiate_cycle
<1> QED BY <1>1, <1>2, <1>3, <1>4, <1>5, <1>6, <1>7, <1>8, <1>9

\* The handlers that choose by state.
LEMMA ChoicesType ==
  ASSUME NEW s \in Sys
  PROVE  /\ motion_cancel(s) \in Sys /\ feedhold(s) \in Sys /\ doorStopped(s) \in Sys
         /\ sleep(s) \in Sys
<1>1. \A t \in Sys, b \in SuspendBits : [t EXCEPT !.suspend = @ \cup {b}] \in Sys
  BY DEF Sys
<1>2. \A t \in Sys, st \in States : [t EXCEPT !.state = st] \in Sys
  BY DEF Sys
<1>3. "motionCancel" \in SuspendBits /\ "Hold" \in States /\ "Sleep" \in States
  BY DEF SuspendBits, States
<1>4. motion_cancel(s) \in Sys
  BY <1>1, <1>3, HandlersType DEF motion_cancel
<1>5. feedhold(s) \in Sys
  BY <1>2, <1>3, HandlersType DEF feedhold
<1>6. doorStopped(s) \in Sys
  BY HandlersType DEF doorStopped
<1>7. sleep(s) \in Sys
  <2>1. [s EXCEPT !.suspend = @ \cup {"retractComplete", "holdComplete"}] \in Sys
    BY DEF Sys, SuspendBits
  <2> QED BY <1>2, <1>3, <2>1, HandlersType DEF sleep
<1> QED BY <1>4, <1>5, <1>6, <1>7

-----------------------------------------------------------------------------
(* The groups of the type invariant, each kept by every step. *)

\* A parking move changes only the step bits of sys.
LEMMA MovesType ==
  ASSUME NEW s \in Sys, NEW t, NEW k, moveto(s, t, k) \/ noMove(s, k)
  PROVE  sys' \in Sys
<1>1. s.step \cup {"executeSysMotion"} \in SUBSET StepBits
      /\ s.step \ {"executeSysMotion"} \in SUBSET StepBits
  BY DEF Sys, StepBits
<1>2. \A st \in SUBSET StepBits : [s EXCEPT !.step = st] \in Sys
  BY DEF Sys
<1>3. CASE noMove(s, k)
  BY <1>3 DEF noMove
<1>4. CASE moveto(s, t, k)
  <2>1. CASE s.abort
    BY <1>4, <2>1 DEF moveto
  <2>2. CASE ~s.abort /\ z # t
    BY <1>1, <1>2, <1>4, <2>2 DEF moveto
  <2>3. CASE ~s.abort /\ z = t
    BY <1>1, <1>2, <1>4, <2>3 DEF moveto
  <2> QED BY <2>1, <2>2, <2>3
<1> QED BY <1>3, <1>4

LEMMA SysHandle ==
  ASSUME sys \in Sys, Handle
  PROVE  sys' \in Sys
<1>1. \A s : handled(s) => sys' = s
  BY DEF handled
<1>2. \A st \in States : [sys EXCEPT !.state = st] \in Sys
  BY DEF Sys
<1>3. {"Alarm", "Critical", "Idle"} \subseteq States
  BY DEF States
<1>4. CASE doMotionCancel
  BY <1>1, <1>4, ChoicesType DEF doMotionCancel
<1>5. CASE doFeedhold
  BY <1>1, <1>5, ChoicesType DEF doFeedhold
<1>6. CASE doSleep
  BY <1>1, <1>6, ChoicesType DEF doSleep
<1>7. CASE doDoorPin \/ request_safety_door \/ doSpindleStop \/ doSpindleOverride \/ doLimit
  BY <1>7 DEF doDoorPin, request_safety_door, doSpindleStop, doSpindleOverride, doLimit
<1>8. CASE doCycleStart
  BY <1>8, HandlersType DEF doCycleStart
<1>9. CASE doCycleStop
  BY <1>9, HandlersType DEF doCycleStop
<1>10. CASE doAlarm
  BY <1>2, <1>3, <1>10 DEF doAlarm
<1>11. CASE doReset
  <2>1. \A st \in States : [sys EXCEPT !.state = st, !.abort = TRUE] \in Sys
    BY DEF Sys
  <2> QED BY <1>3, <1>11, <2>1 DEF doReset
<1>12. CASE doRestart
  BY <1>12 DEF doRestart, Sys
<1> QED
  BY <1>4, <1>5, <1>6, <1>7, <1>8, <1>9, <1>10, <1>11, <1>12 DEF Handle

LEMMA SysStep ==
  ASSUME sys \in Sys, Next
  PROVE  sys' \in Sys
<1>1. CASE RtBegin
  <2>1. doorStopped(sys) \in Sys
    BY ChoicesType
  <2>2. \A s \in Sys : \A st \in States :
          [s EXCEPT !.suspend = @ \cup {"safetyDoorAjar"}, !.state = st] \in Sys
    BY DEF Sys, SuspendBits
  <2>3. \A s \in Sys : s.state \in States
    BY DEF Sys
  <2>4. "SafetyDoor" \in States
    BY DEF States
  <2> QED BY <1>1, <2>1, <2>2, <2>3, <2>4 DEF RtBegin
<1>2. CASE Handle
  BY <1>2, SysHandle
<1>3. CASE execute_line
  <2>1. \A st \in States : [sys EXCEPT !.state = st] \in Sys
    BY DEF Sys
  <2>2. sys.state \in States /\ "Idle" \in States
    BY DEF Sys, States
  <2> QED BY <1>3, <2>1, <2>2 DEF execute_line
<1>4. CASE RtEnd \/ NoLine \/ AwaitHold \/ manage_spindle \/ KeepWaiting \/ Asleep
           \/ StepOn \/ ShutDown \/ Command \/ MoveDoor
  BY <1>4 DEF RtEnd, NoLine, AwaitHold, manage_spindle, KeepWaiting, Asleep, StepOn, ShutDown,
              Command, MoveDoor
<1>5. CASE RealtimeDone \/ SuspendEnds
  <2>1. [sys EXCEPT !.abort = FALSE] \in Sys
    BY DEF Sys
  <2> QED BY <1>5, <2>1 DEF RealtimeDone, SuspendEnds
<1>6. CASE ParkBegin
  BY <1>6, MovesType DEF ParkBegin
<1>7. CASE SpinDown
  BY <1>7, MovesType DEF SpinDown
<1>8. CASE ParkEnds
  BY <1>8 DEF ParkEnds, Sys, SuspendBits
<1>9. CASE DoorPoll
  <2>1. polled(sys) \in Sys
    BY HandlersType
  <2> QED BY <1>9, <2>1, MovesType DEF DoorPoll
<1>10. CASE SpinUp
  BY <1>10, MovesType DEF SpinUp
<1>11. CASE UnparkEnds
  BY <1>11 DEF UnparkEnds, Sys, States
<1> QED
  BY <1>1, <1>2, <1>3, <1>4, <1>5, <1>6, <1>7, <1>8, <1>9, <1>10, <1>11 DEF Next, MainTask

LEMMA QueueStep ==
  ASSUME QueueOK, Next
  PROVE  QueueOK'
<1>1. queue \in Seq(Events) /\ Len(queue) <= QueueMax
  BY DEF QueueOK
<1>2. \A e \in Events : sent(queue, e) \in Seq(Events) /\ Len(sent(queue, e)) <= QueueMax
  BY <1>1, SentType
<1>3. SUFFICES queue' \in Seq(Events) /\ Len(queue') <= QueueMax
  BY <1>3 DEF QueueOK
<1>4. CASE Handle
  <2>1. queue # <<>>
    BY <1>4 DEF Handle, handles, doMotionCancel, doFeedhold, doSleep, doDoorPin,
                request_safety_door, doCycleStart, doCycleStop, doSpindleStop, doSpindleOverride,
                doLimit, doAlarm, doReset, doRestart
  <2>2. Tail(queue) \in Seq(Events) /\ Len(Tail(queue)) <= QueueMax
    BY <2>1, RestType
  <2>3. \A e \in Events : sent(Tail(queue), e) \in Seq(Events)
                           /\ Len(sent(Tail(queue), e)) <= QueueMax
    BY <2>2, SentType
  <2>4. {"safetyDoor", "hardLimit", "restart"} \subseteq Events
    BY DEF Events
  <2>5. \/ queue' = Tail(queue)
        \/ \E e \in {"safetyDoor", "hardLimit", "restart"} : queue' = sent(Tail(queue), e)
    BY <1>4 DEF Handle, handled, doMotionCancel, doFeedhold, doSleep, doDoorPin,
                request_safety_door, doCycleStart, doCycleStop, doSpindleStop, doSpindleOverride,
                doLimit, doAlarm, doReset, doRestart
  <2> QED BY <2>2, <2>3, <2>4, <2>5
<1>5. CASE execute_line \/ NoLine
  <2>1. {"alarm", "sleep", "autoStart"} \subseteq Events
    BY DEF Events, CycleStarts
  <2>2. PICK q, p, st :
          looped(q, p, st) /\ q \in {queue, sent(queue, "alarm"), sent(queue, "sleep")}
    BY <1>5 DEF execute_line, NoLine
  <2>3. q \in Seq(Events) /\ Len(q) <= QueueMax
    BY <1>1, <1>2, <2>1, <2>2
  <2>4. sent(q, "autoStart") \in Seq(Events) /\ Len(sent(q, "autoStart")) <= QueueMax
    BY <2>1, <2>3, SentType
  <2> QED BY <2>2, <2>3, <2>4 DEF looped, auto_started
<1>6. CASE Command \/ MoveDoor
  <2>1. PICK e \in (Inputs \cup Rough \cup {"doorShut", "doorOpen"}) \ {"door"} :
          queue' = sent(queue, e)
    BY <1>6 DEF Command, MoveDoor
  <2>2. e \in Events
    BY <2>1, ProtocolAssumption DEF Events, CycleStarts
  <2> QED BY <1>2, <2>1, <2>2
<1>7. CASE manage_spindle \/ UnparkEnds \/ ShutDown
  <2>1. {"resumed", "autoStart", "cycleStop"} \subseteq Events
    BY DEF Events, CycleStarts
  <2> QED BY <1>1, <1>2, <1>7, <2>1 DEF manage_spindle, UnparkEnds, ShutDown
<1>8. CASE UNCHANGED queue
  BY <1>1, <1>8
<1> QED
  BY <1>4, <1>5, <1>6, <1>7, <1>8
     DEF Next, MainTask, RtBegin, RtEnd, RealtimeDone, SuspendEnds, AwaitHold, KeepWaiting,
         ParkBegin, SpinDown, ParkEnds, Asleep, DoorPoll, SpinUp, StepOn

LEMMA PlanStep ==
  ASSUME PlanOK, Next
  PROVE  PlanOK'
<1> DEFINE Block == [jog : BOOLEAN, todo : 1..BlockLen]
<1>1. plan \in Seq(Block) /\ Len(plan) <= MaxBlocks /\ MaxBlocks \in Nat /\ BlockLen \in Nat \ {0}
  BY ProtocolAssumption DEF PlanOK
<1>2. SUFFICES plan' \in Seq(Block) /\ Len(plan') <= MaxBlocks
  BY <1>2 DEF PlanOK
<1>3. CASE plan' = <<>>
  BY <1>1, <1>3
<1>4. CASE execute_line
  <2>1. \/ UNCHANGED plan
        \/ \E j \in BOOLEAN : Len(plan) < MaxBlocks
                             /\ plan' = Append(plan, [jog |-> j, todo |-> BlockLen])
    BY <1>4 DEF execute_line
  <2>2. \A j \in BOOLEAN : [jog |-> j, todo |-> BlockLen] \in Block
    BY <1>1
  <2> HIDE DEF Block
  <2>3. \A b \in Block : Append(plan, b) \in Seq(Block) /\ Len(Append(plan, b)) = Len(plan) + 1
    BY <1>1
  <2>4. CASE UNCHANGED plan
    BY <1>1, <2>4
  <2>5. CASE ~UNCHANGED plan
    <3>1. PICK j \in BOOLEAN : Len(plan) < MaxBlocks
                              /\ plan' = Append(plan, [jog |-> j, todo |-> BlockLen])
      BY <2>1, <2>5
    <3>2. PICK b \in Block : plan' = Append(plan, b)
      BY <2>2, <3>1
    <3>3. plan' \in Seq(Block) /\ Len(plan') = Len(plan) + 1 /\ Len(plan) \in Nat
      BY <1>1, <2>3, <3>2
    <3> QED BY <1>1, <3>1, <3>3
  <2> QED BY <2>4, <2>5
<1>5. CASE StepOn
  <2>1. CASE UNCHANGED plan
    BY <1>1, <2>1
  <2>2. CASE ~UNCHANGED plan
    <3>1. plan # <<>> /\ plan' = IF Head(plan).todo = 1 THEN Tail(plan)
                                 ELSE [plan EXCEPT ![1].todo = @ - 1]
      BY <1>5, <2>2 DEF StepOn, Finished
    <3>2. plan[1] \in Block /\ Head(plan) = plan[1] /\ Len(plan) > 0 /\ DOMAIN plan = 1..Len(plan)
      <4> HIDE DEF Block
      <4> QED BY <1>1, <3>1
    <3>3. CASE Head(plan).todo = 1
      BY <1>1, <3>1, <3>3
    <3>4. CASE Head(plan).todo # 1
      <4> DEFINE b == [plan[1] EXCEPT !.todo = @ - 1]
      <4>1. b \in Block
        BY <1>1, <3>2, <3>4
      <4>2. plan' = [plan EXCEPT ![1] = b]
        BY <3>1, <3>4
      <4> HIDE DEF b, Block
      <4> QED BY <1>1, <3>2, <4>1, <4>2
    <3> QED BY <3>3, <3>4
  <2> QED BY <2>1, <2>2
<1>6. CASE UNCHANGED plan
  BY <1>1, <1>6
<1>7. CASE Handle
  <2>1. plan' = <<>> \/ UNCHANGED plan
    BY <1>7 DEF Handle, handled, motionVars, doMotionCancel, doFeedhold, doSleep, doDoorPin,
                request_safety_door, doCycleStart, doCycleStop, doSpindleStop, doSpindleOverride,
                doLimit, doAlarm, doReset, doRestart
  <2> QED BY <1>3, <1>6, <2>1
<1>8. CASE MainTask /\ ~Handle /\ ~execute_line
  <2>1. UNCHANGED plan
    BY <1>8 DEF MainTask, motionVars, RtBegin, RtEnd, NoLine, RealtimeDone, SuspendEnds, AwaitHold,
         manage_spindle, KeepWaiting, ParkBegin, SpinDown, ParkEnds, Asleep, DoorPoll, SpinUp,
         UnparkEnds
  <2> QED BY <1>6, <2>1
<1> QED
  BY <1>4, <1>5, <1>6, <1>7, <1>8 DEF Next, motionVars, ShutDown, Command, MoveDoor

LEMMA PlacesStep ==
  ASSUME PlacesOK, Next
  PROVE  PlacesOK'
<1>1. TargetZ \in Int /\ Pullout \in Int
  BY ProtocolAssumption
<1>2. SUFFICES /\ z' \in Int /\ pl_z' \in Int /\ goal' \in Int
               /\ restore_target' \in Int /\ retract_waypoint' \in Int
  BY <1>2 DEF PlacesOK
<1> USE DEF PlacesOK, motionVars, parkVars
<1>3. CASE Handle
  BY <1>3 DEF Handle, handled, doMotionCancel, doFeedhold, doSleep, doDoorPin,
              request_safety_door, doCycleStart, doCycleStop, doSpindleStop, doSpindleOverride,
              doLimit, doAlarm, doReset, doRestart
<1>4. CASE execute_line \/ NoLine
  BY <1>4 DEF execute_line, NoLine, looped
<1>5. CASE RealtimeDone
  BY <1>1, <1>5 DEF RealtimeDone
<1>6. CASE ParkBegin
  <2>1. retract_waypoint' \in Int /\ restore_target' \in Int
    BY <1>1, <1>6 DEF ParkBegin, Least
  <2> QED BY <1>6, <2>1 DEF ParkBegin, moveto, noMove
<1>7. CASE SpinDown \/ DoorPoll \/ SpinUp
  BY <1>1, <1>7 DEF SpinDown, DoorPoll, SpinUp, moveto, noMove
<1>8. CASE StepOn
  BY <1>8 DEF StepOn
<1>9. CASE UNCHANGED <<z, pl_z, goal, restore_target, retract_waypoint>>
  BY <1>9
<1> QED
  BY <1>3, <1>4, <1>5, <1>6, <1>7, <1>8, <1>9
     DEF Next, MainTask, RtBegin, RtEnd, SuspendEnds, AwaitHold, manage_spindle, KeepWaiting,
         ParkEnds, Asleep, UnparkEnds, ShutDown, Command, MoveDoor

LEMMA FlagsStep ==
  ASSUME FlagsOK, Next
  PROVE  FlagsOK'
<1>1. Homes \in BOOLEAN
  BY ProtocolAssumption
<1> USE DEF FlagsOK, motionVars, parkVars, inputVars
<1>2. CASE Handle
  <2>1. CASE doMotionCancel \/ doFeedhold \/ doSleep
    BY <2>1 DEF doMotionCancel, doFeedhold, doSleep, handled
  <2>2. CASE doDoorPin \/ request_safety_door
    BY <2>2 DEF doDoorPin, request_safety_door
  <2>3. CASE doCycleStart
    <3>1. /\ UNCHANGED <<rtSafetyDoor, unhomed, ajar, door, modal, spinning, restart>>
          /\ awake' \in BOOLEAN
      BY <2>3, Zenon DEF doCycleStart
    <3>2. spindle_stop_ovr' \subseteq {"initiate", "enabled", "restore", "restoreCycle"}
      BY <2>3 DEF doCycleStart
    <3> QED BY <3>1, <3>2, Zenon
  <2>4. CASE doCycleStop
    <3>1. /\ UNCHANGED <<rtSafetyDoor, unhomed, ajar, door, modal, spinning, restart,
                         spindle_stop_ovr>>
          /\ awake' \in BOOLEAN
      BY <2>4, Zenon DEF doCycleStop
    <3> QED BY <3>1, Zenon
  <2>5. CASE doSpindleStop
    BY <2>5 DEF doSpindleStop
  <2>6. CASE doSpindleOverride \/ doLimit
    BY <2>6, Zenon DEF doSpindleOverride, doLimit
  <2>7. CASE doAlarm
    <3>1. /\ UNCHANGED <<rtSafetyDoor, awake, ajar, door, modal, restart, spindle_stop_ovr>>
          /\ spinning' \in BOOLEAN /\ unhomed' \in BOOLEAN
      BY <1>1, <2>7, Zenon DEF doAlarm
    <3> QED BY <3>1, Zenon
  <2>8. CASE doReset \/ doRestart
    BY <2>8 DEF doReset, doRestart
  <2> QED BY <1>2, <2>1, <2>2, <2>3, <2>4, <2>5, <2>6, <2>7, <2>8 DEF Handle
<1>3. CASE RtBegin
  <2>1. UNCHANGED <<unhomed, awake, ajar, door, modal, spinning, restart, spindle_stop_ovr>>
    BY <1>3 DEF RtBegin
  <2>2. rtSafetyDoor' \in BOOLEAN
    <3>1. CASE rtSafetyDoor /\ sys.state \notin {"Alarm", "Sleep"}
      <4>1. rtSafetyDoor' = ("jogCancel" \in doorStopped(sys).suspend)
        BY <1>3, <3>1, Zenon DEF RtBegin
      <4>2. CASE "jogCancel" \in doorStopped(sys).suspend
        BY <4>1, <4>2, Zenon
      <4>3. CASE ~("jogCancel" \in doorStopped(sys).suspend)
        BY <4>1, <4>3
      <4> QED BY <4>2, <4>3, Zenon
    <3>2. CASE ~(rtSafetyDoor /\ sys.state \notin {"Alarm", "Sleep"})
      BY <1>3, <3>2, Zenon DEF RtBegin
    <3> QED BY <3>1, <3>2, Zenon
  <2> QED BY <2>1, <2>2, Zenon
<1>4. CASE execute_line
  <2>1. /\ UNCHANGED <<rtSafetyDoor, awake, ajar, door, restart, spindle_stop_ovr>>
        /\ modal' \in BOOLEAN /\ spinning' \in BOOLEAN /\ unhomed' \in BOOLEAN
    BY <1>4, Zenon DEF execute_line, looped
  <2> QED BY <2>1, Zenon
<1>5. CASE manage_spindle
  <2>1. /\ UNCHANGED <<rtSafetyDoor, awake, unhomed, ajar, door, modal, restart>>
        /\ spinning' \in BOOLEAN
    BY <1>5, Zenon DEF manage_spindle
  <2>2. spindle_stop_ovr' \subseteq {"initiate", "enabled", "restore", "restoreCycle"}
    BY <1>5 DEF manage_spindle
  <2> QED BY <2>1, <2>2, Zenon
<1>6. CASE ParkBegin \/ SpinDown \/ SpinUp
  <2>1. /\ UNCHANGED <<rtSafetyDoor, unhomed, ajar, door, modal, restart>>
        /\ spinning' \in BOOLEAN /\ awake' \in BOOLEAN
    BY <1>6, Zenon DEF ParkBegin, SpinDown, SpinUp, moveto, noMove
  <2>2. spindle_stop_ovr' = {} \/ UNCHANGED spindle_stop_ovr
    BY <1>6, Zenon DEF ParkBegin, SpinDown, SpinUp
  <2>3. spindle_stop_ovr' \subseteq {"initiate", "enabled", "restore", "restoreCycle"}
    BY <2>2
  <2> QED BY <2>1, <2>3, Zenon
<1>7. CASE DoorPoll
  <2>1. /\ UNCHANGED <<rtSafetyDoor, unhomed, ajar, door, modal, spinning, spindle_stop_ovr>>
        /\ awake' \in BOOLEAN
    BY <1>7, Zenon DEF DoorPoll, moveto, noMove
  <2>2. restart' \in BOOLEAN
    <3>1. CASE Has("restartRetract")
      <4>1. UNCHANGED restart \/ restart' = TRUE
        BY <1>7, <3>1 DEF DoorPoll
      <4> QED BY <4>1
    <3>2. CASE ~Has("restartRetract")
      <4>1. UNCHANGED restart \/ restart' = FALSE
        BY <1>7, <3>2 DEF DoorPoll
      <4> QED BY <4>1
    <3> QED BY <3>1, <3>2
  <2> QED BY <2>1, <2>2, Zenon
<1>8. CASE StepOn \/ ShutDown \/ Command \/ MoveDoor
  BY <1>8 DEF StepOn, ShutDown, Command, MoveDoor
<1>9. CASE RtEnd \/ NoLine \/ RealtimeDone \/ SuspendEnds \/ AwaitHold \/ KeepWaiting \/ ParkEnds
           \/ Asleep \/ UnparkEnds
  BY <1>9 DEF RtEnd, NoLine, looped, RealtimeDone, SuspendEnds, AwaitHold, KeepWaiting, ParkEnds,
              Asleep, UnparkEnds
<1> QED
  BY <1>2, <1>3, <1>4, <1>5, <1>6, <1>7, <1>8, <1>9 DEF Next, MainTask

LEMMA TaskStep ==
  ASSUME TaskOK, Next
  PROVE  TaskOK'
<1> USE DEF TaskOK
<1>1. CASE Handle
  BY <1>1 DEF Handle, handles, doMotionCancel, doFeedhold, doSleep, doDoorPin,
              request_safety_door, doCycleStart, doCycleStop, doSpindleStop, doSpindleOverride,
              doLimit, doAlarm, doReset, doRestart
<1>2. CASE execute_line \/ NoLine
  BY <1>2 DEF execute_line, NoLine, looped
<1>3. CASE ParkBegin \/ SpinDown \/ DoorPoll \/ SpinUp
  BY <1>3 DEF ParkBegin, SpinDown, DoorPoll, SpinUp, moveto, noMove, again
<1>4. CASE StepOn \/ ShutDown \/ Command \/ MoveDoor
  BY <1>4 DEF StepOn, ShutDown, Command, MoveDoor
<1> QED
  BY <1>1, <1>2, <1>3, <1>4
     DEF Next, MainTask, RtBegin, RtEnd, RealtimeDone, SuspendEnds, AwaitHold, manage_spindle,
         KeepWaiting, ParkEnds, Asleep, UnparkEnds, again

-----------------------------------------------------------------------------

\* Every variable of the realtime side stays in its type (TypeOK), with any capacity: in
\* particular neither event_queue nor the planner outgrows its own, whoever posts events.
THEOREM ProtocolTypeCorrect == Spec => []TypeOK
<1>1. Init => TypeOK
  <2> SUFFICES ASSUME Init PROVE TypeOK
    OBVIOUS
  <2>1. sys \in Sys
    BY DEF Init, Sys, States
  <2>2. QueueOK /\ PlanOK
    BY ProtocolAssumption DEF Init, QueueOK, PlanOK
  <2>3. PlacesOK
    BY ProtocolAssumption DEF Init, PlacesOK
  <2>4. FlagsOK /\ TaskOK
    BY DEF Init, FlagsOK, TaskOK
  <2> QED BY <2>1, <2>2, <2>3, <2>4 DEF TypeOK
<1>2. TypeOK /\ [Next]_vars => TypeOK'
  <2> SUFFICES ASSUME TypeOK, [Next]_vars PROVE TypeOK'
    OBVIOUS
  <2>1. CASE Next
    BY <2>1, SysStep, QueueStep, PlanStep, PlacesStep, FlagsStep, TaskStep DEF TypeOK
  <2>2. CASE UNCHANGED vars
    BY <2>2 DEF TypeOK, QueueOK, PlanOK, PlacesOK, FlagsOK, TaskOK, vars, motionVars, parkVars,
                inputVars
  <2> QED BY <2>1, <2>2
<1> QED BY <1>1, <1>2, PTL DEF Spec

-----------------------------------------------------------------------------
(* Which events are in the queue. *)

\* The event e is in the queue q.
In(e, q) == \E i \in 1..Len(q) : q[i] = e
\* It is there at most once.
Once(e, q) == \A i, j \in 1..Len(q) : q[i] = e /\ q[j] = e => i = j
Queued(e) == In(e, queue)

\* Sending e adds nothing but e, loses nothing, and keeps an event that was there once there once.
LEMMA SentIn ==
  ASSUME NEW q \in Seq(Events), NEW e \in Events
  PROVE  /\ \A x : In(x, sent(q, e)) => In(x, q) \/ x = e
         /\ \A x : In(x, q) => In(x, sent(q, e))
         /\ Len(q) < QueueMax => In(e, sent(q, e))
         /\ \A x : Once(x, q) /\ (x = e => ~In(x, q)) => Once(x, sent(q, e))
<1>1. CASE ~(Len(q) < QueueMax)
  BY <1>1 DEF sent
<1>2. CASE Len(q) < QueueMax
  <2> DEFINE r == Append(q, e)
  <2>1. sent(q, e) = r
    BY <1>2 DEF sent
  <2>2. Len(q) \in Nat /\ Len(r) = Len(q) + 1 /\ r[Len(q) + 1] = e
        /\ \A i \in 1..Len(q) : r[i] = q[i]
    OBVIOUS
  <2> HIDE DEF r
  <2>3. \A i \in 1..Len(r) : i \in 1..Len(q) \/ i = Len(q) + 1
    BY <2>2
  <2>4. \A i \in 1..Len(q) : i \in 1..Len(r)
    BY <2>2
  <2>5. Len(q) + 1 \in 1..Len(r)
    BY <2>2
  <2>6. \A x : In(x, r) => In(x, q) \/ x = e
    BY <2>2, <2>3 DEF In
  <2>7. \A x : In(x, q) => In(x, r)
    BY <2>2, <2>4 DEF In
  <2>8. In(e, r)
    BY <2>2, <2>5 DEF In
  <2>9. ASSUME NEW x, Once(x, q), x = e => ~In(x, q) PROVE Once(x, r)
    BY <2>2, <2>3, <2>9 DEF In, Once
  <2> QED BY <1>2, <2>1, <2>6, <2>7, <2>8, <2>9
<1> QED BY <1>1, <1>2

\* What Tail leaves of a queue: everything but the head.
LEMMA RestIn ==
  ASSUME NEW q \in Seq(Events), q # <<>>
  PROVE  /\ In(Head(q), q)
         /\ \A x : In(x, Tail(q)) => In(x, q)
         /\ \A x : In(x, q) => x = Head(q) \/ In(x, Tail(q))
         /\ \A x : Once(x, q) => Once(x, Tail(q)) /\ (x = Head(q) => ~In(x, Tail(q)))
<1> DEFINE r == Tail(q)
<1>1. Len(q) \in Nat /\ Len(q) > 0 /\ Len(r) = Len(q) - 1 /\ Head(q) = q[1]
      /\ \A i \in 1..Len(r) : r[i] = q[i + 1]
  OBVIOUS
<1> HIDE DEF r
<1>2. \A i \in 1..Len(r) : i + 1 \in 1..Len(q) /\ i + 1 # 1
  BY <1>1
<1>3. \A i \in 1..Len(q) : i = 1 \/ (i - 1 \in 1..Len(r) /\ r[i - 1] = q[i])
  BY <1>1
<1>4. 1 \in 1..Len(q)
  BY <1>1
<1>5. In(Head(q), q)
  BY <1>1, <1>4 DEF In
<1>6. \A x : In(x, r) => In(x, q)
  BY <1>1, <1>2 DEF In
<1>7. \A x : In(x, q) => x = Head(q) \/ In(x, r)
  BY <1>1, <1>3 DEF In
<1>8. ASSUME NEW x, Once(x, q) PROVE Once(x, r)
  <2> SUFFICES ASSUME NEW i \in 1..Len(r), NEW j \in 1..Len(r), r[i] = x, r[j] = x PROVE i = j
    BY DEF Once
  <2>1. i + 1 = j + 1
    BY <1>1, <1>2, <1>8 DEF Once
  <2> QED BY <2>1
<1>9. ASSUME NEW x, Once(x, q), x = Head(q) PROVE ~In(x, r)
  BY <1>1, <1>2, <1>4, <1>9 DEF In, Once
<1> QED BY <1>5, <1>6, <1>7, <1>8, <1>9 DEF r

\* The same of an event that is handled, which makes room for another.
LEMMA TakenIn ==
  ASSUME QueueOK, NEW e, handles(e)
  PROVE  /\ Queued(e) /\ pc = "events" /\ pc' = "events" /\ ret' = ret
         /\ Tail(queue) \in Seq(Events) /\ Len(Tail(queue)) < QueueMax
         /\ \A x : In(x, Tail(queue)) => Queued(x)
         /\ \A x : Queued(x) => x = e \/ In(x, Tail(queue))
         /\ \A x : Once(x, queue) => Once(x, Tail(queue)) /\ (x = e => ~In(x, Tail(queue)))
<1>1. queue \in Seq(Events) /\ queue # <<>> /\ Head(queue) = e /\ Len(queue) <= QueueMax
  BY DEF QueueOK, handles
<1>2. QueueMax \in Nat
  BY ProtocolAssumption
<1>3. Tail(queue) \in Seq(Events) /\ Len(Tail(queue)) < QueueMax
  BY <1>1, <1>2
<1> QED BY <1>1, <1>3, RestIn DEF Queued, handles

\* The pin's handler posts a safetyDoor event at most.
LEMMA PinSends ==
  ASSUME QueueOK, doDoorPin
  PROVE  /\ pc = "events" /\ pc' = "events" /\ ret' = ret
         /\ \A x : In(x, queue') => In(x, queue) \/ x = "safetyDoor"
         /\ \A x : In(x, queue) => x \in {"doorOpen", "doorShut"} \/ In(x, queue')
         /\ Once("cycleStop", queue) => Once("cycleStop", queue')
<1>1. "safetyDoor" \in Events
  BY DEF Events
<1>2. CASE handles("doorOpen") /\ queue' = sent(Tail(queue), "safetyDoor")
  <2>1. Tail(queue) \in Seq(Events)
    BY <1>2, TakenIn
  <2> QED BY <1>1, <1>2, <2>1, TakenIn, SentIn DEF Queued
<1>3. CASE handles("doorShut") /\ queue' = Tail(queue)
  BY <1>3, TakenIn DEF Queued
<1> QED BY <1>2, <1>3 DEF doDoorPin

\* What a cycle start takes from the queue, and when it wakes the steppers.
LEMMA StartTakes ==
  ASSUME QueueOK, doCycleStart
  PROVE  /\ pc = "events" /\ pc' = "events" /\ ret' = ret
         /\ \A x : In(x, queue') => In(x, queue)
         /\ \A x : In(x, queue) => x \in CycleStarts \/ In(x, queue')
         /\ Once("cycleStop", queue) => Once("cycleStop", queue')
         /\ awake' <=> awake \/ (cyclesNow(sys) /\ starts(sys))
<1>1. PICK e \in CycleStarts : handles(e)
  BY DEF doCycleStart
<1>2. queue' = Tail(queue)
  BY DEF doCycleStart
<1>3. awake' <=> awake \/ (cyclesNow(sys) /\ starts(sys))
  BY Zenon DEF doCycleStart
<1> QED BY <1>1, <1>2, <1>3, TakenIn DEF Queued

\* Out of Alarm and with its position known, the main loop posts sleep and autoStart only.
LEMMA LineSends ==
  ASSUME queue \in Seq(Events), execute_line \/ NoLine, ~unhomed, sys.state # "Alarm"
  PROVE  /\ pc = "line" /\ pc' = "rt" /\ ret' = "top" /\ UNCHANGED <<sys, unhomed>>
         /\ UNCHANGED <<z, pl_z, goal, awake, restart, restore_target>>
         /\ \A x : In(x, queue') => In(x, queue) \/ x \in {"sleep", "autoStart"}
<1>1. {"sleep", "autoStart"} \subseteq Events
  BY DEF Events, CycleStarts
<1>2. pc = "line" /\ UNCHANGED <<sys, unhomed>>
  BY DEF execute_line, NoLine
<1>3. PICK q, p, st : looped(q, p, st) /\ q \in {queue, sent(queue, "sleep")}
  BY DEF execute_line, NoLine
<1>4. sent(queue, "sleep") \in Seq(Events)
  BY <1>1 DEF sent
<1>5. q \in Seq(Events) /\ \A x : In(x, q) => In(x, queue) \/ x = "sleep"
  BY <1>1, <1>3, <1>4, SentIn
<1>6. \A x : In(x, queue') => In(x, queue) \/ x \in {"sleep", "autoStart"}
  BY <1>1, <1>3, <1>5, SentIn DEF looped, auto_started
<1>7. /\ pc' = "rt" /\ ret' = "top"
      /\ UNCHANGED <<z, pl_z, goal, awake, restart, restore_target>>
  BY <1>3 DEF looped, parkVars
<1> QED BY <1>2, <1>6, <1>7

-----------------------------------------------------------------------------
(* A complete hold stands still, and no cycle stop is left over. *)

\* No limit pin is ever tripped.
NoLimits == "limit" \notin Inputs \cup Rough

ParkMoves == {"pull", "park", "back", "plunge"}

\* Where the main task is, or will be once the events are handled.
At == IF pc \in {"rt", "events"} THEN ret ELSE pc
InPark == At \in ParkMoves

\* The states in which the steppers may run: in a cycle, braking for a hold, or parking.
Braking(s) == "holdComplete" \notin s.suspend /\ "executeHold" \in s.step
Moving(s) ==
  \/ s.state \in {"Cycle", "Jog"}
  \/ s.state \in {"Hold", "SafetyDoor", "Sleep"} /\ Braking(s)
  \/ s.state \in {"SafetyDoor", "Sleep"} /\ "executeSysMotion" \in s.step
Aborted(s) == s.state = "Alarm" /\ s.abort

NoLimitYet == ~unhomed /\ sys.state # "Critical" /\ ~Queued("limit") /\ ~Queued("hardLimit")

\* What the lines post is handled before the next line, and asks for sleep at rest only.
LineOK ==
  /\ Queued("alarm") => sys.state = "Alarm" /\ ~Queued("sleep")
  /\ Queued("alarm") \/ Queued("sleep") => ret = "top" /\ pc \in {"rt", "events"}
  /\ Queued("sleep") => plan = <<>> /\ ~awake /\ ~Queued("cycleStop")
                          /\ sys.state \notin {"Cycle", "Jog"}
  /\ pc = "line" => ~sys.abort
  /\ At = "line" => pc = "line"

\* An abort lasts until the restart behind it was handled, and after it nothing can start.
AbortOK ==
  /\ Queued("restart") => pc = "events" /\ sys.abort
  /\ sys.abort => \/ Queued("restart")
                  \/ /\ ~awake /\ plan = <<>> /\ "executeSysMotion" \notin sys.step
                     /\ Queued("cycleStop") => pc = "events"

\* The steppers run only in a state that expects it, and a cycle stop belongs to such a state.
AwakeOK == awake => (Moving(sys) \/ Aborted(sys)) /\ ~Queued("cycleStop")
StopOK ==
  /\ Queued("cycleStop") => \/ Moving(sys) \/ Aborted(sys)
                            \/ sys.abort /\ plan = <<>> /\ ~awake /\ pc = "events"
  /\ Once("cycleStop", queue)

\* A cancelled cycle is braking, so a hold that leaves the step bits alone brakes too.
CycleOK ==
  sys.state \in {"Cycle", "Jog"} =>
    "holdComplete" \notin sys.suspend /\ (cancelling(sys) => "executeHold" \in sys.step)

\* park() and unpark() run behind a complete hold, or brake for the door that opened again, and
\* only they make system motions.
ParkOK ==
  /\ InPark /\ ~sys.abort =>
       /\ sys.state \in {"SafetyDoor", "Sleep"}
       /\ "holdComplete" \in sys.suspend \/ StepBits \subseteq sys.step
  /\ "executeSysMotion" \in sys.step /\ ~sys.abort => InPark /\ (pc \in ParkMoves => ret = pc)

StillInv == NoLimitYet /\ LineOK /\ AbortOK /\ AwakeOK /\ StopOK /\ CycleOK /\ ParkOK

\* The event handlers keep the invariant.
LEMMA StillHandle ==
  ASSUME TypeOK, StillInv, NoLimits, Handle
  PROVE  StillInv'
<1>1. QueueOK /\ sys \in Sys /\ awake \in BOOLEAN
  BY DEF TypeOK, FlagsOK
<1> USE <1>1, TakenIn
        DEF StillInv, NoLimitYet, LineOK, AbortOK, AwakeOK, StopOK, CycleOK, ParkOK, InPark, At,
            ParkMoves, Braking, Moving, Aborted, Queued, Sys, States, StepBits, cancelling,
            motionVars
<1>2. CASE doMotionCancel
  BY <1>2 DEF doMotionCancel, handled, motion_cancel, cancel_jogging, start_holding, hold_complete
<1>3. CASE doFeedhold
  BY <1>3 DEF doFeedhold, handled, feedhold, cancel_jogging, start_holding, hold_complete
<1>4. CASE doSleep
  BY <1>4 DEF doSleep, handled, sleep, start_holding, hold_complete
<1>5. CASE doDoorPin
  BY <1>5, PinSends DEF doDoorPin
<1>6. CASE request_safety_door \/ doSpindleStop \/ doSpindleOverride
  <2>1. CASE request_safety_door
    BY <2>1 DEF request_safety_door
  <2>2. CASE doSpindleStop
    BY <2>2 DEF doSpindleStop
  <2>3. CASE doSpindleOverride
    BY <2>3 DEF doSpindleOverride
  <2> QED BY <1>6, <2>1, <2>2, <2>3
<1>7. CASE doCycleStart
  <2>1. /\ sys' = CASE cyclesNow(sys) -> initiate_cycle(sys)
                   [] sys.state = "SafetyDoor" -> restores(sys)
                   [] OTHER -> sys
        /\ UNCHANGED <<plan, unhomed>>
    BY <1>7 DEF doCycleStart
  <2>2. CASE cyclesNow(sys) /\ starts(sys)
    BY <1>7, <2>1, <2>2, StartTakes DEF initiate_cycle, cyclesNow, starts, CycleStarts
  <2>3. CASE cyclesNow(sys) /\ ~starts(sys)
    BY <1>7, <2>1, <2>3, StartTakes DEF initiate_cycle, cyclesNow, CycleStarts
  <2>4. CASE ~cyclesNow(sys)
    BY <1>7, <2>1, <2>4, StartTakes DEF restores, CycleStarts
  <2> QED BY <2>2, <2>3, <2>4
<1>8. CASE doCycleStop
  BY <1>8 DEF doCycleStop, holdStopped, motionDone
<1>9. CASE doLimit
  BY <1>9 DEF doLimit
<1>10. CASE doAlarm
  BY <1>10 DEF doAlarm
<1>11. CASE doReset
  <2>1. "restart" \in Events
    BY DEF Events
  <2>2. Tail(queue) \in Seq(Events)
    BY <1>11 DEF doReset
  <2> QED BY <1>11, <2>1, <2>2, SentIn DEF doReset, Stepping
<1>12. CASE doRestart
  BY <1>12 DEF doRestart
<1> QED
  BY <1>2, <1>3, <1>4, <1>5, <1>6, <1>7, <1>8, <1>9, <1>10, <1>11, <1>12 DEF Handle

\* So do the lines: what they post is in LineOK.
LEMMA StillLine ==
  ASSUME TypeOK, StillInv, NoLimits, execute_line \/ NoLine
  PROVE  StillInv'
<1>1. queue \in Seq(Events) /\ sys \in Sys /\ awake \in BOOLEAN
  BY DEF TypeOK, FlagsOK, QueueOK
<1>2. {"alarm", "sleep", "autoStart"} \subseteq Events
  BY DEF Events, CycleStarts
<1>3. \A e \in Events : sent(queue, e) \in Seq(Events)
  <2> TAKE e \in Events
  <2> QED BY <1>1 DEF sent
<1>4. \A q, p, st : q \in Seq(Events) /\ looped(q, p, st) =>
        /\ \A x : In(x, queue') => In(x, q) \/ x = "autoStart"
        /\ Once("cycleStop", q) => Once("cycleStop", queue')
        /\ pc' = "rt" /\ ret' = "top" /\ awake' = awake
  BY <1>2, SentIn DEF looped, auto_started
<1> USE <1>1
        DEF StillInv, NoLimitYet, LineOK, AbortOK, AwakeOK, StopOK, CycleOK, ParkOK, InPark, At,
            ParkMoves, Braking, Moving, Aborted, Queued, Sys, States, StepBits, cancelling
<1>5. CASE NoLine
  BY <1>4, <1>5 DEF NoLine
<1>6. CASE execute_line
  <2>1. pc = "line" /\ ~unhomed
    BY <1>6 DEF execute_line
  <2>2. CASE /\ looped(queue, plan', sys.state) /\ sys.state # "Alarm"
             /\ UNCHANGED <<sys, unhomed>>
    BY <1>4, <2>1, <2>2
  <2>3. CASE looped(queue, plan, sys.state) /\ UNCHANGED <<sys, plan, unhomed>>
    BY <1>4, <2>1, <2>3
  <2>4. CASE /\ plan = <<>> /\ sys.state \in {"Idle", "Alarm"}
             /\ looped(sent(queue, "sleep"), plan, sys.state) /\ UNCHANGED <<sys, plan, unhomed>>
    BY <1>2, <1>3, <1>4, <2>1, <2>4, SentIn
  <2>5. CASE /\ plan = <<>> /\ sys.state = "Alarm"
             /\ sys' = [sys EXCEPT !.state = "Idle"] /\ ~unhomed'
             /\ looped(queue, plan, sys'.state) /\ UNCHANGED plan
    BY <1>4, <2>1, <2>5
  <2>6. CASE /\ plan = <<>> /\ sys.state = "Alarm" /\ sys' = sys /\ ~unhomed'
             /\ looped(sent(queue, "alarm"), plan, sys'.state) /\ UNCHANGED plan
    <3>1. /\ \A x : In(x, sent(queue, "alarm")) => In(x, queue) \/ x = "alarm"
          /\ Once("cycleStop", sent(queue, "alarm"))
          /\ sent(queue, "alarm") \in Seq(Events)
      BY <1>2, <1>3, SentIn
    <3>2. /\ \A x : In(x, queue') => In(x, queue) \/ x = "alarm" \/ x = "autoStart"
          /\ Once("cycleStop", queue') /\ pc' = "rt" /\ ret' = "top" /\ awake' = awake
      BY <1>4, <2>6, <3>1
    <3> QED BY <2>1, <2>6, <3>2
  <2>7. [sys EXCEPT !.state = sys.state] = sys
    OBVIOUS
  <2> QED BY <1>6, <2>1, <2>2, <2>3, <2>4, <2>5, <2>6, <2>7 DEF execute_line
<1> QED BY <1>5, <1>6

\* The door stop and the loops.
LEMMA StillTask ==
  ASSUME TypeOK, StillInv, RtBegin \/ RtEnd \/ RealtimeDone \/ SuspendEnds \/ AwaitHold
                          \/ KeepWaiting \/ ParkEnds \/ Asleep
  PROVE  StillInv'
<1>1. QueueOK /\ sys \in Sys /\ awake \in BOOLEAN /\ TaskOK
  BY DEF TypeOK, FlagsOK
<1> USE <1>1
        DEF StillInv, NoLimitYet, LineOK, AbortOK, AwakeOK, StopOK, CycleOK, ParkOK, InPark, At,
            ParkMoves, Braking, Moving, Aborted, Queued, Sys, States, StepBits, cancelling,
            motionVars, TaskOK
<1>2. CASE RtBegin
  <2>1. pc = "rt" /\ pc' = "events" /\ UNCHANGED <<ret, queue, plan, awake, unhomed>>
    BY <1>2 DEF RtBegin
  <2>2. CASE sys' = sys
    BY <2>1, <2>2
  <2>3. CASE rtSafetyDoor /\ sys.state \notin {"Alarm", "Sleep"}
    <3> DEFINE s == doorStopped(sys)
    <3>1. sys' = [s EXCEPT !.suspend = @ \cup {"safetyDoorAjar"},
                           !.state = IF "jogCancel" \in s.suspend THEN @ ELSE "SafetyDoor"]
      BY <1>2, <2>3 DEF RtBegin
    <3>2. CASE sys.state = "Idle"
      BY <2>1, <3>1, <3>2 DEF doorStopped, hold_complete
    <3>3. CASE sys.state = "Cycle"
      BY <2>1, <3>1, <3>3 DEF doorStopped, start_holding
    <3>4. CASE sys.state = "Jog"
      BY <2>1, <3>1, <3>4 DEF doorStopped, cancel_jogging
    <3>5. CASE sys.state \in {"SafetyDoor", "Hold"}
      BY <2>1, <3>1, <3>5 DEF doorStopped, restarted
    <3> QED BY <2>3, <3>2, <3>3, <3>4, <3>5
  <2> QED BY <1>2, <2>2, <2>3 DEF RtBegin
<1>3. CASE RtEnd
  <2>1. \A x : ~In(x, queue)
    BY <1>3 DEF RtEnd, In
  <2> QED BY <1>3, <2>1 DEF RtEnd
<1>4. CASE RealtimeDone
  BY <1>4 DEF RealtimeDone
<1>5. CASE SuspendEnds
  BY <1>5 DEF SuspendEnds
<1>6. CASE AwaitHold
  BY <1>6 DEF AwaitHold, Suspended, again
<1>7. CASE KeepWaiting
  BY <1>7 DEF KeepWaiting, Arrived, Stepping
<1>8. CASE ParkEnds
  BY <1>8 DEF ParkEnds, Arrived, again, Stepping
<1>9. CASE Asleep
  BY <1>9 DEF Asleep, Parking, Suspended, again
<1> QED BY <1>2, <1>3, <1>4, <1>5, <1>6, <1>7, <1>8, <1>9

\* The parking moves: each begins with the steppers at rest and no cycle stop queued.
LEMMA StillMove ==
  ASSUME TypeOK, StillInv, ParkBegin \/ SpinDown \/ DoorPoll \/ SpinUp
  PROVE  StillInv'
<1>1. QueueOK /\ sys \in Sys /\ awake \in BOOLEAN /\ TaskOK
  BY DEF TypeOK, FlagsOK
<1>2. UNCHANGED <<queue, plan, unhomed>>
  BY DEF ParkBegin, SpinDown, DoorPoll, SpinUp
<1> USE <1>1, <1>2
        DEF StillInv, NoLimitYet, LineOK, AbortOK, AwakeOK, StopOK, CycleOK, ParkOK, InPark, At,
            ParkMoves, Braking, Moving, Aborted, Queued, Sys, States, StepBits, cancelling, TaskOK
<1>3. ASSUME NEW s \in Sys, NEW t, NEW k \in ParkMoves, moveto(s, t, k) \/ noMove(s, k),
             s.state = sys.state, s.step = sys.step, s.abort = sys.abort,
             s.suspend \cup {"safetyDoorAjar"} = sys.suspend \cup {"safetyDoorAjar"},
             pc \notin {"rt", "events", "line"},
             sys.abort \/ "executeSysMotion" \notin sys.step,
             sys.abort \/ ("holdComplete" \in sys.suspend /\ sys.state \in {"SafetyDoor", "Sleep"})
      PROVE  StillInv'
  <2>1. CASE sys.abort
    <3>1. /\ ~awake /\ ~Queued("cycleStop")
          /\ ~Queued("restart") /\ ~Queued("alarm") /\ ~Queued("sleep")
      BY <1>3, <2>1
    <3>2. sys' = s /\ pc' = k /\ UNCHANGED <<ret, awake>>
      BY <1>3, <2>1 DEF moveto, noMove
    <3>3. \A b : b # "safetyDoorAjar" => (b \in s.suspend <=> b \in sys.suspend)
      BY <1>3
    <3> QED BY <1>3, <2>1, <3>1, <3>2, <3>3
  <2>2. CASE ~sys.abort
    <3>1. /\ ~awake /\ ~Queued("cycleStop")
          /\ ~Queued("restart") /\ ~Queued("alarm") /\ ~Queued("sleep")
      BY <1>3, <2>2
    <3>2. CASE noMove(s, k)
      BY <1>3, <2>2, <3>1, <3>2 DEF noMove
    <3>3. CASE moveto(s, t, k)
      BY <1>3, <2>2, <3>1, <3>3 DEF moveto
    <3> QED BY <1>3, <3>2, <3>3
  <2> QED BY <2>1, <2>2
<1>4. CASE ParkBegin
  BY <1>3, <1>4 DEF ParkBegin, Parking, Suspended, Has
<1>5. CASE SpinDown
  BY <1>3, <1>5 DEF SpinDown, Arrived, Stepping
<1>6. CASE DoorPoll
  <2>1. polled(sys) \in Sys
    BY HandlersType
  <2>2. CASE ~Has("initiateRestore")
    BY <1>6, <2>2 DEF DoorPoll, Parking, Suspended, again, polled
  <2>3. CASE Has("initiateRestore")
    BY <1>3, <1>6, <2>1, <2>3 DEF DoorPoll, Parking, Suspended, Has, polled
  <2> QED BY <2>2, <2>3
<1>7. CASE SpinUp
  BY <1>3, <1>7 DEF SpinUp, Arrived, Stepping
<1> QED BY <1>4, <1>5, <1>6, <1>7

\* The end of a restore, the stepper interrupt and the inputs.
LEMMA StillRest ==
  ASSUME TypeOK, StillInv, NoLimits,
         manage_spindle \/ UnparkEnds \/ StepOn \/ ShutDown \/ Command \/ MoveDoor
  PROVE  StillInv'
<1>1. queue \in Seq(Events) /\ sys \in Sys /\ awake \in BOOLEAN /\ TaskOK
  BY DEF TypeOK, FlagsOK, QueueOK
<1>2. {"autoStart", "resumed", "cycleStop", "doorShut", "doorOpen"} \subseteq Events
  BY DEF Events, CycleStarts
<1> USE <1>1
        DEF StillInv, NoLimitYet, LineOK, AbortOK, AwakeOK, StopOK, CycleOK, ParkOK, InPark, At,
            ParkMoves, Braking, Moving, Aborted, Queued, Sys, States, StepBits, cancelling, TaskOK,
            motionVars
<1>3. CASE manage_spindle
  BY <1>2, <1>3, SentIn DEF manage_spindle, Suspended, again
<1>4. CASE UnparkEnds
  BY <1>2, <1>4, SentIn DEF UnparkEnds, Arrived, again, Stepping
<1>5. CASE StepOn
  BY <1>5 DEF StepOn, Finished
<1>6. CASE ShutDown
  BY <1>2, <1>6, SentIn DEF ShutDown
<1>7. CASE Command \/ MoveDoor
  <2>1. PICK e \in ((Inputs \cup Rough) \ {"door"}) \cup {"doorShut", "doorOpen"} :
          queue' = sent(queue, e)
    BY <1>7 DEF Command, MoveDoor
  <2>2. e \in Events \ {"limit", "hardLimit", "alarm", "sleep", "restart", "cycleStop"}
    BY <2>1, ProtocolAssumption DEF NoLimits, Events, CycleStarts
  <2>3. UNCHANGED <<sys, plan, awake, unhomed, pc, ret>>
    BY <1>7 DEF Command, MoveDoor
  <2>4. /\ \A x : In(x, queue') => In(x, queue) \/ x = e
        /\ \A x : In(x, queue) => In(x, queue')
        /\ Once("cycleStop", queue')
    BY <2>1, <2>2, SentIn
  <2> QED BY <2>2, <2>3, <2>4
<1> QED BY <1>3, <1>4, <1>5, <1>6, <1>7

LEMMA StillStep ==
  ASSUME TypeOK, StillInv, NoLimits, Next
  PROVE  StillInv'
BY StillHandle, StillLine, StillTask, StillMove, StillRest DEF Next, MainTask

LEMMA StillAlways ==
  ASSUME NoLimits
  PROVE  Spec => []StillInv
<1>1. Init => StillInv
  BY DEF Init, StillInv, NoLimitYet, LineOK, AbortOK, AwakeOK, StopOK, CycleOK, ParkOK, InPark, At,
         ParkMoves, Queued, In, Once, cancelling
<1>2. TypeOK /\ StillInv /\ [Next]_vars => StillInv'
  <2> SUFFICES ASSUME TypeOK, StillInv, [Next]_vars PROVE StillInv'
    OBVIOUS
  <2>1. CASE UNCHANGED vars
    BY <2>1 DEF vars, motionVars, StillInv, NoLimitYet, LineOK, AbortOK, AwakeOK, StopOK,
                CycleOK, ParkOK, InPark, At, Queued
  <2> QED BY <2>1, StillStep
<1> QED BY <1>1, <1>2, ProtocolTypeCorrect, PTL DEF Spec

\* Without limits a hold that is flagged complete stands still (HoldStandsStill), with any queue
\* capacity, resets, cancels, doors and sleeps in any order: protocol_do_cycle_stop() sets
\* holdComplete for the stop it belongs to, and only a parking move wakes the steppers after it.
THEOREM HoldStill ==
  ASSUME NoLimits
  PROVE  Spec => []HoldStandsStill
<1>1. TypeOK /\ StillInv => HoldStandsStill
  BY DEF TypeOK, Sys, StillInv, AwakeOK, Moving, Braking, Aborted, HoldStandsStill, Has, Stepping
<1> QED BY <1>1, StillAlways, ProtocolTypeCorrect, PTL

\* Without limits no cycle stop of an earlier motion is in the queue while the steppers run
\* (NoStaleStop), even through a reset: the interrupt posts one, and the next wake-up comes from
\* a state that protocol_do_cycle_stop() or the restart has left.
THEOREM StopsAreFresh ==
  ASSUME NoLimits
  PROVE  Spec => []NoStaleStop
<1>1. StillInv => NoStaleStop
  BY DEF StillInv, AwakeOK, NoStaleStop, Queued, In
<1> QED BY <1>1, StillAlways, PTL

-----------------------------------------------------------------------------
(* A parked spindle is off. *)

\* What is not among the rare inputs is the door, holds, cancels, stops and cycle starts.
Plain == Inputs \cap {"reset", "limit", "spindleOvr"} = {}

\* Nothing rare has happened: no alarm, no abort, and the suspend bits are clear at a line.
CalmOK ==
  /\ ~sys.abort /\ sys.state \notin {"Alarm", "Critical"} /\ ~unhomed
  /\ \A e \in {"reset", "restart", "limit", "hardLimit", "alarm", "spindleOvr"} : ~Queued(e)
  /\ At = "line" => pc = "line" /\ sys.suspend = {}
  /\ InPark => sys.state \in {"SafetyDoor", "Sleep"}
  /\ "executeSysMotion" \in sys.step => InPark /\ (pc \in ParkMoves => ret = pc)

\* park() turned the spindle off, and only unpark(), which was asked for, turns it on.
DarkOK ==
  /\ At = "park" => ~spinning
  /\ Has("retractComplete") /\ ~Has("initiateRestore") =>
       ~spinning /\ sys.state \in {"SafetyDoor", "Sleep"} /\ At \notin {"back", "plunge"}

Dark == CalmOK /\ DarkOK
DarkInv == rough \in Nat /\ (rough = 0 => Dark)

LEMMA DarkHandle ==
  ASSUME TypeOK, Dark, Handle
  PROVE  Dark'
<1>1. QueueOK /\ sys \in Sys /\ spinning \in BOOLEAN
  BY DEF TypeOK, FlagsOK
<1> USE <1>1, TakenIn
        DEF Dark, CalmOK, DarkOK, InPark, ParkMoves, At, Queued, Sys, States, Has, motionVars
<1>2. CASE doMotionCancel
  BY <1>2 DEF doMotionCancel, handled, motion_cancel, cancel_jogging, start_holding, hold_complete
<1>3. CASE doFeedhold
  BY <1>3 DEF doFeedhold, handled, feedhold, cancel_jogging, start_holding, hold_complete
<1>4. CASE doSleep
  BY <1>4 DEF doSleep, handled, sleep, start_holding, hold_complete
<1>5. CASE doDoorPin
  BY <1>5, PinSends DEF doDoorPin
<1>6. CASE request_safety_door
  BY <1>6 DEF request_safety_door
<1>7. CASE doSpindleStop
  BY <1>7 DEF doSpindleStop
<1>8. CASE doCycleStart
  <2>1. /\ sys' = CASE cyclesNow(sys) -> initiate_cycle(sys)
                   [] sys.state = "SafetyDoor" -> restores(sys)
                   [] OTHER -> sys
        /\ UNCHANGED <<unhomed, spinning>>
    BY <1>8 DEF doCycleStart
  <2>2. CASE cyclesNow(sys)
    BY <1>8, <2>1, <2>2, StartTakes DEF initiate_cycle, cyclesNow
  <2>3. CASE ~cyclesNow(sys)
    BY <1>8, <2>1, <2>3, StartTakes DEF restores
  <2> QED BY <2>2, <2>3
<1>9. CASE doCycleStop
  BY <1>9 DEF doCycleStop, holdStopped, motionDone
<1>10. CASE doSpindleOverride \/ doLimit \/ doAlarm \/ doReset \/ doRestart
  <2>1. PICK e \in {"reset", "restart", "limit", "hardLimit", "alarm", "spindleOvr"} : handles(e)
    BY <1>10 DEF doSpindleOverride, doLimit, doAlarm, doReset, doRestart
  <2> QED BY <2>1
<1> QED
  BY <1>2, <1>3, <1>4, <1>5, <1>6, <1>7, <1>8, <1>9, <1>10 DEF Handle

LEMMA DarkTask ==
  ASSUME TypeOK, Dark, MainTask, ~Handle
  PROVE  Dark'
<1>1. queue \in Seq(Events) /\ sys \in Sys /\ spinning \in BOOLEAN /\ TaskOK
  BY DEF TypeOK, FlagsOK, QueueOK
<1>2. {"alarm", "sleep", "autoStart", "resumed"} \subseteq Events
  BY DEF Events, CycleStarts
<1> USE <1>1 DEF Dark, CalmOK, DarkOK, InPark, ParkMoves, At, Queued, Sys, States, Has, motionVars,
                 TaskOK
<1>3. CASE RtBegin
  <2>1. pc = "rt" /\ pc' = "events" /\ UNCHANGED <<ret, queue, unhomed, spinning>>
    BY <1>3 DEF RtBegin
  <2>2. CASE sys' = sys
    BY <2>1, <2>2
  <2>3. CASE sys' # sys
    <3> DEFINE s == doorStopped(sys)
    <3>1. sys' = [s EXCEPT !.suspend = @ \cup {"safetyDoorAjar"},
                           !.state = IF "jogCancel" \in s.suspend THEN @ ELSE "SafetyDoor"]
      BY <1>3, <2>3 DEF RtBegin
    <3> QED BY <2>1, <3>1 DEF doorStopped, start_holding, cancel_jogging, hold_complete, restarted
  <2> QED BY <2>2, <2>3
<1>4. CASE RtEnd
  BY <1>4 DEF RtEnd
<1>5. CASE execute_line \/ NoLine
  BY <1>5, LineSends
<1>6. CASE RealtimeDone
  BY <1>6 DEF RealtimeDone
<1>7. CASE SuspendEnds
  BY <1>7 DEF SuspendEnds
<1>8. CASE AwaitHold \/ KeepWaiting \/ Asleep
  BY <1>8 DEF AwaitHold, KeepWaiting, Asleep, Parking, Suspended, again, Arrived, Stepping
<1>9. CASE manage_spindle
  BY <1>2, <1>9, SentIn DEF manage_spindle, Parking, Suspended, again
<1>10. CASE ParkBegin
  BY <1>10 DEF ParkBegin, Parking, Suspended, moveto, noMove
<1>11. CASE SpinDown
  BY <1>11 DEF SpinDown, Arrived, Stepping, moveto, noMove
<1>12. CASE ParkEnds
  BY <1>12 DEF ParkEnds, Arrived, Stepping, again
<1>13. CASE DoorPoll
  BY <1>13 DEF DoorPoll, Parking, Suspended, again, polled, moveto, noMove
<1>14. CASE SpinUp
  BY <1>14 DEF SpinUp, Arrived, Stepping, moveto, noMove
<1>15. CASE UnparkEnds
  BY <1>2, <1>15, SentIn DEF UnparkEnds, Arrived, Stepping, again
<1> QED
  BY <1>3, <1>4, <1>5, <1>6, <1>7, <1>8, <1>9, <1>10, <1>11, <1>12, <1>13, <1>14, <1>15 DEF MainTask

LEMMA DarkStep ==
  ASSUME TypeOK, DarkInv, Plain, Next
  PROVE  DarkInv'
<1> USE DEF DarkInv
<1>1. CASE MainTask
  <2>1. UNCHANGED rough
    BY <1>1 DEF MainTask, inputVars, RtBegin, RtEnd, Handle, handled, doMotionCancel, doFeedhold,
        doSleep, doDoorPin, request_safety_door, doCycleStart, doCycleStop, doSpindleStop,
        doSpindleOverride, doLimit, doAlarm, doReset, doRestart, execute_line, NoLine, looped,
        RealtimeDone, SuspendEnds, AwaitHold, manage_spindle, KeepWaiting, ParkBegin, SpinDown,
        ParkEnds, Asleep, DoorPoll, SpinUp, UnparkEnds
  <2>2. Dark => Dark'
    BY <1>1, DarkHandle, DarkTask
  <2> QED BY <2>1, <2>2
<1> USE DEF Dark, CalmOK, DarkOK, InPark, ParkMoves, At, Queued, Has
<1>2. CASE StepOn
  BY <1>2 DEF StepOn, inputVars
<1>3. queue \in Seq(Events)
  BY DEF TypeOK, QueueOK
<1>4. CASE ShutDown
  <2>1. "cycleStop" \in Events
    BY DEF Events
  <2> QED BY <1>3, <1>4, <2>1, SentIn DEF ShutDown, inputVars
<1>5. CASE MoveDoor
  <2>1. {"doorShut", "doorOpen"} \subseteq Events
    BY DEF Events
  <2> QED BY <1>3, <1>5, <2>1, SentIn DEF MoveDoor, motionVars
<1>6. CASE Command
  <2>1. PICK e \in (Inputs \cup Rough) \ {"door"} :
          rough' = rough + (IF e \in Rough THEN 1 ELSE 0) /\ queue' = sent(queue, e)
    BY <1>6 DEF Command
  <2>2. e \in Events /\ e \notin {"restart", "hardLimit", "alarm"}
    BY <2>1, ProtocolAssumption DEF Events, CycleStarts
  <2>3. rough' \in Nat /\ (rough' = 0 => rough = 0 /\ e \in Inputs)
    BY <2>1
  <2>4. UNCHANGED <<sys, unhomed, pc, ret, spinning>>
    BY <1>6 DEF Command, motionVars
  <2>5. \A x : In(x, queue') => In(x, queue) \/ x = e
    BY <1>3, <2>1, <2>2, SentIn
  <2> QED BY <2>2, <2>3, <2>4, <2>5 DEF Plain
<1> QED BY <1>1, <1>2, <1>4, <1>5, <1>6 DEF Next

\* Until the first rare input a parked spindle is off (ParkedIsOff), on every path through
\* park(), with any heights and with holds, jog cancels and spindle stops besides the door.
THEOREM ParkedStaysOff ==
  ASSUME Plain
  PROVE  Spec => []ParkedIsOff
<1>1. Init => DarkInv
  BY DEF Init, DarkInv, Dark, CalmOK, DarkOK, InPark, ParkMoves, At, Queued, In, Has
<1>2. TypeOK /\ DarkInv /\ [Next]_vars => DarkInv'
  <2> SUFFICES ASSUME TypeOK, DarkInv, [Next]_vars PROVE DarkInv'
    OBVIOUS
  <2>1. CASE UNCHANGED vars
    BY <2>1 DEF vars, motionVars, inputVars, DarkInv, Dark, CalmOK, DarkOK, InPark, At, Queued, Has
  <2> QED BY <2>1, DarkStep
<1>3. DarkInv => ParkedIsOff
  BY DEF DarkInv, Dark, DarkOK, ParkedIsOff
<1> QED BY <1>1, <1>2, <1>3, ProtocolTypeCorrect, PTL DEF Spec

-----------------------------------------------------------------------------
(* The program resumes where it was held. *)

\* Nobody resets.
NoResets == "reset" \notin Inputs \cup Rough

\* The tool is on its way up, up, or on its way back.
Parked == InPark \/ Has("retractComplete") \/ Has("restartRetract")

SoundOK ==
  /\ ~sys.abort /\ sys.state # "Alarm"
  /\ ~Queued("reset") /\ ~Queued("restart") /\ ~Queued("alarm")

\* The suspend bits of a retract and a restore: they exclude each other, and outlast unpark().
BitsOK ==
  /\ ~(Has("retractComplete") /\ Has("restartRetract"))
  /\ Has("initiateRestore") => Has("retractComplete")
  /\ sys.state \in {"Cycle", "Jog", "Hold"} => ~Has("retractComplete")
  /\ Has("restartRetract") => sys.state \in {"SafetyDoor", "Sleep"}
  /\ At \in {"back", "plunge"} => Has("retractComplete") \/ Has("restartRetract")
  /\ ~restart

\* A machine that cannot park does not move its tool.
NeverMoves == ~Parks => z = pl_z /\ At # "pull" /\ ~Stepping("executeSysMotion")

\* The tool is away from where the planner believes it only while it is parked or asleep.
PlaceOK == z # pl_z => sys.state = "Sleep" \/ (sys.state = "SafetyDoor" /\ Parked)

\* restore_target is where the program was held.  A hold bit left by a cancelled cycle cuts the
\* first parking move short; as long as it is there the tool has not moved.
TargetOK ==
  sys.state = "SafetyDoor" /\ Parked =>
    /\ restore_target = pl_z
    /\ Stepping("executeHold") /\ ~Stepping("executeSysMotion") => z = restore_target

\* The plunge goes there, and its cycle stop comes there, unless the door opens again.
PlungeOK ==
  sys.state = "SafetyDoor" /\ At = "plunge" /\ ~Has("restartRetract") =>
    IF Stepping("executeSysMotion")
    THEN goal = restore_target /\ ~Stepping("executeHold") /\ (awake \/ z = goal)
    ELSE z = restore_target

PlaceInv == SoundOK /\ BitsOK /\ NeverMoves /\ PlaceOK /\ TargetOK /\ PlungeOK

LEMMA PlaceHandle ==
  ASSUME TypeOK, StillInv, PlaceInv, Handle
  PROVE  PlaceInv'
<1>1. QueueOK /\ sys \in Sys /\ awake \in BOOLEAN /\ restart \in BOOLEAN /\ Parks \in BOOLEAN
  BY ProtocolAssumption DEF TypeOK, FlagsOK
<1> USE <1>1, TakenIn
        DEF PlaceInv, SoundOK, BitsOK, NeverMoves, PlaceOK, TargetOK, PlungeOK, Parked,
            StillInv, NoLimitYet, LineOK, AwakeOK, StopOK, CycleOK, ParkOK, Braking, Moving,
            Aborted, InPark, ParkMoves, At, Queued, Sys, States, Has, Stepping, motionVars, parkVars
<1>2. CASE doMotionCancel
  BY <1>2 DEF doMotionCancel, handled, motion_cancel, cancel_jogging, start_holding, hold_complete
<1>3. CASE doFeedhold
  BY <1>3 DEF doFeedhold, handled, feedhold, cancel_jogging, start_holding, hold_complete
<1>4. CASE doSleep
  BY <1>4 DEF doSleep, handled, sleep, start_holding, hold_complete
<1>5. CASE doDoorPin
  BY <1>5, PinSends DEF doDoorPin
<1>6. CASE request_safety_door
  BY <1>6 DEF request_safety_door
<1>7. CASE doSpindleStop
  BY <1>7 DEF doSpindleStop
<1>8. CASE doCycleStart
  <2>1. /\ sys' = CASE cyclesNow(sys) -> initiate_cycle(sys)
                   [] sys.state = "SafetyDoor" -> restores(sys)
                   [] OTHER -> sys
        /\ UNCHANGED <<z, pl_z, goal, restore_target, restart>>
    BY <1>8 DEF doCycleStart
  <2>2. CASE cyclesNow(sys)
    BY <1>8, <2>1, <2>2, StartTakes DEF initiate_cycle, cyclesNow
  <2>3. CASE ~cyclesNow(sys)
    BY <1>8, <2>1, <2>3, StartTakes DEF restores
  <2> QED BY <2>2, <2>3
<1>9. CASE doCycleStop
  BY <1>9 DEF doCycleStop, holdStopped, motionDone
<1>10. CASE doSpindleOverride
  BY <1>10 DEF doSpindleOverride
<1>11. CASE doLimit \/ doAlarm \/ doReset \/ doRestart
  <2>1. PICK e \in {"reset", "restart", "limit", "hardLimit", "alarm"} : handles(e)
    BY <1>11 DEF doLimit, doAlarm, doReset, doRestart
  <2> QED BY <2>1
<1> QED
  BY <1>2, <1>3, <1>4, <1>5, <1>6, <1>7, <1>8, <1>9, <1>10, <1>11 DEF Handle

LEMMA PlaceTask ==
  ASSUME TypeOK, StillInv, PlaceInv, MainTask, ~Handle
  PROVE  PlaceInv'
<1>1. /\ queue \in Seq(Events) /\ sys \in Sys /\ awake \in BOOLEAN /\ restart \in BOOLEAN
      /\ Parks \in BOOLEAN /\ TaskOK
  BY ProtocolAssumption DEF TypeOK, FlagsOK, QueueOK
<1>2. {"alarm", "sleep", "autoStart", "resumed"} \subseteq Events
  BY DEF Events, CycleStarts
<1> USE <1>1
        DEF PlaceInv, SoundOK, BitsOK, NeverMoves, PlaceOK, TargetOK, PlungeOK, Parked,
            StillInv, NoLimitYet, LineOK, AwakeOK, StopOK, CycleOK, ParkOK, Braking, Moving,
            Aborted, InPark, ParkMoves, At, Queued, Sys, States, Has, Stepping, motionVars,
            parkVars, TaskOK
<1>3. CASE RtBegin
  <2>1. /\ pc = "rt" /\ pc' = "events" /\ UNCHANGED <<ret, queue, z, pl_z, goal>>
        /\ UNCHANGED <<awake, restart, restore_target>>
    BY <1>3 DEF RtBegin
  <2>2. CASE sys' = sys
    BY <2>1, <2>2
  <2>3. CASE rtSafetyDoor /\ sys.state \notin {"Alarm", "Sleep"}
    <3> DEFINE s == doorStopped(sys)
    <3>1. sys' = [s EXCEPT !.suspend = @ \cup {"safetyDoorAjar"},
                           !.state = IF "jogCancel" \in s.suspend THEN @ ELSE "SafetyDoor"]
      BY <1>3, <2>3 DEF RtBegin
    <3>2. CASE sys.state = "Idle"
      BY <2>1, <3>1, <3>2 DEF doorStopped, hold_complete
    <3>3. CASE sys.state = "Cycle"
      BY <2>1, <3>1, <3>3 DEF doorStopped, start_holding
    <3>4. CASE sys.state = "Jog"
      BY <2>1, <3>1, <3>4 DEF doorStopped, cancel_jogging
    <3>5. CASE sys.state \in {"SafetyDoor", "Hold"}
      BY <2>1, <3>1, <3>5 DEF doorStopped, restarted
    <3> QED BY <2>3, <3>2, <3>3, <3>4, <3>5
  <2> QED BY <1>3, <2>2, <2>3 DEF RtBegin
<1>4. CASE RtEnd
  BY <1>4 DEF RtEnd
<1>5. CASE execute_line \/ NoLine
  BY <1>5, LineSends
<1>6. CASE RealtimeDone
  BY <1>6 DEF RealtimeDone
<1>7. CASE SuspendEnds
  BY <1>7 DEF SuspendEnds
<1>8. CASE AwaitHold \/ KeepWaiting
  BY <1>8 DEF AwaitHold, KeepWaiting, Suspended, again, Arrived
<1>9. CASE Asleep
  BY <1>9 DEF Asleep, Parking, Suspended, again
<1>10. CASE manage_spindle
  BY <1>2, <1>10, SentIn DEF manage_spindle, Suspended, again
<1>11. CASE ParkBegin
  BY <1>11 DEF ParkBegin, Parking, Suspended, keepsTarget, moveto, noMove
<1>12. CASE SpinDown
  BY <1>12 DEF SpinDown, Arrived, moveto, noMove
<1>13. CASE ParkEnds
  BY <1>13 DEF ParkEnds, Arrived, again
<1>14. CASE DoorPoll
  BY <1>14 DEF DoorPoll, Parking, Suspended, again, polled, moveto, noMove
<1>15. CASE SpinUp
  BY <1>15 DEF SpinUp, Arrived, moveto, noMove
<1>16. CASE UnparkEnds
  BY <1>2, <1>16, SentIn DEF UnparkEnds, Arrived, again
<1> QED
  BY <1>3, <1>4, <1>5, <1>6, <1>7, <1>8, <1>9, <1>10, <1>11, <1>12, <1>13, <1>14, <1>15, <1>16
     DEF MainTask

LEMMA PlaceStep ==
  ASSUME TypeOK, StillInv, PlaceInv, NoResets, Next
  PROVE  PlaceInv'
<1>1. queue \in Seq(Events) /\ sys \in Sys /\ PlacesOK
  BY DEF TypeOK, QueueOK
<1>2. CASE MainTask
  BY <1>2, PlaceHandle, PlaceTask
<1> USE <1>1
        DEF PlaceInv, SoundOK, BitsOK, NeverMoves, PlaceOK, TargetOK, PlungeOK, Parked,
            StillInv, ParkOK, InPark, ParkMoves, At, Queued, Sys, States, Has, Stepping,
            motionVars, parkVars
<1>3. CASE StepOn
  BY <1>3 DEF StepOn, PlacesOK
<1>4. CASE ShutDown
  <2>1. "cycleStop" \in Events
    BY DEF Events
  <2> QED BY <1>4, <2>1, SentIn DEF ShutDown, Finished
<1>5. CASE Command \/ MoveDoor
  <2>1. PICK e \in ((Inputs \cup Rough) \ {"door"}) \cup {"doorShut", "doorOpen"} :
          queue' = sent(queue, e)
    BY <1>5 DEF Command, MoveDoor
  <2>2. e \in Events \ {"reset", "restart", "alarm"}
    BY <2>1, ProtocolAssumption DEF NoResets, Events, CycleStarts
  <2>3. UNCHANGED <<sys, z, pl_z, goal, awake, restart, restore_target, pc, ret>>
    BY <1>5 DEF Command, MoveDoor
  <2>4. \A x : In(x, queue') => In(x, queue) \/ x = e
    BY <2>1, <2>2, SentIn
  <2> QED BY <2>2, <2>3, <2>4
<1> QED BY <1>2, <1>3, <1>4, <1>5 DEF Next

\* A cycle is started from Idle or from a hold, where the tool is in its place.
LEMMA CycleStarted ==
  ASSUME TypeOK, StillInv, PlaceInv, Next, sys.state # "Cycle", sys'.state = "Cycle"
  PROVE  z = pl_z
<1>1. sys \in Sys
  BY DEF TypeOK
<1> USE <1>1 DEF Sys, States
<1>2. sys.state \in {"Idle", "Hold"}
  <2>1. CASE Handle
    <3>1. CASE doMotionCancel \/ doFeedhold \/ doSleep
      BY <3>1 DEF doMotionCancel, doFeedhold, doSleep, handled, motion_cancel, feedhold, sleep,
                  cancel_jogging, start_holding, hold_complete
    <3>2. CASE doCycleStart
      BY <3>2 DEF doCycleStart, cyclesNow, restores
    <3>3. CASE doCycleStop
      BY <3>3 DEF doCycleStop, holdStopped, motionDone
    <3>4. CASE doAlarm \/ doReset \/ doRestart
      BY <3>4 DEF doAlarm, doReset, doRestart
    <3>5. CASE UNCHANGED sys
      BY <3>5
    <3> QED BY <2>1, <3>1, <3>2, <3>3, <3>4, <3>5
            DEF Handle, doDoorPin, request_safety_door, doSpindleStop, doSpindleOverride, doLimit
  <2>2. CASE RtBegin
    BY <2>2 DEF RtBegin, doorStopped, restarted, cancel_jogging, start_holding, hold_complete
  <2>3. CASE ParkBegin \/ SpinDown \/ DoorPoll \/ SpinUp
    BY <2>3 DEF ParkBegin, SpinDown, DoorPoll, SpinUp, polled, moveto, noMove
  <2>4. CASE RealtimeDone \/ SuspendEnds \/ ParkEnds \/ UnparkEnds \/ execute_line
    BY <2>4 DEF RealtimeDone, SuspendEnds, ParkEnds, UnparkEnds, execute_line
  <2>5. CASE UNCHANGED sys
    BY <2>5
  <2> QED BY <2>1, <2>2, <2>3, <2>4, <2>5
          DEF Next, MainTask, RtEnd, NoLine, AwaitHold, manage_spindle, KeepWaiting, Asleep, StepOn,
              ShutDown, Command, MoveDoor
<1> QED BY <1>2 DEF PlaceInv, PlaceOK

\* Without limits and resets a cycle only ever starts with the parking axis where the planner
\* believes it (ResumesInPlace), however often the door opened during park() and unpark(), and
\* whatever cycle stops and cancels came between.
THEOREM ResumesWhereHeld ==
  ASSUME NoLimits, NoResets
  PROVE  Spec => ResumesInPlace
<1>1. Init => PlaceInv
  BY DEF Init, PlaceInv, SoundOK, BitsOK, NeverMoves, PlaceOK, TargetOK, PlungeOK, Parked,
         InPark, ParkMoves, At, Queued, In, Has, Stepping
<1>2. TypeOK /\ StillInv /\ PlaceInv /\ [Next]_vars => PlaceInv'
  <2> SUFFICES ASSUME TypeOK, StillInv, PlaceInv, [Next]_vars PROVE PlaceInv'
    OBVIOUS
  <2>1. CASE UNCHANGED vars
    BY <2>1 DEF vars, motionVars, inputVars, parkVars, PlaceInv, SoundOK, BitsOK,
                NeverMoves, PlaceOK, TargetOK, PlungeOK, Parked, InPark, At, Queued, Has, Stepping
  <2> QED BY <2>1, PlaceStep
<1>3. TypeOK /\ StillInv /\ PlaceInv /\ [Next]_vars
        => [sys.state # "Cycle" /\ sys'.state = "Cycle" /\ Sound => z = pl_z]_vars
  BY CycleStarted
<1> QED BY <1>1, <1>2, <1>3, ProtocolTypeCorrect, StillAlways, PTL DEF Spec, ResumesInPlace
=============================================================================
