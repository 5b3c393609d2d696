----------------------------- MODULE EdmPsuProofs -----------------------------
(***************************************************************************)
(* Theorems about the controller behind its CAN link.  Every step of the   *)
(* composition is a step of the controller or leaves it alone, so what is  *)
(* proved of the controller with any link holds of it with this one; the   *)
(* rest relates the controller to what the generator sent and was sent.    *)
(***************************************************************************)
EXTENDS EdmPsu, EdmTickProofs

-----------------------------------------------------------------------------
(* The composition refines the controller. *)

\* What a command does to the generator keeps its types.
LEMMA SendsType ==
  ASSUME PsuTypeOK, TypeOK', Sends \/ takesClear
  PROVE  /\ psu_bounds' \in Bounds \cup {NoBounds} /\ psu_refuses' \in Refusals
         /\ psu_cutting' \in BOOLEAN /\ psu_faulted' \in BOOLEAN
         /\ psu_version' \in BOOLEAN /\ psu_ack' \in {NoAck, 0, 1}
<1>1. bounds' \in Bounds \cup {NoBounds}
  BY DEF TypeOK, ModesOK
<1> USE DEF PsuTypeOK, psuVars
<1>2. CASE takesBounds
  BY <1>1, <1>2 DEF takesBounds
<1>3. CASE takesStart \/ takesStop \/ takesClear
  BY <1>3 DEF takesStart, takesStop, takesClear
<1>4. CASE UNCHANGED psuVars
  BY <1>4
<1> QED BY <1>2, <1>3, <1>4 DEF Sends

\* A step of the composition is one of the controller, with the link's answers
\* for the inputs, or a frame of the generator that the controller has not read.
LEMMA SysStep ==
  ASSUME LinkTypeOK, PsuTypeOK, [SysNext]_sysVars
  PROVE  [Next]_vars
<1>1. CASE Calls
  BY <1>1 DEF Calls, Next
<1>2. CASE \E d \in TickGaps : WakeUp(d)
  BY <1>2 DEF WakeUp, Next, Tick
<1>3. CASE DrainEnds \/ DrainStep
  BY <1>3 DEF DrainEnds, DrainStep, Next, Tick, Drain
<1>4. CASE GateStep
  <2>1. /\ fresh \in BOOLEAN /\ stats_fault \in BOOLEAN /\ TRUE \in BOOLEAN
        /\ heartbeat_seen \in BOOLEAN /\ protocol_ok \in BOOLEAN
    BY DEF LinkTypeOK, fresh
  <2>2. gate(fresh, stats_fault, heartbeat_seen, protocol_ok, TRUE)
    BY <1>4 DEF GateStep
  <2>3. Gate
    BY <2>1, <2>2, Zenon DEF Gate
  <2> QED BY <2>3 DEF Next, Tick
<1>5. CASE RestOfTick
  BY <1>5 DEF RestOfTick, Next, Tick, Arm, PsuTypeOK
<1>6. CASE Psu
  BY <1>6 DEF Psu, PsuStats, PsuStatus, PsuAcks, PsuEvent, PsuFaults
<1>7. CASE UNCHANGED sysVars
  BY <1>7 DEF sysVars
<1> QED BY <1>1, <1>2, <1>3, <1>4, <1>5, <1>6, <1>7 DEF SysNext

-----------------------------------------------------------------------------
(* Type correctness of the link. *)

\* A pushed event displaces the oldest one of a full queue.
LEMMA PushBounded ==
  ASSUME NEW e \in Event, events \in Seq(Event), Len(events) <= MaxEvents, pushEvent(e)
  PROVE  events' \in Seq(Event) /\ Len(events') <= MaxEvents
<1>1. MaxEvents \in Nat /\ MaxEvents >= 1
  BY PsuLinkAssumption
<1>2. CASE Len(events) >= MaxEvents
  <2>1. events # <<>>
    BY <1>1, <1>2
  <2>2. Tail(events) \in Seq(Event) /\ Len(Tail(events)) = Len(events) - 1
    BY <2>1
  <2>3. events' = Append(Tail(events), e)
    BY <1>2 DEF pushEvent
  <2> QED BY <1>1, <2>2, <2>3
<1>3. CASE ~(Len(events) >= MaxEvents)
  <2>1. events' = Append(events, e)
    BY <1>3 DEF pushEvent
  <2> QED BY <1>1, <1>3, <2>1
<1> QED BY <1>2, <1>3

\* A popped event leaves a shorter queue.
LEMMA PopBounded ==
  ASSUME NEW e, events \in Seq(Event), Len(events) <= MaxEvents, popEvent(e)
  PROVE  events' \in Seq(Event) /\ Len(events') <= MaxEvents
<1>1. MaxEvents \in Nat
  BY PsuLinkAssumption
<1>2. events # <<>> /\ events' = Tail(events)
  BY DEF popEvent
<1>3. Tail(events) \in Seq(Event) /\ Len(Tail(events)) = Len(events) - 1
  BY <1>2
<1> QED BY <1>1, <1>2, <1>3

\* Every step of the composition keeps the link's types.
LEMMA LinkType == LinkTypeOK /\ PsuTypeOK /\ [SysNext]_sysVars => LinkTypeOK'
<1> SUFFICES ASSUME LinkTypeOK, PsuTypeOK, [SysNext]_sysVars PROVE LinkTypeOK'
  OBVIOUS
<1>1. CASE UNCHANGED linkVars
  BY <1>1 DEF linkVars, LinkTypeOK
<1>2. ASSUME NEW e, popEvent(e) PROVE LinkTypeOK'
  <2>1. UNCHANGED <<statsVars, healthVars, last_ack_status>>
    BY <1>2 DEF popEvent
  <2>2. events' \in Seq(Event) /\ Len(events') <= MaxEvents
    BY <1>2, PopBounded DEF LinkTypeOK
  <2> QED BY <2>1, <2>2 DEF LinkTypeOK, statsVars, healthVars
<1>3. ASSUME NEW e \in Event, onEvent(e) PROVE LinkTypeOK'
  <2>1. UNCHANGED <<statsVars, healthVars, last_ack_status>> /\ pushEvent(e)
    BY <1>3 DEF onEvent
  <2>2. events' \in Seq(Event) /\ Len(events') <= MaxEvents
    BY <2>1, PushBounded DEF LinkTypeOK
  <2> QED BY <2>1, <2>2 DEF LinkTypeOK, statsVars, healthVars
<1>4. CASE takeStats
  BY <1>4 DEF takeStats, LinkTypeOK, healthVars
<1>5. CASE PsuStats
  BY <1>5 DEF PsuStats, onStats, LinkTypeOK, PsuTypeOK, healthVars
<1>6. CASE PsuStatus
  BY <1>6 DEF PsuStatus, onStatus, LinkTypeOK, PsuTypeOK, statsVars
<1>7. CASE PsuAcks
  BY <1>7 DEF PsuAcks, onAck, LinkTypeOK, PsuTypeOK, statsVars, healthVars
<1>8. CASE PsuEvent \/ PsuFaults
  <2>1. /\ \A x \in Severities : [kind |-> "WireBreak", severity |-> x] \in Event
        /\ [kind |-> "ArcBurstEvt", severity |-> 0] \in Event
        /\ [kind |-> "FaultEvt", severity |-> 0] \in Event
    BY ControllerAssumption DEF Event
  <2> QED BY <1>1, <1>3, <1>8, <2>1 DEF PsuEvent, PsuFaults
<1>9. CASE Calls \/ (\E d \in TickGaps : WakeUp(d)) \/ DrainEnds \/ RestOfTick
  BY <1>1, <1>9 DEF Calls, WakeUp, DrainEnds, RestOfTick
<1>10. CASE DrainStep \/ GateStep
  BY <1>2, <1>4, <1>10 DEF DrainStep, GateStep
<1>11. CASE UNCHANGED sysVars
  BY <1>1, <1>11 DEF sysVars
<1> QED BY <1>5, <1>6, <1>7, <1>8, <1>9, <1>10, <1>11 DEF SysNext, Psu

\* Every step of the composition keeps the generator's types.
LEMMA PsuType ==
  TypeOK' /\ LinkTypeOK /\ PsuTypeOK /\ [SysNext]_sysVars => PsuTypeOK'
<1> SUFFICES ASSUME TypeOK', LinkTypeOK, PsuTypeOK, [SysNext]_sysVars PROVE PsuTypeOK'
  OBVIOUS
<1>1. CASE /\ Sends \/ takesClear
           /\ UNCHANGED <<last_ack_status, quiet>>
  BY <1>1, SendsType DEF PsuTypeOK
<1>2. ASSUME NEW d \in TickGaps, WakeUp(d) PROVE PsuTypeOK'
  <2>1. d \in Nat
    BY ControllerAssumption
  <2>2. quiet' = quiet + d /\ UNCHANGED <<last_ack_status, psuVars>>
    BY <1>2 DEF WakeUp, linkVars
  <2> QED BY <2>1, <2>2 DEF PsuTypeOK, psuVars
<1>3. CASE DrainEnds
  BY <1>3 DEF DrainEnds, PsuTypeOK, psuVars, linkVars
<1>4. CASE Psu
  <2>1. CASE PsuStats \/ PsuStatus \/ PsuAcks
    BY <2>1 DEF PsuStats, PsuStatus, PsuAcks, onStats, onStatus, onAck, PsuTypeOK,
       psuVars
  <2>2. CASE PsuEvent
    BY <2>2 DEF PsuEvent, onEvent, PsuTypeOK, psuVars
  <2>3. CASE PsuFaults
    BY <2>3 DEF PsuFaults, onEvent, PsuTypeOK, linkVars
  <2> QED BY <1>4, <2>1, <2>2, <2>3 DEF Psu
<1>5. CASE Calls \/ RestOfTick
  BY <1>1, <1>5 DEF Calls, RestOfTick, linkVars
<1>6. CASE DrainStep \/ GateStep
  BY <1>1, <1>6 DEF DrainStep, GateStep, popEvent, takeStats
<1>7. CASE UNCHANGED sysVars
  BY <1>7 DEF sysVars, PsuTypeOK, psuVars, linkVars
<1> QED BY <1>2, <1>3, <1>4, <1>5, <1>6, <1>7 DEF SysNext

\* Initially the link is empty and the generator off.
LEMMA SysInitType == SysInit => Init /\ LinkTypeOK /\ PsuTypeOK
<1> SUFFICES ASSUME SysInit PROVE Init /\ LinkTypeOK /\ PsuTypeOK
  OBVIOUS
<1>1. LinkTypeOK
  <2>1. events = <<>> /\ <<>> \in Seq(Event) /\ Len(<<>>) <= MaxEvents
    BY PsuLinkAssumption DEF SysInit, LinkInit
  <2> QED BY <2>1 DEF SysInit, LinkInit, LinkTypeOK
<1>2. PsuTypeOK
  BY EdmPsuAssumption DEF SysInit, LinkInit, PsuTypeOK, NoAck
<1> QED BY <1>1, <1>2 DEF SysInit

\* Type correctness of the controller, the link and the generator together.
\* The step to the next state needs the controller's types there, which
\* TypeCorrect gives once the step is known to be one of the controller.
THEOREM SysTypeCorrect == SysSpec => []SysTypeOK
<1> DEFINE Inv == TypeOK /\ ContactPending /\ LinkTypeOK /\ PsuTypeOK
<1>1. SysInit => Inv
  <2>1. Init => TypeOK /\ ContactPending
    BY InitType
  <2> QED BY <2>1, SysInitType
<1>2. Inv /\ [SysNext]_sysVars => Inv'
  <2> SUFFICES ASSUME Inv, [SysNext]_sysVars PROVE Inv'
    OBVIOUS
  <2>1. (TypeOK /\ ContactPending)'
    BY SysStep, StepType
  <2> QED BY <2>1, LinkType, PsuType
<1>3. Inv => SysTypeOK
  BY DEF SysTypeOK
<1> QED BY <1>1, <1>2, <1>3, PTL DEF SysSpec

\* The controller with this link and generator is the controller with some
\* link: everything proved from Spec holds of the composition.
THEOREM LinkedController == SysSpec => Spec
<1>1. SysTypeOK /\ [SysNext]_sysVars => [Next]_vars
  BY SysStep DEF SysTypeOK
<1> QED BY <1>1, SysInitType, SysTypeCorrect, PTL DEF SysSpec, Spec

-----------------------------------------------------------------------------
(* Serialised calls: telemetry that shows a fault stops the generator. *)

PastGate == {"arm", "start", "started", "relief", "servo", "report"}

\* A window that was read is the one the fault flag was taken from, and frames
\* only come in before the gates.
ReadInv ==
  /\ stats_valid /\ ~unread => have_window /\ psu_fault = stats_fault
  /\ pc \in PastGate => ~unread

\* A tick past its gates with a faulty window has no cut, and none is started
\* between ticks.
FaultyInv ==
  have_window /\ psu_fault =>
    ~cutting /\ (pc \in PastGate => state \in Faulted \cup {"Idle"})

\* What the controller makes of a faulty window.  A break may take it from
\* Idle to the relief, but the gates come after the breaks.
LEMMA FaultyStep ==
  ASSUME Serialised
  PROVE  TypeOK /\ SerialInv /\ FaultyInv /\ [Next]_vars => FaultyInv'
<1> SUFFICES ASSUME TypeOK, SerialInv, FaultyInv, [Next]_vars PROVE FaultyInv'
  OBVIOUS
<1>0. StartArmed /\ StopAlone /\ SparkOffWhenFaulted /\ SparkOffWhenIdle
  BY DEF SerialInv
<1> USE DEF FaultyInv, PastGate, cutVars
<1>1. CASE GCode
  BY <1>0, <1>1 DEF GCode, requestStop, notifyCutComplete, StopSend, StopWrite,
     clearFault, requestCut, testCut, writeCut, Callable, StopAlone
<1>2. CASE (\E d \in TickGaps : tickBegin(d)) \/ Drain
  BY <1>2 DEF tickBegin, Drain, drainDone, drainFault, drainOther, drainBreak,
     enterFault
<1>3. ASSUME NEW new \in BOOLEAN, NEW faulty \in BOOLEAN,
             NEW connected \in BOOLEAN, NEW proto \in BOOLEAN,
             NEW diel \in BOOLEAN, gate(new, faulty, connected, proto, diel)
      PROVE  FaultyInv'
  <2>1. (state' = "Fault" /\ ~cutting') \/ UNCHANGED cutVars
    BY <1>3 DEF gate, enterFault
  <2>2. have_window' /\ psu_fault' /\ state \notin Faulted \cup {"Idle"} => state' = "Fault"
    BY <1>3 DEF gate, enterFault, gateReason
  <2>3. gpc = "run"
    BY <1>0, <1>3 DEF gate, StopAlone, TypeOK, ModesOK
  <2> QED BY <1>0, <2>1, <2>2, <2>3 DEF Faulted, SparkOffWhenFaulted, SparkOffWhenIdle
<1>4. CASE Arm \/ startCut \/ enterTouchOff
  BY <1>0, <1>4 DEF Arm, arm, startCut, enterTouchOff, enterFault, StartArmed, Faulted
<1>5. CASE relief \/ publish \/ servoSkip
  BY <1>5 DEF relief, reliefOver, publish, servoSkip, Faulted
<1>6. ASSUME NEW w \in Windows, NEW vpi \in Sign, NEW db \in BOOLEAN,
             \/ servoRelief(w, vpi, db) \/ servoTouchOff(w, vpi, db)
             \/ servoCut(w, vpi, db)
      PROVE  FaultyInv'
  <2>1. /\ state \notin Faulted \cup {"Idle"} /\ pc = "servo"
        /\ UNCHANGED <<have_window, psu_fault>>
    BY <1>6 DEF servoRelief, servoTouchOff, servoCut, servoRuns, Faulted
  <2> QED BY <2>1
<1>7. CASE UNCHANGED vars
  BY <1>7 DEF vars
<1> HIDE DEF FaultyInv, PastGate, cutVars
<1> QED
  BY <1>1, <1>2, <1>3, <1>4, <1>5, <1>6, <1>7 DEF Next, Tick, Gate, Servo

\* The window the controller holds is the last one it read.
LEMMA ReadStep == ReadInv /\ [SysNext]_sysVars => ReadInv'
<1> SUFFICES ASSUME ReadInv, [SysNext]_sysVars PROVE ReadInv'
  OBVIOUS
<1> USE DEF ReadInv, PastGate, linkVars, statsVars, healthVars
<1>1. CASE Calls
  BY <1>1 DEF Calls, GCode, requestStop, notifyCutComplete, StopSend, StopWrite,
     clearFault, requestCut, testCut, writeCut
<1>2. CASE (\E d \in TickGaps : WakeUp(d)) \/ DrainEnds \/ DrainStep
  <2>1. CASE (\E d \in TickGaps : WakeUp(d)) \/ DrainEnds
    BY <2>1 DEF WakeUp, DrainEnds, tickBegin, drainDone
  <2>2. CASE DrainStep
    <3>1. UNCHANGED <<stats_valid, stats_fault, unread>>
      BY <2>2 DEF DrainStep, popEvent
    <3>2. UNCHANGED <<have_window, psu_fault>> /\ pc' \in {"drain", "gate"}
      BY <2>2 DEF DrainStep, drainFault, drainOther, drainBreak
    <3> QED BY <3>1, <3>2
  <2> QED BY <1>2, <2>1, <2>2
<1>3. CASE GateStep
  BY <1>3 DEF GateStep, gate, takeStats, fresh
<1>4. CASE RestOfTick
  <2>1. UNCHANGED <<stats_valid, stats_fault, unread, have_window, psu_fault>>
    BY <1>4 DEF RestOfTick, arm, startCut, enterTouchOff, relief, publish, Servo,
       servoSkip, servoRelief, servoTouchOff, servoCut, servoRuns
  <2>2. pc \in PastGate
    BY <1>4 DEF RestOfTick, arm, startCut, enterTouchOff, relief, publish, Servo,
       servoSkip, servoRelief, servoTouchOff, servoCut, servoRuns
  <2> QED BY <2>1, <2>2
<1>5. CASE Psu
  <2>1. UNCHANGED <<have_window, psu_fault, pc>> /\ pc \notin PastGate
    BY <1>5 DEF Psu, PsuStats, PsuStatus, PsuAcks, PsuEvent, PsuFaults, vars
  <2>2. CASE PsuStats
    BY <2>1, <2>2 DEF PsuStats, onStats
  <2>3. CASE PsuStatus \/ PsuAcks \/ PsuEvent \/ PsuFaults
    <3>1. UNCHANGED <<stats_valid, stats_fault, unread>>
      BY <2>3 DEF PsuStatus, PsuAcks, PsuEvent, PsuFaults, onStatus, onAck, onEvent
    <3> QED BY <2>1, <3>1
  <2> QED BY <1>5, <2>2, <2>3 DEF Psu
<1>6. CASE UNCHANGED sysVars
  BY <1>6 DEF sysVars, vars
<1> HIDE DEF ReadInv, PastGate, linkVars, statsVars, healthVars
<1> QED BY <1>1, <1>2, <1>3, <1>4, <1>5, <1>6 DEF SysNext

\* With calls between ticks, and whatever frames are lost or late: once a tick
\* has read telemetry that shows a fault, the generator has been told to stop.
THEOREM FaultTelemetryActs ==
  ASSUME Serialised
  PROVE  SysSpec => []FaultTelemetryStops
<1>1. SysInit => ReadInv
  BY DEF SysInit, Init, LinkInit, ReadInv, PastGate
<1>2. Spec => []FaultyInv
  <2>1. Init => FaultyInv
    BY DEF Init, FaultyInv
  <2> QED BY <2>1, FaultyStep, SerialHolds, TypeCorrect, PTL DEF Spec
<1>3. ReadInv /\ FaultyInv => FaultTelemetryStops
  BY DEF ReadInv, FaultyInv, FaultTelemetryStops
<1> QED BY <1>1, <1>2, <1>3, ReadStep, LinkedController, PTL DEF SysSpec

-----------------------------------------------------------------------------
(* Serialised calls and a clock that does not wrap: silence ends the cut. *)

\* Past the gates of a tick the window of a cut, or of one about to start, is
\* no older than tele_fault by the controller's clock.
AgeInv ==
  /\ now <= MaxNow /\ window_change <= now
  /\ \/ pc \in PastGate /\ state \in Servoing \cup {"Armed"}
     \/ pc = "wait" /\ state \in Servoing
     => (have_window => now - window_change <= TeleFault)

\* The controller dates a window by the tick that reads it, at most one period
\* after the window came.
QuietInv ==
  /\ have_window => \E d \in TickGaps : quiet <= now - window_change + d
  /\ unread /\ pc = "wait" => quiet = 0
  /\ unread /\ pc \in {"drain", "gate"} => \E d \in TickGaps : quiet <= d
  /\ pc # "wait" => TickGaps # {}

\* The gates and what comes after them keep the age of the window in bounds.
LEMMA AgeStep ==
  ASSUME Serialised, MaxNow < Word
  PROVE  TypeOK /\ SerialInv /\ AgeInv /\ [Next]_vars => AgeInv'
<1> SUFFICES ASSUME TypeOK, SerialInv, AgeInv, [Next]_vars PROVE AgeInv'
  OBVIOUS
<1>0. StartArmed /\ StopAlone /\ now \in Nat /\ window_change \in Nat /\ TeleFault \in Nat
  BY ControllerAssumption DEF SerialInv, TypeOK, ClocksOK, Time
<1> USE DEF AgeInv, PastGate, Servoing, cutVars, clockVars
<1>1. CASE GCode
  BY <1>0, <1>1 DEF GCode, requestStop, notifyCutComplete, StopSend, StopWrite,
     clearFault, requestCut, testCut, writeCut, Callable, StopAlone
<1>2. ASSUME NEW d \in TickGaps, tickBegin(d) PROVE AgeInv'
  <2>1. d \in Nat /\ now' = now + d /\ now' <= MaxNow
    BY <1>0, <1>2, ControllerAssumption DEF tickBegin, Plus
  <2>2. pc' = "drain" /\ UNCHANGED window_change
    BY <1>2 DEF tickBegin
  <2> QED BY <1>0, <2>1, <2>2
<1>3. CASE Drain
  <2>1. UNCHANGED <<now, window_change>> /\ pc' \in {"drain", "gate"}
    BY <1>3 DEF Drain, drainDone, drainFault, drainOther, drainBreak
  <2> QED BY <2>1
<1>4. ASSUME NEW new \in BOOLEAN, NEW faulty \in BOOLEAN,
             NEW connected \in BOOLEAN, NEW proto \in BOOLEAN,
             NEW diel \in BOOLEAN, gate(new, faulty, connected, proto, diel)
      PROVE  AgeInv'
  <2>1. /\ now' = now /\ pc' = "arm" /\ window_change' \in {now, window_change}
        /\ state' \in {state, "Fault"}
    BY <1>4 DEF gate, enterFault
  <2>2. Minus(now, window_change') = now - window_change'
    BY <1>0, <2>1 DEF Minus
  <2>3. /\ state \in Servoing \cup {"Armed"} /\ have_window'
        /\ Minus(now, window_change') > TeleFault
        => state' = "Fault"
    BY <1>4 DEF gate, enterFault, gateReason, Faulted
  <2>4. window_change' \in Nat /\ window_change' <= now'
    BY <1>0, <2>1
  <2>5. /\ state' \in Servoing \cup {"Armed"} /\ have_window'
        => now' - window_change' <= TeleFault
    <3> SUFFICES ASSUME state' \in Servoing \cup {"Armed"}, have_window'
                 PROVE  now' - window_change' <= TeleFault
      OBVIOUS
    <3>1. state' = state /\ state' # "Fault"
      BY <2>1
    <3>2. ~(Minus(now, window_change') > TeleFault)
      BY <2>3, <3>1
    <3>3. ~(now - window_change' > TeleFault)
      BY <2>2, <3>2
    <3>4. \A a, b, c \in Nat : ~(a - b > c) => a - b <= c
      OBVIOUS
    <3>5. now' \in Nat /\ now' = now
      BY <1>0, <2>1
    <3> HIDE DEF AgeInv
    <3> QED BY <1>0, <2>4, <3>3, <3>4, <3>5
  <2> QED BY <1>0, <2>1, <2>4, <2>5
<1>5. CASE Arm
  BY <1>5 DEF Arm, arm, enterFault
<1>6. CASE startCut \/ enterTouchOff \/ relief
  BY <1>0, <1>6 DEF startCut, enterTouchOff, relief, reliefOver, StartArmed
<1>7. CASE publish \/ servoSkip
  BY <1>7 DEF publish, servoSkip
<1>8. ASSUME NEW w \in Windows, NEW vpi \in Sign, NEW db \in BOOLEAN,
             \/ servoRelief(w, vpi, db) \/ servoTouchOff(w, vpi, db)
             \/ servoCut(w, vpi, db)
      PROVE  AgeInv'
  <2>1. /\ state \in Servoing /\ pc = "servo" /\ pc' = "report"
        /\ UNCHANGED <<now, window_change, have_window>>
    BY <1>8 DEF servoRelief, servoTouchOff, servoCut, servoRuns
  <2> QED BY <2>1
<1>9. CASE UNCHANGED vars
  BY <1>9 DEF vars
<1> HIDE DEF AgeInv, PastGate, Servoing, cutVars, clockVars
<1> QED
  BY <1>1, <1>2, <1>3, <1>4, <1>5, <1>6, <1>7, <1>8, <1>9
     DEF Next, Tick, Gate, Servo

\* Every step keeps the dating of the windows.
LEMMA QuietStep ==
  ASSUME MaxNow < Word
  PROVE  /\ SysTypeOK /\ AgeInv /\ ReadInv /\ QuietInv /\ [SysNext]_sysVars
         => QuietInv'
<1> SUFFICES ASSUME SysTypeOK, AgeInv, ReadInv, QuietInv, [SysNext]_sysVars
             PROVE  QuietInv'
  OBVIOUS
<1>0. /\ now \in Nat /\ window_change \in Nat /\ quiet \in Nat
      /\ window_change <= now /\ now <= MaxNow /\ MaxNow \in Nat /\ Word \in Nat
      /\ \A d \in TickGaps : d \in Nat
  BY ControllerAssumption DEF SysTypeOK, TypeOK, ClocksOK, Time, PsuTypeOK, AgeInv
<1>1. CASE /\ UNCHANGED <<unread, quiet, have_window, now, window_change>>
           /\ \/ pc' = pc
              \/ pc \in {"drain", "gate"} /\ pc' \in {"drain", "gate"}
              \/ pc \in PastGate
  BY <1>1 DEF QuietInv, ReadInv, PastGate
<1>2. CASE Calls
  BY <1>1, <1>2 DEF Calls, GCode, requestStop, notifyCutComplete, StopSend, StopWrite,
     clearFault, requestCut, testCut, writeCut, linkVars, clockVars
<1>3. ASSUME NEW d \in TickGaps, WakeUp(d) PROVE QuietInv'
  <2>1. /\ now' = now + d /\ quiet' = quiet + d /\ pc = "wait" /\ pc' = "drain"
        /\ UNCHANGED <<window_change, have_window, unread>>
    BY <1>0, <1>3 DEF WakeUp, tickBegin, Plus, linkVars, clockVars
  <2>2. have_window => \E e \in TickGaps : quiet' <= now' - window_change' + e
    <3> SUFFICES ASSUME have_window
                 PROVE  \E e \in TickGaps : quiet' <= now' - window_change' + e
      OBVIOUS
    <3>1. PICK e \in TickGaps : quiet <= now - window_change + e
      BY DEF QuietInv
    <3>2. quiet' <= now' - window_change' + e
      BY <1>0, <2>1, <3>1
    <3> QED BY <3>2
  <2>3. unread => quiet' <= d
    BY <1>0, <2>1 DEF QuietInv
  <2> QED BY <2>1, <2>2, <2>3 DEF QuietInv
<1>4. CASE DrainEnds
  BY <1>1, <1>4 DEF DrainEnds, drainDone, linkVars, clockVars
<1>5. CASE DrainStep
  <2>1. UNCHANGED <<unread, quiet>>
    BY <1>5 DEF DrainStep, popEvent, statsVars
  <2>2. /\ UNCHANGED <<have_window, now, window_change>>
        /\ pc = "drain" /\ pc' \in {"drain", "gate"}
    BY <1>5 DEF DrainStep, drainFault, drainOther, drainBreak, clockVars
  <2> QED BY <1>1, <2>1, <2>2
<1>6. CASE GateStep
  <2>1. /\ pc = "gate" /\ pc' = "arm" /\ now' = now /\ quiet' = quiet /\ ~unread'
        /\ window_change' = IF fresh THEN now ELSE window_change
        /\ have_window' = (have_window \/ fresh)
    BY <1>6 DEF GateStep, gate, takeStats
  <2>2. CASE fresh
    <3>1. PICK d \in TickGaps : quiet <= d
      BY <2>1, <2>2 DEF QuietInv, fresh
    <3>2. quiet' <= now' - window_change' + d
      BY <1>0, <2>1, <2>2, <3>1
    <3> QED BY <2>1, <3>2 DEF QuietInv
  <2>3. CASE ~fresh
    BY <2>1, <2>3 DEF QuietInv
  <2> QED BY <2>2, <2>3
<1>7. CASE RestOfTick
  <2>1. UNCHANGED <<unread, quiet, have_window, now, window_change>>
    BY <1>7 DEF RestOfTick, arm, startCut, enterTouchOff, relief, publish, Servo,
       servoSkip, servoRelief, servoTouchOff, servoCut, servoRuns, linkVars, clockVars
  <2>2. pc \in PastGate
    BY <1>7 DEF RestOfTick, arm, startCut, enterTouchOff, relief, publish, Servo,
       servoSkip, servoRelief, servoTouchOff, servoCut, servoRuns, PastGate
  <2> QED BY <1>1, <2>1, <2>2
<1>8. CASE PsuStats /\ pc \in {"wait", "drain", "gate"}
  <2>1. quiet' = 0 /\ UNCHANGED <<have_window, now, window_change, pc>>
    BY <1>8 DEF PsuStats, vars
  <2>2. have_window => \E d \in TickGaps : quiet' <= now' - window_change' + d
    <3> SUFFICES ASSUME have_window
                 PROVE  \E d \in TickGaps : quiet' <= now' - window_change' + d
      OBVIOUS
    <3>1. PICK d \in TickGaps : quiet <= now - window_change + d
      BY DEF QuietInv
    <3> QED BY <1>0, <2>1, <3>1
  <2>3. pc # "wait" => \E d \in TickGaps : quiet' <= d
    BY <1>0, <2>1 DEF QuietInv
  <2> QED BY <2>1, <2>2, <2>3 DEF QuietInv
<1>9. CASE PsuStatus \/ PsuAcks \/ PsuEvent \/ PsuFaults
  <2>1. UNCHANGED <<unread, quiet>>
    BY <1>9 DEF PsuStatus, PsuAcks, PsuEvent, PsuFaults, onStatus, onAck, onEvent,
       statsVars, linkVars
  <2>2. UNCHANGED <<have_window, now, window_change, pc>>
    BY <1>9 DEF PsuStatus, PsuAcks, PsuEvent, PsuFaults, vars
  <2> QED BY <1>1, <2>1, <2>2
<1>10. CASE UNCHANGED sysVars
  BY <1>1, <1>10 DEF sysVars, vars, linkVars
<1> QED
  BY <1>2, <1>3, <1>4, <1>5, <1>6, <1>7, <1>8, <1>9, <1>10 DEF SysNext, Psu

\* With calls between ticks and before the clock wraps: whatever else the
\* generator still sends, no servoed cut outlives its last new window by more
\* than tele_fault and a period.
THEOREM SilenceIsNoticed ==
  ASSUME Serialised, MaxNow < Word
  PROVE  SysSpec => []SilenceEndsCut
<1>1. SysInit => ReadInv /\ QuietInv
  BY DEF SysInit, Init, LinkInit, ReadInv, QuietInv, PastGate
<1>2. Spec => []AgeInv
  <2>1. Init => AgeInv
    BY ControllerAssumption DEF Init, AgeInv
  <2> QED BY <2>1, AgeStep, SerialHolds, TypeCorrect, PTL DEF Spec
<1>3. SysTypeOK /\ AgeInv /\ QuietInv => SilenceEndsCut
  <2> SUFFICES ASSUME SysTypeOK, AgeInv, QuietInv, pc = "wait", have_window,
                      state \in Servoing
               PROVE  \E d \in TickGaps : quiet <= TeleFault + d
    BY DEF SilenceEndsCut
  <2>1. PICK d \in TickGaps : quiet <= now - window_change + d
    BY DEF QuietInv
  <2>2. /\ now \in Nat /\ window_change \in Nat /\ quiet \in Nat /\ d \in Nat
        /\ TeleFault \in Nat /\ now - window_change <= TeleFault
    BY ControllerAssumption DEF SysTypeOK, TypeOK, ClocksOK, Time, PsuTypeOK, AgeInv
  <2> QED BY <2>1, <2>2
<1> QED
  BY <1>1, <1>2, <1>3, ReadStep, QuietStep, SysTypeCorrect, LinkedController, PTL
     DEF SysSpec

-----------------------------------------------------------------------------
(* Serialised calls and prompt ACKs: the generator starts in its bounds. *)

\* Where a break of severity 2 cannot lower the energy of an armed cut after
\* the last look at the ACK.
NoLowering == 2 \notin Severities

\* A generator that accepted the last bounds, or will say so, works with them;
\* the arming is decided with no ACK outstanding, on the status of the last.
BoundsInv ==
  /\ psu_ack = 0 \/ (psu_ack = NoAck /\ last_ack_status = 0) => psu_bounds = bounds
  /\ pc \in {"drain", "gate", "arm", "start"} /\ state = "Armed" => psu_ack = NoAck
  /\ pc = "start" => last_ack_status = 0

\* Only the start section turns the generator on.
LEMMA OnlyStarts ==
  ASSUME TypeOK, [Next]_vars, cutting', ~cutting
  PROVE  pc = "start"
<1> USE DEF cutVars
<1>1. CASE GCode
  BY <1>1 DEF GCode, requestStop, notifyCutComplete, StopSend, StopWrite,
     clearFault, requestCut, testCut, writeCut
<1>2. CASE (\E d \in TickGaps : tickBegin(d)) \/ Drain
  BY <1>2 DEF tickBegin, Drain, drainDone, drainFault, drainOther, drainBreak,
     enterFault
<1>3. ASSUME NEW new \in BOOLEAN, NEW faulty \in BOOLEAN,
             NEW connected \in BOOLEAN, NEW proto \in BOOLEAN,
             NEW diel \in BOOLEAN, gate(new, faulty, connected, proto, diel)
      PROVE  FALSE
  <2>1. cutting' = FALSE \/ cutting' = cutting
    BY <1>3 DEF gate, enterFault
  <2> QED BY <2>1
<1>4. CASE Arm \/ startCut \/ enterTouchOff
  BY <1>4 DEF Arm, arm, startCut, enterTouchOff, enterFault
<1>5. CASE relief \/ publish \/ servoSkip
  BY <1>5 DEF relief, publish, servoSkip
<1>6. ASSUME NEW w \in Windows, NEW vpi \in Sign, NEW db \in BOOLEAN,
             \/ servoRelief(w, vpi, db) \/ servoTouchOff(w, vpi, db)
             \/ servoCut(w, vpi, db)
      PROVE  FALSE
  BY <1>6 DEF servoRelief, servoTouchOff, servoCut, enterFault
<1>7. CASE UNCHANGED vars
  BY <1>7 DEF vars
<1> HIDE DEF cutVars
<1> QED
  BY <1>1, <1>2, <1>3, <1>4, <1>5, <1>6, <1>7 DEF Next, Tick, Gate, Servo

\* A command keeps the generator in step with the bounds last sent.
LEMMA SendsBounds ==
  ASSUME PsuTypeOK, BoundsInv, UNCHANGED last_ack_status,
         Sends \/ (takesClear /\ UNCHANGED bounds)
  PROVE  /\ psu_ack' = 0 \/ (psu_ack' = NoAck /\ last_ack_status' = 0)
            => psu_bounds' = bounds'
         /\ bounds' = bounds => psu_ack' = psu_ack /\ psu_bounds' = psu_bounds
<1>1. CASE takesBounds /\ bounds' # bounds
  BY <1>1 DEF takesBounds, NoAck
<1>2. CASE /\ bounds' = bounds
           /\ takesStart \/ takesStop \/ takesClear \/ UNCHANGED psuVars
  BY <1>2 DEF takesStart, takesStop, takesClear, psuVars, BoundsInv
<1> QED BY <1>1, <1>2 DEF Sends

\* Every step of the composition keeps the generator in its bounds.
LEMMA BoundsStep ==
  ASSUME Serialised, PromptAcks, NoLowering
  PROVE  SysTypeOK /\ SerialInv /\ BoundsInv /\ [SysNext]_sysVars => BoundsInv'
<1> SUFFICES ASSUME SysTypeOK, SerialInv, BoundsInv, [SysNext]_sysVars
             PROVE  BoundsInv'
  OBVIOUS
<1>0. TypeOK /\ PsuTypeOK /\ StopAlone
  BY DEF SysTypeOK, SerialInv
<1>1. CASE Calls
  <2>1. pc = "wait" /\ pc' = "wait"
    BY <1>0, <1>1 DEF Calls, GCode, requestStop, notifyCutComplete, StopSend,
       StopWrite, clearFault, requestCut, testCut, writeCut, Callable, StopAlone
  <2>2. UNCHANGED last_ack_status
    BY <1>1 DEF Calls, linkVars
  <2>3. Sends \/ (takesClear /\ UNCHANGED bounds)
    BY <1>1 DEF Calls, GCode, requestStop, notifyCutComplete, StopSend, StopWrite,
       clearFault, requestCut, testCut, writeCut
  <2>4. psu_ack' = 0 \/ (psu_ack' = NoAck /\ last_ack_status' = 0) => psu_bounds' = bounds'
    BY <1>0, <2>2, <2>3, SendsBounds
  <2> QED BY <2>1, <2>4 DEF BoundsInv
<1>2. ASSUME NEW d \in TickGaps, WakeUp(d) PROVE BoundsInv'
  BY <1>2 DEF WakeUp, tickBegin, linkVars, psuVars, BoundsInv
<1>3. CASE DrainEnds
  BY <1>3 DEF DrainEnds, drainDone, linkVars, psuVars, cutVars, BoundsInv
<1>4. CASE DrainStep
  <2>1. Sends /\ UNCHANGED last_ack_status
    BY <1>4 DEF DrainStep, popEvent
  <2>2. pc = "drain" /\ pc' # "start"
    BY <1>4 DEF DrainStep, drainFault, drainOther, drainBreak
  <2>3. state' = "Armed" => state = "Armed" /\ bounds' = bounds
    <3>1. CASE drainFault \/ drainOther
      BY <3>1 DEF drainFault, drainOther, enterFault, cutVars
    <3>2. ASSUME NEW x \in Severities, drainBreak(x)
          PROVE  state' = "Armed" => state = "Armed" /\ bounds' = bounds
      <4>1. sev' \in Nat /\ sev' # 2
        BY <1>0, <3>2, ControllerAssumption DEF drainBreak, NoLowering, TypeOK, ModesOK
      <4> QED BY <3>2, <4>1 DEF drainBreak, breakReaction
    <3> QED BY <1>4, <3>1, <3>2 DEF DrainStep
  <2> QED BY <1>0, <2>1, <2>2, <2>3, SendsBounds DEF BoundsInv
<1>5. CASE GateStep
  <2>1. Sends /\ UNCHANGED last_ack_status
    BY <1>5 DEF GateStep, takeStats
  <2>2. pc = "gate" /\ pc' = "arm" /\ bounds' = bounds /\ state' \in {state, "Fault"}
    BY <1>5 DEF GateStep, gate, enterFault, cutVars
  <2> QED BY <1>0, <2>1, <2>2, SendsBounds DEF BoundsInv
<1>6. CASE RestOfTick
  <2>1. Sends /\ UNCHANGED last_ack_status
    BY <1>6 DEF RestOfTick, linkVars
  <2>2. CASE arm(last_ack_status)
    <3>1. /\ pc = "arm" /\ bounds' = bounds /\ state' \in {state, "Fault"}
          /\ pc' = "start" => last_ack_status = 0
      BY <2>2 DEF arm, enterFault, cutVars
    <3> QED BY <1>0, <2>1, <3>1, SendsBounds DEF BoundsInv
  <2>3. CASE startCut \/ enterTouchOff \/ relief \/ Servo \/ publish
    <3>1. pc' \in {"started", "relief", "servo", "report", "wait"}
      BY <2>3 DEF startCut, enterTouchOff, relief, publish, Servo, servoSkip,
         servoRelief, servoTouchOff, servoCut, servoRuns
    <3> QED BY <1>0, <2>1, <3>1, SendsBounds DEF BoundsInv
  <2> QED BY <1>6, <2>2, <2>3 DEF RestOfTick
<1>7. CASE PsuAcks /\ pc \in {"wait", "drain", "gate"}
  BY <1>7 DEF PsuAcks, onAck, vars, BoundsInv, NoAck
<1>8. CASE PsuStats \/ PsuStatus \/ PsuEvent \/ PsuFaults
  <2>1. UNCHANGED <<last_ack_status, psu_ack, psu_bounds>>
    BY <1>8 DEF PsuStats, PsuStatus, PsuEvent, PsuFaults, onStats, onStatus,
       onEvent, linkVars, psuVars
  <2>2. UNCHANGED <<bounds, pc, state>>
    BY <1>8 DEF PsuStats, PsuStatus, PsuEvent, PsuFaults, vars
  <2> QED BY <2>1, <2>2 DEF BoundsInv
<1>9. CASE UNCHANGED sysVars
  BY <1>9 DEF sysVars, vars, linkVars, psuVars, BoundsInv
<1> QED BY <1>1, <1>2, <1>3, <1>4, <1>5, <1>6, <1>7, <1>8, <1>9 DEF SysNext, Psu

\* The generator only begins to spark in a step that sends it START_CUT.
LEMMA SparkBegins ==
  ASSUME SysTypeOK, [SysNext]_sysVars, ~psu_cutting, psu_cutting'
  PROVE  cutting' /\ ~cutting
<1>1. CASE Sends
  BY <1>1 DEF Sends, takesBounds, takesStop, takesStart, psuVars
<1>2. CASE takesClear \/ UNCHANGED psuVars
  BY <1>2 DEF takesClear, psuVars
<1>3. ~Psu
  BY DEF Psu, PsuStats, PsuStatus, PsuAcks, PsuEvent, PsuFaults, psuVars
<1> QED
  BY <1>1, <1>2, <1>3 DEF SysNext, Calls, WakeUp, DrainEnds, DrainStep, GateStep,
     RestOfTick, sysVars

\* With calls between ticks, ACKs that arrive before the next tick and no break
\* of severity 2: a generator that may refuse any bounds only ever begins to
\* spark with the bounds of the controller's current mode and S word.
THEOREM SparkStartsInBounds ==
  ASSUME Serialised, PromptAcks, NoLowering
  PROVE  SysSpec => StartsInBounds
<1>1. SysInit => BoundsInv
  BY DEF SysInit, Init, LinkInit, BoundsInv
<1>2. /\ SysTypeOK /\ SerialInv /\ BoundsInv /\ [SysNext]_sysVars
      => [~psu_cutting /\ psu_cutting' => psu_bounds = bounds]_sysVars
  <2> SUFFICES ASSUME SysTypeOK, SerialInv, BoundsInv, [SysNext]_sysVars,
                      ~psu_cutting, psu_cutting'
               PROVE  psu_bounds = bounds
    OBVIOUS
  <2>1. [Next]_vars
    BY SysStep DEF SysTypeOK
  <2>2. pc = "start"
    BY <2>1, SparkBegins, OnlyStarts DEF SysTypeOK
  <2>3. state = "Armed"
    BY <2>2 DEF SerialInv, StartArmed
  <2> QED BY <2>2, <2>3 DEF BoundsInv
<1> QED
  BY <1>1, <1>2, BoundsStep, SerialHolds, SysTypeCorrect, LinkedController, PTL
     DEF SysSpec, StartsInBounds
=============================================================================
