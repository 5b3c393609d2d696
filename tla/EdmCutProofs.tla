----------------------------- MODULE EdmCutProofs -----------------------------
(***************************************************************************)
(* EdmController implements CutLifecycle, with calls between two ticks and *)
(* with calls inside them.                                                 *)
(***************************************************************************)
EXTENDS EdmControllerCut, EdmControllerProofs

\* With calls between ticks a velocity stays within the servoed tick.
LEMMA MovesStep ==
  ASSUME Serialised
  PROVE  TypeOK /\ SerialInv /\ MovesServoed /\ [Next]_vars => MovesServoed'
<1> SUFFICES ASSUME TypeOK, SerialInv, MovesServoed, [Next]_vars PROVE MovesServoed'
  OBVIOUS
<1>0. StopAlone
  BY DEF SerialInv
<1> USE DEF MovesServoed, Servoing, Faulted, cutVars
<1>1. CASE GCode
  BY <1>0, <1>1 DEF GCode, requestStop, notifyCutComplete, StopSend, StopWrite,
     clearFault, requestCut, testCut, writeCut, Callable, StopAlone
<1>2. CASE (\E d \in TickGaps : tickBegin(d)) \/ Drain
  BY <1>2 DEF tickBegin, Drain, drainDone, drainFault, drainOther, drainBreak
<1>3. CASE Gate
  BY <1>3 DEF Gate, gate
<1>4. CASE Arm
  <2>1. /\ loc' = [loc EXCEPT !.connected = FALSE, !.proto = FALSE]
        /\ pc = "arm"
    BY <1>4 DEF Arm, arm
  <2>2. loc'.v = loc.v
    BY <2>1 DEF TypeOK, LocalsOK
  <2> QED BY <2>1, <2>2
<1>5. CASE startCut \/ enterTouchOff
  BY <1>5 DEF startCut, enterTouchOff
<1>6. CASE relief \/ publish \/ servoSkip
  BY <1>6 DEF relief, publish, servoSkip, NoLocals
<1>7. ASSUME NEW w \in Windows, NEW vpi \in Sign, NEW db \in BOOLEAN,
             \/ servoRelief(w, vpi, db) \/ servoTouchOff(w, vpi, db)
             \/ servoCut(w, vpi, db)
      PROVE  MovesServoed'
  <2>1. pc' = "report"
    BY <1>7 DEF servoRelief, servoTouchOff, servoCut, servoRuns
  <2>2. state' \in Servoing \cup Faulted
    BY <1>7 DEF servoRelief, servoTouchOff, servoCut, enterFault
  <2> QED BY <2>1, <2>2
<1>8. CASE UNCHANGED vars
  BY <1>8 DEF vars
<1> HIDE DEF MovesServoed, Servoing, Faulted, cutVars
<1> QED
  BY <1>1, <1>2, <1>3, <1>4, <1>5, <1>6, <1>7, <1>8 DEF Next, Tick, Servo

\* The sections of a tick in which the lifecycle is just busy.
Busy(section) == section \notin {"wait", "start", "started"}

\* A step within a tick that changes neither state, generator nor report is no
\* step of the lifecycle.
LEMMA Stutters ==
  ASSUME UNCHANGED <<state, cutting, report, gpc>>, Busy(pc), Busy(pc')
  PROVE  UNCHANGED Cut!cut
BY DEF Cut!cut, PhaseOf, TickOf, Busy

\* A step that faults the cut and stops the generator.
LEMMA Fails ==
  ASSUME state' \in Faulted, cutting' = FALSE, UNCHANGED <<report, gpc>>,
         Busy(pc), Busy(pc')
  PROVE  Cut!Fail
BY DEF Cut!Fail, PhaseOf, Faulted, TickOf, Busy

\* A step that goes from one servoed state to another is none either.
LEMMA StaysActive ==
  ASSUME state \in Servoing, state' \in Servoing, UNCHANGED <<cutting, report, gpc>>,
         Busy(pc), Busy(pc')
  PROVE  UNCHANGED Cut!cut
BY DEF Cut!cut, PhaseOf, Servoing, Faulted, TickOf, Busy

\* The calls, between ticks or write by write inside them.
LEMMA CallStep ==
  ASSUME TypeOK, GCode
  PROVE  [Cut!Life]_(Cut!cut)
<1> USE DEF cutVars
<1>1. CASE StopSend
  <2>1. Cut!Quench
    BY <1>1 DEF StopSend, Callable, Cut!Quench, Cut!Callable, PhaseOf, TickOf
  <2> QED BY <2>1 DEF Cut!Life, Cut!Calls
<1>2. CASE StopWrite
  <2>1. Cut!Stop
    BY <1>2 DEF StopWrite, Cut!Stop, PhaseOf, TickOf
  <2> QED BY <2>1 DEF Cut!Life, Cut!Calls
<1>3. CASE clearFault
  <2>1. Cut!Clear
    BY <1>3 DEF clearFault, Callable, Cut!Clear, Cut!Callable, PhaseOf, TickOf, Faulted
  <2> QED BY <2>1 DEF Cut!Life, Cut!Calls
<1>4. ASSUME NEW s \in SWords, requestCut(s) PROVE [Cut!Life]_(Cut!cut)
  <2>1. CASE modeForSword(s) = "Idle"
    <3>1. Cut!Quench
      BY <1>4, <2>1 DEF requestCut, Callable, Cut!Quench, Cut!Callable, PhaseOf, TickOf
    <3> QED BY <3>1 DEF Cut!Life, Cut!Calls
  <2>2. CASE modeForSword(s) # "Idle"
    <3>1. Cut!M3
      BY <1>4, <2>2 DEF requestCut, Callable, Cut!M3, Cut!Callable, PhaseOf, TickOf, Faulted
    <3> QED BY <3>1 DEF Cut!Life, Cut!Calls
  <2> QED BY <2>1, <2>2
<1>5. ASSUME NEW s \in SWords, testCut(s) PROVE UNCHANGED Cut!cut
  BY <1>5 DEF testCut, Callable, Cut!cut, PhaseOf, TickOf
<1>6. CASE writeCut
  <2>1. ~Serialised /\ UNCHANGED <<report, pc>>
    BY <1>6 DEF writeCut
  <2>2. CASE gpc = "stop"
    <3>1. Cut!Quench
      BY <1>6, <2>1, <2>2 DEF writeCut, Cut!Quench, Cut!Callable, PhaseOf, TickOf
    <3> QED BY <3>1 DEF Cut!Life, Cut!Calls
  <2>3. CASE gpc = "state"
    <3>1. Cut!M3
      BY <1>6, <2>1, <2>3 DEF writeCut, Cut!M3, Cut!Callable, PhaseOf, TickOf, Faulted
    <3> QED BY <3>1 DEF Cut!Life, Cut!Calls
  <2>4. CASE gpc \notin {"stop", "state"}
    <3>1. UNCHANGED <<state, cutting, report, pc>> /\ gpc # "stopping" /\ gpc' # "stopping"
      BY <1>6, <2>4 DEF writeCut
    <3> QED BY <3>1 DEF Cut!cut, PhaseOf, TickOf
  <2> QED BY <2>2, <2>3, <2>4
<1> QED BY <1>1, <1>2, <1>3, <1>4, <1>5, <1>6 DEF GCode, requestStop, notifyCutComplete

\* Every step of the two threads is a step of the lifecycle, or none of it.
LEMMA CutStep ==
  ASSUME TypeOK, Serialised => MovesServoed, [Next]_vars
  PROVE  [Cut!Life]_(Cut!cut)
<1> USE DEF cutVars
<1>3. CASE GCode
  BY <1>3, CallStep
<1>4. CASE drainDone \/ drainOther \/ servoSkip
  BY <1>4, Stutters DEF drainDone, drainOther, servoSkip, Busy
<1>4w. CASE \E d \in TickGaps : tickBegin(d)
  <2>1. Cut!Wake
    BY <1>4w DEF tickBegin, Cut!Wake, PhaseOf, TickOf
  <2> QED BY <2>1 DEF Cut!Life, Cut!Ticks
<1>5. CASE drainFault
  <2>1. Cut!Fail
    BY <1>5, Fails DEF drainFault, enterFault, Faulted, Busy
  <2> QED BY <2>1 DEF Cut!Life, Cut!Ticks
<1>6. ASSUME NEW x \in Severities, drainBreak(x) PROVE [Cut!Life]_(Cut!cut)
  <2>1. /\ UNCHANGED <<cutting, report, gpc>> /\ pc = "drain" /\ pc' = "drain"
        /\ state' = state \/ state' = "BreakRelief"
    BY <1>6 DEF drainBreak, breakReaction
  <2>2. CASE state' = state
    BY <2>1, <2>2, Stutters DEF Busy
  <2>3. CASE state' = "BreakRelief"
    <3>1. Cut!Relieve
      BY <2>1, <2>3 DEF Cut!Relieve, PhaseOf, Faulted, TickOf
    <3> QED BY <3>1 DEF Cut!Life, Cut!Ticks
  <2> QED BY <2>1, <2>2, <2>3
<1>7. CASE Gate \/ Arm
  <2>1. /\ UNCHANGED <<report, gpc>> /\ Busy(pc)
        /\ \/ UNCHANGED <<state, cutting>> /\ Busy(pc')
           \/ state' \in Faulted /\ cutting' = FALSE /\ Busy(pc')
           \/ UNCHANGED <<state, cutting>> /\ state = "Armed" /\ pc' = "start"
    BY <1>7 DEF Gate, gate, Arm, arm, enterFault, Faulted, Busy
  <2>2. CASE UNCHANGED <<state, cutting>> /\ Busy(pc')
    BY <2>1, <2>2, Stutters
  <2>3. CASE state' \in Faulted /\ cutting' = FALSE /\ Busy(pc')
    BY <2>1, <2>3, Fails DEF Cut!Life, Cut!Ticks
  <2>4. CASE UNCHANGED <<state, cutting>> /\ state = "Armed" /\ pc' = "start"
    <3>1. Cut!Aim
      BY <2>1, <2>4 DEF Cut!Aim, PhaseOf, TickOf, Busy
    <3> QED BY <3>1 DEF Cut!Life, Cut!Ticks
  <2> QED BY <2>1, <2>2, <2>3, <2>4
<1>8. CASE startCut
  <2>1. Cut!Strike
    BY <1>8 DEF startCut, Cut!Strike, PhaseOf, TickOf
  <2> QED BY <2>1 DEF Cut!Life, Cut!Ticks
<1>9. CASE enterTouchOff
  <2>1. Cut!Begin
    BY <1>9 DEF enterTouchOff, Cut!Begin, PhaseOf, TickOf, Faulted
  <2> QED BY <2>1 DEF Cut!Life, Cut!Ticks
<1>10. CASE relief
  <2>1. UNCHANGED <<cutting, report, gpc>> /\ pc = "relief" /\ pc' = "servo"
    BY <1>10 DEF relief
  <2>2. \/ state' = state
        \/ state \in Servoing /\ state' \in Servoing
    BY <1>10 DEF relief, reliefOver, Servoing
  <2> QED BY <2>1, <2>2, Stutters, StaysActive DEF Busy
<1>11. CASE publish
  <2>1. /\ report' = [state |-> state, v |-> loc.v, sev |-> sev, cap |-> feed_cap]
        /\ UNCHANGED <<state, cutting, gpc>> /\ loc.v \in Sign
        /\ pc = "report" /\ pc' = "wait"
    BY <1>11 DEF publish, TypeOK, LocalsOK
  <2>2. Serialised /\ loc.v # 0 => PhaseOf(state) \in {"active", "faulted"}
    BY DEF MovesServoed, PhaseOf, Servoing, Faulted
  <2>3. Cut!Publish
    BY <2>1, <2>2 DEF Cut!Publish, Cut!Moves, PhaseOf, TickOf, Sign
  <2> QED BY <2>3 DEF Cut!Life, Cut!Ticks
<1>12. ASSUME NEW w \in Windows, NEW vpi \in Sign, NEW db \in BOOLEAN,
              \/ servoRelief(w, vpi, db) \/ servoTouchOff(w, vpi, db)
              \/ servoCut(w, vpi, db)
       PROVE  [Cut!Life]_(Cut!cut)
  <2>1. UNCHANGED <<report, gpc>> /\ Busy(pc) /\ Busy(pc')
    BY <1>12 DEF servoRelief, servoTouchOff, servoCut, servoRuns, Busy
  <2>2. \/ /\ state \in Servoing /\ state' \in Servoing /\ UNCHANGED cutting
        \/ state' \in Faulted /\ cutting' = FALSE
    BY <1>12 DEF servoRelief, servoTouchOff, servoCut, enterFault, Servoing, Faulted
  <2>3. CASE state' \in Faulted /\ cutting' = FALSE
    BY <2>1, <2>3, Fails DEF Cut!Life, Cut!Ticks
  <2> QED BY <2>1, <2>2, <2>3, StaysActive
<1>13. CASE UNCHANGED vars
  BY <1>13 DEF vars, Cut!cut, PhaseOf, TickOf
<1> QED
  BY <1>3, <1>4, <1>4w, <1>5, <1>6, <1>7, <1>8, <1>9, <1>10,
     <1>11, <1>12, <1>13 DEF Next, Tick, Drain, Servo

\* The controller implements the lifecycle promised to the motion loop, the
\* wire feed and the telemetry, at the grain its calls run at: what they rely
\* on about phases, the generator and the report holds for every timer,
\* telemetry, event and race.
THEOREM ControllerImplementsCut == Spec => ImplementsCut
<1>1. Init => Cut!LifeInit /\ MovesServoed
  BY DEF Init, NoLocals, MovesServoed, Cut!LifeInit, PhaseOf, TickOf
<1>2. CASE Serialised
  BY <1>1, <1>2, MovesStep, CutStep, SerialHolds, TypeCorrect, PTL
     DEF Spec, ImplementsCut, Cut!LifeSpec
<1>3. CASE ~Serialised
  <2>1. TypeOK /\ [Next]_vars => [Cut!Life]_(Cut!cut)
    BY <1>3, CutStep
  <2> QED BY <1>1, <2>1, TypeCorrect, PTL DEF Spec, ImplementsCut, Cut!LifeSpec
<1> QED BY <1>2, <1>3
===============================================================================
