---------------------------- MODULE EdmTickProofs ----------------------------
(***************************************************************************)
(* Theorems about what one tick of the cut controller leaves behind: the   *)
(* command it publishes, the timers it has acted upon and the dielectric   *)
(* it has looked at.                                                       *)
(***************************************************************************)
EXTENDS EdmControllerProofs

USE ControllerAssumption, ModeTableAssumption, GapServoAssumption

-----------------------------------------------------------------------------
(* The feed cap and the published velocity. *)

\* A velocity is only held from the servo section to the report.
VelocityInTick == loc.v # 0 => pc = "report"

\* A latched severity 3 has the feed capped at 0, what was computed under it
\* does not advance, and neither does what was published.
CapInv ==
  /\ VelocityInTick
  /\ sev >= 3 => feed_cap = 0
  /\ pc = "report" /\ sev >= 3 => loc.v <= 0
  /\ report.sev >= 3 => report.v <= 0

\* A velocity computed under a cap of 0 does not advance.
LEMMA CappedOut ==
  ASSUME NEW w \in Windows, NEW vpi \in Sign, NEW db \in BOOLEAN, TypeOK
  PROVE  /\ servoOut(w, vpi, db).v \in Sign
         /\ feed_cap = 0 => servoOut(w, vpi, db).v <= 0
<1>1. w \in Window /\ valid(w) \in BOOLEAN
  BY DEF valid, Window, TypeOK, LocalsOK
<1> QED BY <1>1 DEF servoOut, Ladder, Capped, Sign

\* The cap, the velocity and the report are kept together by every step.
LEMMA CapStep == TypeOK /\ CapInv /\ [Next]_vars => CapInv'
<1> SUFFICES ASSUME TypeOK, CapInv, [Next]_vars PROVE CapInv'
  OBVIOUS
<1>0. sev \in Nat /\ loc.v \in Sign
  BY DEF TypeOK, ModesOK, LocalsOK
<1> USE DEF CapInv, VelocityInTick, breakVars
<1>1. CASE GCode
  BY <1>1 DEF GCode, requestStop, notifyCutComplete, StopSend, StopWrite,
     clearFault, requestCut, testCut, writeCut
<1>2. CASE (\E d \in TickGaps : tickBegin(d)) \/ drainDone \/ drainFault \/ drainOther
  BY <1>2 DEF tickBegin, drainDone, drainFault, drainOther
<1>3. ASSUME NEW x \in Severities, drainBreak(x) PROVE CapInv'
  <2>1. pc = "drain" /\ pc' = "drain" /\ UNCHANGED <<report, loc>>
    BY <1>3 DEF drainBreak
  <2>2. sev' >= 3 => feed_cap' = 0
    BY <1>3 DEF drainBreak, breakReaction
  <2> QED BY <2>1, <2>2
<1>4. CASE Gate
  BY <1>4 DEF Gate, gate
<1>5. CASE Arm
  <2>1. /\ loc' = [loc EXCEPT !.connected = FALSE, !.proto = FALSE]
        /\ pc = "arm" /\ pc' # "report" /\ UNCHANGED <<report, breakVars>>
    BY <1>5 DEF Arm, arm
  <2>2. loc'.v = loc.v
    BY <2>1 DEF TypeOK, LocalsOK
  <2> QED BY <2>1, <2>2
<1>6. CASE startCut \/ enterTouchOff
  BY <1>6 DEF startCut, enterTouchOff
<1>7. CASE relief
  BY <1>0, <1>7 DEF relief
<1>8. CASE servoSkip
  BY <1>0, <1>8 DEF servoSkip
<1>9. CASE publish
  BY <1>9 DEF publish, NoLocals
<1>10. ASSUME NEW w \in Windows, NEW vpi \in Sign, NEW db \in BOOLEAN,
              \/ servoRelief(w, vpi, db) \/ servoTouchOff(w, vpi, db)
              \/ servoCut(w, vpi, db)
       PROVE  CapInv'
  <2>1. servoRuns(w, vpi, db)
    BY <1>10 DEF servoRelief, servoTouchOff, servoCut
  <2>2. loc'.v = servoOut(w, vpi, db).v
    BY <2>1 DEF servoRuns, TypeOK, LocalsOK
  <2> QED BY <2>1, <2>2, CappedOut DEF servoRuns
<1>11. CASE UNCHANGED vars
  BY <1>11 DEF vars
<1> HIDE DEF CapInv, VelocityInTick, breakVars
<1> QED
  BY <1>1, <1>2, <1>3, <1>4, <1>5, <1>6, <1>7, <1>8, <1>9, <1>10, <1>11
     DEF Next, Tick, Drain, Servo

\* On one thread or two, for every severity and every output of the regulator:
\* what is published while a severity-3 break is latched never advances.
THEOREM BreakNeverAdvances == Spec => []NoAdvanceOnBreak
<1>1. Init => CapInv
  BY DEF Init, CapInv, VelocityInTick, NoLocals
<1>2. CapInv => NoAdvanceOnBreak
  BY DEF CapInv, NoAdvanceOnBreak
<1> QED BY <1>1, <1>2, CapStep, TypeCorrect, PTL DEF Spec

-----------------------------------------------------------------------------
(* Serialised calls: an advance is one on fresh telemetry. *)

\* The window flagged fresh is the one read in this tick, and only a fresh
\* window advances a cut; touch-off, and the tick that faults it, do not need one.
FreshInv ==
  /\ pc \in {"wait", "drain", "gate"} => loc = NoLocals
  /\ loc.fresh => have_window /\ window_change = now
  /\ pc = "report" /\ loc.v > 0 /\ state \notin {"TouchOff", "Fault"} => loc.fresh
  /\ NoBlindAdvance

\* What the servo section leaves in state and velocity.
LEMMA FreshServo ==
  ASSUME TypeOK, NEW w \in Windows, NEW vpi \in Sign, NEW db \in BOOLEAN,
         \/ servoRelief(w, vpi, db) \/ servoTouchOff(w, vpi, db)
         \/ servoCut(w, vpi, db)
  PROVE  \/ loc.fresh
         \/ servoOut(w, vpi, db).v <= 0
         \/ state' \in {"TouchOff", "Fault"}
<1>1. /\ w \in Window /\ valid(w) \in BOOLEAN /\ touchoff_contig \in Nat
      /\ valid(w) => loc.fresh
  BY DEF valid, Window, TypeOK, LocalsOK, CountersOK
<1>2. CASE servoTouchOff(w, vpi, db)
  BY <1>1, <1>2 DEF servoTouchOff, contact, enterFault
<1>3. CASE servoRelief(w, vpi, db) \/ servoCut(w, vpi, db)
  <2>1. state # "TouchOff"
    BY <1>3 DEF servoRelief, servoCut
  <2>2. ~valid(w) => servoOut(w, vpi, db).v <= 0
    BY <1>1, <2>1 DEF servoOut, Ladder, Capped
  <2> QED BY <1>1, <2>2
<1> QED BY <1>2, <1>3

\* With calls between ticks the tick's snapshot stays the one it decides on.
LEMMA FreshStep ==
  ASSUME Serialised
  PROVE  TypeOK /\ SerialInv /\ CapInv /\ FreshInv /\ [Next]_vars => FreshInv'
<1> SUFFICES ASSUME TypeOK, SerialInv, CapInv, FreshInv, [Next]_vars PROVE FreshInv'
  OBVIOUS
<1>0. StopAlone /\ VelocityInTick
  BY DEF SerialInv, CapInv
<1> USE DEF FreshInv, NoBlindAdvance
<1>1. CASE GCode
  BY <1>0, <1>1 DEF GCode, requestStop, notifyCutComplete, StopSend, StopWrite,
     clearFault, requestCut, testCut, writeCut, Callable, StopAlone, clockVars
<1>2. CASE \E d \in TickGaps : tickBegin(d)
  BY <1>2 DEF tickBegin, NoLocals
<1>3. CASE Drain
  BY <1>3 DEF Drain, drainDone, drainFault, drainOther, drainBreak, clockVars
<1>4. CASE Gate
  BY <1>4 DEF Gate, gate
<1>5. CASE Arm
  <2>1. /\ loc' = [loc EXCEPT !.connected = FALSE, !.proto = FALSE]
        /\ pc = "arm" /\ pc' \in {"relief", "start"}
        /\ UNCHANGED <<have_window, window_change, now>>
    BY <1>5 DEF Arm, arm, clockVars
  <2>2. loc'.fresh = loc.fresh
    BY <2>1 DEF TypeOK, LocalsOK
  <2> QED BY <2>1, <2>2
<1>6. CASE startCut \/ enterTouchOff \/ relief
  BY <1>6 DEF startCut, enterTouchOff, relief, clockVars
<1>7. CASE servoSkip
  BY <1>0, <1>7 DEF servoSkip, clockVars, VelocityInTick
<1>8. CASE publish
  BY <1>8 DEF publish, clockVars, NoLocals, cutVars
<1>9. ASSUME NEW w \in Windows, NEW vpi \in Sign, NEW db \in BOOLEAN,
             \/ servoRelief(w, vpi, db) \/ servoTouchOff(w, vpi, db)
             \/ servoCut(w, vpi, db)
      PROVE  FreshInv'
  <2>1. servoRuns(w, vpi, db)
    BY <1>9 DEF servoRelief, servoTouchOff, servoCut
  <2>2. /\ loc'.v = servoOut(w, vpi, db).v /\ loc'.fresh = loc.fresh
        /\ pc' = "report" /\ UNCHANGED <<have_window, window_change, now>>
    BY <2>1 DEF servoRuns, TypeOK, LocalsOK
  <2>3. servoOut(w, vpi, db).v \in Int
    BY CappedOut DEF Sign
  <2> QED BY <1>9, <2>2, <2>3, FreshServo
<1>10. CASE UNCHANGED vars
  BY <1>10 DEF vars
<1> HIDE DEF FreshInv, NoBlindAdvance
<1> QED
  BY <1>1, <1>2, <1>3, <1>4, <1>5, <1>6, <1>7, <1>8, <1>9, <1>10
     DEF Next, Tick, Servo

\* With calls between ticks, a published cut only advances on telemetry of the
\* very tick that published it, whatever windows come and fail to come.
THEOREM AdvanceIsFresh ==
  ASSUME Serialised
  PROVE  Spec => []NoBlindAdvance
<1>1. Init => CapInv /\ FreshInv
  BY DEF Init, CapInv, VelocityInTick, FreshInv, NoBlindAdvance, NoLocals
<1>2. FreshInv => NoBlindAdvance
  BY DEF FreshInv
<1> QED BY <1>1, <1>2, CapStep, FreshStep, SerialHolds, TypeCorrect, PTL DEF Spec

-----------------------------------------------------------------------------
(* No timer of the servo task is overdue, races included. *)

\* The relief section has ended what was due; the servo section the touch-off.
ReliefTimer ==
  pc \in {"servo", "report", "wait"} =>
    /\ state = "BreakRelief" => now < relief_until
    /\ sev > 0 => now < sev_clear_after

TouchTimer ==
  pc \in {"report", "wait"} /\ state = "TouchOff" =>
    Minus(now, touchoff_start) <= TouchOffBudget

\* The servo section: a touch-off that goes on is within its budget, one that a
\* lost gap begins starts its budget now.
LEMMA TimerServo ==
  ASSUME TypeOK, ReliefTimer, Servo
  PROVE  (ReliefTimer /\ TouchTimer)'
<1>1. now \in Nat /\ touchoff_start \in Nat /\ Minus(now, now) = 0
  BY DEF TypeOK, ClocksOK, Time, Minus
<1> USE DEF ReliefTimer, TouchTimer
<1>2. CASE servoSkip
  BY <1>2 DEF servoSkip, cutVars, clockVars, breakVars, Servoing
<1>3. ASSUME NEW w \in Windows, NEW vpi \in Sign, NEW db \in BOOLEAN,
             \/ servoRelief(w, vpi, db) \/ servoTouchOff(w, vpi, db)
             \/ servoCut(w, vpi, db)
      PROVE  (ReliefTimer /\ TouchTimer)'
  <2>1. /\ UNCHANGED <<now, relief_until, sev, sev_clear_after>>
        /\ pc = "servo" /\ pc' = "report"
    BY <1>3 DEF servoRelief, servoTouchOff, servoCut, servoRuns, breakVars
  <2>2. CASE servoRelief(w, vpi, db)
    BY <2>1, <2>2 DEF servoRelief, cutVars
  <2>3. CASE servoTouchOff(w, vpi, db)
    <3>1. /\ state' \in {"Fault", "TouchOff", "Cutting"} /\ touchoff_start' = touchoff_start
          /\ state' = "TouchOff" => Minus(now, touchoff_start) <= TouchOffBudget
      BY <1>1, <2>3 DEF servoTouchOff, enterFault, Minus
    <3> QED BY <2>1, <3>1
  <2>4. CASE servoCut(w, vpi, db)
    <3>1. /\ state' \in {"StallFault", "TouchOff", "Cutting", "Hold"}
          /\ state' = "TouchOff" => touchoff_start' = now
      BY <2>4 DEF servoCut
    <3> QED BY <1>1, <2>1, <3>1
  <2> QED BY <1>3, <2>2, <2>3, <2>4
<1> HIDE DEF ReliefTimer, TouchTimer
<1> QED BY <1>2, <1>3 DEF Servo

\* Every other step: M3 and M5 write states that none of these timers is for.
LEMMA TimerRest ==
  ASSUME TypeOK, ReliefTimer, TouchTimer,
         \/ \E d \in TickGaps : tickBegin(d)
         \/ Drain \/ Gate \/ Arm \/ startCut \/ enterTouchOff \/ relief \/ publish
         \/ GCode \/ UNCHANGED vars
  PROVE  (ReliefTimer /\ TouchTimer)'
<1>1. /\ now \in Nat /\ relief_until \in Nat /\ sev_clear_after \in Nat /\ sev \in Nat
  BY DEF TypeOK, ClocksOK, Time, ModesOK
<1> USE DEF ReliefTimer, TouchTimer
<1>2. CASE (\E d \in TickGaps : tickBegin(d)) \/ Drain
  BY <1>2 DEF tickBegin, Drain, drainDone, drainFault, drainOther, drainBreak
<1>3. CASE Gate \/ Arm \/ startCut \/ enterTouchOff
  BY <1>3 DEF Gate, gate, Arm, arm, startCut, enterTouchOff
<1>4. CASE relief
  BY <1>1, <1>4 DEF relief, reliefOver
<1>5. CASE publish
  BY <1>5 DEF publish, cutVars, clockVars, breakVars
<1>6. CASE GCode
  BY <1>6 DEF GCode, requestStop, notifyCutComplete, StopSend, StopWrite,
     clearFault, requestCut, testCut, writeCut, clockVars, breakVars, cutVars
<1>7. CASE UNCHANGED vars
  BY <1>7 DEF vars
<1> HIDE DEF ReliefTimer, TouchTimer
<1> QED BY <1>2, <1>3, <1>4, <1>5, <1>6, <1>7

\* The servo task's timers are kept by every behaviour.
LEMMA ServoTimerHolds == Spec => [](ReliefTimer /\ TouchTimer)
<1>1. Init => ReliefTimer /\ TouchTimer
  BY DEF Init, ReliefTimer, TouchTimer
<1>2. TypeOK /\ ReliefTimer /\ TouchTimer /\ [Next]_vars => (ReliefTimer /\ TouchTimer)'
  BY TimerServo, TimerRest DEF Next, Tick
<1> QED BY <1>1, <1>2, TypeCorrect, PTL DEF Spec

\* On one thread or two, for every gap between ticks: when a tick is over, an
\* expired relief, severity latch or touch-off has been acted upon.
THEOREM ServoTimersAreServed == Spec => []ServoTimersServed
<1>1. ReliefTimer /\ TouchTimer => ServoTimersServed
  BY DEF ReliefTimer, TouchTimer, ServoTimersServed
<1> QED BY <1>1, ServoTimerHolds, PTL

-----------------------------------------------------------------------------
(* Serialised calls and ticks that come in time: nor is the ack wait. *)

\* Ticks come more often than an ACK may take (1 ms against ack_ms = 200), and
\* the deadline of the last arming lies before the wrap of the clock.
TimelyTicks ==
  0 < AckTime /\ MaxNow + AckTime < Word /\ \A d \in TickGaps : d < AckTime

\* The tick after M3 clears arm_fresh without a look at the deadline, which it
\* cannot have passed; every later one has.
ArmTimer ==
  /\ state = "Armed" /\ arm_fresh =>
       IF pc \in {"drain", "gate", "arm"} THEN now < arm_deadline
       ELSE arm_deadline = now + AckTime
  /\ pc \in {"relief", "servo", "report", "wait"} /\ state = "Armed" /\ ~arm_fresh =>
       now < arm_deadline

TimerInv == now <= MaxNow /\ ArmTimer /\ ReliefTimer /\ TouchTimer

\* The ack wait is kept: M3 sets its deadline from the time of the last tick,
\* and no tick comes between that and arm_fresh.
LEMMA ArmTimerStep ==
  ASSUME Serialised, TimelyTicks, TypeOK, now <= MaxNow, ArmTimer, [Next]_vars
  PROVE  now' <= MaxNow /\ ArmTimer'
<1>1. /\ now \in Nat /\ arm_deadline \in Nat
      /\ Plus(now, AckTime) = now + AckTime /\ 0 < AckTime
  BY DEF TypeOK, ClocksOK, Time, TimelyTicks, Plus
<1> USE DEF ArmTimer
<1>2. CASE StopSend \/ StopWrite \/ clearFault
  BY <1>2 DEF StopSend, StopWrite, clearFault, clockVars
<1>3. ASSUME NEW s \in SWords, requestCut(s) PROVE now' <= MaxNow /\ ArmTimer'
  BY <1>1, <1>3 DEF requestCut
<1>4. ~writeCut /\ \A s \in SWords : ~testCut(s)
  BY DEF writeCut, testCut
<1>5. ASSUME NEW d \in TickGaps, tickBegin(d) PROVE now' <= MaxNow /\ ArmTimer'
  <2>1. d \in Nat /\ now' = now + d /\ now' <= MaxNow /\ d < AckTime
    BY <1>1, <1>5 DEF tickBegin, Plus, TimelyTicks
  <2> QED BY <1>1, <1>5, <2>1 DEF tickBegin, cutVars, clockVars
<1>6. CASE Drain
  BY <1>6 DEF Drain, drainDone, drainFault, drainOther, drainBreak, breakReaction,
     enterFault, cutVars, clockVars
<1>7. CASE Gate
  BY <1>7 DEF Gate, gate, enterFault, cutVars
<1>8. ASSUME NEW ack \in {0, 1}, arm(ack) PROVE now' <= MaxNow /\ ArmTimer'
  BY <1>1, <1>8 DEF arm, enterFault, cutVars, clockVars
<1>9. CASE startCut \/ enterTouchOff
  BY <1>9 DEF startCut, enterTouchOff, clockVars
<1>10. CASE relief
  BY <1>1, <1>10 DEF relief, reliefOver
<1>11. CASE publish \/ servoSkip
  BY <1>11 DEF publish, servoSkip, cutVars, clockVars
<1>12. ASSUME NEW w \in Windows, NEW vpi \in Sign, NEW db \in BOOLEAN,
              \/ servoRelief(w, vpi, db) \/ servoTouchOff(w, vpi, db)
              \/ servoCut(w, vpi, db)
       PROVE  now' <= MaxNow /\ ArmTimer'
  <2>1. UNCHANGED now
    BY <1>12 DEF servoRelief, servoTouchOff, servoCut, servoRuns
  <2>2. state' # "Armed"
    BY <1>12 DEF servoRelief, servoTouchOff, servoCut, enterFault, cutVars
  <2> QED BY <2>1, <2>2
<1>13. CASE UNCHANGED vars
  BY <1>13 DEF vars
<1> HIDE DEF ArmTimer
<1> QED
  BY <1>2, <1>3, <1>4, <1>5, <1>6, <1>7, <1>8, <1>9, <1>10, <1>11, <1>12, <1>13
     DEF Next, Tick, Servo, Arm, GCode, requestStop, notifyCutComplete

\* All timers are kept.
LEMMA TimerHolds ==
  ASSUME Serialised, TimelyTicks
  PROVE  Spec => []TimerInv
<1>1. Init => now <= MaxNow /\ ArmTimer
  BY DEF Init, ArmTimer
<1>2. TypeOK /\ (now <= MaxNow /\ ArmTimer) /\ [Next]_vars => (now <= MaxNow /\ ArmTimer)'
  BY ArmTimerStep
<1>3. (now <= MaxNow /\ ArmTimer) /\ (ReliefTimer /\ TouchTimer) => TimerInv
  BY DEF TimerInv
<1> QED BY <1>1, <1>2, <1>3, ServoTimerHolds, TypeCorrect, PTL DEF Spec

\* With calls between ticks and timely ticks: when a tick is over, an expired ack
\* wait, relief, severity latch or touch-off has been acted upon.
THEOREM TimersAreServed ==
  ASSUME Serialised, TimelyTicks
  PROVE  Spec => []NoOverdueTimer
<1>1. TimerInv => NoOverdueTimer
  BY DEF TimerInv, ArmTimer, ReliefTimer, TouchTimer, NoOverdueTimer, ServoTimersServed
<1> QED BY <1>1, TimerHolds, PTL

-----------------------------------------------------------------------------
(* The dielectric. *)

\* A cut that was published as running is not in touch-off before the next
\* gate, so the gate faults it; what a tick without dielectric then has is not
\* started either.
DielInv ==
  /\ pc \in {"start", "started"} => loc.diel
  /\ /\ pc \in {"wait", "drain", "gate"}
     /\ report.state \in {"Cutting", "Hold", "BreakRelief"}
     => state # "TouchOff"
  /\ /\ DielRequired /\ pc \in {"arm", "start", "started", "relief", "servo", "report"}
     /\ ~loc.diel /\ report.state \in {"Cutting", "Hold", "BreakRelief"}
     => state \notin Servoing

\* Every step keeps the dielectric guarded.
LEMMA DielStep == TypeOK /\ DielInv /\ [Next]_vars => DielInv'
<1> SUFFICES ASSUME TypeOK, DielInv, [Next]_vars PROVE DielInv'
  OBVIOUS
<1> USE DEF DielInv, Servoing, cutVars
<1>1. CASE GCode
  BY <1>1 DEF GCode, requestStop, notifyCutComplete, StopSend, StopWrite,
     clearFault, requestCut, testCut, writeCut
<1>2. CASE \E d \in TickGaps : tickBegin(d)
  BY <1>2 DEF tickBegin
<1>3. CASE Drain
  BY <1>3 DEF Drain, drainDone, drainFault, drainOther, drainBreak, breakReaction,
     enterFault
<1>4. ASSUME NEW fresh \in BOOLEAN, NEW faulty \in BOOLEAN,
             NEW connected \in BOOLEAN, NEW proto \in BOOLEAN,
             NEW diel \in BOOLEAN, gate(fresh, faulty, connected, proto, diel)
      PROVE  DielInv'
  <2>1. pc = "gate" /\ pc' = "arm" /\ UNCHANGED report /\ loc'.diel = (DielRequired => diel)
    BY <1>4 DEF gate
  <2>2. state' = "Fault" \/ (state' = state /\ ~dielLost(diel))
    BY <1>4 DEF gate, enterFault
  <2> QED BY <2>1, <2>2 DEF dielLost
<1>5. ASSUME NEW ack \in {0, 1}, arm(ack) PROVE DielInv'
  <2>1. /\ pc = "arm" /\ UNCHANGED report /\ loc'.diel = loc.diel
        /\ pc' \in {"relief", "start"}
    BY <1>5 DEF arm, TypeOK, LocalsOK
  <2>2. state' \in {state, "Fault"} /\ (pc' = "start" => loc.diel)
    BY <1>5 DEF arm, enterFault
  <2> QED BY <2>1, <2>2
<1>6. CASE startCut \/ enterTouchOff
  BY <1>6 DEF startCut, enterTouchOff
<1>7. CASE relief \/ publish \/ servoSkip
  BY <1>7 DEF relief, reliefOver, publish, servoSkip
<1>8. ASSUME NEW w \in Windows, NEW vpi \in Sign, NEW db \in BOOLEAN,
             \/ servoRelief(w, vpi, db) \/ servoTouchOff(w, vpi, db)
             \/ servoCut(w, vpi, db)
      PROVE  DielInv'
  <2>1. /\ state \in Servoing /\ pc = "servo" /\ pc' = "report"
        /\ UNCHANGED report /\ loc'.diel = loc.diel
    BY <1>8 DEF servoRelief, servoTouchOff, servoCut, servoRuns, TypeOK, LocalsOK
  <2> QED BY <2>1
<1>9. CASE UNCHANGED vars
  BY <1>9 DEF vars
<1> HIDE DEF DielInv, Servoing, cutVars
<1> QED
  BY <1>1, <1>2, <1>3, <1>4, <1>5, <1>6, <1>7, <1>8, <1>9
     DEF Next, Tick, Gate, Arm, Servo

\* On one thread or two: a cut is not published as running for a second tick
\* without dielectric.
THEOREM DielectricIsGuarded == Spec => DielectricGuards
<1>1. Init => DielInv
  BY DEF Init, DielInv
<1>2. DielInv =>
        (/\ DielRequired /\ pc = "report" /\ ~loc.diel
         /\ report.state \in {"Cutting", "Hold", "BreakRelief"}
         => state \notin {"Cutting", "Hold", "BreakRelief"})
  BY DEF DielInv, Servoing
<1> QED BY <1>1, <1>2, DielStep, TypeCorrect, PTL DEF Spec, DielectricGuards
=============================================================================
