------------------------- MODULE EdmControllerProofs -------------------------
(***************************************************************************)
(* Theorems about the cut state machine, for all timers, S words, windows, *)
(* severities and tick gaps.                                               *)
(***************************************************************************)
EXTENDS EdmController, TLAPS

USE ControllerAssumption, ModeTableAssumption, GapServoAssumption

-----------------------------------------------------------------------------
(* Facts about the operators. *)

\* uint32_t addition and subtraction stay in range.
LEMMA ClockType ==
  ASSUME NEW t \in Time, NEW d \in Time
  PROVE  Plus(t, d) \in Time /\ Minus(t, d) \in Time
BY DEF Plus, Minus, Time

\* The mode table only yields modes.
LEMMA ModeType ==
  /\ \A s \in Nat : modeForSword(s) \in EdmMode
  /\ \A m \in EdmMode : lowerEnergy(m) \in EdmMode
BY DEF modeForSword, lowerEnergy, EdmMode

\* The frame built from a mode and an S word is well formed: clamping to the
\* mode's band never leaves the naturals.
LEMMA BuildType ==
  ASSUME NEW m \in EdmMode, NEW s \in Nat
  PROVE  build(m, s) \in Bounds
<1>1. Clamp(s, BandLo(m), BandHi(m)) \in Nat
  BY DEF Clamp, BandLo, BandHi
<1>2. params(m) \in {"Ignite", "Finish", "Rough"}
  BY DEF params
<1> QED BY <1>1, <1>2 DEF build, Bounds

\* The short counter saturates at its limit.
LEMMA ConsecType ==
  ASSUME NEW c \in 0..ShortLimit, NEW b \in BOOLEAN, NEW w \in Window
  PROVE  ConsecShort(c, b, w) \in 0..ShortLimit
BY DEF ConsecShort, Window

-----------------------------------------------------------------------------
(* Type correctness.  The flags, clocks, counters, modes and locals are    *)
(* separate groups: no step needs more than its own group and the lemmas.  *)

\* The flags stay Boolean.
LEMMA FlagsType == TypeOK /\ [Next]_vars => FlagsOK'
<1> SUFFICES ASSUME TypeOK, [Next]_vars PROVE FlagsOK'
  OBVIOUS
<1> USE DEF FlagsOK, TypeOK, cutVars
<1>1. CASE GCode
  BY <1>1 DEF GCode, requestStop, notifyCutComplete, StopSend, StopWrite,
     clearFault, requestCut, testCut, writeCut
<1>2. CASE (\E d \in TickGaps : tickBegin(d)) \/ Drain
  BY <1>2 DEF tickBegin, Drain, drainDone, drainFault, drainOther, drainBreak,
     enterFault
<1>3. ASSUME NEW fresh \in BOOLEAN, NEW faulty \in BOOLEAN,
             NEW connected \in BOOLEAN, NEW proto \in BOOLEAN,
             NEW diel \in BOOLEAN, gate(fresh, faulty, connected, proto, diel)
      PROVE  FlagsOK'
  <2>1. have_window' \in BOOLEAN /\ arm_fresh' \in BOOLEAN
    BY <1>3 DEF gate
  <2>2. psu_fault' \in BOOLEAN
    BY <1>3 DEF gate
  <2>3. cutting' \in BOOLEAN
    BY <1>3 DEF gate, enterFault
  <2> QED BY <2>1, <2>2, <2>3
<1>4. CASE Arm \/ startCut \/ enterTouchOff
  BY <1>4 DEF Arm, arm, startCut, enterTouchOff, enterFault
<1>5. CASE relief \/ publish \/ servoSkip
  BY <1>5 DEF relief, publish, servoSkip
<1>6. ASSUME NEW w \in Windows, NEW vpi \in Sign, NEW db \in BOOLEAN,
             \/ servoRelief(w, vpi, db) \/ servoTouchOff(w, vpi, db)
             \/ servoCut(w, vpi, db)
      PROVE  FlagsOK'
  <2>1. have_window' \in BOOLEAN /\ arm_fresh' \in BOOLEAN /\ psu_fault' \in BOOLEAN
    BY <1>6 DEF servoRelief, servoTouchOff, servoCut, servoRuns
  <2>2. cutting' \in BOOLEAN
    BY <1>6 DEF servoRelief, servoTouchOff, servoCut, enterFault
  <2> QED BY <2>1, <2>2
<1>7. CASE UNCHANGED vars
  BY <1>7 DEF vars
<1> HIDE DEF FlagsOK, TypeOK, cutVars
<1> QED
  BY <1>1, <1>2, <1>3, <1>4, <1>5, <1>6, <1>7 DEF Next, Tick, Gate, Servo

\* Clock fields only ever hold the clock, a deadline within it, or what they held.
LEMMA ClocksType == TypeOK /\ [Next]_vars => ClocksOK'
<1> SUFFICES ASSUME TypeOK, [Next]_vars PROVE ClocksOK'
  OBVIOUS
<1>1. now \in Time /\ AckTime \in Time /\ ReliefTime \in Time /\ ClearTime \in Time
  BY DEF TypeOK, ClocksOK, Time
<1>2. /\ Plus(now, AckTime) \in Time /\ Plus(now, ReliefTime) \in Time
      /\ Plus(now, ClearTime) \in Time
      /\ \A d \in TickGaps : Plus(now, d) \in Time
  <2>1. \A d \in TickGaps : d \in Time
    BY DEF Time
  <2> QED BY <1>1, <2>1, ClockType
<1> USE DEF TypeOK, ClocksOK, clockVars, breakVars
<1>3. CASE GCode
  BY <1>2, <1>3 DEF GCode, requestStop, notifyCutComplete, StopSend, StopWrite,
     clearFault, requestCut, testCut, writeCut
<1>4. CASE \E d \in TickGaps : tickBegin(d)
  BY <1>2, <1>4 DEF tickBegin
<1>5. CASE Drain
  BY <1>2, <1>5 DEF Drain, drainDone, drainFault, drainOther, drainBreak,
     breakReaction
<1>6. CASE Gate
  BY <1>6 DEF Gate, gate
<1>7. CASE Arm \/ startCut \/ enterTouchOff
  BY <1>7 DEF Arm, arm, startCut, enterTouchOff
<1>8. CASE relief \/ publish \/ servoSkip
  BY <1>8 DEF relief, publish, servoSkip
<1>9. ASSUME NEW w \in Windows, NEW vpi \in Sign, NEW db \in BOOLEAN,
             \/ servoRelief(w, vpi, db) \/ servoTouchOff(w, vpi, db)
             \/ servoCut(w, vpi, db)
      PROVE  ClocksOK'
  <2>1. CASE servoRelief(w, vpi, db) \/ servoTouchOff(w, vpi, db)
    BY <2>1 DEF servoRelief, servoTouchOff, servoRuns
  <2>2. CASE servoCut(w, vpi, db)
    BY <2>2 DEF servoCut, servoRuns
  <2> QED BY <1>9, <2>1, <2>2
<1>10. CASE UNCHANGED vars
  BY <1>10 DEF vars
<1> HIDE DEF TypeOK, ClocksOK, clockVars, breakVars
<1> QED
  BY <1>3, <1>4, <1>5, <1>6, <1>7, <1>8, <1>9, <1>10 DEF Next, Tick, Servo

\* The counters stay within their limits.  The contact count needs that a
\* touch-off which goes on is below its limit.
LEMMA CountersType == TypeOK /\ ContactPending /\ [Next]_vars => CountersOK'
<1> SUFFICES ASSUME TypeOK, ContactPending, [Next]_vars PROVE CountersOK'
  OBVIOUS
<1> USE DEF TypeOK, CountersOK
<1>1. CASE GCode
  BY <1>1 DEF GCode, requestStop, notifyCutComplete, StopSend, StopWrite,
     clearFault, requestCut, testCut, writeCut
<1>2. CASE (\E d \in TickGaps : tickBegin(d)) \/ Drain
  BY <1>2 DEF tickBegin, Drain, drainDone, drainFault, drainOther, drainBreak
<1>3. CASE Gate
  BY <1>3 DEF Gate, gate
<1>4. CASE Arm \/ startCut \/ enterTouchOff
  BY <1>4 DEF Arm, arm, startCut, enterTouchOff
<1>5. CASE relief \/ publish \/ servoSkip
  BY <1>5 DEF relief, publish, servoSkip
<1>6. ASSUME NEW w \in Windows, NEW vpi \in Sign, NEW db \in BOOLEAN,
             \/ servoRelief(w, vpi, db) \/ servoTouchOff(w, vpi, db)
             \/ servoCut(w, vpi, db)
      PROVE  CountersOK'
  <2>1. w \in Window /\ valid(w) \in BOOLEAN
    BY DEF valid, LocalsOK, Window
  <2>2. consec' \in 0..ShortLimit /\ budget' \in 0..DrainBudget
    BY <1>6, <2>1, ConsecType DEF servoRelief, servoTouchOff, servoCut, servoRuns
  <2>3. CASE servoRelief(w, vpi, db)
    BY <2>2, <2>3 DEF servoRelief
  <2>4. CASE servoTouchOff(w, vpi, db)
    BY <2>2, <2>4 DEF servoTouchOff, ContactPending
  <2>5. CASE servoCut(w, vpi, db)
    <3>1. (lost_contig + 1) % Byte \in 0..(Byte - 1)
      OBVIOUS
    <3> QED BY <2>2, <2>5, <3>1 DEF servoCut
  <2> QED BY <1>6, <2>3, <2>4, <2>5
<1>7. CASE UNCHANGED vars
  BY <1>7 DEF vars
<1> HIDE DEF TypeOK, CountersOK
<1> QED
  BY <1>1, <1>2, <1>3, <1>4, <1>5, <1>6, <1>7 DEF Next, Tick, Servo

\* States, modes, reasons, severities and the frame sent stay in their sets.
LEMMA ModesType == TypeOK /\ [Next]_vars => ModesOK'
<1> SUFFICES ASSUME TypeOK, [Next]_vars PROVE ModesOK'
  OBVIOUS
<1>1. /\ mode \in EdmMode /\ s_word \in Nat /\ modeForSword(s_word) \in EdmMode
      /\ lowerEnergy(mode) \in EdmMode /\ "Ignite" \in EdmMode
  BY ModeType DEF TypeOK, ModesOK, EdmMode
<1>2. \A m \in EdmMode : build(m, s_word) \in Bounds
  BY <1>1, BuildType
<1> USE DEF TypeOK, ModesOK, cutVars, breakVars, EdmState, FaultReason
<1>3. CASE StopSend \/ StopWrite \/ clearFault
  BY <1>3 DEF StopSend, StopWrite, clearFault, EdmMode
<1>4. ASSUME NEW s \in SWords, requestCut(s) PROVE ModesOK'
  <2>1. s \in Nat /\ modeForSword(s) \in EdmMode
    BY ModeType
  <2>2. bounds' \in Bounds \cup {NoBounds}
    BY <1>4, <2>1, BuildType DEF requestCut, SendModeBounds
  <2> QED BY <1>4, <2>1, <2>2 DEF requestCut
<1>4t. ASSUME NEW s \in SWords, testCut(s) PROVE ModesOK'
  BY <1>4t DEF testCut
<1>4w. CASE writeCut
  BY <1>1, <1>2, <1>4w DEF writeCut, SendModeBounds
<1>5. CASE \E d \in TickGaps : tickBegin(d)
  BY <1>5 DEF tickBegin
<1>6. CASE drainDone \/ drainFault \/ drainOther
  BY <1>6 DEF drainDone, drainFault, drainOther, enterFault
<1>7. ASSUME NEW x \in Severities, drainBreak(x) PROVE ModesOK'
  <2>1. mode' \in EdmMode /\ bounds' \in Bounds \cup {NoBounds}
    BY <1>1, <1>2, <1>7 DEF drainBreak, breakReaction, changeMode, SendModeBounds
  <2>2. /\ sev' \in Severities \cup {0} /\ state' \in EdmState
        /\ feed_cap' \in {0, 30, 60, 100}
    BY <1>7 DEF drainBreak, breakReaction
  <2> QED BY <1>7, <2>1, <2>2 DEF drainBreak
<1>8. CASE Gate
  BY <1>8 DEF Gate, gate, enterFault, gateReason
<1>9. CASE Arm \/ startCut \/ enterTouchOff
  BY <1>9 DEF Arm, arm, startCut, enterTouchOff, enterFault
<1>10. CASE relief
  <2>1. mode' \in EdmMode /\ bounds' \in Bounds \cup {NoBounds}
    BY <1>1, <1>2, <1>10 DEF relief, changeMode, SendModeBounds
  <2> QED BY <1>10, <2>1 DEF relief
<1>11. CASE publish \/ servoSkip
  BY <1>11 DEF publish, servoSkip
<1>12. ASSUME NEW w \in Windows, NEW vpi \in Sign, NEW db \in BOOLEAN,
              \/ servoRelief(w, vpi, db) \/ servoTouchOff(w, vpi, db)
              \/ servoCut(w, vpi, db)
       PROVE  ModesOK'
  <2>1. state' \in EdmState /\ fault' \in FaultReason
    BY <1>12 DEF servoRelief, servoTouchOff, servoCut, enterFault
  <2> QED
    BY <1>12, <2>1 DEF servoRelief, servoTouchOff, servoCut, servoRuns
<1>13. CASE UNCHANGED vars
  BY <1>13 DEF vars
<1> HIDE DEF TypeOK, ModesOK, cutVars, breakVars, EdmState, FaultReason
<1> QED
  BY <1>3, <1>4, <1>4t, <1>4w, <1>5, <1>6, <1>7, <1>8, <1>9, <1>10, <1>11,
     <1>12, <1>13 DEF Next, Tick, Drain, Servo, GCode, requestStop, notifyCutComplete

\* The published report and the locals of a tick stay records of their type.
LEMMA LocalsType == TypeOK /\ [Next]_vars => LocalsOK'
<1> SUFFICES ASSUME TypeOK, [Next]_vars PROVE LocalsOK'
  OBVIOUS
<1> USE DEF TypeOK, LocalsOK
<1>1. CASE GCode
  BY <1>1 DEF GCode, requestStop, notifyCutComplete, StopSend, StopWrite,
     clearFault, requestCut, testCut, writeCut
<1>2. CASE (\E d \in TickGaps : tickBegin(d)) \/ Drain
  BY <1>2 DEF tickBegin, Drain, drainDone, drainFault, drainOther, drainBreak
<1>3. ASSUME NEW fresh \in BOOLEAN, NEW faulty \in BOOLEAN,
             NEW connected \in BOOLEAN, NEW proto \in BOOLEAN,
             NEW diel \in BOOLEAN, gate(fresh, faulty, connected, proto, diel)
      PROVE  LocalsOK'
  BY <1>3 DEF gate, NoLocals, Sign
<1>4. CASE Arm
  <2>1. /\ loc' = [loc EXCEPT !.connected = FALSE, !.proto = FALSE]
        /\ report' = report
    BY <1>4 DEF Arm, arm
  <2> QED BY <2>1
<1>5. CASE startCut \/ enterTouchOff \/ relief \/ servoSkip
  BY <1>5 DEF startCut, enterTouchOff, relief, servoSkip
<1>6. CASE publish
  BY <1>6 DEF publish, NoLocals, Sign, ModesOK
<1>7. ASSUME NEW w \in Windows, NEW vpi \in Sign, NEW db \in BOOLEAN,
             \/ servoRelief(w, vpi, db) \/ servoTouchOff(w, vpi, db)
             \/ servoCut(w, vpi, db)
      PROVE  LocalsOK'
  <2>1. w \in Window /\ valid(w) \in BOOLEAN
    BY DEF valid, Window
  <2>2. servoOut(w, vpi, db).v \in Sign
    BY <2>1 DEF servoOut, Ladder, Capped, Sign
  <2>3. servoRuns(w, vpi, db)
    BY <1>7 DEF servoRelief, servoTouchOff, servoCut
  <2> QED BY <2>2, <2>3 DEF servoRuns
<1>8. CASE UNCHANGED vars
  BY <1>8 DEF vars
<1> HIDE DEF TypeOK, LocalsOK
<1> QED
  BY <1>1, <1>2, <1>3, <1>4, <1>5, <1>6, <1>7, <1>8 DEF Next, Tick, Gate, Servo

\* A touch-off ends in the step that completes its contacts.
LEMMA ContactStep == TypeOK /\ ContactPending /\ [Next]_vars => ContactPending'
<1> SUFFICES ASSUME TypeOK, ContactPending, [Next]_vars PROVE ContactPending'
  OBVIOUS
<1> USE DEF ContactPending, cutVars
<1>1. CASE GCode
  BY <1>1 DEF GCode, requestStop, notifyCutComplete, StopSend, StopWrite,
     clearFault, requestCut, testCut, writeCut
<1>2. CASE (\E d \in TickGaps : tickBegin(d)) \/ Drain
  BY <1>2 DEF tickBegin, Drain, drainDone, drainFault, drainOther, drainBreak,
     breakReaction, enterFault
<1>3. CASE Gate
  BY <1>3 DEF Gate, gate, enterFault
<1>4. CASE Arm \/ startCut \/ enterTouchOff
  BY <1>4 DEF Arm, arm, startCut, enterTouchOff, enterFault
<1>5. CASE relief \/ publish \/ servoSkip
  BY <1>5 DEF relief, publish, servoSkip
<1>6. ASSUME NEW w \in Windows, NEW vpi \in Sign, NEW db \in BOOLEAN,
             \/ servoRelief(w, vpi, db) \/ servoTouchOff(w, vpi, db)
             \/ servoCut(w, vpi, db)
      PROVE  ContactPending'
  <2>1. CASE servoRelief(w, vpi, db)
    BY <2>1 DEF servoRelief
  <2>2. CASE servoTouchOff(w, vpi, db)
    BY <2>2 DEF servoTouchOff, enterFault, TypeOK, CountersOK
  <2>3. CASE servoCut(w, vpi, db)
    BY <2>3 DEF servoCut
  <2> QED BY <1>6, <2>1, <2>2, <2>3
<1>7. CASE UNCHANGED vars
  BY <1>7 DEF vars
<1> HIDE DEF ContactPending, cutVars
<1> QED
  BY <1>1, <1>2, <1>3, <1>4, <1>5, <1>6, <1>7 DEF Next, Tick, Servo

\* The power-up state is well typed.
LEMMA InitType == Init => TypeOK /\ ContactPending
<1> SUFFICES ASSUME Init PROVE TypeOK /\ ContactPending
  OBVIOUS
<1> USE DEF Init
<1>1. FlagsOK
  BY DEF FlagsOK
<1>2. ClocksOK /\ CountersOK
  BY DEF ClocksOK, CountersOK, Time
<1>3. ModesOK
  BY DEF ModesOK, EdmState, FaultReason, EdmMode
<1>4. LocalsOK
  BY DEF LocalsOK, NoLocals, EdmState, Sign
<1> QED BY <1>1, <1>2, <1>3, <1>4 DEF TypeOK, ContactPending

\* Every step keeps the types, the contact count with them.
LEMMA StepType ==
  TypeOK /\ ContactPending /\ [Next]_vars => (TypeOK /\ ContactPending)'
<1>1. FlagsOK' /\ ClocksOK' /\ CountersOK' /\ ModesOK' /\ LocalsOK' => TypeOK'
  BY DEF TypeOK
<1> QED
  BY <1>1, FlagsType, ClocksType, CountersType, ModesType, LocalsType, ContactStep

\* Type correctness of the controller on one thread or two: the clocks stay
\* uint32_t, the contact count of touch-off never passes its limit, and what
\* was sent and published is well formed.
THEOREM TypeCorrect == Spec => []TypeOK
BY InitType, StepType, PTL DEF Spec

-----------------------------------------------------------------------------
(* The generator is off in a fault, whatever the threads do. *)

\* On one thread or two, every way into Fault and StallFault stops the
\* generator, and nothing starts it again before the fault is left.
THEOREM FaultStopsSpark == Spec => []SparkOffWhenFaulted
<1> USE DEF FaultInv, SparkOffWhenFaulted, StartNotFaulted, Faulted
<1>1. Init => FaultInv
  BY DEF Init
<1>2. TypeOK /\ FaultInv /\ [Next]_vars => FaultInv'
  <2> SUFFICES ASSUME TypeOK, FaultInv, [Next]_vars PROVE FaultInv'
    OBVIOUS
  <2> USE DEF cutVars
  <2>1. CASE GCode
    BY <2>1 DEF GCode, requestStop, notifyCutComplete, StopSend, StopWrite,
       clearFault, requestCut, testCut, writeCut
  <2>2. CASE (\E d \in TickGaps : tickBegin(d)) \/ Drain
    BY <2>2 DEF tickBegin, Drain, drainDone, drainFault, drainOther, drainBreak,
       breakReaction, enterFault
  <2>3. CASE Gate
    BY <2>3 DEF Gate, gate, enterFault
  <2>4. CASE Arm
    BY <2>4 DEF Arm, arm, enterFault
  <2>5. CASE startCut \/ enterTouchOff
    BY <2>5 DEF startCut, enterTouchOff
  <2>6. CASE relief \/ publish \/ servoSkip
    BY <2>6 DEF relief, publish, servoSkip
  <2>7. ASSUME NEW w \in Windows, NEW vpi \in Sign, NEW db \in BOOLEAN,
               \/ servoRelief(w, vpi, db) \/ servoTouchOff(w, vpi, db)
               \/ servoCut(w, vpi, db)
        PROVE  FaultInv'
    <3>1. CASE servoRelief(w, vpi, db)
      BY <3>1 DEF servoRelief, servoRuns
    <3>2. CASE servoTouchOff(w, vpi, db)
      BY <3>2 DEF servoTouchOff, servoRuns, enterFault
    <3>3. CASE servoCut(w, vpi, db)
      BY <3>3 DEF servoCut, servoRuns
    <3> QED BY <2>7, <3>1, <3>2, <3>3
  <2>8. CASE UNCHANGED vars
    BY <2>8 DEF vars
  <2> HIDE DEF FaultInv, SparkOffWhenFaulted, StartNotFaulted, Faulted, cutVars
  <2> QED
    BY <2>1, <2>2, <2>3, <2>4, <2>5, <2>6, <2>7, <2>8 DEF Next, Tick, Servo
<1>3. FaultInv => SparkOffWhenFaulted
  OBVIOUS
<1> QED BY <1>1, <1>2, <1>3, TypeCorrect, PTL DEF Spec

-----------------------------------------------------------------------------
(* Serialised calls: the generator is also off when idle. *)

\* The serialised invariant: what was decided in a tick still holds when it is
\* carried out, and a stop has stopped before the next tick.
LEMMA SerialStep ==
  ASSUME Serialised
  PROVE  TypeOK /\ SerialInv /\ [Next]_vars => SerialInv'
<1> SUFFICES ASSUME TypeOK, SerialInv, [Next]_vars PROVE SerialInv'
  OBVIOUS
<1> USE DEF SerialInv, SparkOffWhenFaulted, SparkOffWhenIdle, StartArmed,
            StopAlone, Faulted, cutVars, Callable
<1>1. CASE StopSend \/ StopWrite \/ clearFault
  BY <1>1 DEF StopSend, StopWrite, clearFault
<1>2. ASSUME NEW s \in SWords, requestCut(s) PROVE SerialInv'
  BY <1>2 DEF requestCut
<1>2w. ~writeCut /\ \A s \in SWords : ~testCut(s)
  BY DEF writeCut, testCut
<1>3. CASE \E d \in TickGaps : tickBegin(d)
  BY <1>3 DEF tickBegin
<1>4. CASE Drain
  BY <1>4 DEF Drain, drainDone, drainFault, drainOther, drainBreak,
     breakReaction, enterFault
<1>5. CASE Gate
  BY <1>5 DEF Gate, gate, enterFault
<1>6. CASE Arm
  BY <1>6 DEF Arm, arm, enterFault
<1>7. CASE startCut \/ enterTouchOff
  BY <1>7 DEF startCut, enterTouchOff
<1>8. CASE relief \/ publish \/ servoSkip
  BY <1>8 DEF relief, publish, servoSkip
<1>9. ASSUME NEW w \in Windows, NEW vpi \in Sign, NEW db \in BOOLEAN,
             \/ servoRelief(w, vpi, db) \/ servoTouchOff(w, vpi, db)
             \/ servoCut(w, vpi, db)
      PROVE  SerialInv'
  <2>1. CASE servoRelief(w, vpi, db)
    BY <2>1 DEF servoRelief, servoRuns
  <2>2. CASE servoTouchOff(w, vpi, db)
    BY <2>2 DEF servoTouchOff, servoRuns, enterFault
  <2>3. CASE servoCut(w, vpi, db)
    BY <2>3 DEF servoCut, servoRuns
  <2> QED BY <1>9, <2>1, <2>2, <2>3
<1>10. CASE UNCHANGED vars
  BY <1>10 DEF vars
<1> HIDE DEF SerialInv, SparkOffWhenFaulted, SparkOffWhenIdle, StartArmed,
             StopAlone, Faulted, cutVars, Callable
<1> QED
  BY <1>1, <1>2, <1>2w, <1>3, <1>4, <1>5, <1>6, <1>7, <1>8, <1>9, <1>10
     DEF Next, Tick, Servo, GCode, requestStop, notifyCutComplete

\* The serialised invariant holds throughout.
LEMMA SerialHolds ==
  ASSUME Serialised
  PROVE  Spec => []SerialInv
<1>1. Init => SerialInv
  BY DEF Init, SerialInv, SparkOffWhenFaulted, SparkOffWhenIdle, StartArmed,
     StopAlone, Faulted
<1> QED BY <1>1, SerialStep, TypeCorrect, PTL DEF Spec

\* When calls do not overlap a tick, M5, an abort and clearFault leave the
\* generator off until the next M3 has been armed.
THEOREM IdleStopsSpark ==
  ASSUME Serialised
  PROVE  Spec => []SparkOffWhenIdle
<1>1. SerialInv => SparkOffWhenIdle
  BY DEF SerialInv
<1> QED BY <1>1, SerialHolds, PTL

-----------------------------------------------------------------------------
(* Serialised calls: the generator works with the controller's bounds. *)

\* Whatever breaks, clears and M3s came in between, a cut that is armed or
\* servoed runs on the bounds of its own mode and S word.
THEOREM BoundsFollow ==
  ASSUME Serialised
  PROVE  Spec => []BoundsInSync
<1>1. Init => BoundsInSync
  BY DEF Init, BoundsInSync, Servoing
<1>2. TypeOK /\ SerialInv /\ BoundsInSync /\ [Next]_vars => BoundsInSync'
  <2> SUFFICES ASSUME TypeOK, SerialInv, BoundsInSync, [Next]_vars
               PROVE  BoundsInSync'
    OBVIOUS
  <2>0. StartArmed /\ StopAlone
    BY DEF SerialInv
  <2> USE DEF BoundsInSync, Servoing, cutVars
  <2>1. CASE StopSend \/ StopWrite \/ clearFault
    BY <2>1 DEF StopSend, StopWrite, clearFault
  <2>2. ASSUME NEW s \in SWords, requestCut(s) PROVE BoundsInSync'
    BY <2>2 DEF requestCut, SendModeBounds
  <2>2w. ~writeCut /\ \A s \in SWords : ~testCut(s)
    BY DEF writeCut, testCut
  <2>3. CASE \E d \in TickGaps : tickBegin(d)
    BY <2>3 DEF tickBegin
  <2>4. CASE drainDone \/ drainFault \/ drainOther
    BY <2>4 DEF drainDone, drainFault, drainOther, enterFault
  <2>5. ASSUME NEW x \in Severities, drainBreak(x) PROVE BoundsInSync'
    <3>1. UNCHANGED <<s_word, gpc>>
      BY <2>5 DEF drainBreak
    <3>2. \/ UNCHANGED <<state, mode, bounds>>
          \/ bounds' = build(mode', s_word)
      BY <2>5 DEF drainBreak, breakReaction, changeMode, SendModeBounds
    <3> QED BY <3>1, <3>2
  <2>6. CASE Gate
    BY <2>6 DEF Gate, gate, enterFault
  <2>7. CASE Arm
    BY <2>7 DEF Arm, arm, enterFault
  <2>8. CASE startCut \/ enterTouchOff
    BY <2>0, <2>8 DEF startCut, enterTouchOff, StartArmed
  <2>9. CASE relief
    <3>1. UNCHANGED <<s_word, gpc>>
      BY <2>9 DEF relief
    <3>2. \/ UNCHANGED <<mode, bounds>>
          \/ bounds' = build(mode', s_word)
      BY <2>9 DEF relief, changeMode, SendModeBounds
    <3>3. state' = state \/ state = "BreakRelief"
      BY <2>9 DEF relief, reliefOver
    <3> QED BY <3>1, <3>2, <3>3
  <2>10. CASE publish \/ servoSkip
    BY <2>10 DEF publish, servoSkip
  <2>11. ASSUME NEW w \in Windows, NEW vpi \in Sign, NEW db \in BOOLEAN,
                \/ servoRelief(w, vpi, db) \/ servoTouchOff(w, vpi, db)
                \/ servoCut(w, vpi, db)
         PROVE  BoundsInSync'
    <3>1. UNCHANGED <<mode, s_word, bounds, gpc>> /\ state \in Servoing
      BY <2>11 DEF servoRelief, servoTouchOff, servoCut, servoRuns
    <3> QED BY <3>1
  <2>12. CASE UNCHANGED vars
    BY <2>12 DEF vars
  <2> HIDE DEF BoundsInSync, Servoing, cutVars
  <2> QED
    BY <2>1, <2>2, <2>2w, <2>3, <2>4, <2>5, <2>6, <2>7, <2>8, <2>9, <2>10, <2>11,
       <2>12 DEF Next, Tick, Drain, Servo, GCode, requestStop, notifyCutComplete
<1> QED BY <1>1, <1>2, SerialHolds, TypeCorrect, PTL DEF Spec

-----------------------------------------------------------------------------
(* Serialised calls, a clock that does not wrap: a reduced mode is restored. *)

\* Below MaxNow a deadline is plain addition.
LEMMA PlainPlus ==
  ASSUME NoWrap, NEW t \in Nat, NEW d \in Nat, t <= MaxNow, d <= ClearTime
  PROVE  Plus(t, d) = t + d
BY DEF Plus, NoWrap

\* The steps of the g-code thread keep the timed invariant: M3 sets the mode
\* of its own S word, every other call ends the cut.
LEMMA TimedCalls ==
  ASSUME Serialised, TimersOrdered, NoWrap, TypeOK, TimedInv, GCode
  PROVE  TimedInv'
<1>1. now \in Nat /\ Plus(now, AckTime) = now + AckTime
  BY PlainPlus DEF TypeOK, ClocksOK, Time, TimedInv, TimersOrdered
<1> USE DEF TimedInv, ModeRestored, ReliefBeforeClear, ArmBound, ArmBeforeClear
<1>2. CASE StopSend \/ StopWrite \/ clearFault
  BY <1>2 DEF StopSend, StopWrite, clearFault, clockVars, breakVars
<1>3. ASSUME NEW s \in SWords, requestCut(s) PROVE TimedInv'
  BY <1>1, <1>3 DEF requestCut, breakVars
<1>4. ~writeCut /\ \A s \in SWords : ~testCut(s)
  BY DEF writeCut, testCut
<1> HIDE DEF TimedInv, ModeRestored, ReliefBeforeClear, ArmBound, ArmBeforeClear
<1> QED BY <1>2, <1>3, <1>4 DEF GCode, requestStop, notifyCutComplete

\* So do the events: a break moves the clear time past every deadline.
LEMMA TimedDrain ==
  ASSUME TimersOrdered, NoWrap, TypeOK, TimedInv, Drain
  PROVE  TimedInv'
<1>1. /\ now \in Nat /\ Plus(now, ClearTime) = now + ClearTime
      /\ Plus(now, ReliefTime) = now + ReliefTime
  BY PlainPlus DEF TypeOK, ClocksOK, Time, TimedInv, TimersOrdered
<1>2. /\ sev \in Nat /\ arm_deadline \in Nat /\ relief_until \in Nat
      /\ sev_clear_after \in Nat
  BY DEF TypeOK, ClocksOK, Time, ModesOK
<1> USE DEF TimedInv, ModeRestored, ReliefBeforeClear, ArmBound, ArmBeforeClear
<1>3. CASE drainDone \/ drainFault \/ drainOther
  BY <1>3 DEF drainDone, drainFault, drainOther, enterFault, cutVars, clockVars,
     breakVars
<1>4. ASSUME NEW x \in Severities, drainBreak(x) PROVE TimedInv'
  <2>1. /\ sev' >= sev /\ sev' > 0 /\ sev_clear_after' = now + ClearTime
        /\ pc = "drain"
        /\ UNCHANGED <<now, s_word, arm_deadline, arm_fresh, pc>>
    BY <1>1, <1>2, <1>4 DEF drainBreak
  <2>2. CASE sev' >= 3
    <3>1. state' = "BreakRelief" /\ relief_until' = now + ReliefTime
      BY <1>1, <1>4, <2>2 DEF drainBreak, breakReaction
    <3> QED BY <1>1, <2>1, <2>2, <3>1 DEF TimersOrdered
  <2>3. CASE ~(sev' >= 3)
    <3>1. sev' \in Nat /\ UNCHANGED <<state, relief_until>>
      BY <1>2, <1>4, <2>3 DEF drainBreak, breakReaction
    <3>2. state # "BreakRelief"
      BY <1>2, <2>1, <2>3, <3>1
    <3> QED BY <1>1, <1>2, <2>1, <3>1, <3>2 DEF TimersOrdered
  <2> QED BY <2>2, <2>3
<1> HIDE DEF TimedInv, ModeRestored, ReliefBeforeClear, ArmBound, ArmBeforeClear
<1> QED BY <1>3, <1>4 DEF Drain

\* An armed cut whose energy was reduced either starts while the severity is
\* latched or faults before it is cleared.
LEMMA TimedArm ==
  ASSUME TypeOK, SerialInv, TimedInv, Arm \/ startCut \/ enterTouchOff
  PROVE  TimedInv'
<1>1. StartArmed /\ now \in Nat /\ arm_deadline \in Nat /\ sev_clear_after \in Nat
  BY DEF SerialInv, TypeOK, ClocksOK, Time
<1> USE DEF TimedInv, ModeRestored, ReliefBeforeClear, ArmBound, ArmBeforeClear
<1>2. ASSUME NEW ack \in {0, 1}, arm(ack) PROVE TimedInv'
  BY <1>1, <1>2 DEF arm, enterFault, cutVars, clockVars, breakVars
<1>3. CASE startCut \/ enterTouchOff
  BY <1>1, <1>3 DEF startCut, enterTouchOff, StartArmed, clockVars, breakVars
<1> HIDE DEF TimedInv, ModeRestored, ReliefBeforeClear, ArmBound, ArmBeforeClear
<1> QED BY <1>2, <1>3 DEF Arm

\* A severity that is cleared has its mode restored: the relief that could
\* hide it is over, and the armed cut that could hide it is gone.
LEMMA TimedRelief ==
  ASSUME TypeOK, TimedInv, relief
  PROVE  TimedInv'
<1> DEFINE clears == sev > 0 /\ now >= sev_clear_after
<1>1. /\ now \in Nat /\ relief_until \in Nat /\ sev_clear_after \in Nat /\ sev \in Nat
      /\ pc = "relief" /\ pc' = "servo"
      /\ UNCHANGED <<now, s_word, arm_deadline, arm_fresh, relief_until,
                     sev_clear_after>>
      /\ state' = IF reliefOver THEN "TouchOff" ELSE state
      /\ sev' = IF clears THEN 0 ELSE sev
  BY DEF relief, TypeOK, ClocksOK, ModesOK, Time
<1>2. IF clears /\ cutActive(state') THEN mode' = modeForSword(s_word)
      ELSE mode' = mode
  BY DEF relief, changeMode
<1> USE DEF TimedInv, ModeRestored, ReliefBeforeClear, ArmBound, ArmBeforeClear,
            cutActive, reliefOver
<1>3. CASE state = "BreakRelief"
  BY <1>1, <1>2, <1>3
<1>4. CASE state = "Armed"
  BY <1>1, <1>2, <1>4
<1>5. CASE state \notin {"BreakRelief", "Armed"}
  BY <1>1, <1>2, <1>5
<1> QED BY <1>3, <1>4, <1>5

\* The remaining sections of a tick leave modes, severities and deadlines alone.
LEMMA TimedRest ==
  ASSUME TypeOK, TimedInv, Gate \/ Servo \/ publish \/ UNCHANGED vars
  PROVE  TimedInv'
<1> USE DEF TimedInv, ModeRestored, ReliefBeforeClear, ArmBound, ArmBeforeClear
<1>1. CASE Gate
  BY <1>1 DEF Gate, gate, enterFault, cutVars, breakVars
<1>2. CASE publish \/ servoSkip
  BY <1>2 DEF publish, servoSkip, cutVars, clockVars, breakVars
<1>3. ASSUME NEW w \in Windows, NEW vpi \in Sign, NEW db \in BOOLEAN,
             \/ servoRelief(w, vpi, db) \/ servoTouchOff(w, vpi, db)
             \/ servoCut(w, vpi, db)
      PROVE  TimedInv'
  <2>1. UNCHANGED <<mode, s_word, now, arm_deadline, arm_fresh, relief_until,
                    sev, sev_clear_after>>
    BY <1>3 DEF servoRelief, servoTouchOff, servoCut, servoRuns, breakVars
  <2>2. CASE servoRelief(w, vpi, db)
    BY <2>1, <2>2 DEF servoRelief, cutVars
  <2>3. CASE servoTouchOff(w, vpi, db)
    <3>1. state = "TouchOff" /\ state' \in {"Fault", "TouchOff", "Cutting"}
      BY <2>3 DEF servoTouchOff, enterFault
    <3> QED BY <2>1, <3>1
  <2>4. CASE servoCut(w, vpi, db)
    <3>1. /\ state \in {"Cutting", "Hold"}
          /\ state' \in {"StallFault", "TouchOff", "Cutting", "Hold"}
      BY <2>4 DEF servoCut
    <3> QED BY <2>1, <3>1
  <2> QED BY <1>3, <2>2, <2>3, <2>4
<1>4. CASE UNCHANGED vars
  BY <1>4 DEF vars
<1> HIDE DEF TimedInv, ModeRestored, ReliefBeforeClear, ArmBound, ArmBeforeClear
<1> QED BY <1>1, <1>2, <1>3, <1>4 DEF Servo

\* The comment at the clear of the severity, for every set of timers in their
\* order: with calls between ticks and no wrap of the clock, a cut never goes
\* on at reduced energy once no severity is latched.
THEOREM ModeIsRestored ==
  ASSUME Serialised, TimersOrdered, NoWrap
  PROVE  Spec => []ModeRestored
<1>1. Init => TimedInv
  BY DEF Init, TimedInv, ModeRestored, ReliefBeforeClear, ArmBound, ArmBeforeClear
<1>2. TypeOK /\ SerialInv /\ TimedInv /\ [Next]_vars => TimedInv'
  <2> SUFFICES ASSUME TypeOK, SerialInv, TimedInv, [Next]_vars PROVE TimedInv'
    OBVIOUS
  <2>1. ASSUME NEW d \in TickGaps, tickBegin(d) PROVE TimedInv'
    <3>1. now \in Nat /\ d \in Nat /\ now + d <= MaxNow /\ now' = now + d
      BY <2>1 DEF tickBegin, TypeOK, ClocksOK, Time, Plus, NoWrap
    <3>2. arm_deadline \in Nat
      BY DEF TypeOK, ClocksOK, Time
    <3> QED
      BY <2>1, <3>1, <3>2 DEF tickBegin, TimedInv, ModeRestored,
         ReliefBeforeClear, ArmBound, ArmBeforeClear, cutVars, clockVars, breakVars
  <2> QED
    BY <2>1, TimedCalls, TimedDrain, TimedArm, TimedRelief, TimedRest
       DEF Next, Tick
<1>3. TimedInv => ModeRestored
  BY DEF TimedInv
<1> QED BY <1>1, <1>2, <1>3, SerialHolds, TypeCorrect, PTL DEF Spec
=============================================================================
