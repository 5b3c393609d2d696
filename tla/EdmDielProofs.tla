----------------------------- MODULE EdmDielProofs -----------------------------
(***************************************************************************)
(* Theorems about the dielectric interlock: the composition is the         *)
(* controller with some dielectric, and the generator is never left        *)
(* sparking in a dry gap.                                                  *)
(***************************************************************************)
EXTENDS EdmDiel, EdmTickProofs

-----------------------------------------------------------------------------
(* Types, and the refinement of the controller. *)

\* The interpolations of the simulator stay between their ends.
LEMMA LerpRange ==
  ASSUME NEW a \in Nat, NEW b \in Nat
  PROVE  /\ lerp(a, b, 2) \in Nat /\ lerp(a, b, 3) \in Nat
         /\ lerp(a, 0, 3) <= a
BY DEF lerp

\* A step of the composition is one of the controller, or leaves it alone.
LEMMA SysStep == DielTypeOK /\ [SysNext]_sysVars => [Next]_vars
<1> SUFFICES ASSUME DielTypeOK, [SysNext]_sysVars PROVE [Next]_vars
  OBVIOUS
<1>1. CASE Calls
  BY <1>1 DEF Calls, Next, GCode
<1>2. CASE \E d \in TickGaps : WakeUp(d)
  BY <1>2 DEF WakeUp, Next, Tick
<1>3. CASE GateStep
  <2>1. dielOk \in BOOLEAN /\ TRUE \in BOOLEAN /\ FALSE \in BOOLEAN
    BY DEF dielOk, dielReadyToCut, DielTypeOK
  <2>2. PICK isNew \in BOOLEAN : gate(isNew, FALSE, TRUE, TRUE, dielOk)
    BY <1>3 DEF GateStep
  <2>3. Gate
    BY <2>1, <2>2, Zenon DEF Gate
  <2> QED BY <2>3 DEF Next, Tick
<1>4. CASE RestOfTick
  BY <1>4 DEF RestOfTick, Next, Tick, Arm
<1>5. CASE \/ DielTask \/ onStatus
           \/ \E f \in FlushLevels, on \in BOOLEAN : setDiel(f, on)
           \/ \E f, l : onStats(f, l)
  BY <1>5 DEF DielTask, onStatus, setDiel, onStats
<1>6. CASE UNCHANGED sysVars
  BY <1>6 DEF sysVars
<1> QED BY <1>1, <1>2, <1>3, <1>4, <1>5, <1>6 DEF SysNext

\* Every step keeps the types of the links.
LEMMA DielType == DielTypeOK /\ [SysNext]_sysVars => DielTypeOK'
<1> SUFFICES ASSUME DielTypeOK, [SysNext]_sysVars PROVE DielTypeOK'
  OBVIOUS
<1>0. /\ FlowMin \in Nat /\ FlowMin >= 1 /\ LevelMin \in 1..100 /\ AskedMax \in Nat
      /\ \A l \in 0..3 : FlowT[l] \in Nat
      /\ FlushLevels \subseteq 0..3 /\ \A d \in TickGaps : d \in Nat
  <2>1. /\ FlowMin \in Nat /\ FlowMin >= 1 /\ LevelMin \in 1..100 /\ AskedMax \in Nat
        /\ FlushLevels \subseteq 0..3
    BY EdmDielAssumption
  <2>2. \A l \in 0..3 : FlowT[l] \in Nat
    BY EdmDielAssumption
  <2>3. \A d \in TickGaps : d \in Nat
    BY ControllerAssumption
  <2> QED BY <2>1, <2>2, <2>3
<1> USE DEF DielTypeOK, dielVars
<1>1. CASE Calls \/ GateStep \/ RestOfTick
  <2>1. UNCHANGED <<dielVars, asked>> /\ (dry' = 0 \/ dry' = dry)
    <3> HIDE DEF DielTypeOK, dielVars
    <3> QED BY <1>1 DEF Calls, GateStep, RestOfTick
  <2>2. dry' \in Nat
    BY <2>1
  <2> QED BY <2>1, <2>2
<1>2. ASSUME NEW d \in TickGaps, WakeUp(d) PROVE DielTypeOK'
  <2>1. asked' \in 0..AskedMax /\ dry' \in Nat
    BY <1>0, <1>2 DEF WakeUp
  <2>2. due' \in BOOLEAN
    BY <1>2 DEF WakeUp
  <2> QED BY <1>2, <2>1, <2>2 DEF WakeUp
<1>3. CASE DielTask
  <2>1. 10 * FlowT[flush_level] \in Nat
    BY <1>0
  <2>2. lerp(flow, 10 * FlowT[flush_level], 2) \in Nat /\ lerp(flow, 0, 3) \in Nat
    BY <2>1, LerpRange
  <2>3. flow' \in Nat
    BY <1>3, <2>2 DEF DielTask
  <2> QED BY <1>3, <2>3 DEF DielTask
<1>4. ASSUME NEW f \in FlushLevels, NEW on \in BOOLEAN, setDiel(f, on)
      PROVE  DielTypeOK'
  BY <1>0, <1>4 DEF setDiel
<1>5. CASE onStatus
  BY <1>5 DEF onStatus
<1>6. ASSUME NEW f \in Nat, NEW l \in 0..100, onStats(f, l) PROVE DielTypeOK'
  BY <1>6 DEF onStats
<1>7. /\ 10 * FlowMin \in Nat /\ 10 * FlowMin - 10 \in Nat
      /\ LevelMin \in 0..100 /\ LevelMin - 1 \in 0..100
  BY <1>0
<1>8. CASE UNCHANGED sysVars
  BY <1>8 DEF sysVars
<1> HIDE DEF DielTypeOK, dielVars
<1> QED BY <1>1, <1>2, <1>3, <1>4, <1>5, <1>6, <1>7, <1>8 DEF SysNext

\* Type correctness of the controller and its dielectric links together.
THEOREM DielTypeCorrect == SysSpec => []SysTypeOK
<1> DEFINE Inv == TypeOK /\ ContactPending /\ DielTypeOK
<1>1. SysInit => Inv
  <2> SUFFICES ASSUME SysInit PROVE Inv
    OBVIOUS
  <2>1. AskedMax \in Nat /\ level \in 0..100
    BY EdmDielAssumption DEF SysInit
  <2>2. link \in Links /\ present \in BOOLEAN /\ got \in BOOLEAN
    BY DEF SysInit
  <2>3. flow \in Nat /\ flush_level \in 0..3 /\ dry \in Nat /\ asked \in 0..AskedMax
    BY <2>1 DEF SysInit
  <2>4. pump_wanted \in BOOLEAN /\ due \in BOOLEAN
    BY DEF SysInit
  <2>5. DielTypeOK
    BY <2>1, <2>2, <2>3, <2>4, Zenon DEF DielTypeOK
  <2> QED BY <2>5, InitType DEF SysInit
<1>2. Inv /\ [SysNext]_sysVars => Inv'
  BY SysStep, StepType, DielType
<1>3. Inv => SysTypeOK
  BY DEF SysTypeOK
<1> QED BY <1>1, <1>2, <1>3, PTL DEF SysSpec

\* The controller with either link is the controller with some dielectric:
\* everything proved from Spec holds of the composition.
THEOREM FlushedController == SysSpec => Spec
<1>1. SysInit => Init
  BY DEF SysInit
<1>2. SysTypeOK /\ [SysNext]_sysVars => [Next]_vars
  BY SysStep DEF SysTypeOK
<1> QED BY <1>1, <1>2, DielTypeCorrect, PTL DEF SysSpec, Spec

-----------------------------------------------------------------------------
(* The inductive invariant. *)

\* The simulator is ready and its task has run: the next wake-up finds it ready.
Pending == link = "sim" /\ ~due /\ dielOk

\* The wake-up and the gates of a tick agree on the dielectric unless the task
\* ran in between, which dries an armed cut and wets a servoed one.
SyncInv ==
  /\ pc \in {"drain", "gate"} /\ dielOk => dry = 0 \/ (Pending /\ state # "Armed")
  /\ pc = "arm" /\ state = "Armed" /\ loc.diel => dry = 0
  /\ pc \in {"start", "started"} => dry = 0
  /\ pc # "wait" => TickGaps # {}

\* The starts of the waits lie in the past.
WaitInv ==
  /\ touchoff_start <= now
  /\ state = "Armed" => arm_deadline <= now + AckTime

\* How long the gap of a cut may have been dry: a wait for the ACK from its M3,
\* a touch-off from its start, a running cut from the touch-off it came from.
DryFor ==
  \/ state = "Armed" /\ dry <= now + AckTime - arm_deadline
  \/ state = "TouchOff" /\ dry <= now - touchoff_start
  \/ /\ state \in {"Cutting", "Hold", "BreakRelief"}
     /\ pc \in {"wait", "report"} => dry <= TouchOffBudget
     /\ pc \in {"arm", "start", "started", "relief", "servo"} => dry = 0

DryInv ==
  cutting => /\ \E d \in TickGaps : dry <= LongestWait + d
             /\ Pending \/ DryFor

-----------------------------------------------------------------------------
(* Each part is kept by every step. *)

\* Readiness is a function of the link's stats and its presence.
LEMMA SameDiel ==
  ASSUME UNCHANGED <<present, flow, level, got>>
  PROVE  dielOk' <=> dielOk
BY DEF dielOk, dielReadyToCut

\* Less flow never makes a link ready.
LEMMA DriesUp ==
  ASSUME DielTypeOK, UNCHANGED <<present, level, got>>, flow' \in Nat, flow' <= flow,
         dielOk'
  PROVE  dielOk
<1>1. FlowMin \in Nat /\ flow \in Nat
  BY EdmDielAssumption DEF DielTypeOK
<1>2. (flow' + 5) \div 10 <= (flow + 5) \div 10
  BY <1>1
<1>3. (flow' + 5) \div 10 \in Int /\ (flow + 5) \div 10 \in Int
  BY <1>1
<1>4. (flow' + 5) \div 10 >= FlowMin => (flow + 5) \div 10 >= FlowMin
  <2>1. \A a, b, c \in Int : a <= b /\ a >= c => b >= c
    OBVIOUS
  <2>2. FlowMin \in Int
    BY <1>1
  <2> QED BY <1>2, <1>3, <2>1, <2>2, Zenon
<1>5. (flow' + 5) \div 10 >= FlowMin /\ got' /\ present' /\ level' >= LevelMin
  BY DEF dielOk, dielReadyToCut
<1> QED BY <1>4, <1>5 DEF dielOk, dielReadyToCut

\* Wake-up, task and gates.
LEMMA SyncStep ==
  ASSUME Serialised, DielRequired
  PROVE  SysTypeOK /\ SerialInv /\ SyncInv /\ [SysNext]_sysVars => SyncInv'
<1> SUFFICES ASSUME SysTypeOK, SerialInv, SyncInv, [SysNext]_sysVars PROVE SyncInv'
  OBVIOUS
<1>0. StopAlone /\ TypeOK /\ DielTypeOK
  BY DEF SerialInv, SysTypeOK
<1>1. CASE pc' = "wait"
  BY <1>1 DEF SyncInv
<1>2. CASE Calls
  <2>1. pc' = "wait"
    BY <1>0, <1>2 DEF Calls, requestStop, notifyCutComplete, StopSend, StopWrite,
       clearFault, requestCut, testCut, writeCut, Callable, StopAlone
  <2> QED BY <1>1, <2>1
<1>3. ASSUME NEW d \in TickGaps, WakeUp(d) PROVE SyncInv'
  <2>1. /\ pc' = "drain" /\ (dielOk => dry' = 0)
        /\ UNCHANGED <<present, flow, level, got>>
    BY <1>3 DEF WakeUp, tickBegin
  <2> QED BY <2>1, SameDiel DEF SyncInv
<1>4. ASSUME NEW isNew \in BOOLEAN, gate(isNew, FALSE, TRUE, TRUE, dielOk),
             UNCHANGED <<dielVars, dry, asked>>
      PROVE  SyncInv'
  <2>1. /\ pc = "gate" /\ pc' = "arm" /\ state' \in {state, "Fault"}
        /\ loc'.diel = (DielRequired => dielOk) /\ dry' = dry
    BY <1>4 DEF gate, enterFault, cutVars
  <2> QED BY <2>1 DEF SyncInv
<1>5. CASE RestOfTick
  <2>1. /\ UNCHANGED <<link, present, flow, level, got, due, dry>>
    BY <1>5 DEF RestOfTick, dielVars
  <2>2. (Pending' <=> Pending) /\ (dielOk' <=> dielOk)
    BY <2>1, SameDiel DEF Pending
  <2>3. CASE Drain
    <3>1. /\ pc = "drain" /\ pc' \in {"drain", "gate"}
          /\ state' = "Armed" => state = "Armed"
      BY <2>3 DEF Drain, drainDone, drainFault, drainOther, drainBreak,
         breakReaction, enterFault, cutVars
    <3> QED BY <2>1, <2>2, <3>1 DEF SyncInv
  <2>4. CASE arm(0)
    <3>1. /\ pc = "arm" /\ pc' \in {"relief", "start"}
          /\ pc' = "start" => state = "Armed" /\ loc.diel
      BY <2>4 DEF arm
    <3> QED BY <2>1, <3>1 DEF SyncInv
  <2>5. CASE startCut
    BY <2>1, <2>5 DEF startCut, SyncInv
  <2>6. CASE enterTouchOff \/ relief \/ Servo \/ publish
    <3>1. pc # "wait" /\ pc' \in {"relief", "servo", "report", "wait"}
      BY <2>6 DEF enterTouchOff, relief, publish, Servo, servoSkip,
         servoRelief, servoTouchOff, servoCut, servoRuns
    <3> QED BY <3>1 DEF SyncInv
  <2> QED BY <1>5, <2>3, <2>4, <2>5, <2>6 DEF RestOfTick
<1>6. CASE DielTask
  <2>1. /\ link = "sim" /\ due /\ ~due' /\ link' = link
        /\ UNCHANGED <<present, level, got, pc, state, loc, dry>>
    BY <1>6 DEF DielTask, vars
  <2>2. ASSUME pc \in {"drain", "gate"}, dielOk', dry # 0
        PROVE  Pending' /\ state # "Armed"
    <3>1. ~dielOk
      BY <2>1, <2>2 DEF SyncInv, Pending
    <3>2. state # "Armed"
      <4> SUFFICES ASSUME state = "Armed" PROVE FALSE
        OBVIOUS
      <4>1. flow' = lerp(flow, 0, 3)
        BY <1>6 DEF DielTask, isCutting, Servoing
      <4>2. flow' \in Nat /\ flow' <= flow
        BY <1>0, <4>1, LerpRange DEF DielTypeOK
      <4> QED BY <1>0, <2>1, <2>2, <3>1, <4>2, DriesUp
    <3> QED BY <2>1, <2>2, <3>2 DEF Pending
  <2> QED BY <2>1, <2>2 DEF SyncInv
<1>7. CASE \/ onStatus
           \/ \E f \in FlushLevels, on \in BOOLEAN : setDiel(f, on)
           \/ \E f, l : onStats(f, l)
  BY <1>1, <1>7 DEF onStatus, setDiel, onStats, vars
<1>8. CASE UNCHANGED sysVars
  <2>1. UNCHANGED <<link, present, flow, level, got, due, dry, pc, state, loc>>
    BY <1>8 DEF sysVars, dielVars, vars
  <2>2. (Pending' <=> Pending) /\ (dielOk' <=> dielOk)
    BY <2>1, SameDiel DEF Pending
  <2> QED BY <2>1, <2>2 DEF SyncInv
<1> QED
  BY <1>2, <1>3, <1>4, <1>5, <1>6, <1>7, <1>8 DEF SysNext, GateStep

\* The waits start now, or started before.
LEMMA WaitStep ==
  ASSUME Serialised, TimelyTicks
  PROVE  TypeOK /\ TimerInv /\ WaitInv /\ [Next]_vars => WaitInv'
<1> SUFFICES ASSUME TypeOK, TimerInv, WaitInv, [Next]_vars PROVE WaitInv'
  OBVIOUS
<1>0. /\ now \in Nat /\ touchoff_start \in Nat /\ arm_deadline \in Nat /\ AckTime \in Nat
      /\ now <= MaxNow /\ MaxNow \in Nat /\ Word \in Nat /\ MaxNow + AckTime < Word
      /\ \A d \in TickGaps : d \in Nat
  BY ControllerAssumption DEF TypeOK, ClocksOK, Time, TimerInv, TimelyTicks
<1> USE DEF WaitInv
<1>1. CASE GCode
  <2>1. Plus(now, AckTime) = now + AckTime
    BY <1>0 DEF Plus
  <2>2. CASE StopSend \/ StopWrite \/ clearFault
    BY <2>2 DEF StopSend, StopWrite, clearFault, clockVars
  <2>3. ASSUME NEW w \in SWords, requestCut(w) PROVE WaitInv'
    BY <1>0, <2>1, <2>3 DEF requestCut
  <2>4. ~writeCut /\ \A w \in SWords : ~testCut(w)
    BY DEF writeCut, testCut
  <2> QED BY <1>1, <2>2, <2>3, <2>4 DEF GCode, requestStop, notifyCutComplete
<1>2. ASSUME NEW d \in TickGaps, tickBegin(d) PROVE WaitInv'
  <2>1. now' = now + d /\ UNCHANGED <<state, touchoff_start, arm_deadline>>
    BY <1>0, <1>2 DEF tickBegin, Plus, cutVars, clockVars
  <2> QED BY <1>0, <2>1
<1>3. CASE /\ UNCHANGED <<now, arm_deadline>> /\ touchoff_start' \in {touchoff_start, now}
           /\ state' = "Armed" => state = "Armed"
  BY <1>0, <1>3
<1>4. CASE Drain
  BY <1>3, <1>4 DEF Drain, drainDone, drainFault, drainOther, drainBreak,
     breakReaction, enterFault, cutVars, clockVars
<1>5. CASE Gate
  BY <1>3, <1>5 DEF Gate, gate, enterFault, cutVars
<1>6. CASE Arm \/ startCut \/ enterTouchOff \/ relief \/ publish \/ servoSkip
  BY <1>3, <1>6 DEF Arm, arm, startCut, enterTouchOff, relief, publish, servoSkip,
     enterFault, cutVars, clockVars
<1>7. ASSUME NEW w \in Windows, NEW vpi \in Sign, NEW db \in BOOLEAN,
             \/ servoRelief(w, vpi, db) \/ servoTouchOff(w, vpi, db)
             \/ servoCut(w, vpi, db)
      PROVE  WaitInv'
  <2>1. UNCHANGED <<now, arm_deadline>>
    BY <1>7 DEF servoRelief, servoTouchOff, servoCut, servoRuns
  <2>2. touchoff_start' \in {touchoff_start, now} /\ (state' = "Armed" => state = "Armed")
    BY <1>7 DEF servoRelief, servoTouchOff, servoCut, enterFault, cutVars
  <2> QED BY <1>3, <2>1, <2>2
<1>8. CASE UNCHANGED vars
  BY <1>3, <1>8 DEF vars
<1> HIDE DEF WaitInv
<1> QED
  BY <1>1, <1>2, <1>4, <1>5, <1>6, <1>7, <1>8 DEF Next, Tick, Servo

-----------------------------------------------------------------------------
(* The dry gap. *)

\* The facts about numbers the steps below use.
LEMMA DryNumbers ==
  ASSUME SysTypeOK
  PROVE  /\ now \in Nat /\ dry \in Nat /\ touchoff_start \in Nat /\ arm_deadline \in Nat
         /\ AckTime \in Nat /\ TouchOffBudget \in Nat /\ LongestWait \in Nat
         /\ AckTime <= LongestWait /\ TouchOffBudget <= LongestWait
         /\ \A d \in TickGaps : d \in Nat
<1>1. AckTime \in Nat /\ TouchOffBudget \in Nat /\ \A d \in TickGaps : d \in Nat
  BY ControllerAssumption
<1>2. now \in Nat /\ touchoff_start \in Nat /\ arm_deadline \in Nat
  BY ControllerAssumption DEF SysTypeOK, TypeOK, ClocksOK, Time
<1> QED BY <1>1, <1>2 DEF SysTypeOK, DielTypeOK, LongestWait

\* Only a cut, or one that is armed, has the generator on.
LEMMA CutActive ==
  ASSUME TypeOK, SerialInv, cutting
  PROVE  state \in Servoing \cup {"Armed"} /\ gpc = "run"
<1>1. gpc = "run"
  BY DEF SerialInv, StopAlone, TypeOK, ModesOK
<1> QED
  BY <1>1 DEF SerialInv, SparkOffWhenFaulted, SparkOffWhenIdle, Faulted, Servoing,
     TypeOK, ModesOK, EdmState

\* The calls: M3 starts a wait of its own, every other call ends the cut.
LEMMA DryCalls ==
  ASSUME TimelyTicks, SysTypeOK, SerialInv, TimerInv, DryInv, Calls
  PROVE  DryInv'
<1> SUFFICES ASSUME cutting' PROVE DryInv'
  BY DEF DryInv
<1>0. TypeOK /\ StopAlone /\ SparkOffWhenFaulted
  BY DEF SysTypeOK, SerialInv
<1>1. ~(requestStop \/ StopWrite \/ notifyCutComplete \/ clearFault)
  BY <1>0 DEF requestStop, notifyCutComplete, StopSend, StopWrite, clearFault,
     StopAlone, SparkOffWhenFaulted
<1>2. PICK w \in SWords : requestCut(w) /\ dry' = 0
  BY <1>1 DEF Calls
<1>3. /\ cutting /\ state' = "Armed" /\ now' = now
      /\ arm_deadline' = Plus(now, AckTime)
  BY <1>2 DEF requestCut
<1>4. now \in Nat /\ AckTime \in Nat /\ Plus(now, AckTime) = now + AckTime
  BY ControllerAssumption, DryNumbers DEF TimerInv, TimelyTicks, Plus
<1>5. PICK d \in TickGaps : dry <= LongestWait + d
  BY <1>3 DEF DryInv
<1>6. dry' <= LongestWait + d
  BY <1>2, DryNumbers
<1>7. DryFor'
  BY <1>2, <1>3, <1>4 DEF DryFor
<1> QED BY <1>6, <1>7 DEF DryInv, LongestWait

\* The wake-up: a gap that is still dry has been so for one more period.
LEMMA DryWakes ==
  ASSUME TimelyTicks, SysTypeOK, SerialInv, TimerInv, WaitInv, DryInv,
         NEW d \in TickGaps, WakeUp(d)
  PROVE  DryInv'
<1> SUFFICES ASSUME cutting' PROVE DryInv'
  BY DEF DryInv
<1>1. /\ cutting /\ pc = "wait" /\ pc' = "drain" /\ now' = Plus(now, d)
      /\ UNCHANGED <<state, arm_deadline, touchoff_start>>
      /\ dry' = IF dielOk THEN 0 ELSE dry + d
      /\ now + d <= MaxNow
  BY DEF WakeUp, tickBegin, cutVars, clockVars
<1>2. now' = now + d /\ d \in Nat
  BY <1>1, DryNumbers, ControllerAssumption DEF Plus, TimelyTicks
<1>3. state \in {"Armed", "TouchOff", "Cutting", "Hold", "BreakRelief"}
  BY <1>1, CutActive DEF SysTypeOK, Servoing
<1>4. CASE dielOk
  <2>1. dry' = 0
    BY <1>1, <1>4
  <2>2. DryFor'
    BY <1>1, <1>2, <1>3, <2>1, DryNumbers DEF DryFor, WaitInv
  <2>3. dry' <= LongestWait + d
    BY <1>2, <2>1, DryNumbers
  <2> QED BY <2>2, <2>3 DEF DryInv, LongestWait
<1>5. CASE ~dielOk
  <2>1. dry' = dry + d /\ DryFor
    BY <1>1, <1>5 DEF DryInv, Pending
  <2>2. DryFor'
    BY <1>1, <1>2, <2>1, DryNumbers DEF DryFor
  <2>3. dry <= LongestWait
    <3>1. CASE state = "Armed"
      <4>1. now <= arm_deadline
        BY <1>1, <3>1, DryNumbers DEF TimerInv, ArmTimer
      <4> QED BY <2>1, <3>1, <4>1, DryNumbers DEF DryFor
    <3>2. CASE state = "TouchOff"
      <4>1. now - touchoff_start <= TouchOffBudget
        BY <1>1, <3>2, DryNumbers DEF TimerInv, TouchTimer, WaitInv, Minus
      <4> QED BY <2>1, <3>2, <4>1, DryNumbers DEF DryFor
    <3>3. CASE state \in {"Cutting", "Hold", "BreakRelief"}
      BY <1>1, <2>1, <3>3, DryNumbers DEF DryFor
    <3> QED BY <1>3, <3>1, <3>2, <3>3
  <2>4. dry' <= LongestWait + d
    BY <1>2, <2>1, <2>3, DryNumbers
  <2> QED BY <2>2, <2>4 DEF DryInv, LongestWait
<1> QED BY <1>4, <1>5

\* The gates end a running cut whose gap they find dry.
LEMMA DryGate ==
  ASSUME DielRequired, SysTypeOK, SerialInv, SyncInv, DryInv,
         NEW isNew \in BOOLEAN, gate(isNew, FALSE, TRUE, TRUE, dielOk),
         UNCHANGED <<dielVars, dry, asked>>
  PROVE  DryInv'
<1> SUFFICES ASSUME cutting' PROVE DryInv'
  BY DEF DryInv
<1>1. /\ pc = "gate" /\ pc' = "arm" /\ dry' = dry
      /\ UNCHANGED <<now, touchoff_start, arm_deadline>>
      /\ UNCHANGED <<link, due, present, flow, level, got>>
  BY DEF gate, dielVars
<1>2. UNCHANGED <<state, cutting>> /\ ~dielLost(dielOk)
  BY DEF gate, enterFault, cutVars
<1>3. Pending' <=> Pending
  BY <1>1, SameDiel DEF Pending
<1>4. dielOk => dry = 0 \/ Pending
  BY <1>1 DEF SyncInv
<1>5. state \in {"Cutting", "Hold", "BreakRelief"} => dielOk
  BY <1>2 DEF dielLost
<1>6. Pending \/ DryFor
  BY <1>2 DEF DryInv
<1>7. Pending' \/ DryFor'
  BY <1>1, <1>2, <1>3, <1>4, <1>5, <1>6 DEF DryFor
<1> QED BY <1>1, <1>2, <1>7 DEF DryInv, LongestWait

\* The events and the arming: a break takes an armed cut to the relief before
\* the gates, and an arming is only decided on a gap that is not dry.
LEMMA DryArms ==
  ASSUME SysTypeOK, SerialInv, WaitInv, SyncInv, DryInv,
         Drain \/ arm(0) \/ startCut \/ enterTouchOff,
         UNCHANGED <<dielVars, dry, asked>>
  PROVE  DryInv'
<1> SUFFICES ASSUME cutting' PROVE DryInv'
  BY DEF DryInv
<1>1. dry' = dry /\ UNCHANGED <<link, due, present, flow, level, got>>
  BY DEF dielVars
<1>2. Pending' <=> Pending
  BY <1>1, SameDiel DEF Pending
<1>3. UNCHANGED <<now, arm_deadline>>
  BY DEF Drain, drainDone, drainFault, drainOther, drainBreak, arm, startCut,
     enterTouchOff, clockVars
<1>4. CASE Drain
  <2>1. /\ pc = "drain" /\ pc' \in {"drain", "gate"} /\ cutting /\ UNCHANGED touchoff_start
        /\ state' \in {state, "BreakRelief"}
    BY <1>4 DEF Drain, drainDone, drainFault, drainOther, drainBreak, breakReaction,
       enterFault, cutVars, clockVars
  <2>2. Pending' \/ DryFor'
    BY <1>1, <1>2, <1>3, <2>1 DEF DryInv, DryFor
  <2> QED BY <1>1, <2>1, <2>2 DEF DryInv, LongestWait
<1>5. CASE arm(0)
  <2>1. /\ pc = "arm" /\ pc' \in {"relief", "start"} /\ UNCHANGED touchoff_start
        /\ state' = state /\ cutting
    BY <1>5 DEF arm, enterFault, cutVars, clockVars
  <2>2. Pending' \/ DryFor'
    BY <1>1, <1>2, <1>3, <2>1 DEF DryInv, DryFor
  <2> QED BY <1>1, <2>1, <2>2 DEF DryInv, LongestWait
<1>6. CASE startCut
  <2>1. /\ pc = "start" /\ pc' = "started" /\ state' = state /\ state = "Armed"
    BY <1>6 DEF startCut, SerialInv, StartArmed
  <2>2. dry = 0 /\ TickGaps # {}
    BY <2>1 DEF SyncInv
  <2>3. DryFor'
    BY <1>1, <1>3, <2>1, <2>2, DryNumbers DEF DryFor, WaitInv
  <2>4. \E d \in TickGaps : dry' <= LongestWait + d
    BY <1>1, <2>2, DryNumbers
  <2> QED BY <2>3, <2>4 DEF DryInv, LongestWait
<1>7. CASE enterTouchOff
  <2>1. /\ pc = "started" /\ state' = "TouchOff" /\ touchoff_start' = now /\ cutting
    BY <1>7 DEF enterTouchOff
  <2>2. dry = 0
    BY <2>1 DEF SyncInv
  <2>3. DryFor'
    BY <1>1, <1>3, <2>1, <2>2, DryNumbers DEF DryFor
  <2> QED BY <1>1, <2>1, <2>3 DEF DryInv, LongestWait
<1> QED BY <1>4, <1>5, <1>6, <1>7

\* The relief, the servo section and the report.
LEMMA DryRest ==
  ASSUME SysTypeOK, SerialInv, WaitInv, DryInv, relief \/ Servo \/ publish,
         UNCHANGED <<dielVars, dry, asked>>
  PROVE  DryInv'
<1> SUFFICES ASSUME cutting' PROVE DryInv'
  BY DEF DryInv
<1>1. dry' = dry /\ UNCHANGED <<link, due, present, flow, level, got>>
  BY DEF dielVars
<1>2. Pending' <=> Pending
  BY <1>1, SameDiel DEF Pending
<1>3. UNCHANGED <<now, arm_deadline>>
  <2>1. ASSUME NEW w \in Windows, NEW vpi \in Sign, NEW db \in BOOLEAN,
               \/ servoRelief(w, vpi, db) \/ servoTouchOff(w, vpi, db)
               \/ servoCut(w, vpi, db)
        PROVE  UNCHANGED <<now, arm_deadline>>
    BY <2>1 DEF servoRelief, servoTouchOff, servoCut, servoRuns
  <2>2. CASE relief \/ publish \/ servoSkip
    BY <2>2 DEF relief, publish, servoSkip, clockVars
  <2> QED BY <2>1, <2>2 DEF Servo
<1>4. cutting
  <2>1. ASSUME NEW w \in Windows, NEW vpi \in Sign, NEW db \in BOOLEAN,
               \/ servoRelief(w, vpi, db) \/ servoTouchOff(w, vpi, db)
               \/ servoCut(w, vpi, db)
        PROVE  cutting
    BY <2>1 DEF servoRelief, servoTouchOff, servoCut, enterFault, cutVars
  <2>2. CASE relief \/ publish \/ servoSkip
    BY <2>2 DEF relief, publish, servoSkip, cutVars
  <2> QED BY <2>1, <2>2 DEF Servo
<1>5. DryFor' => DryInv'
  BY <1>1, <1>4 DEF DryInv, LongestWait
<1> SUFFICES ASSUME DryFor PROVE DryFor'
  BY <1>1, <1>2, <1>4, <1>5 DEF DryInv, LongestWait
<1>6. CASE relief
  <2>1. /\ pc = "relief" /\ pc' = "servo"
        /\ \/ state' = state /\ touchoff_start' = touchoff_start
           \/ state = "BreakRelief" /\ state' = "TouchOff" /\ touchoff_start' = now
    BY <1>6 DEF relief, reliefOver
  <2> QED BY <1>1, <1>3, <2>1, DryNumbers DEF DryFor
<1>7. CASE publish
  BY <1>1, <1>3, <1>7 DEF publish, cutVars, clockVars, DryFor
<1>8. CASE servoSkip
  <2>1. state = "Armed" /\ state' = state
    BY <1>4, <1>8, CutActive DEF servoSkip, cutVars, SysTypeOK, Servoing
  <2> QED BY <1>1, <1>3, <2>1 DEF DryFor
<1>9. ASSUME NEW w \in Windows, NEW vpi \in Sign, NEW db \in BOOLEAN,
             \/ servoRelief(w, vpi, db) \/ servoTouchOff(w, vpi, db)
             \/ servoCut(w, vpi, db)
      PROVE  DryFor'
  <2>1. pc = "servo" /\ pc' = "report"
    BY <1>9 DEF servoRelief, servoTouchOff, servoCut, servoRuns
  <2>2. CASE servoRelief(w, vpi, db)
    BY <1>1, <1>3, <2>1, <2>2, DryNumbers DEF servoRelief, cutVars, DryFor
  <2>3. CASE servoTouchOff(w, vpi, db)
    <3>1. /\ state = "TouchOff" /\ state' \in {"TouchOff", "Cutting"}
          /\ touchoff_start' = touchoff_start
          /\ ~(Minus(now, touchoff_start) > TouchOffBudget)
      BY <2>3 DEF servoTouchOff, enterFault
    <3>2. now - touchoff_start <= TouchOffBudget
      BY <3>1, DryNumbers DEF Minus, WaitInv
    <3> QED BY <1>1, <1>3, <2>1, <3>1, <3>2, DryNumbers DEF DryFor
  <2>4. CASE servoCut(w, vpi, db)
    <3>1. /\ state \in {"Cutting", "Hold"} /\ state' \in {"TouchOff", "Cutting", "Hold"}
          /\ state' = "TouchOff" => touchoff_start' = now
      BY <2>4 DEF servoCut
    <3>2. dry = 0
      BY <2>1, <3>1 DEF DryFor
    <3> QED BY <1>1, <1>3, <2>1, <3>1, <3>2, DryNumbers DEF DryFor
  <2> QED BY <1>9, <2>2, <2>3, <2>4
<1> QED BY <1>6, <1>7, <1>8, <1>9 DEF Servo

\* Every step of the composition.
LEMMA DryStep ==
  ASSUME Serialised, DielRequired, TimelyTicks
  PROVE  /\ SysTypeOK /\ SerialInv /\ TimerInv /\ WaitInv /\ SyncInv /\ DryInv
         /\ [SysNext]_sysVars
         => DryInv'
<1> SUFFICES ASSUME SysTypeOK, SerialInv, TimerInv, WaitInv, SyncInv, DryInv,
                    [SysNext]_sysVars
             PROVE  DryInv'
  OBVIOUS
<1>1. CASE GateStep
  BY <1>1, DryGate DEF GateStep
<1>2. CASE RestOfTick
  BY <1>2, DryArms, DryRest DEF RestOfTick
<1>3. CASE \/ DielTask \/ onStatus \/ UNCHANGED sysVars
           \/ \E f \in FlushLevels, on \in BOOLEAN : setDiel(f, on)
           \/ \E f, l : onStats(f, l)
  <2>1. UNCHANGED <<vars, dry>>
    BY <1>3 DEF DielTask, onStatus, setDiel, onStats, sysVars
  <2>2. Pending => Pending'
    <3>1. CASE DielTask
      BY <3>1 DEF DielTask, Pending
    <3>2. CASE onStatus \/ \E f, l : onStats(f, l)
      BY <3>2 DEF onStatus, onStats, Pending
    <3>3. CASE UNCHANGED <<link, due, present, flow, level, got>>
      BY <3>3, SameDiel DEF Pending
    <3> QED BY <1>3, <3>1, <3>2, <3>3 DEF setDiel, sysVars, dielVars
  <2>3. DryFor => DryFor'
    BY <2>1 DEF DryFor, vars
  <2> QED BY <2>1, <2>2, <2>3 DEF DryInv, LongestWait, vars
<1> QED BY <1>1, <1>2, <1>3, DryCalls, DryWakes DEF SysNext

\* With the interlock required, calls between ticks and ticks in time, over the
\* CAN module or the simulator, whatever flush levels are asked for: the
\* generator is never commanded to spark in a dry gap for longer than a
\* touch-off or the wait for an ACK, and a period.
THEOREM DrySparkIsBounded ==
  ASSUME Serialised, DielRequired, TimelyTicks
  PROVE  SysSpec => []DrySparkBounded
<1>1. SysInit => SyncInv /\ DryInv
  BY DEF SysInit, Init, SyncInv, DryInv
<1>2. Spec => []WaitInv
  <2>1. Init => WaitInv
    BY DEF Init, WaitInv
  <2> QED BY <2>1, WaitStep, TimerHolds, TypeCorrect, PTL DEF Spec
<1>3. DryInv => DrySparkBounded
  BY DEF DryInv, DrySparkBounded
<1> QED
  BY <1>1, <1>2, <1>3, SyncStep, DryStep, TimerHolds, SerialHolds, DielTypeCorrect,
     FlushedController, PTL DEF SysSpec
=============================================================================
