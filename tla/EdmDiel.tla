------------------------------- MODULE EdmDiel -------------------------------
(***************************************************************************)
(* The controller's dielectric interlock over its two links.               *)
(*                                                                         *)
(*   can  EDM/Diel/CanDielLink over a dielectric module on the bus.  The   *)
(*        module is external: its flow and level come and go, and it sends *)
(*        telemetry when it likes.                                         *)
(*   sim  EDM/Diel/SimDielLink, the one EdmSpindle wires, driven by the    *)
(*        10 Hz EdmDielTask from the state of the controller.              *)
(*                                                                         *)
(* A unit of time is a period of the task, 100 ms; the controller ticks    *)
(* once in it, the task runs once in it, before or after that tick or in   *)
(* the middle of it.  Flows are in tenths of cL/min.  Calls run between    *)
(* two ticks.                                                              *)
(***************************************************************************)
EXTENDS EdmController

CONSTANTS
  Links,        \* the links a configuration may have
  FlowMin,      \* flow_min_clpm (100)
  LevelMin,     \* level_min_pct (15)
  FlowT,        \* flowT: flow per flush level (40, 260, 460, 680)
  FlushLevels,  \* flush levels the operator asks for
  AskedMax      \* where the ghost clock of the pump's request stops

ASSUME EdmDielAssumption ==
  /\ Serialised
  /\ Links \subseteq {"can", "sim"}
  /\ FlowMin \in Nat \ {0} /\ LevelMin \in 1..100 /\ AskedMax \in Nat
  /\ FlowT \in [0..3 -> Nat] /\ FlushLevels \subseteq 0..3

VARIABLES
  link,         \* which link
  present,      \* _heartbeat_seen (can), _connected (sim)
  flow, level,  \* what latestStats() holds: flow in tenths, level in percent
  got,          \* latestStats() has something
  flush_level,  \* _flush_level
  pump_wanted,  \* pump_on of the last $EDM/Pump
  due,          \* the task has yet to run in this period
  dry,          \* how long the reported flow or level has been low
  asked         \* how long the pump has been asked for, up to AskedMax

dielVars == <<link, present, flow, level, got, flush_level, pump_wanted, due>>
sysVars == <<vars, dielVars, dry, asked>>

\* dielReadyToCut(), on the rounded flow.
dielReadyToCut == (flow + 5) \div 10 >= FlowMin /\ level >= LevelMin
dielOk == got /\ present /\ dielReadyToCut

\* begin() of the simulator connects it at once; the module has to be heard.
SysInit ==
  /\ Init
  /\ link \in Links
  /\ present = (link = "sim") /\ got = (link = "sim")
  /\ flow = 0 /\ level = (IF link = "sim" THEN 88 ELSE 0)
  /\ flush_level = 2 /\ pump_wanted = FALSE /\ due = TRUE /\ dry = 0 /\ asked = 0

-----------------------------------------------------------------------------
(* The simulated coolant loop. *)

\* Mutant: the step is not scaled.
lerp_Unscaled(a, b, n) == a + (b - a) * n

\* lerpf(a, b, n/10) in tenths.
lerp(a, b, n) == a + ((b - a) * n) \div 10

isCutting(st) == st \in Servoing

\* One pass of the task: setCutting(isCutting(ctl->state())), then tick().
\* The pump follows the cut, whatever setDiel() asked for.
DielTask ==
  /\ link = "sim" /\ due /\ due' = FALSE
  /\ flow' = IF isCutting(state) THEN lerp(flow, 10 * FlowT[flush_level], 2)
             ELSE lerp(flow, 0, 3)
  /\ UNCHANGED <<vars, link, present, level, got, flush_level, pump_wanted, dry, asked>>

\* $EDM/Flush and $EDM/Pump: setDiel().  What a module does with the frame is
\* covered by its telemetry.
setDiel(f, on) ==
  /\ link = "sim" /\ pc = "wait" /\ flush_level' = f /\ pump_wanted' = on
  /\ asked' = IF on THEN asked ELSE 0
  /\ UNCHANGED <<vars, link, present, flow, level, got, due, dry>>

-----------------------------------------------------------------------------
(* CanDielLink::onFrame(). *)

\* DIEL_STATUS: the heartbeat latches.
onStatus ==
  /\ link = "can" /\ pc = "wait" /\ present' = TRUE
  /\ UNCHANGED <<vars, link, flow, level, got, flush_level, pump_wanted, due, dry, asked>>

\* DIEL_STATS, at and just below the floors.
onStats(f, l) ==
  /\ link = "can" /\ pc = "wait"
  /\ got' = TRUE /\ flow' = f /\ level' = l
  /\ UNCHANGED <<vars, link, present, flush_level, pump_wanted, due, dry, asked>>

-----------------------------------------------------------------------------
(* The controller, with a generator that is connected and never faults. *)

\* M3 starts the clock of the dry gap again: the arming has its own timeout.
Calls ==
  /\ \/ (\E s \in SWords : requestCut(s)) /\ dry' = 0
     \/ (requestStop \/ StopWrite \/ notifyCutComplete \/ clearFault) /\ UNCHANGED dry
  /\ UNCHANGED <<dielVars, asked>>

WakeUp(d) ==
  /\ link = "sim" => ~due
  /\ tickBegin(d) /\ due' = (link = "sim")
  /\ dry' = IF dielOk THEN 0 ELSE dry + d
  /\ asked' = IF ~pump_wanted THEN 0 ELSE IF asked + d > AskedMax THEN AskedMax ELSE asked + d
  /\ UNCHANGED <<link, present, flow, level, got, flush_level, pump_wanted>>

GateStep ==
  /\ \E isNew \in BOOLEAN : gate(isNew, FALSE, TRUE, TRUE, dielOk)
  /\ UNCHANGED <<dielVars, dry, asked>>

RestOfTick ==
  /\ Drain \/ arm(0) \/ startCut \/ enterTouchOff \/ relief \/ Servo \/ publish
  /\ UNCHANGED <<dielVars, dry, asked>>

SysNext ==
  \/ Calls \/ (\E d \in TickGaps : WakeUp(d)) \/ GateStep \/ RestOfTick
  \/ DielTask \/ (\E f \in FlushLevels, on \in BOOLEAN : setDiel(f, on))
  \/ onStatus
  \/ onStats(10 * FlowMin, LevelMin) \/ onStats(10 * FlowMin - 10, LevelMin)
  \/ onStats(10 * FlowMin, LevelMin - 1)

SysSpec == SysInit /\ [][SysNext]_sysVars

-----------------------------------------------------------------------------
(* Properties. *)

DielTypeOK ==
  /\ link \in Links /\ present \in BOOLEAN /\ got \in BOOLEAN
  /\ flow \in Nat /\ level \in 0..100 /\ flush_level \in 0..3
  /\ pump_wanted \in BOOLEAN /\ due \in BOOLEAN
  /\ dry \in Nat /\ asked \in 0..AskedMax

\* The variables of the links stay in their types: no interpolation takes the
\* simulated flow below 0.
SysTypeOK == TypeOK /\ DielTypeOK

LongestWait == IF AckTime > TouchOffBudget THEN AckTime ELSE TouchOffBudget

\* No spark without flushing: although touch-off and a re-arming M3 are exempt
\* from the supervision of the flow, the generator is never commanded to spark
\* on reported low flow or level for longer than a touch-off, or the wait for
\* an ACK, and one period.
DrySparkBounded ==
  pc = "wait" /\ cutting => \E d \in TickGaps : dry <= LongestWait + d

\* $EDM/Flush: "any non-Off level turns it on": an arming whose pump was asked
\* for all along, with the tank full, does not end in DielectricNotReady.
FlushedCutProceeds ==
  [][fault' = "DielectricNotReady" /\ fault # fault' =>
       ~(present /\ asked >= AckTime /\ flush_level > 0 /\ level >= LevelMin)]_sysVars
==============================================================================
