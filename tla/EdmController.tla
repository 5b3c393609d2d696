---------------------------- MODULE EdmController ----------------------------
(***************************************************************************)
(* The EDM cut state machine (EDM/Control/EdmController) with the two      *)
(* threads that drive it: the 1 kHz servo task, which runs tick(), and the *)
(* g-code thread, which runs requestCut/requestStop (M3/M5),               *)
(* notifyCutComplete and clearFault.  No lock protects the object.         *)
(*                                                                         *)
(* tick() is a sequence of steps, one action per section of its body, with *)
(* pc the section to run next.  The sections that call the PSU link in the *)
(* middle of a decision (an SPI transaction on the target) are cut there.  *)
(* With Serialised = TRUE a g-code call only runs between two ticks, as in *)
(* the single-threaded host build; with FALSE its steps run between any    *)
(* two sections, as on the two cores of the target: M3 write by write, M5  *)
(* cut at its frame.  A section of the tick is a step in both.             *)
(*                                                                         *)
(* The PSU link is seen through its interface IPsuLink: popEvent() returns *)
(* any event or none, latestStats() a new window or the last one,          *)
(* isConnected(), protocolCompatible() and lastAckStatus() anything.       *)
(***************************************************************************)
EXTENDS ModeTable, GapServo

CONSTANTS
  Word,             \* 2^32: the range of the millisecond clock
  TeleHold, TeleFault, AckTime, StallTime, ReliefTime, ClearTime, TouchOffBudget,
                    \* ControllerTimers, in ms
  DrainBudget,      \* events handled per tick (8)
  ContactLimit,     \* contiguous contact windows that end touch-off (2)
  LostLimit,        \* contiguous open windows that lose the gap (5)
  Byte,             \* 256: the range of the uint8_t counters
  SWords,           \* S words of the program
  Windows,          \* telemetry windows the PSU may send
  Severities,       \* severities a WIRE_BREAK_IMMINENT may carry
  DielRequired,     \* DielInterlock::required, with a link attached
  Serialised,       \* calls never overlap a tick
  TickGaps,         \* ms between two ticks
  MaxNow            \* bound: no tick is taken past this time

ASSUME ControllerAssumption ==
  /\ Word \in Nat \ {0}
  /\ TeleHold \in Nat /\ TeleFault \in Nat /\ StallTime \in Nat
  /\ TouchOffBudget \in Nat /\ MaxNow \in Nat
  /\ AckTime \in 0..(Word - 1) /\ ReliefTime \in 0..(Word - 1)
  /\ ClearTime \in 0..(Word - 1)
  /\ DrainBudget \in Nat \ {0} /\ ContactLimit \in Nat \ {0}
  /\ LostLimit \in Nat /\ Byte \in Nat /\ LostLimit < Byte
  /\ SWords \subseteq Nat /\ Windows \subseteq Window /\ Windows # {}
  /\ Severities \subseteq 1..255
  /\ DielRequired \in BOOLEAN /\ Serialised \in BOOLEAN
  /\ TickGaps \subseteq 0..(Word - 1)

VARIABLES
  state, fault, mode, s_word,       \* _state, _fault, _mode, _s_word
  now,                              \* _now: the clock at the last tick
  have_window, window_change,       \* _have_window, _last_window_change_ms
  arm_deadline, arm_fresh,          \* _arm_deadline, _arm_fresh
  touchoff_start, touchoff_contig,  \* _touchoff_start, _touchoff_contig
  stall_since, lost_contig,         \* _stall_since, _lostgap_contig
  relief_until,                     \* _break_relief_until
  sev, sev_clear_after, feed_cap,   \* _wire_break_sev, _sev_clear_after, _feed_cap_mult (%)
  consec,                           \* _ss.consec_short
  report,                           \* _report: the fields the motion and feed tasks read
  bounds,                           \* _last_sent with _have_sent: what the PSU was given
  cutting,                          \* last START_CUT / STOP_CUT command to the PSU
  psu_fault,                        \* state == 2 in the last telemetry window
  pc, budget, loc,                  \* the servo task: next section, events left, locals
  gpc                               \* the g-code thread: the next step of its call

clockVars == <<window_change, arm_deadline, touchoff_start, stall_since, relief_until>>
breakVars == <<sev, sev_clear_after, feed_cap>>
cutVars   == <<state, fault, cutting>>
vars == <<state, fault, mode, s_word, now, have_window, window_change,
          arm_deadline, arm_fresh, touchoff_start, touchoff_contig, stall_since,
          lost_contig, relief_until, sev, sev_clear_after, feed_cap, consec,
          report, bounds, cutting, psu_fault, pc, budget, loc, gpc>>

EdmState == {"Idle", "Armed", "TouchOff", "Cutting", "Hold", "BreakRelief",
             "StallFault", "Fault"}
FaultReason == {"None", "AckTimeout", "ProtocolMismatch", "TouchOffNoContact",
                "ServoStall", "HeartbeatLost", "PsuFault",
                "DielectricNotReady", "DielectricLost"}
Faulted  == {"Fault", "StallFault"}
Servoing == {"TouchOff", "Cutting", "Hold", "BreakRelief"}
NoBounds == [id |-> "none", at |-> 0]

\* uint32_t arithmetic on the clock.
Plus(t, d)  == IF t + d < Word THEN t + d ELSE t + d - Word
Minus(t, u) == IF t >= u THEN t - u ELSE t - u + Word
Time == 0..(Word - 1)

\* The locals of tick() that live from one section to the next.
NoLocals == [connected |-> FALSE, proto |-> FALSE, fresh |-> FALSE,
             stale_hold |-> FALSE, diel |-> FALSE, v |-> 0]

Init ==
  /\ state = "Idle" /\ fault = "None" /\ mode = "Idle" /\ s_word = 0
  /\ now = 0 /\ have_window = FALSE /\ window_change = 0
  /\ arm_deadline = 0 /\ arm_fresh = FALSE
  /\ touchoff_start = 0 /\ touchoff_contig = 0
  /\ stall_since = 0 /\ lost_contig = 0 /\ relief_until = 0
  /\ sev = 0 /\ sev_clear_after = 0 /\ feed_cap = 100 /\ consec = 0
  /\ report = [state |-> "Idle", v |-> 0, sev |-> 0, cap |-> 100]
  /\ bounds = NoBounds /\ cutting = FALSE /\ psu_fault = FALSE
  /\ pc = "wait" /\ budget = 0 /\ loc = NoLocals /\ gpc = "run"

-----------------------------------------------------------------------------
(* Helpers of the controller. *)

\* maybeSendModeBounds(): a frame is sent only when its contents change, so
\* what the PSU holds afterwards is the wanted bounds either way.
SendModeBounds(m, s) == bounds' = build(m, s)

\* Mutant: the reduced or restored mode is not sent to the PSU.
changeMode_NotSent(m) == mode' = m /\ UNCHANGED bounds

changeMode(m) == mode' = m /\ SendModeBounds(m, s_word)

\* Mutant: a fault that forgets to stop the generator.
enterFault_NoStop(r) == UNCHANGED cutting /\ state' = "Fault" /\ fault' = r

enterFault(r) == cutting' = FALSE /\ state' = "Fault" /\ fault' = r

\* Mutant: a cut that has yet to touch off does not count as active.
cutActive_NoTouchOff(st) == st \in {"Cutting", "Hold"}

\* The states in which a cleared break restores the mode.
cutActive(st) == st \in {"TouchOff", "Cutting", "Hold"}

\* Mutant: the relief outlives its deadline by a tick.
reliefOver_Late == state = "BreakRelief" /\ now > relief_until

reliefOver == state = "BreakRelief" /\ now >= relief_until

\* Mutant: only an advancing cut is supervised for dielectric loss.
dielLost_NotHeld(diel) == DielRequired /\ ~diel /\ state = "Cutting"

\* Mid-cut dielectric loss; touch-off is exempt.
dielLost(diel) == /\ DielRequired /\ ~diel
                  /\ state \in {"Cutting", "Hold", "BreakRelief"}

\* A g-code call may run now.
Callable == gpc = "run" /\ (Serialised => pc = "wait")

-----------------------------------------------------------------------------
(* The g-code thread. *)

\* Mutant: an M5 that only updates the controller, not the generator.
StopSend_NoFrame ==
  /\ Callable /\ gpc' = "stopping"
  /\ UNCHANGED <<cutVars, mode, s_word, now, have_window, clockVars, arm_fresh,
                 touchoff_contig, lost_contig, breakVars, consec, report,
                 bounds, psu_fault, pc, budget, loc>>

\* requestStop(), first half: the STOP_CUT frame, then the state is written.
StopSend ==
  /\ Callable
  /\ cutting' = FALSE /\ gpc' = "stopping"
  /\ UNCHANGED <<state, fault, mode, s_word, now, have_window, clockVars,
                 arm_fresh, touchoff_contig, lost_contig, breakVars, consec,
                 report, bounds, psu_fault, pc, budget, loc>>

StopWrite ==
  /\ gpc = "stopping"
  /\ state' = "Idle" /\ mode' = "Idle" /\ consec' = 0 /\ gpc' = "run"
  /\ UNCHANGED <<fault, s_word, now, have_window, clockVars, arm_fresh,
                 touchoff_contig, lost_contig, breakVars, report, bounds,
                 cutting, psu_fault, pc, budget, loc>>

\* requestStop(): M5, S0, or an abort of the motion loop.
requestStop == StopSend

\* notifyCutComplete(): a StallFault is left as well, only a Fault is kept.
notifyCutComplete == state # "Fault" /\ StopSend

\* requestCut(s): M3.  It is ignored while faulted; S0 is requestStop().  No
\* tick overlaps it here, which makes its writes one step.
requestCut(s) ==
  /\ Serialised /\ Callable
  /\ state \notin Faulted
  /\ s_word' = s /\ mode' = modeForSword(s)
  /\ IF modeForSword(s) = "Idle"
     THEN /\ cutting' = FALSE /\ gpc' = "stopping"
          /\ UNCHANGED <<state, arm_deadline, arm_fresh, bounds>>
     ELSE /\ state' = "Armed" /\ arm_deadline' = Plus(now, AckTime)
          /\ arm_fresh' = TRUE
          /\ SendModeBounds(mode', s)
          /\ UNCHANGED <<cutting, gpc>>
  /\ UNCHANGED <<fault, now, have_window, window_change, touchoff_start,
                 touchoff_contig, stall_since, lost_contig, relief_until,
                 breakVars, consec, report, psu_fault, pc, budget, loc>>

\* requestCut(s) beside the ticks of the other core: the fault is tested, then
\* the fields are written one by one, in the order of the code.
testCut(s) ==
  /\ ~Serialised /\ Callable
  /\ state \notin Faulted
  /\ s_word' = s /\ gpc' = "mode"
  /\ UNCHANGED <<cutVars, mode, now, have_window, clockVars, arm_fresh,
                 touchoff_contig, lost_contig, breakVars, consec, report,
                 bounds, psu_fault, pc, budget, loc>>

writeCut ==
  /\ ~Serialised
  /\ \/ /\ gpc = "mode" /\ mode' = modeForSword(s_word)
        /\ gpc' = IF mode' = "Idle" THEN "stop" ELSE "state"
        /\ UNCHANGED <<state, cutting, arm_deadline, arm_fresh, bounds>>
     \/ /\ gpc = "stop" /\ cutting' = FALSE /\ gpc' = "stopping"
        /\ UNCHANGED <<state, mode, arm_deadline, arm_fresh, bounds>>
     \/ /\ gpc = "state" /\ state' = "Armed" /\ gpc' = "deadline"
        /\ UNCHANGED <<cutting, mode, arm_deadline, arm_fresh, bounds>>
     \/ /\ gpc = "deadline" /\ arm_deadline' = Plus(now, AckTime) /\ gpc' = "fresh"
        /\ UNCHANGED <<state, cutting, mode, arm_fresh, bounds>>
     \/ /\ gpc = "fresh" /\ arm_fresh' = TRUE /\ gpc' = "bounds"
        /\ UNCHANGED <<state, cutting, mode, arm_deadline, bounds>>
     \/ /\ gpc = "bounds" /\ SendModeBounds(mode, s_word) /\ gpc' = "run"
        /\ UNCHANGED <<state, cutting, mode, arm_deadline, arm_fresh>>
  /\ UNCHANGED <<fault, s_word, now, have_window, window_change, touchoff_start,
                 touchoff_contig, stall_since, lost_contig, relief_until,
                 breakVars, consec, report, psu_fault, pc, budget, loc>>

\* clearFault(): only the state and the reason; nothing was cutting.
clearFault ==
  /\ Callable /\ state \in Faulted
  /\ state' = "Idle" /\ fault' = "None"
  /\ UNCHANGED <<mode, s_word, now, have_window, clockVars, arm_fresh,
                 touchoff_contig, lost_contig, breakVars, consec, report,
                 bounds, cutting, psu_fault, pc, budget, loc, gpc>>

GCode == requestStop \/ StopWrite \/ notifyCutComplete \/ clearFault
         \/ (\E s \in SWords : requestCut(s) \/ testCut(s)) \/ writeCut

-----------------------------------------------------------------------------
(* The servo task: tick(now_ms), section by section. *)

\* The task wakes up: _now = now_ms.
tickBegin(d) ==
  /\ pc = "wait" /\ (Serialised => gpc = "run")
  /\ now + d <= MaxNow
  /\ now' = Plus(now, d) /\ budget' = DrainBudget /\ pc' = "drain"
  /\ UNCHANGED <<cutVars, mode, s_word, have_window, clockVars, arm_fresh,
                 touchoff_contig, lost_contig, breakVars, consec, report,
                 bounds, psu_fault, loc, gpc>>

\* drainEvents(): the queue is empty or the budget is spent.
drainDone ==
  /\ pc = "drain" /\ pc' = "gate" /\ budget' = 0
  /\ UNCHANGED <<cutVars, mode, s_word, now, have_window, clockVars, arm_fresh,
                 touchoff_contig, lost_contig, breakVars, consec, report,
                 bounds, psu_fault, loc, gpc>>

\* A FAULT frame ends the drain: the events behind it wait for the next tick.
drainFault ==
  /\ pc = "drain" /\ budget > 0
  /\ enterFault("PsuFault")
  /\ pc' = "gate" /\ budget' = 0
  /\ UNCHANGED <<mode, s_word, now, have_window, clockVars, arm_fresh,
                 touchoff_contig, lost_contig, breakVars, consec, report,
                 bounds, psu_fault, loc, gpc>>

\* ARC_BURST and INFO only use up budget.
drainOther ==
  /\ pc = "drain" /\ budget > 0 /\ budget' = budget - 1
  /\ UNCHANGED <<cutVars, mode, s_word, now, have_window, clockVars, arm_fresh,
                 touchoff_contig, lost_contig, breakVars, consec, report,
                 bounds, psu_fault, pc, loc, gpc>>

\* The reaction to a latched severity, whatever the state of the cut.
breakReaction(latched) ==
  CASE latched >= 3 ->
         /\ feed_cap' = 0 /\ state' = "BreakRelief"
         /\ relief_until' = Plus(now, ReliefTime)
         /\ changeMode("Ignite")
    [] latched = 2 ->
         /\ feed_cap' = 30 /\ changeMode(lowerEnergy(mode))
         /\ UNCHANGED <<state, relief_until>>
    [] OTHER ->
         feed_cap' = 60 /\ UNCHANGED <<state, relief_until, mode, bounds>>

\* WIRE_BREAK_IMMINENT: the severity only rises until it is cleared.
drainBreak(severity) ==
  /\ pc = "drain" /\ budget > 0 /\ budget' = budget - 1
  /\ sev' = IF severity > sev THEN severity ELSE sev
  /\ sev_clear_after' = Plus(now, ClearTime)
  /\ breakReaction(sev')
  /\ UNCHANGED <<fault, cutting, s_word, now, have_window, window_change,
                 arm_deadline, arm_fresh, touchoff_start, touchoff_contig,
                 stall_since, lost_contig, consec, report, psu_fault, pc, loc, gpc>>

\* Mutant: the state the generator reports in its telemetry is not looked at.
gateReason_EventsOnly(proto, connected, stale_fault, windowed, faulty) ==
  IF ~proto THEN "ProtocolMismatch"
  ELSE IF stale_fault /\ (~connected \/ windowed) THEN "HeartbeatLost"
  ELSE "None"

\* The fault gates of lines 141-146, in their order.
gateReason(proto, connected, stale_fault, windowed, faulty) ==
  IF windowed /\ faulty THEN "PsuFault"
  ELSE IF ~proto THEN "ProtocolMismatch"
  ELSE IF stale_fault /\ (~connected \/ windowed) THEN "HeartbeatLost"
  ELSE "None"

\* Link and dielectric snapshot, staleness, fault gates, dielectric loss.
\* fresh: latestStats() holds a window with a new id, whose state is fault iff
\* faulty (its counts are first looked at by the servo section, which chooses
\* them); diel: the coolant link is present with flow and level.
gate(fresh, faulty, connected, proto, diel) ==
  LET change == IF fresh THEN now ELSE window_change
      age    == Minus(now, change)
      windowed == have_window \/ fresh
      psuf   == IF fresh THEN faulty ELSE psu_fault
      reason == IF state \in Faulted \cup {"Idle"} THEN "None"
                ELSE gateReason(proto, connected, age > TeleFault, windowed, psuf)
  IN
  /\ pc = "gate" /\ pc' = "arm"
  /\ have_window' = windowed /\ window_change' = change /\ psu_fault' = psuf
  /\ loc' = [connected |-> connected, proto |-> proto, fresh |-> fresh,
             stale_hold |-> age > TeleHold, diel |-> DielRequired => diel, v |-> 0]
  /\ IF reason # "None" THEN enterFault(reason)
     ELSE IF dielLost(diel) THEN enterFault("DielectricLost")
     ELSE UNCHANGED cutVars
  /\ UNCHANGED <<mode, s_word, now, arm_deadline, arm_fresh, touchoff_start,
                 touchoff_contig, stall_since, lost_contig, relief_until,
                 breakVars, consec, report, bounds, budget, gpc>>

\* The Armed section up to the decision; ack: lastAckStatus(), 0 = ok or none.
arm(ack) ==
  LET ready == loc.connected /\ ack = 0 /\ loc.diel IN
  /\ pc = "arm"
  /\ \/ /\ state # "Armed"
        /\ pc' = "relief" /\ UNCHANGED <<cutVars, arm_fresh>>
     \/ /\ state = "Armed" /\ ~loc.proto
        /\ enterFault("ProtocolMismatch") /\ pc' = "relief" /\ UNCHANGED arm_fresh
     \/ /\ state = "Armed" /\ loc.proto /\ arm_fresh
        /\ arm_fresh' = FALSE /\ pc' = "relief" /\ UNCHANGED cutVars
     \/ /\ state = "Armed" /\ loc.proto /\ ~arm_fresh /\ ready
        /\ pc' = "start" /\ UNCHANGED <<cutVars, arm_fresh>>
     \/ /\ state = "Armed" /\ loc.proto /\ ~arm_fresh /\ ~ready
        /\ pc' = "relief" /\ UNCHANGED arm_fresh
        /\ IF now >= arm_deadline
           THEN enterFault(IF loc.diel THEN "AckTimeout" ELSE "DielectricNotReady")
           ELSE UNCHANGED cutVars
  \* no decision reads these two again
  /\ loc' = [loc EXCEPT !.connected = FALSE, !.proto = FALSE]
  /\ UNCHANGED <<mode, s_word, now, have_window, clockVars, touchoff_contig,
                 lost_contig, breakVars, consec, report, bounds, psu_fault,
                 budget, gpc>>

\* _link.startCut(), then the entry into touch-off.
startCut ==
  /\ pc = "start" /\ pc' = "started" /\ cutting' = TRUE
  /\ UNCHANGED <<state, fault, mode, s_word, now, have_window, clockVars,
                 arm_fresh, touchoff_contig, lost_contig, breakVars, consec,
                 report, bounds, psu_fault, budget, loc, gpc>>

enterTouchOff ==
  /\ pc = "started" /\ pc' = "relief"
  /\ state' = "TouchOff" /\ consec' = 0
  /\ touchoff_start' = now /\ touchoff_contig' = 0
  /\ UNCHANGED <<fault, cutting, mode, s_word, now, have_window, window_change,
                 arm_deadline, arm_fresh, stall_since, lost_contig,
                 relief_until, breakVars, report, bounds, psu_fault, budget,
                 loc, gpc>>

\* The end of the break relief and of the severity latch.
relief ==
  LET after  == IF reliefOver THEN "TouchOff" ELSE state
      clears == sev > 0 /\ now >= sev_clear_after
  IN
  /\ pc = "relief" /\ pc' = "servo"
  /\ state' = after
  /\ touchoff_start' = IF reliefOver THEN now ELSE touchoff_start
  /\ touchoff_contig' = IF reliefOver THEN 0 ELSE touchoff_contig
  /\ sev' = IF clears THEN 0 ELSE sev
  /\ feed_cap' = IF clears THEN 100 ELSE feed_cap
  /\ IF clears /\ cutActive(after)
     THEN changeMode(modeForSword(s_word))
     ELSE UNCHANGED <<mode, bounds>>
  /\ UNCHANGED <<fault, cutting, s_word, now, have_window, window_change,
                 arm_deadline, arm_fresh, stall_since, lost_contig,
                 relief_until, sev_clear_after, consec, report, psu_fault,
                 budget, loc, gpc>>

-----------------------------------------------------------------------------
(* The servo section: buildInput(), GapServo::step() and what follows. *)

\* Mutant: a window that was already used counts again until it is stale.
valid_Repeated(w) == have_window /\ w.enough /\ ~loc.stale_hold

\* in.valid, with the stale_hold override of line 186; w: the window's counts.
valid(w) == loc.fresh /\ w.enough /\ ~loc.stale_hold

\* The servo's output for this tick; vpi and db from the PI regulator.
servoOut(w, vpi, db) ==
  LET l == Ladder(valid(w), w, state = "TouchOff", state = "BreakRelief",
                  ConsecShort(consec, valid(w), w), vpi, db)
  IN [servo |-> l[1], v |-> Capped(l[2], feed_cap)]

servoRuns(w, vpi, db) ==
  /\ pc = "servo" /\ pc' = "report"
  /\ consec' = ConsecShort(consec, valid(w), w)
  /\ loc' = [loc EXCEPT !.v = servoOut(w, vpi, db).v]
  /\ UNCHANGED <<mode, s_word, now, have_window, window_change, arm_deadline,
                 arm_fresh, relief_until, breakVars, report, bounds,
                 psu_fault, budget, gpc>>

\* Idle, Armed and the fault states leave the servo alone.
servoSkip ==
  /\ pc = "servo" /\ state \notin Servoing /\ pc' = "report"
  /\ UNCHANGED <<cutVars, mode, s_word, now, have_window, clockVars, arm_fresh,
                 touchoff_contig, lost_contig, breakVars, consec, report,
                 bounds, psu_fault, budget, loc, gpc>>

servoRelief(w, vpi, db) ==
  /\ state = "BreakRelief"
  /\ servoRuns(w, vpi, db)
  /\ UNCHANGED <<cutVars, touchoff_start, touchoff_contig, stall_since, lost_contig>>

\* More than half of the pulses were not open: the wire touches.
contact(w) == valid(w) /\ 100 - w.open > 50

\* The budget is tested last, so it faults even a touch-off that just ended.
servoTouchOff(w, vpi, db) ==
  /\ state = "TouchOff"
  /\ servoRuns(w, vpi, db)
  /\ touchoff_contig' = IF contact(w) THEN touchoff_contig + 1 ELSE 0
  /\ IF Minus(now, touchoff_start) > TouchOffBudget
     THEN enterFault("TouchOffNoContact")
     ELSE /\ state' = IF touchoff_contig' >= ContactLimit THEN "Cutting" ELSE state
          /\ UNCHANGED <<fault, cutting>>
  /\ UNCHANGED <<touchoff_start, stall_since, lost_contig>>

\* A gap that regulates well: short and arc ratios below their alarm levels.
healthy(w) == valid(w) /\ w.short <= ShortRef2 /\ w.arc <= ArcBrake

\* Cutting or Hold: lost gap, then hold and stall supervision on what is left.
servoCut(w, vpi, db) ==
  LET out    == servoOut(w, vpi, db)
      open   == valid(w) /\ w.open > 95
      lost   == open /\ (lost_contig + 1) % Byte >= LostLimit
      after  == IF lost THEN "TouchOff" ELSE state
      holds  == out.servo \in {"Hold", "ArcHold"} \/ out.v <= 0
      since  == IF after = "Cutting" \/ healthy(w) THEN now ELSE stall_since
      stalls == /\ ~healthy(w) /\ out.v <= 0 /\ out.servo \in {"Retract", "Hold"}
                /\ Minus(now, since) > StallTime
  IN
  /\ state \in {"Cutting", "Hold"}
  /\ servoRuns(w, vpi, db)
  /\ lost_contig' = IF open THEN (lost_contig + 1) % Byte ELSE 0
  /\ touchoff_start' = IF lost THEN now ELSE touchoff_start
  /\ touchoff_contig' = IF lost THEN 0 ELSE touchoff_contig
  /\ \/ /\ holds /\ stalls
        /\ cutting' = FALSE /\ state' = "StallFault" /\ fault' = "ServoStall"
        /\ stall_since' = since
     \/ /\ holds /\ ~stalls
        /\ state' = IF after = "Cutting" THEN "Hold" ELSE after
        /\ stall_since' = since /\ UNCHANGED <<fault, cutting>>
     \/ /\ ~holds
        /\ state' = IF after = "Hold" THEN "Cutting" ELSE after
        /\ UNCHANGED <<stall_since, fault, cutting>>

\* The report other tasks read is published at the end of the tick.
publish ==
  /\ pc = "report" /\ pc' = "wait"
  /\ report' = [state |-> state, v |-> loc.v, sev |-> sev, cap |-> feed_cap]
  /\ loc' = NoLocals
  /\ UNCHANGED <<cutVars, mode, s_word, now, have_window, clockVars, arm_fresh,
                 touchoff_contig, lost_contig, breakVars, consec, bounds,
                 psu_fault, budget, gpc>>

-----------------------------------------------------------------------------
Drain == drainDone \/ drainFault \/ drainOther \/ \E x \in Severities : drainBreak(x)

Gate == \E fresh, faulty, connected, proto, diel \in BOOLEAN :
          gate(fresh, faulty, connected, proto, diel)

Arm == \E ack \in {0, 1} : arm(ack)

Servo ==
  \/ servoSkip
  \/ \E w \in Windows, vpi \in Sign, db \in BOOLEAN :
       servoRelief(w, vpi, db) \/ servoTouchOff(w, vpi, db) \/ servoCut(w, vpi, db)

Tick == (\E d \in TickGaps : tickBegin(d)) \/ Drain \/ Gate \/ Arm \/ startCut
        \/ enterTouchOff \/ relief \/ Servo \/ publish

Next == Tick \/ GCode

Spec == Init /\ [][Next]_vars

-----------------------------------------------------------------------------
(* Properties. *)

FlagsOK ==
  /\ have_window \in BOOLEAN /\ arm_fresh \in BOOLEAN
  /\ cutting \in BOOLEAN /\ psu_fault \in BOOLEAN

ClocksOK ==
  /\ now \in Time /\ window_change \in Time /\ arm_deadline \in Time
  /\ touchoff_start \in Time /\ stall_since \in Time
  /\ relief_until \in Time /\ sev_clear_after \in Time

CountersOK ==
  /\ touchoff_contig \in 0..ContactLimit /\ lost_contig \in 0..(Byte - 1)
  /\ consec \in 0..ShortLimit /\ budget \in 0..DrainBudget

ModesOK ==
  /\ state \in EdmState /\ fault \in FaultReason /\ mode \in EdmMode
  /\ s_word \in SWords \cup {0} /\ bounds \in Bounds \cup {NoBounds}
  /\ sev \in Severities \cup {0} /\ feed_cap \in {0, 30, 60, 100}
  /\ pc \in {"wait", "drain", "gate", "arm", "start", "started", "relief",
             "servo", "report"}
  /\ gpc \in {"run", "stopping", "mode", "stop", "state", "deadline", "fresh", "bounds"}

LocalsOK ==
  /\ report \in [state : EdmState, v : Sign, sev : Severities \cup {0},
                 cap : {0, 30, 60, 100}]
  /\ loc \in [connected : BOOLEAN, proto : BOOLEAN, fresh : BOOLEAN,
              stale_hold : BOOLEAN, diel : BOOLEAN, v : Sign]

\* Every variable stays in its type: the uint8_t counters and the uint32_t
\* clocks in their range, the contact count at its limit at most.
TypeOK == FlagsOK /\ ClocksOK /\ CountersOK /\ ModesOK /\ LocalsOK

\* A touch-off that goes on has not had its contiguous contacts yet.
ContactPending == state = "TouchOff" => touchoff_contig < ContactLimit

\* A faulted cut has its generator stopped: on every path into Fault or
\* StallFault the last command the PSU got is STOP_CUT, and it stays so.
SparkOffWhenFaulted == state \in Faulted => ~cutting

\* An idle controller has its generator stopped: after M5, after the motion
\* loop's abort and after clearFault nothing sparks.
SparkOffWhenIdle == state = "Idle" /\ gpc = "run" => ~cutting

\* While the cut is servoed the PSU works with the bounds of the controller's
\* own mode and S word, whatever breaks, clears and M3s came in between.
BoundsInSync ==
  state \in Servoing \cup {"Armed"} /\ gpc = "run" => bounds = build(mode, s_word)

\* "Restore the S-word cut mode that a sev2/sev3 break temporarily reduced":
\* once no severity is latched the cut runs at the energy the program asked for.
ModeRestored ==
  /\ sev = 0 /\ state \in {"TouchOff", "Cutting", "Hold"}
  => mode = modeForSword(s_word)

\* Between two ticks no timer the servo task sets itself is overdue, whatever
\* calls came in the middle of one: an expired relief, severity latch or
\* touch-off has been acted upon.
ServoTimersServed ==
  pc = "wait" =>
    /\ state = "BreakRelief" => now < relief_until
    /\ sev > 0 => now < sev_clear_after
    /\ state = "TouchOff" => Minus(now, touchoff_start) <= TouchOffBudget

\* Nor is the ack wait, which M3 sets: an armed cut leaves Armed in time.  With
\* calls inside a tick this fails: Armed is written before its deadline.
NoOverdueTimer ==
  /\ ServoTimersServed
  /\ pc = "wait" /\ state = "Armed" /\ ~arm_fresh => now < arm_deadline

\* While a severity-3 break is latched the published command never advances
\* the wire, in whatever state the controller is.
NoAdvanceOnBreak == pc = "wait" /\ report.sev >= 3 => report.v <= 0

\* A published cut only advances on a window that arrived in the very tick
\* that published it (touch-off, and the tick its budget faults, do not).
NoBlindAdvance ==
  pc = "wait" /\ report.v > 0 /\ report.state \notin {"TouchOff", "Fault"}
    => have_window /\ window_change = now

\* The cut is not published as running for a second tick without dielectric:
\* touch-off is exempt, and the tick that ends it is caught by the next one.
DielectricGuards ==
  [][/\ DielRequired /\ pc = "report" /\ ~loc.diel
     /\ report.state \in {"Cutting", "Hold", "BreakRelief"}
     => state \notin {"Cutting", "Hold", "BreakRelief"}]_vars

-----------------------------------------------------------------------------
(* Strengthenings of the properties above that the actions preserve. *)

\* The servo task never starts the generator of a faulted cut.
StartNotFaulted == pc \in {"start", "started"} => state \notin Faulted
FaultInv == SparkOffWhenFaulted /\ StartNotFaulted

\* With serialised calls: an arming that was decided is still wanted, and a
\* stop is over before the next tick.
StartArmed == pc \in {"start", "started"} => state = "Armed"
StopAlone  == gpc # "run" => gpc = "stopping" /\ pc = "wait" /\ ~cutting
SerialInv  == SparkOffWhenFaulted /\ SparkOffWhenIdle /\ StartArmed /\ StopAlone

\* The order of the timers and the range of the clock the restoration of the
\* mode depends on; ControllerTimers has 200 and 50 below 500.
TimersOrdered == 0 < ClearTime /\ AckTime <= ClearTime /\ ReliefTime <= ClearTime
NoWrap == MaxNow + ClearTime < Word

\* A relief has its severity latched and ends no later than the latch.
ReliefBeforeClear ==
  state = "BreakRelief" => sev >= 3 /\ relief_until <= sev_clear_after

\* The ack wait ends at most AckTime from now.
ArmBound == state = "Armed" => arm_deadline <= now + AckTime

\* An armed cut whose energy a break reduced leaves Armed before the severity
\* that reduced it is cleared.
ArmBeforeClear ==
  /\ state = "Armed" /\ mode # modeForSword(s_word)
  => /\ sev > 0 /\ arm_deadline <= sev_clear_after
     /\ arm_fresh => pc \in {"drain", "gate", "arm"} /\ now < sev_clear_after
     /\ pc = "relief" => now < sev_clear_after

TimedInv == now <= MaxNow /\ ModeRestored /\ ReliefBeforeClear /\ ArmBound
            /\ ArmBeforeClear
=============================================================================
