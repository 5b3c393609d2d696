------------------------------- MODULE WireFeed -------------------------------
(***************************************************************************)
(* The wire feed (EDM/Feed/WireFeed, StepGen) on its own task, beside the  *)
(* servo task that publishes the controller's report field by field and    *)
(* the command task that resets a collapse or changes the setpoint.  None  *)
(* of the three takes a lock: the tick reads the report in three reads,    *)
(* and the copies of TensionState are made field by field.                 *)
(***************************************************************************)
EXTENDS TensionController

CONSTANTS
  Severities,    \* severities of wire-break events, below 4
  Loads,         \* readings of the load cell: 0 parted .. Setpoint loaded
  Setpoints,     \* values of $EDM/Tension; the first is setpoint_N
  Setpoint,
  Gaps,          \* times between two ticks
  Serialised     \* commands run between ticks only

ASSUME FeedAssumption ==
  /\ Severities \subseteq 1..3 /\ Loads \subseteq Nat
  /\ Setpoint \in Setpoints /\ Setpoints \subseteq Nat
  /\ Gaps \subseteq Nat \ {0} /\ Serialised \in BOOLEAN

VARIABLES
  brk, ppc, report,   \* servo task: _wire_break_sev, its place, the report
  wpc, in, out,       \* feed task: its place, TensionInput, TensionOutput
  tens, sp,           \* _state, setpoint_N
  stores, clears,     \* fields of _state the tick, the reset has yet to write
  feed, tension,      \* the two StepGens
  slack, snap         \* history of the samples, for the properties

report_vars == <<brk, ppc, report>>
gens  == <<feed, tension>>
hist  == <<slack, snap>>
vars  == <<report_vars, wpc, in, out, tens, sp, stores, clears, gens, hist>>

Fields == DOMAIN TensionReset

\* _feed_cap_mult as published, per severity.
cap(s) == CASE s = 0 -> 100 [] s = 1 -> 60 [] s = 2 -> 30 [] OTHER -> 0

NoInput  == [cap |-> 100, sev |-> 0, cutting |-> FALSE, m |-> 0, valid |-> FALSE,
             dt |-> 0, sp |-> 0]
NoOutput == [next |-> TensionReset, collapse |-> FALSE, feed |-> 0, tension |-> "servo"]

\* snap is the time of parted samples right after a loaded one, if any.
NoSnap == -1

Init ==
  /\ brk = 0 /\ ppc = "state" /\ report = [cap |-> 100, sev |-> 0, cutting |-> FALSE]
  /\ wpc = "wait" /\ in = NoInput /\ out = NoOutput
  /\ tens = TensionReset /\ sp = Setpoint /\ stores = {} /\ clears = {}
  /\ feed = [rate |-> 0, on |-> FALSE] /\ tension = [rate |-> "servo", on |-> FALSE]
  /\ slack = 0 /\ snap = NoSnap

-----------------------------------------------------------------------------
(* The servo task: a tick ends by publishing state, cap and severity. *)

\* A break raises the severity, which is cleared after a while.
breakMoves(s) == s \in {brk, 0} \/ (s \in Severities /\ s > brk)

publishState(s, cutting) ==
  /\ ppc = "state" /\ ppc' = "cap"
  /\ breakMoves(s) /\ brk' = s /\ report' = [report EXCEPT !.cutting = cutting]

publishCap == /\ ppc = "cap" /\ ppc' = "sev"
              /\ report' = [report EXCEPT !.cap = cap(brk)] /\ UNCHANGED brk

publishSev == /\ ppc = "sev" /\ ppc' = "state"
              /\ report' = [report EXCEPT !.sev = brk] /\ UNCHANGED brk

Servo ==
  /\ \/ \E s \in Severities \union {0}, c \in BOOLEAN : publishState(s, c)
     \/ publishCap
     \/ publishSev
  /\ UNCHANGED <<wpc, in, out, tens, sp, stores, clears, gens, hist>>

-----------------------------------------------------------------------------
(* The wire-feed task: WireFeed::tick(). *)

\* The load cell has a fresh conversion, or not; then the cap is read.
readCap(m, fresh, dt) ==
  /\ wpc = "wait" /\ wpc' = "sev" /\ (Serialised => clears = {})
  /\ in' = [NoInput EXCEPT !.m = m, !.valid = fresh, !.dt = dt, !.cap = report.cap]
  /\ UNCHANGED <<out, tens, stores, gens, hist>>

readSev == /\ wpc = "sev" /\ wpc' = "state"
           /\ in' = [in EXCEPT !.sev = report.sev]
           /\ UNCHANGED <<out, tens, stores, gens, hist>>

readState == /\ wpc = "state" /\ wpc' = "step"
             /\ in' = [in EXCEPT !.cutting = report.cutting]
             /\ UNCHANGED <<out, tens, stores, gens, hist>>

\* What the samples of cuts said so far: slack is the time of samples below
\* collapse_N in a row, up to the debounce time.
\* Kept with serialised commands only, which the properties on it are about.
observe ==
  LET add(t) == IF t + in.dt > CollapseMs THEN CollapseMs ELSE t + in.dt IN
  IF ~(Serialised /\ in.cutting /\ in.valid) THEN UNCHANGED hist
  ELSE /\ snap' = IF in.m = Setpoint THEN 0
                  ELSE IF in.m > 0 THEN NoSnap
                  ELSE IF snap >= 0 THEN add(snap) ELSE snap
       /\ slack' = IF in.m < CollapseN THEN add(slack)
                   ELSE IF tens.latched THEN slack ELSE 0

control ==
  /\ wpc = "step" /\ wpc' = "store"
  /\ out' = step(tens, [in EXCEPT !.sp = sp])
  /\ in' = [NoInput EXCEPT !.sev = in.sev, !.cutting = in.cutting]
  /\ stores' = Fields /\ observe
  /\ UNCHANGED <<tens, gens>>

\* _state = o.next
store ==
  /\ wpc = "store"
  /\ \E f \in stores : /\ tens' = [tens EXCEPT ![f] = out.next[f]]
                       /\ stores' = stores \ {f}
                       /\ wpc' = IF stores = {f} THEN "drive" ELSE "store"
  /\ UNCHANGED <<in, out, gens, hist>>

\* Mutant: the collapse parks the feed but DISABLE follows the severity only.
feedOn_SevOnly == IF in.sev >= 3 THEN FALSE ELSE feed.on \/ in.cutting

\* Mutant: DISABLE follows the collapse only; severity 3 merely parks.
feedOn_CollapseOnly == IF out.collapse THEN FALSE ELSE feed.on \/ in.cutting

\* The feed DISABLE line.
feedOn == IF in.sev >= 3 \/ out.collapse THEN FALSE ELSE feed.on \/ in.cutting

drive ==
  /\ wpc = "drive" /\ wpc' = "wait"
  /\ feed' = [rate |-> out.feed, on |-> feedOn]
  /\ tension' = [tension EXCEPT !.rate = out.tension]
  /\ in' = NoInput /\ out' = NoOutput
  /\ UNCHANGED <<tens, stores, hist>>

Feed ==
  /\ \/ \E dt \in Gaps : \/ \E m \in Loads : readCap(m, TRUE, dt)
                         \/ readCap(0, FALSE, dt)
     \/ readSev \/ readState \/ control \/ store \/ drive
  /\ UNCHANGED <<report_vars, sp, clears>>

-----------------------------------------------------------------------------
(* The command task. *)

between == Serialised => wpc = "wait"

forget == slack' = 0 /\ snap' = NoSnap

\* $EDM/ResetWireFeed: resetCollapse() assigns a fresh TensionState.
resetCollapse == /\ between /\ clears = {} /\ clears' = Fields
                 /\ forget /\ UNCHANGED tens

clear ==
  /\ between
  /\ \E f \in clears : /\ tens' = [tens EXCEPT ![f] = TensionReset[f]]
                       /\ clears' = clears \ {f}
  /\ forget

\* $EDM/Tension
setTensionSetpointN(n) == /\ between /\ clears = {} /\ sp' = n
                          /\ UNCHANGED <<tens, clears, hist>>

Commands ==
  /\ \/ (resetCollapse \/ clear) /\ UNCHANGED sp
     \/ \E n \in Setpoints : setTensionSetpointN(n)
  /\ UNCHANGED <<report_vars, wpc, in, out, stores, gens>>

Next == Servo \/ Feed \/ Commands
Spec == Init /\ [][Next]_vars

\* The task's loop is periodic (a FreeRTOS task with a delay).
FairSpec == Spec /\ WF_vars(Feed)
-----------------------------------------------------------------------------
(* Properties *)

\* The states of the three tasks and of the step generators.
TypeOK ==
  LET Caps == {0, 30, 60, 100}
      Sevs == Severities \union {0}
  IN
  /\ brk \in Sevs /\ ppc \in {"state", "cap", "sev"}
  /\ report \in [cap : Caps, sev : Sevs, cutting : BOOLEAN]
  /\ wpc \in {"wait", "sev", "state", "step", "store", "drive"}
  /\ in \in [cap : Caps, sev : Sevs, cutting : BOOLEAN, m : Loads \union {0},
             valid : BOOLEAN, dt : Gaps \union {0}, sp : {0}]
  /\ out \in [next : TensionState, collapse : BOOLEAN, feed : Caps,
              tension : {"hold", "servo"}]
  /\ tens \in TensionState /\ sp \in Setpoints
  /\ stores \subseteq Fields /\ clears \subseteq Fields
  /\ feed \in [rate : Caps, on : BOOLEAN]
  /\ tension \in [rate : {"hold", "servo"}, on : BOOLEAN]
  /\ slack \in 0 .. CollapseMs /\ snap \in NoSnap .. CollapseMs

\* While a collapse is latched the feed is parked and its DISABLE asserted,
\* whatever the report and a racing reset do to the tick's copies.
LatchedStopsFeed ==
  wpc = "wait" /\ tens.latched => ~feed.on /\ feed.rate = 0

\* A latched collapse is only released by an operator's reset.
NoAutoRecovery == [][tens.latched /\ ~tens'.latched => clears # {}]_vars

\* A severity-3 break reported to the feed task asserts DISABLE before long.
SevereBreakStops == report.sev = 3 ~> (~feed.on \/ report.sev # 3)

\* A collapse is latched only after CollapseMs of uninterrupted slack, counted
\* from the last reset.
LatchIsEarned == wpc = "wait" /\ clears = {} /\ tens.latched => slack = CollapseMs

\* A wire that parts under load in a cut is detected within CollapseMs of
\* samples.
SnapDetected == wpc = "wait" /\ snap = CollapseMs => tens.latched
===============================================================================
