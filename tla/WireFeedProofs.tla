---------------------------- MODULE WireFeedProofs ----------------------------
(***************************************************************************)
(* Theorems about the wire feed: what a latched collapse does to the feed, *)
(* when it is latched and how it is released.                              *)
(***************************************************************************)
EXTENDS WireFeed, TLAPS

-----------------------------------------------------------------------------
(* The copies of TensionState and the step of the controller. *)

\* The inputs of a sample and the widths of the counters.
LEMMA Numbers ==
  /\ Gaps \union {0} \subseteq Nat /\ Loads \union {0} \subseteq Nat
  /\ Setpoints \subseteq Nat /\ Severities \union {0} \subseteq 0..3
  /\ CollapseMs \in Nat /\ CollapseMs > 0 /\ Word \in Nat /\ Word > CollapseMs
  /\ Setpoint \in Setpoints /\ CollapseN \in Nat
BY TensionAssumption, FeedAssumption

LEMMA FieldsOfState == Fields = {"accum", "since", "latched"}
BY DEF Fields, TensionReset

LEMMA ResetIsState == TensionReset \in TensionState
BY Numbers DEF TensionReset, TensionState

\* Copying one field of a state into another changes that field only.
LEMMA CopyField ==
  ASSUME NEW t \in TensionState, NEW n \in TensionState, NEW f \in Fields
  PROVE  LET u == [t EXCEPT ![f] = n[f]] IN
         /\ u \in TensionState
         /\ u.accum = IF f = "accum" THEN n.accum ELSE t.accum
         /\ u.since = IF f = "since" THEN n.since ELSE t.since
         /\ u.latched = IF f = "latched" THEN n.latched ELSE t.latched
<1>1. f \in {"accum", "since", "latched"}
  BY FieldsOfState
<1>2. CASE f = "accum"
  BY <1>2 DEF TensionState
<1>3. CASE f = "since"
  BY <1>3 DEF TensionState
<1>4. CASE f = "latched"
  BY <1>4 DEF TensionState
<1> QED BY <1>1, <1>2, <1>3, <1>4

\* An input as control hands it to the controller.
Input == [cap : {0, 30, 60, 100}, sev : Severities \union {0}, cutting : BOOLEAN,
          m : Loads \union {0}, valid : BOOLEAN, dt : Gaps \union {0}, sp : Setpoints]

\* The saturating sum and the one of 32 bits stay in their words.
LEMMA DetectType ==
  ASSUME NEW s \in TensionState, NEW i \in Input
  PROVE  /\ detect(s, i) \in TensionState
         /\ s.latched => detect(s, i).latched
<1>1. s.accum \in Nat /\ s.since \in Nat /\ i.dt \in Nat
  BY Numbers DEF TensionState, Input
<1>2. s.latched \in BOOLEAN
  BY DEF TensionState
<1>3. sinceLoaded(s, i) \in 0 .. Word - 1
  BY <1>1, Numbers DEF sinceLoaded, TensionState
<1>4. accum(s, i, sinceLoaded(s, i)) \in 0 .. Word - 1
  <2>1. (s.accum + i.dt) % Word \in 0 .. Word - 1
    BY <1>1, Numbers
  <2> QED BY <1>1, <2>1, Numbers DEF accum
<1> QED BY <1>1, <1>2, <1>3, <1>4 DEF detect, TensionState

\* A latched step parks the feed.
LEMMA StepType ==
  ASSUME NEW s \in TensionState, NEW i \in Input
  PROVE  LET o == step(s, i) IN
         /\ o \in [next : TensionState, collapse : BOOLEAN, feed : {0, 30, 60, 100},
                   tension : {"hold", "servo"}]
         /\ o.next = detect(s, i)
         /\ o.collapse = o.next.latched
         /\ o.collapse => o.feed = 0
         /\ s.latched => o.next.latched
<1>1. detect(s, i) \in TensionState /\ (s.latched => detect(s, i).latched)
  BY DetectType
<1>2. detect(s, i).latched \in BOOLEAN
  BY <1>1 DEF TensionState
<1>3. i.cap \in {0, 30, 60, 100} /\ i.cutting \in BOOLEAN
  BY DEF Input
<1> QED BY <1>1, <1>2, <1>3 DEF step

LEMMA InputOK == TypeOK => [in EXCEPT !.sp = sp] \in Input
BY DEF TypeOK, Input

-----------------------------------------------------------------------------
(* Types *)

\* The history stays within the debounce time.
LEMMA HistType == TypeOK /\ observe => slack' \in 0 .. CollapseMs /\ snap' \in NoSnap .. CollapseMs
<1> SUFFICES ASSUME TypeOK, observe
    PROVE  slack' \in 0 .. CollapseMs /\ snap' \in NoSnap .. CollapseMs
  OBVIOUS
<1>1. in.dt \in Nat /\ slack \in 0 .. CollapseMs /\ snap \in NoSnap .. CollapseMs
  BY Numbers DEF TypeOK
<1> QED BY <1>1, Numbers DEF observe, hist, NoSnap

\* The step of control, on its own: what it computes and where it leads.
LEMMA ControlStep ==
  ASSUME TypeOK, control
  PROVE  LET i == [in EXCEPT !.sp = sp] IN
         /\ i \in Input /\ out' = step(tens, i)
         /\ out'.next = detect(tens, i)
         /\ out'.collapse = out'.next.latched
         /\ out'.collapse => out'.feed = 0
         /\ tens.latched => out'.next.latched
         /\ out' \in [next : TensionState, collapse : BOOLEAN,
                     feed : {0, 30, 60, 100}, tension : {"hold", "servo"}]
<1>1. [in EXCEPT !.sp = sp] \in Input /\ tens \in TensionState
  BY InputOK DEF TypeOK
<1>2. out' = step(tens, [in EXCEPT !.sp = sp])
  BY DEF control
<1> QED BY <1>1, <1>2, StepType

\* An input as the tick collects it, before the setpoint.
InType == [cap : {0, 30, 60, 100}, sev : Severities \union {0}, cutting : BOOLEAN,
           m : Loads \union {0}, valid : BOOLEAN, dt : Gaps \union {0}, sp : {0}]

LEMMA TypeInit == Init => TypeOK
<1> SUFFICES ASSUME Init PROVE TypeOK
  OBVIOUS
<1> QED BY Numbers, ResetIsState DEF Init, TypeOK, NoInput, NoOutput, NoSnap

LEMMA TypeStep == TypeOK /\ [Next]_vars => TypeOK'
<1> SUFFICES ASSUME TypeOK, [Next]_vars PROVE TypeOK'
  OBVIOUS
<1> USE DEF TypeOK
<1>1. CASE Servo
  <2>1. \A s \in Severities \union {0} : cap(s) \in {0, 30, 60, 100}
    BY DEF cap
  <2> QED BY <1>1, <2>1 DEF Servo, publishState, publishCap, publishSev, gens, hist
<1>2. ASSUME NEW m \in Loads \union {0}, NEW x \in BOOLEAN, NEW dt \in Gaps,
             readCap(m, x, dt), UNCHANGED <<report_vars, sp, clears>>
      PROVE  TypeOK'
  <2>1. in' = [cap |-> report.cap, sev |-> 0, cutting |-> FALSE, m |-> m,
               valid |-> x, dt |-> dt, sp |-> 0]
    BY <1>2 DEF readCap, NoInput
  <2>2. in' \in InType
    BY <2>1 DEF InType
  <2> QED BY <1>2, <2>2 DEF readCap, report_vars, gens, hist, InType
<1>3. ASSUME readSev \/ readState, UNCHANGED <<report_vars, sp, clears>>
      PROVE  TypeOK'
  BY <1>3 DEF readSev, readState, report_vars, gens, hist
<1>4. ASSUME control, UNCHANGED <<report_vars, sp, clears>>
      PROVE  TypeOK'
  <2>1. slack' \in 0 .. CollapseMs /\ snap' \in NoSnap .. CollapseMs
    BY <1>4, HistType DEF control
  <2>2. in' = [cap |-> 100, sev |-> in.sev, cutting |-> in.cutting, m |-> 0,
               valid |-> FALSE, dt |-> 0, sp |-> 0]
    BY <1>4 DEF control, NoInput
  <2>3. in' \in InType
    BY <2>2 DEF InType
  <2> QED BY <1>4, <2>1, <2>3, ControlStep DEF control, report_vars, gens, InType
<1>5. ASSUME store, UNCHANGED <<report_vars, sp, clears>>
      PROVE  TypeOK'
  <2>1. PICK f \in stores : /\ tens' = [tens EXCEPT ![f] = out.next[f]]
                            /\ stores' = stores \ {f}
                            /\ wpc' = IF stores = {f} THEN "drive" ELSE "store"
    BY <1>5 DEF store
  <2>2. tens' \in TensionState
    BY <2>1, CopyField
  <2> QED BY <1>5, <2>1, <2>2 DEF store, report_vars, gens, hist
<1>6. ASSUME drive, UNCHANGED <<report_vars, sp, clears>>
      PROVE  TypeOK'
  <2>1. feedOn \in BOOLEAN
    BY DEF feedOn
  <2> QED BY <1>6, <2>1, ResetIsState, Numbers DEF drive, NoInput, NoOutput, report_vars, hist
<1>7. CASE Commands
  <2>1. ASSUME NEW f \in clears, tens' = [tens EXCEPT ![f] = TensionReset[f]]
        PROVE  tens' \in TensionState
    BY <2>1, CopyField, ResetIsState
  <2> QED BY <1>7, <2>1, Numbers DEF Commands, resetCollapse, clear, forget,
       setTensionSetpointN, NoSnap, report_vars, gens, hist
<1>8. CASE UNCHANGED vars
  BY <1>8 DEF vars, report_vars, gens, hist
<1> HIDE DEF TypeOK
<1> QED BY <1>1, <1>2, <1>3, <1>4, <1>5, <1>6, <1>7, <1>8 DEF Next, Feed

\* The three tasks, the copies they make of TensionState and the two step
\* generators keep their types, for every configuration, reading and period.
THEOREM FeedTypeCorrect == Spec => []TypeOK
BY TypeInit, TypeStep, PTL DEF Spec

-----------------------------------------------------------------------------
(* The latch, with commands racing the tick *)

\* Between two ticks and up to the controller's step a latched collapse has
\* the feed parked.  From there to the step generators the latch of the output
\* is the one acted upon: it includes the latch of _state, which only a reset
\* of the field lowers meanwhile.
LatchInv ==
  /\ wpc \in {"wait", "sev", "state", "step"} /\ tens.latched
     => ~feed.on /\ feed.rate = 0
  /\ wpc \in {"store", "drive"}
     => /\ out.collapse = out.next.latched
        /\ out.collapse => out.feed = 0
        /\ tens.latched => out.next.latched
  /\ stores = {} \/ wpc = "store"

LEMMA LatchStep == TypeOK /\ LatchInv /\ [Next]_vars => LatchInv'
<1> SUFFICES ASSUME TypeOK, LatchInv, [Next]_vars PROVE LatchInv'
  OBVIOUS
<1>0. /\ tens \in TensionState /\ out.next \in TensionState
      /\ stores \subseteq Fields /\ clears \subseteq Fields
  BY DEF TypeOK
<1> USE DEF LatchInv
<1>1. CASE Servo
  BY <1>1 DEF Servo, gens
<1>2. ASSUME NEW m, NEW x, NEW dt, readCap(m, x, dt) \/ readSev \/ readState
      PROVE  LatchInv'
  BY <1>2 DEF readCap, readSev, readState, gens
<1>3. CASE control
  BY <1>3, ControlStep DEF control, gens
<1>4. CASE store
  <2>1. PICK f \in stores : /\ tens' = [tens EXCEPT ![f] = out.next[f]]
                            /\ stores' = stores \ {f}
                            /\ wpc' = IF stores = {f} THEN "drive" ELSE "store"
    BY <1>4 DEF store
  <2>2. tens'.latched = IF f = "latched" THEN out.next.latched ELSE tens.latched
    BY <1>0, <2>1, CopyField
  <2> QED BY <1>4, <2>1, <2>2 DEF store
<1>5. CASE drive
  BY <1>5 DEF drive, feedOn
<1>6. CASE Commands
  <2>1. ASSUME NEW f \in clears, tens' = [tens EXCEPT ![f] = TensionReset[f]]
        PROVE  tens'.latched => tens.latched
    BY <1>0, <2>1, CopyField, ResetIsState DEF TensionReset
  <2>2. tens'.latched => tens.latched
    BY <1>6, <2>1 DEF Commands, resetCollapse, clear, setTensionSetpointN
  <2> QED BY <1>6, <2>2 DEF Commands, gens
<1>7. CASE UNCHANGED vars
  BY <1>7 DEF vars, gens
<1> HIDE DEF LatchInv
<1> QED BY <1>1, <1>2, <1>3, <1>4, <1>5, <1>6, <1>7 DEF Next, Feed

LEMMA LatchInvariant == Spec => []LatchInv
<1>1. Init => LatchInv
  BY DEF Init, LatchInv, TensionReset
<1> QED BY <1>1, LatchStep, FeedTypeCorrect, PTL DEF Spec

\* Torn reads of the report, and resets that race the tick's copies, never
\* leave a latched collapse beside a feed that runs or is enabled.
THEOREM LatchParksFeed == Spec => []LatchedStopsFeed
<1>1. LatchInv => LatchedStopsFeed
  BY DEF LatchInv, LatchedStopsFeed
<1> QED BY <1>1, LatchInvariant, PTL

\* No step but a reset's write lowers the latch: the tick's copy of its own
\* output cannot, though a reset may have run since it was computed.
THEOREM OnlyResetUnlatches == Spec => NoAutoRecovery
<1>1. ASSUME TypeOK, LatchInv, [Next]_vars
      PROVE  [tens.latched /\ ~tens'.latched => clears # {}]_vars
  <2> USE <1>1
  <2>1. CASE store
    <3>1. PICK f \in stores : tens' = [tens EXCEPT ![f] = out.next[f]]
      BY <2>1 DEF store
    <3>2. tens'.latched = IF f = "latched" THEN out.next.latched ELSE tens.latched
      BY <3>1, CopyField DEF TypeOK
    <3> QED BY <2>1, <3>2 DEF store, LatchInv
  <2>2. CASE Commands
    BY <2>2 DEF Commands, resetCollapse, clear, setTensionSetpointN
  <2>3. CASE ~store /\ ~Commands
    BY <2>3 DEF Next, Servo, Feed, readCap, readSev, readState, control, drive, vars
  <2> QED BY <2>1, <2>2, <2>3
<1> QED BY <1>1, FeedTypeCorrect, LatchInvariant, PTL DEF Spec, NoAutoRecovery

-----------------------------------------------------------------------------
(* Commands between ticks: when a collapse is latched *)

\* The state the tick has decided on: its output until it is stored.
decided == IF wpc \in {"store", "drive"} THEN out.next ELSE tens

\* The debounce never runs ahead of the slack seen, nor the latch of either.
Earned(s, sl) == /\ s.accum <= sl \/ sl = CollapseMs
                 /\ s.latched => sl = CollapseMs

\* A snap is counted by both clocks of the detector, up to the latch.
Counted(s, sn) == /\ sn \in 0 .. CollapseMs - 1 => s.since = sn /\ s.accum = sn
                  /\ sn = CollapseMs => s.latched

\* A reset runs between ticks and starts both histories over.
ResetAlone ==
  clears # {} => /\ wpc = "wait" /\ slack = 0 /\ snap = NoSnap
                 /\ "accum" \in clears \/ tens.accum = 0
                 /\ "latched" \in clears \/ ~tens.latched

\* The fields the tick has stored are those of its output.
Stored ==
  wpc \in {"store", "drive"} => /\ "accum" \in stores \/ tens.accum = out.next.accum
                                /\ "since" \in stores \/ tens.since = out.next.since
                                /\ "latched" \in stores \/ tens.latched = out.next.latched

EarnedInv == /\ ResetAlone /\ Stored
             /\ clears = {} => Earned(decided, slack)

\* What makes a snap detectable: a sample at the setpoint is a loaded one and
\* one at 0 a collapsed one at every setpoint and severity in use, and the
\* debounce ends while the wire still counts as recently loaded.
SnapConditions ==
  /\ CollapseN \in 1 .. Setpoint
  /\ \A n \in Setpoints, s \in Severities \union {0} :
        /\ 10000 * Setpoint > LoadedPct * n * Scale[s]
        /\ CollapsePct * n * Scale[s] > 0
  /\ \A d \in Gaps : CollapseMs + d <= LoadedRecent + 1

\* The two histories as observe computes them from a sample.
add(t, i) == IF t + i.dt > CollapseMs THEN CollapseMs ELSE t + i.dt
slackAfter(s, sl, i) == IF i.m < CollapseN THEN add(sl, i) ELSE IF s.latched THEN sl ELSE 0
snapAfter(sn, i) == IF i.m = Setpoint THEN 0 ELSE IF i.m > 0 THEN NoSnap
                    ELSE IF sn >= 0 THEN add(sn, i) ELSE sn

LEMMA DetectEarned ==
  ASSUME NEW s \in TensionState, NEW i \in Input, i.cutting, i.valid,
         NEW sl \in 0 .. CollapseMs, Earned(s, sl)
  PROVE  Earned(detect(s, i), slackAfter(s, sl, i))
<1> DEFINE since == sinceLoaded(s, i)
           acc   == accum(s, i, since)
<1>1. s.accum \in Nat /\ i.dt \in Nat /\ i.m \in Nat
  BY Numbers DEF TensionState, Input
<1>2. acc = 0 \/ (i.m < CollapseN /\ acc \in Nat /\ acc <= s.accum + i.dt)
  <2>1. (s.accum + i.dt) % Word \in Nat /\ (s.accum + i.dt) % Word <= s.accum + i.dt
    BY <1>1, Numbers
  <2> QED BY <2>1 DEF accum, below
<1>3. /\ detect(s, i).accum = acc
      /\ detect(s, i).latched => s.latched \/ acc >= CollapseMs
  BY DEF detect
<1>4. slackAfter(s, sl, i) \in 0 .. CollapseMs
  BY <1>1, Numbers DEF slackAfter, add
<1> HIDE DEF since, acc
<1>5. CASE acc = 0
  BY <1>1, <1>3, <1>4, <1>5, Numbers DEF Earned, slackAfter, add
<1>6. CASE i.m < CollapseN /\ acc \in Nat /\ acc <= s.accum + i.dt
  BY <1>1, <1>3, <1>6, Numbers DEF Earned, slackAfter, add
<1> QED BY <1>2, <1>5, <1>6

LEMMA DetectCounted ==
  ASSUME SnapConditions, NEW s \in TensionState, NEW i \in Input, i.cutting, i.valid,
         i.dt \in Gaps, NEW sn \in NoSnap .. CollapseMs, Counted(s, sn)
  PROVE  Counted(detect(s, i), snapAfter(sn, i))
<1> DEFINE since == sinceLoaded(s, i)
           acc   == accum(s, i, since)
<1>1. /\ s.accum \in Nat /\ s.since \in Nat /\ i.dt \in Nat /\ i.m \in Nat
      /\ i.sp \in Setpoints /\ i.sev \in Severities \union {0}
  BY Numbers DEF TensionState, Input
<1>2. /\ detect(s, i).accum = acc /\ detect(s, i).since = since
      /\ s.latched \/ acc >= CollapseMs => detect(s, i).latched
  BY DEF detect
<1>3. LoadedPct * i.sp * Scale[i.sev] \in Nat
  <2>1. i.sp \in Nat /\ Scale[i.sev] \in Nat /\ LoadedPct \in Nat
    BY <1>1, Numbers, TensionAssumption
  <2> QED BY <2>1
<1>4. /\ CollapsePct * i.sp * Scale[i.sev] > 0
      /\ 10000 * Setpoint > LoadedPct * i.sp * Scale[i.sev]
  BY <1>1 DEF SnapConditions
<1>5. CASE i.m = Setpoint
  <2>1. loaded(i) /\ ~below(i)
    BY <1>1, <1>4, <1>5, Numbers DEF loaded, below, SnapConditions
  <2>2. since = 0 /\ acc = 0
    BY <2>1 DEF sinceLoaded, accum
  <2> QED BY <1>2, <1>5, <2>2, Numbers DEF Counted, snapAfter
<1>6. CASE i.m # Setpoint /\ i.m > 0
  BY <1>6, Numbers DEF Counted, snapAfter, NoSnap
<1>7. CASE i.m # Setpoint /\ i.m = 0 /\ sn = NoSnap
  BY <1>7, Numbers DEF Counted, snapAfter, NoSnap
<1>8. CASE i.m # Setpoint /\ i.m = 0 /\ sn = CollapseMs
  <2>1. snapAfter(sn, i) = CollapseMs
    BY <1>1, <1>8, Numbers DEF snapAfter, add
  <2> QED BY <1>2, <1>8, <2>1, Numbers DEF Counted
<1>9. CASE i.m # Setpoint /\ i.m = 0 /\ sn \in 0 .. CollapseMs - 1
  <2>1. ~loaded(i) /\ below(i)
    BY <1>3, <1>4, <1>9, Numbers DEF loaded, below, SnapConditions
  <2>2. s.since = sn /\ s.accum = sn
    BY <1>9 DEF Counted
  <2>3. sn + i.dt <= LoadedRecent /\ sn + i.dt < Word /\ sn + i.dt \in Nat
    BY <1>1, <1>9, Numbers, TensionAssumption DEF SnapConditions
  <2>4. since = sn + i.dt
    BY <2>1, <2>2, <2>3, Numbers DEF sinceLoaded
  <2>5. acc = sn + i.dt
    <3>1. (sn + i.dt) % Word = sn + i.dt
      BY <2>3, Numbers
    <3> QED BY <2>1, <2>2, <2>3, <2>4, <3>1 DEF accum, recently
  <2>6. snapAfter(sn, i) = IF sn + i.dt > CollapseMs THEN CollapseMs ELSE sn + i.dt
    BY <1>9, Numbers DEF snapAfter, add
  <2> QED BY <1>1, <1>2, <1>9, <2>4, <2>5, <2>6, Numbers DEF Counted
<1> QED BY <1>1, <1>5, <1>6, <1>7, <1>8, <1>9, Numbers DEF NoSnap

SnapInv == /\ wpc \in {"sev", "state", "step"} => in.dt \in Gaps
           /\ Counted(decided, snap)

\* Everything the two histories rest on.
HistInv == TypeOK /\ LatchInv /\ EarnedInv

\* What a step does to the state decided on: only control moves it, and the
\* histories with it, and only a reset gives it up, with the histories.
LEMMA DecidedStep ==
  ASSUME Serialised, HistInv, [Next]_vars
  PROVE  /\ ResetAlone' /\ Stored'
         /\ \/ UNCHANGED <<decided, slack, snap>> /\ clears' = clears
            \/ slack' = 0 /\ snap' = NoSnap /\ (clears' = {} => tens'.accum = 0 /\ ~tens'.latched)
               /\ wpc' = "wait"
            \/ control /\ clears' = clears /\ decided = tens
               /\ decided' = detect(tens, [in EXCEPT !.sp = sp])
<1> USE DEF HistInv
<1>0. /\ tens \in TensionState /\ out.next \in TensionState
      /\ stores \subseteq Fields /\ clears \subseteq Fields
  BY DEF TypeOK
<1>a. stores = {} \/ wpc = "store"
  BY DEF LatchInv
<1>b. ResetAlone /\ Stored
  BY DEF EarnedInv
<1> USE DEF ResetAlone, Stored, decided
<1>1. CASE Servo
  BY <1>1, <1>b DEF Servo, hist
<1>2. ASSUME NEW m, NEW x, NEW dt, readCap(m, x, dt) \/ readSev \/ readState,
             UNCHANGED <<report_vars, sp, clears>>
      PROVE  /\ ResetAlone' /\ Stored'
             /\ UNCHANGED <<decided, slack, snap>> /\ clears' = clears
  BY <1>2, <1>b DEF readCap, readSev, readState, hist
<1>3. ASSUME control, UNCHANGED <<report_vars, sp, clears>>
      PROVE  /\ ResetAlone' /\ Stored'
             /\ clears' = clears /\ decided = tens
             /\ decided' = detect(tens, [in EXCEPT !.sp = sp])
  <2>1. clears = {} /\ clears' = {} /\ wpc = "step" /\ wpc' = "store" /\ stores' = Fields
    BY <1>3, <1>b DEF control
  <2> QED BY <1>3, <2>1, ControlStep, FieldsOfState
<1>4. ASSUME store, UNCHANGED <<report_vars, sp, clears>>
      PROVE  /\ ResetAlone' /\ Stored'
             /\ UNCHANGED <<decided, slack, snap>> /\ clears' = clears
  <2>1. PICK f \in stores : /\ tens' = [tens EXCEPT ![f] = out.next[f]]
                            /\ stores' = stores \ {f}
                            /\ wpc' = IF stores = {f} THEN "drive" ELSE "store"
    BY <1>4 DEF store
  <2>2. /\ tens'.accum = IF f = "accum" THEN out.next.accum ELSE tens.accum
        /\ tens'.since = IF f = "since" THEN out.next.since ELSE tens.since
        /\ tens'.latched = IF f = "latched" THEN out.next.latched ELSE tens.latched
    BY <1>0, <2>1, CopyField
  <2>3. wpc = "store" /\ UNCHANGED <<out, slack, snap, clears>> /\ clears = {}
    BY <1>4, <1>b DEF store, hist
  <2> QED BY <2>1, <2>2, <2>3, <1>b
<1>5. ASSUME drive, UNCHANGED <<report_vars, sp, clears>>
      PROVE  /\ ResetAlone' /\ Stored'
             /\ UNCHANGED <<decided, slack, snap>> /\ clears' = clears
  <2>1. /\ wpc = "drive" /\ wpc' = "wait" /\ stores = {} /\ clears' = {}
        /\ clears = {} /\ UNCHANGED <<tens, slack, snap>>
    BY <1>5, <1>a, <1>b DEF drive, hist
  <2>2. tens = out.next
    BY <1>0, <1>b, <2>1 DEF TensionState
  <2> QED BY <2>1, <2>2
<1>6. CASE Commands
  <2>1. wpc = "wait" /\ wpc' = "wait"
    BY <1>6 DEF Commands, resetCollapse, clear, setTensionSetpointN, between
  <2>2. CASE resetCollapse
    BY <1>6, <2>1, <2>2, FieldsOfState DEF resetCollapse, forget
  <2>3. CASE clear
    <3>1. PICK f \in clears : /\ tens' = [tens EXCEPT ![f] = TensionReset[f]]
                              /\ clears' = clears \ {f}
      BY <2>3 DEF clear
    <3>2. /\ tens'.accum = IF f = "accum" THEN 0 ELSE tens.accum
          /\ tens'.latched = IF f = "latched" THEN FALSE ELSE tens.latched
      <4>1. /\ tens'.accum = IF f = "accum" THEN TensionReset.accum ELSE tens.accum
            /\ tens'.latched = IF f = "latched" THEN TensionReset.latched ELSE tens.latched
        BY <1>0, <3>1, CopyField, ResetIsState
      <4> QED BY <4>1 DEF TensionReset
    <3> QED BY <1>b, <2>1, <2>3, <3>1, <3>2 DEF clear, forget
  <2>4. CASE \E n \in Setpoints : setTensionSetpointN(n)
    BY <2>1, <2>4 DEF setTensionSetpointN, hist
  <2> QED BY <1>6, <2>2, <2>3, <2>4 DEF Commands
<1>7. CASE UNCHANGED vars
  BY <1>7, <1>b DEF vars, hist
<1> HIDE DEF ResetAlone, Stored, decided
<1> QED BY <1>1, <1>2, <1>3, <1>4, <1>5, <1>6, <1>7 DEF Next, Feed

\* What control adds to the histories.
LEMMA Observed ==
  ASSUME Serialised, TypeOK, control
  PROVE  LET i == [in EXCEPT !.sp = sp] IN
         \/ /\ i.cutting /\ i.valid /\ i.dt = in.dt
            /\ slack' = slackAfter(tens, slack, i) /\ snap' = snapAfter(snap, i)
         \/ detect(tens, i) = tens /\ UNCHANGED <<slack, snap>>
<1> DEFINE i == [in EXCEPT !.sp = sp]
<1>1. /\ i.cutting = in.cutting /\ i.valid = in.valid /\ i.dt = in.dt /\ i.m = in.m
      /\ i.cutting \in BOOLEAN /\ i.valid \in BOOLEAN
  BY DEF TypeOK
<1>2. observe
  BY DEF control
<1>3. CASE in.cutting /\ in.valid
  BY <1>1, <1>2, <1>3 DEF observe, slackAfter, snapAfter, add
<1>4. CASE ~(in.cutting /\ in.valid)
  BY <1>1, <1>2, <1>4 DEF observe, detect, hist
<1> QED BY <1>3, <1>4

LEMMA EarnedStep ==
  ASSUME Serialised
  PROVE  HistInv /\ [Next]_vars => EarnedInv'
<1> SUFFICES ASSUME HistInv, [Next]_vars PROVE clears' = {} => Earned(decided, slack)'
  BY DecidedStep DEF EarnedInv
<1>1. TypeOK /\ (clears = {} => Earned(decided, slack))
  BY DEF HistInv, EarnedInv
<1>2. CASE UNCHANGED <<decided, slack, snap>> /\ clears' = clears
  BY <1>1, <1>2 DEF Earned
<1>3. CASE slack' = 0 /\ (clears' = {} => tens'.accum = 0 /\ ~tens'.latched) /\ wpc' = "wait"
  BY <1>3, Numbers DEF Earned, decided
<1>4. CASE control /\ clears' = clears /\ decided = tens
           /\ decided' = detect(tens, [in EXCEPT !.sp = sp])
  <2>1. /\ tens \in TensionState /\ slack \in 0 .. CollapseMs
        /\ [in EXCEPT !.sp = sp] \in Input
    BY <1>1, InputOK DEF TypeOK
  <2> SUFFICES ASSUME clears = {} PROVE Earned(decided', slack')
    BY <1>4 DEF Earned
  <2>2. Earned(tens, slack)
    BY <1>1, <1>4
  <2>3. CASE slack' = slack /\ decided' = tens
    BY <2>2, <2>3
  <2>4. CASE slack' = slackAfter(tens, slack, [in EXCEPT !.sp = sp])
             /\ [in EXCEPT !.sp = sp].cutting /\ [in EXCEPT !.sp = sp].valid
    BY <1>4, <2>1, <2>2, <2>4, DetectEarned
  <2> QED BY <1>1, <1>4, <2>3, <2>4, Observed
<1> QED BY <1>2, <1>3, <1>4, DecidedStep

LEMMA EarnedInvariant == ASSUME Serialised PROVE Spec => []HistInv
<1>1. Init => EarnedInv
  BY Numbers DEF Init, EarnedInv, ResetAlone, Stored, Earned, decided, TensionReset
<1>2. TypeOK /\ LatchInv /\ EarnedInv /\ [Next]_vars => EarnedInv'
  BY EarnedStep DEF HistInv
<1>3. Spec => []EarnedInv
  BY <1>1, <1>2, FeedTypeCorrect, LatchInvariant, PTL DEF Spec
<1> QED BY <1>3, FeedTypeCorrect, LatchInvariant, PTL DEF HistInv

\* With resets between ticks, for every reading, setpoint and severity: a
\* collapse is latched only after a full debounce time of slack since the last
\* reset, however the samples and the ends of cuts fell.
THEOREM CollapseIsEarned == ASSUME Serialised PROVE Spec => []LatchIsEarned
<1>1. HistInv => LatchIsEarned
  BY DEF HistInv, EarnedInv, Earned, decided, LatchIsEarned
<1> QED BY <1>1, EarnedInvariant, PTL

LEMMA SnapStep ==
  ASSUME Serialised, SnapConditions
  PROVE  HistInv /\ SnapInv /\ [Next]_vars => SnapInv'
<1> SUFFICES ASSUME HistInv, SnapInv, [Next]_vars PROVE SnapInv'
  OBVIOUS
<1>1. TypeOK /\ Counted(decided, snap)
  BY DEF HistInv, SnapInv
<1>2. (wpc \in {"sev", "state", "step"} => in.dt \in Gaps)'
  <2>1. \A m, x : \A dt \in Gaps : readCap(m, x, dt) => in'.dt \in Gaps
    BY DEF readCap, NoInput
  <2>2. readSev \/ readState => in'.dt \in Gaps
    BY <1>1 DEF readSev, readState, SnapInv, TypeOK
  <2>3. control \/ store \/ drive => wpc' \in {"store", "drive", "wait"}
    BY DEF control, store, drive
  <2>4. Servo \/ Commands \/ UNCHANGED vars => UNCHANGED <<wpc, in>>
    BY DEF Servo, Commands, vars
  <2>5. Feed => in'.dt \in Gaps \/ wpc' \in {"store", "drive", "wait"}
    BY <2>1, <2>2, <2>3 DEF Feed
  <2> QED BY <2>4, <2>5 DEF Next, SnapInv
<1>3. Counted(decided, snap)'
  <2>1. CASE UNCHANGED <<decided, slack, snap>>
    BY <1>1, <2>1 DEF Counted
  <2>2. CASE snap' = NoSnap
    BY <2>2, Numbers DEF Counted, NoSnap
  <2>3. CASE control /\ decided = tens /\ decided' = detect(tens, [in EXCEPT !.sp = sp])
    <3>1. /\ tens \in TensionState /\ snap \in NoSnap .. CollapseMs
          /\ [in EXCEPT !.sp = sp] \in Input /\ in.dt \in Gaps
      BY <1>1, <2>3, InputOK DEF TypeOK, SnapInv, control
    <3> QED BY <1>1, <2>3, <3>1, Observed, DetectCounted DEF Counted
  <2> QED BY <2>1, <2>2, <2>3, DecidedStep
<1> QED BY <1>2, <1>3 DEF SnapInv

\* With resets between ticks, under conditions on the configuration that the
\* defaults meet below severity 3: a wire that parts right after a loaded
\* sample is latched as soon as CollapseMs of parted samples are in.
THEOREM SnapIsLatched ==
  ASSUME Serialised, SnapConditions PROVE Spec => []SnapDetected
<1>1. Init => SnapInv
  BY Numbers DEF Init, SnapInv, Counted, NoSnap
<1>2. SnapInv => SnapDetected
  BY DEF SnapInv, Counted, decided, SnapDetected
<1> QED BY <1>1, <1>2, SnapStep, EarnedInvariant, PTL DEF Spec
===============================================================================
