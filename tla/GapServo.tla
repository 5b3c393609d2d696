------------------------------- MODULE GapServo -------------------------------
(***************************************************************************)
(* The gap servo (EDM/Servo/GapServo): one 1 kHz step from a telemetry     *)
(* window to a signed path velocity.  Ratios are percentages of the pulses *)
(* of the window, compared with the thresholds of ServoConfig.  The PI     *)
(* regulator is a filter over the reals: a step takes the sign of its      *)
(* output and whether the filtered error lies in the deadband as inputs,   *)
(* any combination being possible.  Velocities keep their sign: -1 is a    *)
(* retract, 0 a stop, 1 an advance.                                        *)
(***************************************************************************)
EXTENDS Integers

CONSTANT ShortLimit   \* consec_short_limit (3): short windows before a retract

ASSUME GapServoAssumption == ShortLimit \in Nat \ {0}

\* ServoConfig thresholds, in percent.
ShortRef2    == 16    \* short_ref * 2
ShortRetract == 30
ArcBrake     == 20
ArcHold      == 40

ServoState == {"Hold", "Track", "Retract", "ArcHold", "BreakRelief"}
Sign == {-1, 0, 1}

\* A telemetry window as the servo sees it; enough: at least n_min pulses.
Window == [enough : BOOLEAN, open : 0..100, short : 0..100, arc : 0..100]

\* Mutant: the count does not saturate.
ConsecShort_Unbounded(c, valid, w) ==
  IF ~valid THEN c ELSE IF w.short > ShortRef2 THEN c + 1 ELSE 0

\* Short windows in a row.  The code counts to 255; only >= ShortLimit is read.
ConsecShort(c, valid, w) ==
  IF ~valid THEN c
  ELSE IF w.short > ShortRef2 THEN (IF c < ShortLimit THEN c + 1 ELSE c)
  ELSE 0

\* The reflex ladder, first match wins: <<servo state, velocity before the cap>>.
\* touch: in_touch_off; relief: force_break_relief; c: the updated count;
\* vpi, db: what the PI regulator yields.  The arc taper is positive below
\* ArcHold, so braking keeps the sign of the regulator's output.
Ladder(valid, w, touch, relief, c, vpi, db) ==
  IF touch THEN <<"Track", 1>>
  ELSE IF ~valid THEN <<"Hold", 0>>
  ELSE IF relief THEN <<"BreakRelief", -1>>
  ELSE IF w.short > ShortRetract \/ c >= ShortLimit THEN <<"Retract", -1>>
  ELSE IF w.arc > ArcHold THEN <<"ArcHold", 0>>
  ELSE IF w.arc > ArcBrake THEN <<"Track", vpi>>
  ELSE <<IF db THEN "Hold" ELSE "Track", vpi>>

\* Mutant: the cap is ignored.
Capped_Ignored(v, cap) == v

\* feed_cap_mult only scales an advance: at 0 percent there is none.
Capped(v, cap) == IF v > 0 /\ cap = 0 THEN 0 ELSE v
===============================================================================
