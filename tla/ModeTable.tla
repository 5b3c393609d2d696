------------------------------ MODULE ModeTable ------------------------------
(***************************************************************************)
(* The energy modes of the EDM generator (EDM/Servo/ModeTable).  An S word *)
(* selects a mode by bands; a mode selects the SET_MODE_BOUNDS contents.   *)
(* The ModeParams of a mode are opaque: only which mode's parameters are   *)
(* sent, and the adaptive current set-point, are told apart.               *)
(***************************************************************************)
EXTENDS Integers

CONSTANTS
  IgniteMax,   \* ignite_max: largest S word of the Ignite band (99)
  FinishMax,   \* finish_max: largest S word of the Finish band (499)
  SMax,        \* upper end of the Rough band in build() (1000)
  Adaptive     \* adaptive_setpoint: scale the current with the S word

ASSUME ModeTableAssumption ==
  /\ IgniteMax \in Nat /\ FinishMax \in Nat /\ SMax \in Nat
  /\ 0 < IgniteMax /\ IgniteMax < FinishMax /\ FinishMax < SMax
  /\ Adaptive \in BOOLEAN

EdmMode == {"Idle", "Ignite", "Finish", "Rough"}

modeForSword(s) ==
  IF s = 0 THEN "Idle"
  ELSE IF s <= IgniteMax THEN "Ignite"
  ELSE IF s <= FinishMax THEN "Finish"
  ELSE "Rough"

\* params(): Idle has no parameters of its own and falls back on Ignite's.
params(m) == IF m \in {"Rough", "Finish"} THEN m ELSE "Ignite"

lowerEnergy(m) == IF m = "Rough" THEN "Finish" ELSE "Ignite"

Clamp(v, lo, hi) == IF v < lo THEN lo ELSE IF v > hi THEN hi ELSE v

\* The band of S words a mode interpolates its current over.
BandLo(m) == IF m = "Ignite" THEN 1
             ELSE IF m = "Finish" THEN IgniteMax + 1 ELSE FinishMax + 1
BandHi(m) == IF m = "Ignite" THEN IgniteMax
             ELSE IF m = "Finish" THEN FinishMax ELSE SMax

\* build(): the frame's contents without its sequence number.  at is the
\* point of the band the peak current is scaled for; 0 when it is not scaled.
Bounds == [id : {"Ignite", "Finish", "Rough"}, at : Nat]
build(m, s) ==
  [id |-> params(m),
   at |-> IF Adaptive /\ m # "Idle" THEN Clamp(s, BandLo(m), BandHi(m)) ELSE 0]
=============================================================================
