--------------------------- MODULE TensionController ---------------------------
(***************************************************************************)
(* One step of the wire tension controller (EDM/Feed/TensionController):   *)
(* the latching detector of a mechanical collapse and what it does to the  *)
(* feed.  Forces are in tenths of a newton, factors in percent.  The PI    *)
(* correction of the tension rate is left out: the rate is either "hold"   *)
(* or "servo".                                                             *)
(***************************************************************************)
EXTENDS Integers

CONSTANTS
  Scale,         \* sev_tension_scale, severity 0..3 -> percent
  CollapseN,     \* collapse_N
  CollapsePct,   \* collapse_frac
  LoadedPct,     \* loaded_frac
  LoadedRecent,  \* loaded_recent_ms
  CollapseMs,    \* collapse_ms
  Word           \* 2^32

ASSUME TensionAssumption ==
  /\ Scale \in [0..3 -> Nat]
  /\ {CollapseN, CollapsePct, LoadedPct, LoadedRecent} \subseteq Nat
  /\ CollapseMs \in Nat \ {0}
  /\ Word \in Nat /\ CollapseMs < Word /\ LoadedRecent < Word

\* The fields of TensionState the collapse detector uses.
TensionState == [accum : 0 .. Word - 1, since : 0 .. Word - 1, latched : BOOLEAN]
TensionReset == [accum |-> 0, since |-> 0, latched |-> FALSE]

\* in.measured_N against loaded_frac, collapse_frac of sp_eff = sp * Scale[sev].
loaded(in) == 10000 * in.m > LoadedPct * in.sp * Scale[in.sev]
below(in)  == in.m < CollapseN /\ 10000 * in.m < CollapsePct * in.sp * Scale[in.sev]

\* Mutant: since_loaded_ms is added up without its saturation.
sinceLoaded_Unbounded(s, in) == IF loaded(in) THEN 0 ELSE s.since + in.dt

\* since_loaded_ms saturates.
sinceLoaded(s, in) ==
  IF loaded(in) THEN 0
  ELSE IF s.since + in.dt >= Word THEN Word - 1 ELSE s.since + in.dt

recently(in, since) == loaded(in) \/ since <= LoadedRecent

\* Mutant: the debounce forgets to start over after a good sample.
accum_Sticky(s, in, since) ==
  IF below(in) /\ recently(in, since) THEN (s.accum + in.dt) % Word ELSE s.accum

accum(s, in, since) ==
  IF below(in) /\ recently(in, since) THEN (s.accum + in.dt) % Word ELSE 0

\* Mutant: the collapse is recomputed, not latched.
detect_AutoRecovers(s, in) ==
  LET since == sinceLoaded(s, in)
      acc   == accum(s, in, since)
  IN IF in.cutting /\ in.valid
     THEN [accum |-> acc, since |-> since, latched |-> acc >= CollapseMs] ELSE s

\* Mutant: a loaded sample does not restart the "recently loaded" clock.
detect_NeverLoaded(s, in) ==
  LET since == IF s.since + in.dt >= Word THEN Word - 1 ELSE s.since + in.dt
      acc   == accum(s, in, since)
  IN IF in.cutting /\ in.valid
     THEN [accum |-> acc, since |-> since, latched |-> s.latched \/ acc >= CollapseMs]
     ELSE s

\* The detector runs on fresh samples of a cut only.
detect(s, in) ==
  LET since == sinceLoaded(s, in)
      acc   == accum(s, in, since)
  IN IF in.cutting /\ in.valid
     THEN [accum |-> acc, since |-> since, latched |-> s.latched \/ acc >= CollapseMs]
     ELSE s

\* The output of a step: the next state and the two rates.  The feed rate is
\* the controller's cap in percent of the default feed.
step(s, in) ==
  LET next    == detect(s, in)
      stopped == in.sev >= 3 \/ next.latched
  IN [next     |-> next,
      collapse |-> next.latched,
      feed     |-> IF stopped \/ ~in.cutting THEN 0 ELSE in.cap,
      tension  |-> IF stopped THEN "hold" ELSE "servo"]
===============================================================================
