----------------------------- MODULE CutLifecycle -----------------------------
(***************************************************************************)
(* What the cut controller promises to the tasks around it: the phase of   *)
(* the cut, whether the generator sparks, and the report (phase and sign   *)
(* of the velocity) that the motion loop, the wire feed and the telemetry  *)
(* read.  EdmController implements it (EdmControllerCut), with calls       *)
(* between two ticks and inside them; EdmMotion is composed with it.       *)
(***************************************************************************)
EXTENDS Integers

CONSTANT Serialised   \* calls never overlap a tick

VARIABLES phase,    \* off, armed, active (touch-off to break relief) or faulted
          spark,    \* the generator was last told to cut
          shown,    \* the published report
          tick,     \* no tick, one that runs, one about to start the generator
                    \* or that just did
          stopping  \* requestStop() has stopped the generator, not yet the cut

cut == <<phase, spark, shown, tick, stopping>>

Phase == {"off", "armed", "active", "faulted"}
Moves == {-1, 0, 1}

LifeInit == /\ phase = "off" /\ spark = FALSE /\ tick = "idle" /\ stopping = FALSE
            /\ shown = [phase |-> "off", v |-> 0]

-----------------------------------------------------------------------------
(* The calls. *)

Callable == ~stopping /\ (Serialised => tick = "idle")

\* requestCut: M3 re-arms, even over a running cut.  A fault ignores it, unless
\* it comes between the test and the write.
M3 == /\ Callable /\ (Serialised => phase # "faulted")
      /\ phase' = "armed" /\ UNCHANGED <<spark, shown, tick, stopping>>

\* requestStop() stops the generator, then gives up the cut.
Quench == /\ Callable /\ spark' = FALSE /\ stopping' = TRUE
          /\ UNCHANGED <<phase, shown, tick>>
Stop   == /\ stopping /\ phase' = "off" /\ stopping' = FALSE
          /\ UNCHANGED <<spark, shown, tick>>

\* clearFault().
Clear == /\ Callable /\ phase = "faulted"
         /\ phase' = "off" /\ UNCHANGED <<spark, shown, tick, stopping>>

-----------------------------------------------------------------------------
(* The tick. *)

Wake == /\ tick = "idle" /\ (Serialised => ~stopping)
        /\ tick' = "busy" /\ UNCHANGED <<phase, spark, shown, stopping>>

\* The armed section decides to start the generator, starts it, and enters
\* touch-off: calls that come in between are overtaken.
Aim    == /\ tick = "busy" /\ phase = "armed"
          /\ tick' = "aiming" /\ UNCHANGED <<phase, spark, shown, stopping>>
Strike == /\ tick = "aiming"
          /\ tick' = "started" /\ spark' = TRUE
          /\ UNCHANGED <<phase, shown, stopping>>
Begin  == /\ tick = "started"
          /\ tick' = "busy" /\ phase' = "active"
          /\ UNCHANGED <<spark, shown, stopping>>

\* enterFault and the stall fault, from any phase.
Fail == /\ tick = "busy" /\ spark' = FALSE /\ phase' = "faulted"
        /\ UNCHANGED <<shown, tick, stopping>>

\* A severity-3 break enters its relief from any phase; it starts no spark.
Relieve == /\ tick = "busy"
           /\ phase' = "active" /\ UNCHANGED <<spark, shown, tick, stopping>>

\* The end of a tick.  Without calls inside it, only a servoed cut moves, and
\* the tick that faults it.
Publish ==
  /\ tick = "busy" /\ tick' = "idle"
  /\ \E v \in Moves : /\ shown' = [phase |-> phase, v |-> v]
                      /\ Serialised /\ v # 0 => phase \in {"active", "faulted"}
  /\ UNCHANGED <<phase, spark, stopping>>

\* The two threads of the controller.
Calls == M3 \/ Quench \/ Stop \/ Clear
Ticks == Wake \/ Aim \/ Strike \/ Begin \/ Fail \/ Relieve \/ Publish

Life == Calls \/ Ticks

LifeSpec == LifeInit /\ [][Life]_cut
===============================================================================
