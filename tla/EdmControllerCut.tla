--------------------------- MODULE EdmControllerCut ---------------------------
(***************************************************************************)
(* EdmController as an implementation of CutLifecycle.                     *)
(***************************************************************************)
EXTENDS EdmController

PhaseOf(st) ==
  IF st = "Idle" THEN "off"
  ELSE IF st = "Armed" THEN "armed"
  ELSE IF st \in Faulted THEN "faulted" ELSE "active"

TickOf(section) ==
  CASE section = "wait" -> "idle" [] section = "start" -> "aiming"
    [] section = "started" -> "started" [] OTHER -> "busy"

Cut == INSTANCE CutLifecycle WITH
         phase <- PhaseOf(state), spark <- cutting,
         shown <- [phase |-> PhaseOf(report.state), v |-> report.v],
         tick <- TickOf(pc), stopping <- gpc = "stopping"

\* Every step of the two threads is a step of the promised lifecycle, or none:
\* the generator starts from Armed only, a fault or a stop ends it, and without
\* calls inside a tick a report that moves the wire is one of a servoed cut or
\* of the tick that faulted it.
ImplementsCut == Cut!LifeSpec

-----------------------------------------------------------------------------
(* What the refinement needs beside TypeOK, with serialised calls. *)

\* A velocity is only computed in a servoed tick, and dropped before the next.
MovesServoed == loc.v # 0 => pc = "report" /\ state \in Servoing \cup Faulted
=============================================================================
