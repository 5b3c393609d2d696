----------------------------- MODULE MCProtocol ------------------------------
(***************************************************************************)
(* Constants for model checking Protocol.                                  *)
(***************************************************************************)
EXTENDS Protocol

\* Heights of the tool: it works two steps below the parking position, and the
\* pull-out is one step.
MCWorkZ == -2
==============================================================================
