------------------------------ MODULE MCEdmDiel ------------------------------
(***************************************************************************)
(* Constants for model checking EdmDiel.                                   *)
(***************************************************************************)
EXTENDS EdmDiel

MCWindows == {[enough |-> TRUE, open |-> 10, short |-> 5, arc |-> 5]}

\* flowT of SimDielLink::tick().
MCFlowT == [l \in 0..3 |-> CASE l = 0 -> 40 [] l = 1 -> 260
                             [] l = 2 -> 460 [] l = 3 -> 680]
==============================================================================
