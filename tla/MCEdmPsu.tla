------------------------------ MODULE MCEdmPsu ------------------------------
(***************************************************************************)
(* Constants for model checking EdmPsu: every window touches, a window     *)
(* that is no use to the servo being as good as none.                      *)
(***************************************************************************)
EXTENDS EdmPsu

MCRefusals == {{}, {"Rough"}}

MCWindows == {[enough |-> TRUE, open |-> 10, short |-> 5, arc |-> 5]}
=============================================================================
