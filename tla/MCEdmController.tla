--------------------------- MODULE MCEdmController ---------------------------
(***************************************************************************)
(* Constants for model checking EdmController: an S word per energy mode   *)
(* and telemetry windows on each side of every threshold the code tests.   *)
(***************************************************************************)
EXTENDS EdmControllerCut

W(o, s, a) == [enough |-> TRUE, open |-> o, short |-> s, arc |-> a]

\* A good gap, a lost one, half open; a mild and a full short; an arc that
\* brakes and one that holds; then one with too few pulses.
MCWindows == {W(10, 5, 5), W(97, 1, 1), W(70, 5, 5), W(5, 20, 5), W(5, 60, 5),
              W(5, 5, 30), W(5, 5, 60),
              [enough |-> FALSE, open |-> 0, short |-> 0, arc |-> 0]}

\* One window per way of the servo, for the run with calls inside the ticks: it
\* advances, it has lost the gap, it retracts.
MCRaceWindows == {W(10, 5, 5), W(97, 1, 1), W(5, 60, 5)}
=============================================================================
