----------------------------- MODULE MCEdmMotion -----------------------------
(***************************************************************************)
(* Constants for model checking EdmMotion: lines and arcs in units a       *)
(* quarter to a half of a motor step.                                      *)
(***************************************************************************)
EXTENDS EdmMotion

Line(ds) == [segs |-> 1, ds |-> ds]
Arc(segs, ds) == [segs |-> segs, ds |-> ds]

\* A line that ends between two steps and is longer than the retract window; an
\* arc that overflows its buffer by a chord a little longer than a segment, and
\* one by a chord of nearly two segments.
MCCuts == {Line(7), Arc(2, 5), Arc(2, 7)}

\* One short line, for the runs that look for a single behaviour.
MCShort == {Line(5)}

MCSpeeds == {-1, 0, 1}
==============================================================================
