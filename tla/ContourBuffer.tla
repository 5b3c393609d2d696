---------------------------- MODULE ContourBuffer ----------------------------
(***************************************************************************)
(* The contour of one cut (EDM/Motion/ContourBuffer): the arc lengths of   *)
(* its vertices, in a buffer of Cap entries that drops its oldest vertex.  *)
(* Lengths are integers in units of kMinSegLen.  A pose is named by its    *)
(* distance along the programmed path, so interpolating between two        *)
(* vertices gives the arc length itself.                                   *)
(***************************************************************************)
EXTENDS Integers, Sequences

CONSTANT Cap   \* kMaxVertices (256)

ASSUME ContourAssumption == Cap \in Nat \ {0, 1}

reset == <<0>>

\* startS(), totalLen()
startS(c)   == Head(c)
totalLen(c) == c[Len(c)]

pushVertex(c, s) == Append(IF Len(c) >= Cap THEN Tail(c) ELSE c, s)

\* appendLine(): a vertex closer than kMinSegLen, in XY and in UV, is dropped.
appendLine(c, ds) == IF ds < 1 THEN c ELSE pushVertex(c, totalLen(c) + ds)

\* appendArc(): segs chords of the same length.
appendArc(c, segs, ds) ==
  LET after[i \in 0..segs] == IF i = 0 THEN c ELSE appendLine(after[i - 1], ds)
  IN after[segs]

\* poseAt(): held at the first and at the last vertex of the buffer.
poseAt(c, s) ==
  IF s <= startS(c) THEN startS(c)
  ELSE IF s >= totalLen(c) THEN totalLen(c) ELSE s

retractFloor(c, s_max, retract) ==
  IF s_max - retract < startS(c) THEN startS(c) ELSE s_max - retract
==============================================================================
