----------------------------- MODULE PathSampler -----------------------------
(***************************************************************************)
(* One step of the path sampler (EDM/Motion/PathSampler): the commanded    *)
(* velocity becomes progress along the contour, and progress becomes short *)
(* segments for the planner.  Lengths, velocities and times are integers   *)
(* with length = velocity * time.                                          *)
(***************************************************************************)
EXTENDS ContourBuffer

CONSTANTS DtMin, DtMax,     \* dt_min_s, dt_max_s
          SegMin, SegMax,   \* seg_min_mm, seg_max_mm
          AMax, VMax,       \* a_max_mm_s2, v_max_mm_s
          VFloor,           \* v_floor_um_s
          RetractMax,       \* retract_max_mm
          EpsEnd            \* eps_end_mm

\* The order of the defaults of SamplerConfig, which is all the code uses: a
\* step of at most 0.002 mm, segments of 0.02 to 0.15 mm, a retract window of
\* 3 mm, and an acceleration that stops from full speed within the shortest step.
ASSUME SamplerAssumption ==
  /\ DtMin \in Nat \ {0} /\ DtMax \in Nat /\ DtMin <= DtMax
  /\ SegMin \in Nat \ {0} /\ SegMax \in Nat
  /\ AMax \in Nat /\ VMax \in Nat \ {0} /\ VFloor \in Nat
  /\ RetractMax \in Nat /\ EpsEnd \in Nat \ {0}
  /\ EpsEnd < SegMin /\ SegMin + VMax * DtMax <= SegMax /\ SegMin <= RetractMax
  /\ VMax <= AMax * DtMin

Abs(x) == IF x < 0 THEN -x ELSE x
Sgn(x) == IF x > 0 THEN 1 ELSE IF x < 0 THEN -1 ELSE 0
Lesser(x, y) == IF x < y THEN x ELSE y
clampf(x, lo, hi) == IF x < lo THEN lo ELSE IF x > hi THEN hi ELSE x

\* SamplerState and SampleResult at the start of a contour.
NewState == [s |-> 0, s_max |-> 0, s_emit |-> 0, v |-> 0, dir |-> 0]
NoResult == [emit |-> FALSE, target |-> 0, block_done |-> FALSE]

\* The slew-limited velocity of this step.
slew(v, v_cmd, dt) ==
  LET target == clampf(IF Abs(v_cmd) < VFloor THEN 0 ELSE v_cmd, -VMax, VMax)
  IN clampf(target, v - AMax * dt, v + AMax * dt)

\* The point at most SegMax from s_emit towards s_want.
towards(s_emit, s_want) ==
  s_emit + Sgn(s_want - s_emit) * Lesser(Abs(s_want - s_emit), SegMax)

\* Reversal flush: progress that was not emitted is, before going back.
flush(c, st, v, dir) ==
  LET to == towards(st.s_emit, st.s) IN
  [st |-> [st EXCEPT !.v = v, !.s_emit = to, !.dir = dir],
   r  |-> [emit |-> TRUE, target |-> poseAt(c, to), block_done |-> FALSE]]

\* Mutant: a retract is only held at the start of the contour.
progress_NoWindow(c, st, ds) ==
  IF ds > 0 THEN Lesser(st.s + ds, totalLen(c))
  ELSE IF st.s + ds < startS(c) THEN startS(c) ELSE st.s + ds

\* s_want: progress within the end of the contour and the retract window.
progress(c, st, ds) ==
  IF ds > 0 THEN Lesser(st.s + ds, totalLen(c))
  ELSE LET floor == retractFloor(c, st.s_max, RetractMax)
       IN IF st.s + ds < floor THEN floor ELSE st.s + ds

\* Mutant: a segment of exactly seg_min waits for another step.
wantEmit_Over(pending, block_done) == pending > SegMin \/ block_done

wantEmit(pending, block_done) == pending >= SegMin \/ block_done

\* Progress in direction dir, emitted once it makes a segment or ends the block.
advance(c, st, v, dir, ds) ==
  LET s_want == progress(c, st, ds)
      block_done == dir > 0 /\ s_want >= totalLen(c) - EpsEnd
      emit == wantEmit(Abs(s_want - st.s_emit), block_done)
      \* held at s_want when s_emit lies ahead of it
      ahead == st.s_emit + dir * Lesser(Abs(s_want - st.s_emit), SegMax)
      to == IF dir * (ahead - s_want) > 0 THEN s_want ELSE ahead
  IN
  [st |-> [s |-> s_want, v |-> v, dir |-> dir,
           s_max  |-> IF dir > 0 /\ s_want > st.s_max THEN s_want ELSE st.s_max,
           s_emit |-> IF emit THEN to ELSE st.s_emit],
   r  |-> [emit |-> emit, target |-> IF emit THEN poseAt(c, to) ELSE 0,
           block_done |-> block_done]]

step(c, st, v_cmd, elapsed) ==
  LET dt  == clampf(elapsed, DtMin, DtMax)
      v   == slew(st.v, v_cmd, dt)
      ds  == v * dt
      dir == Sgn(ds)
      reverses == dir # 0 /\ st.dir # 0 /\ dir # st.dir
  IN
  IF reverses /\ Abs(st.s - st.s_emit) >= EpsEnd THEN flush(c, st, v, dir)
  ELSE IF dir = 0 THEN [st |-> [st EXCEPT !.v = v, !.dir = 0], r |-> NoResult]
  ELSE advance(c, st, v, dir, ds)
==============================================================================
