--------------------------- MODULE EdmMotionProofs ---------------------------
(***************************************************************************)
(* Theorems about a cut move: where its segments lie, where it ends, and   *)
(* the generator after a move that was given up.                           *)
(***************************************************************************)
EXTENDS EdmMotion, WellFoundedInduction, SequenceTheorems, TLAPS

-----------------------------------------------------------------------------
(* Contours.  appendArc is a recursive function on 0..segs: what it computes *)
(* is proved by a least counterexample.                                      *)

\* A set of natural numbers has a least element.
LEMMA LeastNat ==
  ASSUME NEW T, T \subseteq Nat, T # {}
  PROVE  \E x \in T : \A y \in T : x <= y
<1> DEFINE R == OpToRel(<, Nat)
<1>1. PICK x \in T : \A y \in T : ~ (<<y, x>> \in R)
  BY NatLessThanWellFounded, WFMin
<1>2. \A y \in T : y < x => <<y, x>> \in R
  BY DEF OpToRel
<1>3. \A y \in T : ~(y < x)
  BY <1>1, <1>2
<1>4. \A y \in T : x <= y
  BY <1>3
<1> QED BY <1>4

\* The loop of appendArc, n chords of it.
Chords(c, ds, n, f) == f = [i \in 0..n |-> IF i = 0 THEN c ELSE appendLine(f[i - 1], ds)]

LEMMA ChordsExist == ASSUME NEW c, NEW ds, NEW n \in Nat PROVE \E f : Chords(c, ds, n, f)
<1> DEFINE Bad == {k \in Nat : ~ \E f : Chords(c, ds, k, f)}
<1> SUFFICES ASSUME Bad # {} PROVE FALSE
  OBVIOUS
<1>1. PICK k \in Bad : \A j \in Bad : k <= j
  <2> HIDE DEF Bad
  <2>1. Bad \subseteq Nat
    BY DEF Bad
  <2> QED BY <2>1, LeastNat
<1>2. k # 0
  <2>1. Chords(c, ds, 0, [i \in 0..0 |-> c])
    BY DEF Chords
  <2> QED BY <2>1
<1>3. k - 1 \in Nat /\ k - 1 \notin Bad
  BY <1>1, <1>2
<1>4. PICK f : Chords(c, ds, k - 1, f)
  BY <1>3
<1> DEFINE g == [i \in 0..k |-> IF i = k THEN appendLine(f[k - 1], ds) ELSE f[i]]
<1>5. \A i \in 0..k-1 : g[i] = f[i] /\ f[i] = IF i = 0 THEN c ELSE appendLine(f[i - 1], ds)
  BY <1>4 DEF Chords
<1>6. \A i \in 0..k : g[i] = IF i = 0 THEN c ELSE appendLine(g[i - 1], ds)
  BY <1>2, <1>3, <1>5
<1>7. g = [i \in 0..k |-> IF i = 0 THEN c ELSE appendLine(g[i - 1], ds)]
  BY <1>6
<1>8. Chords(c, ds, k, g)
  BY <1>7 DEF Chords
<1> QED BY <1>8

LEMMA ArcIsChords ==
  ASSUME NEW c, NEW ds, NEW n \in Nat
  PROVE  \E f : Chords(c, ds, n, f) /\ appendArc(c, n, ds) = f[n]
<1> DEFINE after == CHOOSE f : f = [i \in 0..n |-> IF i = 0 THEN c ELSE appendLine(f[i - 1], ds)]
<1>1. Chords(c, ds, n, after)
  BY ChordsExist DEF Chords
<1>2. appendArc(c, n, ds) = after[n]
  BY DEF appendArc
<1> QED BY <1>1, <1>2

\* A buffer of vertices, none of them beyond the last.
Contour(c) == /\ c \in Seq(Nat) /\ Len(c) \in 1..Cap
              /\ \A i \in 1..Len(c) : c[i] <= c[Len(c)]

LEMMA LineKeepsContour ==
  ASSUME NEW c, Contour(c), NEW ds \in Nat
  PROVE  Contour(appendLine(c, ds))
<1>1. CASE ds < 1
  BY <1>1 DEF appendLine, Contour
<1>2. CASE ds >= 1 /\ Len(c) < Cap
  <2>1. appendLine(c, ds) = Append(c, c[Len(c)] + ds)
    BY <1>2, ContourAssumption DEF appendLine, pushVertex, totalLen, Contour
  <2> QED BY <1>2, <2>1, ContourAssumption DEF Contour
<1>3. CASE ds >= 1 /\ Len(c) >= Cap
  <2>1. appendLine(c, ds) = Append(Tail(c), c[Len(c)] + ds)
    BY <1>3 DEF appendLine, pushVertex, totalLen
  <2>2. Tail(c) \in Seq(Nat) /\ Len(Tail(c)) = Len(c) - 1
        /\ \A i \in 1..Len(c) - 1 : Tail(c)[i] = c[i + 1]
    BY <1>3, ContourAssumption DEF Contour
  <2> DEFINE x == c[Len(c)] + ds
             d == Append(Tail(c), x)
  <2>3. /\ x \in Nat /\ Len(c) \in Nat /\ Len(c) = Cap
        /\ \A i \in 1..Len(c) : c[i] \in Nat /\ c[i] <= x
    BY <1>3, ContourAssumption DEF Contour
  <2> HIDE DEF x
  <2>4. /\ d \in Seq(Nat) /\ Len(d) = Len(c) /\ d[Len(c)] = x
        /\ \A i \in 1..Len(c) - 1 : d[i] = c[i + 1]
    BY <2>2, <2>3, ContourAssumption
  <2>5. d = appendLine(c, ds)
    BY <2>1 DEF x
  <2> HIDE DEF d
  <2>6. Contour(d)
    <3>1. ASSUME NEW i \in 1..Len(d) PROVE d[i] <= d[Len(d)]
      <4>1. CASE i = Len(c)
        BY <2>3, <2>4, <4>1
      <4>2. CASE i # Len(c)
        <5>1. i \in 1..Len(c) - 1 /\ i + 1 \in 1..Len(c)
          BY <2>3, <2>4, <4>2
        <5> QED BY <2>3, <2>4, <5>1
      <4> QED BY <4>1, <4>2
    <3> QED BY <2>3, <2>4, <3>1, ContourAssumption DEF Contour
  <2> QED BY <1>3, <2>3, <2>4, <2>5, <2>6
<1> QED BY <1>1, <1>2, <1>3, ContourAssumption DEF Contour

\* What the buffer holds after an arc, also one whose chords do not fit.
LEMMA ArcContour ==
  ASSUME NEW n \in Nat, NEW ds \in Nat
  PROVE  Contour(appendArc(reset, n, ds))
<1>1. PICK f : Chords(reset, ds, n, f) /\ appendArc(reset, n, ds) = f[n]
  BY ArcIsChords
<1> DEFINE Ok(k) == Contour(f[k])
           Bad == {k \in 0..n : ~Ok(k)}
<1>2. f[0] = reset /\ \A k \in 1..n : f[k] = appendLine(f[k - 1], ds)
  BY <1>1 DEF Chords
<1>3. Ok(0)
  BY <1>2, ContourAssumption DEF reset, Contour
<1>4. ASSUME NEW k \in 1..n, Ok(k - 1) PROVE Ok(k)
  <2>1. f[k] = appendLine(f[k - 1], ds)
    BY <1>2
  <2> QED BY <1>4, <2>1, LineKeepsContour
<1>5. Bad = {}
  <2> SUFFICES ASSUME Bad # {} PROVE FALSE
    OBVIOUS
  <2>1. Bad \subseteq Nat
    OBVIOUS
  <2> HIDE DEF Ok
  <2>2. PICK k \in Bad : \A j \in Bad : k <= j
    <3> HIDE DEF Bad
    <3> QED BY <2>1, LeastNat
  <2>3. k \in 1..n /\ k - 1 \in 0..n
    BY <1>3, <2>2
  <2>4. Ok(k - 1)
    BY <2>2, <2>3
  <2> QED BY <1>4, <2>2, <2>3, <2>4
<1>6. Ok(n)
  BY <1>5
<1> QED BY <1>1, <1>6

-----------------------------------------------------------------------------
(* One step of the sampler. *)

SamplerState == [s : Nat, s_max : Nat, s_emit : Nat, v : -VMax..VMax, dir : Moves]
SampleResult == [emit : BOOLEAN, target : Nat, block_done : BOOLEAN]

\* The longest step of the path parameter.
StepMax == VMax * DtMax

LEMMA Lengths ==
  /\ DtMin \in Nat /\ DtMin > 0 /\ DtMax \in Nat /\ DtMin <= DtMax
  /\ SegMin \in Nat /\ SegMin > 0 /\ SegMax \in Nat /\ StepMax \in Nat
  /\ SegMin + StepMax <= SegMax /\ SegMin <= RetractMax /\ RetractMax \in Nat
  /\ EpsEnd \in Nat /\ VMax \in Nat /\ AMax \in Nat /\ VFloor \in Nat
BY SamplerAssumption DEF StepMax

LEMMA SlewBound ==
  ASSUME NEW v \in -VMax..VMax, NEW w \in Int, NEW dt \in Nat
  PROVE  slew(v, w, dt) \in -VMax..VMax
<1>1. AMax * dt \in Nat
  BY Lengths
<1> QED BY <1>1, Lengths DEF slew, clampf, Abs

LEMMA StepBound ==
  ASSUME NEW v \in -VMax..VMax, NEW dt \in DtMin..DtMax
  PROVE  v * dt \in -StepMax..StepMax
<1>1. v \in Int /\ dt \in Nat /\ VMax - v \in Nat /\ VMax + v \in Nat /\ DtMax - dt \in Nat
  BY Lengths
<1>2. (VMax - v) * dt >= 0 /\ (VMax + v) * dt >= 0 /\ VMax * (DtMax - dt) >= 0
  BY <1>1, Lengths
<1>3. /\ (VMax - v) * dt = VMax * dt - v * dt /\ (VMax + v) * dt = VMax * dt + v * dt
      /\ VMax * (DtMax - dt) = VMax * DtMax - VMax * dt
  BY <1>1, Lengths
<1>4. v * dt \in Int /\ VMax * dt \in Int /\ VMax * DtMax \in Int
  BY <1>1, Lengths
<1> QED BY <1>2, <1>3, <1>4 DEF StepMax

\* The three outcomes of a step, with the distance it goes.
LEMMA StepCases ==
  ASSUME NEW c, NEW x \in SamplerState, NEW w \in Int, NEW e \in Nat
  PROVE  \E v \in -VMax..VMax, ds \in -StepMax..StepMax :
           \/ ds # 0 /\ step(c, x, w, e) = flush(c, x, v, Sgn(ds))
           \/ step(c, x, w, e) = [st |-> [x EXCEPT !.v = v, !.dir = 0], r |-> NoResult]
           \/ ds # 0 /\ step(c, x, w, e) = advance(c, x, v, Sgn(ds), ds)
<1> DEFINE dt == clampf(e, DtMin, DtMax)
           v  == slew(x.v, w, dt)
           ds == v * dt
<1>1. dt \in DtMin..DtMax /\ dt \in Nat /\ x.v \in -VMax..VMax
  BY Lengths DEF clampf, SamplerState
<1>2. v \in -VMax..VMax
  <2> HIDE DEF dt
  <2> QED BY <1>1, SlewBound
<1>3. ds \in -StepMax..StepMax
  <2> HIDE DEF dt, v
  <2> QED BY <1>1, <1>2, StepBound
<1>4. Sgn(ds) # 0 <=> ds # 0
  <2> HIDE DEF ds
  <2> QED BY <1>3, Lengths DEF Sgn
<1>5. \/ ds # 0 /\ step(c, x, w, e) = flush(c, x, v, Sgn(ds))
      \/ step(c, x, w, e) = [st |-> [x EXCEPT !.v = v, !.dir = 0], r |-> NoResult]
      \/ ds # 0 /\ step(c, x, w, e) = advance(c, x, v, Sgn(ds), ds)
  BY <1>4 DEF step
<1> HIDE DEF ds, v
<1> QED BY <1>2, <1>3, <1>5

LEMMA ContourNumbers ==
  ASSUME NEW c, Contour(c)
  PROVE  startS(c) \in Nat /\ totalLen(c) \in Nat /\ startS(c) = c[1] /\ startS(c) <= totalLen(c)
BY ContourAssumption DEF Contour, startS, totalLen

\* Whatever the contour and the command, a step keeps the types.
LEMMA StepType ==
  ASSUME NEW c, Contour(c), NEW x \in SamplerState, NEW w \in Int, NEW e \in Nat
  PROVE  step(c, x, w, e).st \in SamplerState /\ step(c, x, w, e).r \in SampleResult
<1>1. PICK v \in -VMax..VMax, ds \in -StepMax..StepMax :
           \/ ds # 0 /\ step(c, x, w, e) = flush(c, x, v, Sgn(ds))
           \/ step(c, x, w, e) = [st |-> [x EXCEPT !.v = v, !.dir = 0], r |-> NoResult]
           \/ ds # 0 /\ step(c, x, w, e) = advance(c, x, v, Sgn(ds), ds)
  BY StepCases
<1>2. /\ x.s \in Nat /\ x.s_emit \in Nat /\ x.s_max \in Nat
      /\ ds \in Int /\ SegMax \in Nat /\ RetractMax \in Nat /\ SegMin \in Nat
  BY Lengths DEF SamplerState
<1>3. startS(c) \in Nat /\ totalLen(c) \in Nat
  BY ContourNumbers
<1>4. \A p \in Nat : poseAt(c, p) \in Nat
  BY <1>3 DEF poseAt
<1>5. Sgn(ds) \in Moves
  BY DEF Sgn, Moves
<1>6. CASE step(c, x, w, e) = flush(c, x, v, Sgn(ds))
  <2>1. towards(x.s_emit, x.s) \in Nat
    BY <1>2 DEF towards, Sgn, Lesser, Abs
  <2>2. poseAt(c, towards(x.s_emit, x.s)) \in Nat
    BY <1>4, <2>1
  <2>3. /\ step(c, x, w, e).st = [x EXCEPT !.v = v, !.s_emit = towards(x.s_emit, x.s), !.dir = Sgn(ds)]
        /\ step(c, x, w, e).r = [emit |-> TRUE, target |-> poseAt(c, towards(x.s_emit, x.s)),
                                block_done |-> FALSE]
    BY <1>6 DEF flush
  <2>4. step(c, x, w, e).st \in SamplerState
    BY <1>5, <2>1, <2>3 DEF SamplerState
  <2>5. step(c, x, w, e).r \in SampleResult
    BY <2>2, <2>3 DEF SampleResult
  <2> QED BY <2>4, <2>5
<1>7. CASE step(c, x, w, e) = [st |-> [x EXCEPT !.v = v, !.dir = 0], r |-> NoResult]
  <2>1. [x EXCEPT !.v = v, !.dir = 0] \in SamplerState
    BY DEF SamplerState, Moves
  <2>2. NoResult \in SampleResult
    BY DEF SampleResult, NoResult
  <2>3. step(c, x, w, e).st = [x EXCEPT !.v = v, !.dir = 0] /\ step(c, x, w, e).r = NoResult
    BY <1>7
  <2> QED BY <2>1, <2>2, <2>3
<1>8. CASE ds # 0 /\ step(c, x, w, e) = advance(c, x, v, Sgn(ds), ds)
  <2> DEFINE dir == Sgn(ds)
             s_want == progress(c, x, ds)
             block_done == dir > 0 /\ s_want >= totalLen(c) - EpsEnd
             emit == wantEmit(Abs(s_want - x.s_emit), block_done)
             ahead == x.s_emit + dir * Lesser(Abs(s_want - x.s_emit), SegMax)
             to == IF dir * (ahead - s_want) > 0 THEN s_want ELSE ahead
  <2>1. s_want \in Nat
    BY <1>2, <1>3 DEF progress, Lesser, retractFloor
  <2>2. dir \in {-1, 1}
    BY <1>2, <1>8 DEF Sgn
  <2>3. to \in Nat
    <3> HIDE DEF s_want, dir
    <3> QED BY <1>2, <2>1, <2>2 DEF Lesser, Abs
  <2>4. block_done \in BOOLEAN /\ emit \in BOOLEAN
    BY DEF wantEmit
  <2>5. /\ advance(c, x, v, dir, ds).st =
             [s |-> s_want, v |-> v, dir |-> dir,
              s_max |-> IF dir > 0 /\ s_want > x.s_max THEN s_want ELSE x.s_max,
              s_emit |-> IF emit THEN to ELSE x.s_emit]
        /\ advance(c, x, v, dir, ds).r =
             [emit |-> emit, target |-> IF emit THEN poseAt(c, to) ELSE 0,
              block_done |-> block_done]
    BY DEF advance
  <2>6. poseAt(c, to) \in Nat
    <3> HIDE DEF to
    <3> QED BY <1>4, <2>3
  <2>7. dir \in Moves
    BY <1>5
  <2> HIDE DEF dir, s_want, block_done, emit, ahead, to
  <2> QED BY <1>2, <1>8, <2>1, <2>3, <2>4, <2>5, <2>6, <2>7 DEF dir, SamplerState, SampleResult
<1> QED BY <1>1, <1>6, <1>7, <1>8

\* Where the sampler is: within the retract window and short of the end, with
\* less than a segment not yet emitted.  It may lie before the first vertex of a
\* contour whose start was dropped: poses are held at that vertex.
Path(c, x) ==
  /\ x.s <= totalLen(c) /\ x.s_emit <= totalLen(c) /\ x.s_max <= totalLen(c)
  /\ x.s >= x.s_max - RetractMax /\ x.s_emit >= x.s_max - RetractMax
  /\ Abs(x.s - x.s_emit) < SegMin

\* What a segment is, seen from the state y that the step left: it leads from
\* the last one's pose to that of y.s_emit, and it ends the move only near its end.
Emitted(c, x, y, r) ==
  /\ IF r.emit THEN /\ r.target = poseAt(c, y.s_emit)
                    /\ Abs(poseAt(c, y.s_emit) - poseAt(c, x.s_emit)) <= SegMax
     ELSE y.s_emit = x.s_emit
  /\ r.block_done => r.emit /\ y.s_emit >= totalLen(c) - EpsEnd

\* Poses are no further apart than their arc lengths.
LEMMA PosesApart ==
  ASSUME NEW c, Contour(c), NEW p \in Nat, NEW q \in Nat
  PROVE  /\ poseAt(c, p) \in Nat /\ startS(c) <= poseAt(c, p) /\ poseAt(c, p) <= totalLen(c)
         /\ Abs(p - q) <= SegMax => Abs(poseAt(c, p) - poseAt(c, q)) <= SegMax
         /\ p <= startS(c) /\ q <= startS(c) => poseAt(c, p) = poseAt(c, q)
<1>1. startS(c) \in Nat /\ totalLen(c) \in Nat /\ startS(c) <= totalLen(c) /\ SegMax \in Nat
  BY ContourNumbers, Lengths
<1> QED BY <1>1 DEF poseAt, Abs

\* The step keeps to the path.  The cap of SegMax never bites: what was not
\* emitted and the step itself are together no longer than that, but for a
\* retract from before the first vertex, whose segment has no length.
LEMMA StepPath ==
  ASSUME NEW c, Contour(c), NEW x \in SamplerState, Path(c, x),
         NEW w \in Int, NEW e \in Nat
  PROVE  /\ Path(c, step(c, x, w, e).st)
         /\ Emitted(c, x, step(c, x, w, e).st, step(c, x, w, e).r)
<1>1. PICK v \in -VMax..VMax, ds \in -StepMax..StepMax :
           \/ ds # 0 /\ step(c, x, w, e) = flush(c, x, v, Sgn(ds))
           \/ step(c, x, w, e) = [st |-> [x EXCEPT !.v = v, !.dir = 0], r |-> NoResult]
           \/ ds # 0 /\ step(c, x, w, e) = advance(c, x, v, Sgn(ds), ds)
  BY StepCases
<1>2. x.s \in Nat /\ x.s_emit \in Nat /\ x.s_max \in Nat /\ ds \in Int
  BY Lengths DEF SamplerState
<1>3. startS(c) \in Nat /\ totalLen(c) \in Nat /\ startS(c) <= totalLen(c)
  BY ContourNumbers
<1>4. /\ x.s <= totalLen(c) /\ x.s_emit <= totalLen(c) /\ x.s_max <= totalLen(c)
      /\ x.s >= x.s_max - RetractMax /\ x.s_emit >= x.s_max - RetractMax
      /\ Abs(x.s - x.s_emit) < SegMin
  BY DEF Path
<1>5. CASE step(c, x, w, e) = flush(c, x, v, Sgn(ds))
  <2>1. towards(x.s_emit, x.s) = x.s
    BY <1>2, <1>4, Lengths DEF towards, Sgn, Lesser, Abs
  <2>2. Abs(poseAt(c, x.s) - poseAt(c, x.s_emit)) <= SegMax
    <3>1. Abs(x.s - x.s_emit) <= SegMax
      BY <1>2, <1>4, Lengths DEF Abs
    <3> QED BY <1>2, <3>1, PosesApart
  <2> DEFINE y == step(c, x, w, e).st
             r == step(c, x, w, e).r
  <2>3. /\ y.s = x.s /\ y.s_emit = x.s /\ y.s_max = x.s_max
        /\ r.emit = TRUE /\ r.target = poseAt(c, x.s) /\ r.block_done = FALSE
    <3>1. y = [x EXCEPT !.v = v, !.s_emit = x.s, !.dir = Sgn(ds)]
      BY <1>5, <2>1 DEF flush
    <3>2. r = [emit |-> TRUE, target |-> poseAt(c, x.s), block_done |-> FALSE]
      BY <1>5, <2>1 DEF flush
    <3> HIDE DEF y, r
    <3> QED BY <3>1, <3>2 DEF SamplerState
  <2> HIDE DEF y, r
  <2>4. Path(c, y)
    BY <1>2, <1>3, <1>4, <2>3, Lengths DEF Path, Abs
  <2>5. Emitted(c, x, y, r)
    BY <2>2, <2>3 DEF Emitted
  <2> QED BY <2>4, <2>5 DEF y, r
<1>6. CASE step(c, x, w, e) = [st |-> [x EXCEPT !.v = v, !.dir = 0], r |-> NoResult]
  <2> DEFINE y == step(c, x, w, e).st
             r == step(c, x, w, e).r
  <2>1. /\ y.s = x.s /\ y.s_emit = x.s_emit /\ y.s_max = x.s_max
        /\ r.emit = FALSE /\ r.block_done = FALSE
    <3>1. y = [x EXCEPT !.v = v, !.dir = 0] /\ r = NoResult
      BY <1>6
    <3> HIDE DEF y, r
    <3> QED BY <3>1 DEF NoResult, SamplerState
  <2> HIDE DEF y, r
  <2>2. Path(c, y) /\ Emitted(c, x, y, r)
    BY <1>3, <1>4, <2>1 DEF Path, Emitted
  <2> QED BY <2>2 DEF y, r
<1>7. CASE ds # 0 /\ step(c, x, w, e) = advance(c, x, v, Sgn(ds), ds)
  <2> DEFINE dir == Sgn(ds)
             s_want == progress(c, x, ds)
             block_done == dir > 0 /\ s_want >= totalLen(c) - EpsEnd
             emit == wantEmit(Abs(s_want - x.s_emit), block_done)
             ahead == x.s_emit + dir * Lesser(Abs(s_want - x.s_emit), SegMax)
             to == IF dir * (ahead - s_want) > 0 THEN s_want ELSE ahead
             y == step(c, x, w, e).st
             r == step(c, x, w, e).r
  <2>1. /\ s_want \in Nat /\ s_want <= totalLen(c) /\ s_want >= x.s_max - RetractMax
        /\ \/ Abs(s_want - x.s) <= StepMax
           \/ ds < 0 /\ x.s < startS(c) /\ s_want = startS(c)
    <3>1. CASE ds > 0
      BY <1>2, <1>3, <1>4, <3>1, Lengths DEF progress, Lesser, Abs
    <3>2. CASE ds < 0
      <4> DEFINE floor == retractFloor(c, x.s_max, RetractMax)
      <4>1. /\ floor \in Nat /\ floor <= totalLen(c) /\ floor >= startS(c)
            /\ floor >= x.s_max - RetractMax /\ (x.s >= startS(c) => floor <= x.s)
            /\ (x.s < startS(c) => floor = startS(c))
        BY <1>2, <1>3, <1>4, Lengths DEF retractFloor
      <4>2. s_want = IF x.s + ds < floor THEN floor ELSE x.s + ds
        BY <1>2, <3>2 DEF progress
      <4> HIDE DEF floor, s_want
      <4> QED BY <1>2, <1>3, <1>4, <3>2, <4>1, <4>2, Lengths DEF Abs
    <3> QED BY <1>2, <1>7, <3>1, <3>2
  <2>2. dir \in {-1, 1} /\ (ds < 0 => dir = -1)
    BY <1>2, <1>7 DEF Sgn
  <2>3. \/ Abs(s_want - x.s_emit) <= SegMax
        \/ dir = -1 /\ x.s_emit < startS(c) /\ s_want = startS(c)
    <3> HIDE DEF s_want, dir
    <3> QED BY <1>2, <1>3, <1>4, <2>1, <2>2, Lengths DEF Abs
  <2>4. to = s_want
    <3> HIDE DEF s_want, dir
    <3>1. CASE dir = 1
      <4>1. Abs(s_want - x.s_emit) <= SegMax
        BY <2>3, <3>1
      <4> QED BY <1>2, <2>1, <3>1, <4>1, Lengths DEF Lesser, Abs
    <3>2. CASE dir = -1 /\ Abs(s_want - x.s_emit) <= SegMax
      BY <1>2, <2>1, <3>2, Lengths DEF Lesser, Abs
    <3>3. CASE dir = -1 /\ x.s_emit < startS(c) /\ s_want = startS(c)
      <4> DEFINE far == Lesser(Abs(s_want - x.s_emit), SegMax)
      <4>1. far \in Nat
        BY <1>2, <2>1, Lengths DEF Lesser, Abs
      <4> HIDE DEF far
      <4>2. dir * far = -far /\ ahead = x.s_emit - far
        BY <3>3, <4>1, <1>2 DEF far
      <4>3. dir * (ahead - s_want) > 0
        BY <1>2, <1>3, <3>3, <4>1, <4>2
      <4> QED BY <4>3
    <3> QED BY <2>2, <2>3, <3>1, <3>2, <3>3
  <2>5. Abs(poseAt(c, s_want) - poseAt(c, x.s_emit)) <= SegMax
    <3> HIDE DEF s_want, dir
    <3>1. CASE Abs(s_want - x.s_emit) <= SegMax
      BY <1>2, <2>1, <3>1, PosesApart
    <3>2. CASE x.s_emit < startS(c) /\ s_want = startS(c)
      <4>1. /\ poseAt(c, s_want) = poseAt(c, x.s_emit)
            /\ poseAt(c, s_want) \in Nat
        BY <1>2, <1>3, <2>1, <3>2, PosesApart
      <4> QED BY <4>1, Lengths DEF Abs
    <3> QED BY <2>3, <3>1, <3>2
  <2>6. /\ y.s = s_want /\ y.s_emit = IF emit THEN to ELSE x.s_emit
        /\ y.s_max = IF dir > 0 /\ s_want > x.s_max THEN s_want ELSE x.s_max
        /\ r.emit = emit /\ r.target = IF emit THEN poseAt(c, to) ELSE 0
        /\ r.block_done = block_done
    <3>1. y = [s |-> s_want, v |-> v, dir |-> dir,
               s_max |-> IF dir > 0 /\ s_want > x.s_max THEN s_want ELSE x.s_max,
               s_emit |-> IF emit THEN to ELSE x.s_emit]
      BY <1>7 DEF advance
    <3>2. r = [emit |-> emit, target |-> IF emit THEN poseAt(c, to) ELSE 0,
               block_done |-> block_done]
      BY <1>7 DEF advance
    <3> HIDE DEF dir, s_want, block_done, emit, ahead, to, y, r
    <3> QED BY <3>1, <3>2
  <2>7. ~emit => Abs(s_want - x.s_emit) < SegMin
    <3> HIDE DEF s_want, block_done
    <3> QED BY <1>2, <2>1, Lengths DEF wantEmit, Abs
  <2>8. block_done => emit /\ s_want >= totalLen(c) - EpsEnd
    BY DEF wantEmit
  <2>9. emit \in BOOLEAN
    BY DEF wantEmit
  <2> HIDE DEF dir, s_want, block_done, emit, ahead, to, y, r
  <2>10. CASE emit
    <3>1. y.s = s_want /\ y.s_emit = s_want /\ r.target = poseAt(c, s_want) /\ r.emit
      BY <2>4, <2>6, <2>10
    <3>2. y.s_max \in Nat /\ y.s_max <= totalLen(c) /\ s_want >= y.s_max - RetractMax
      BY <1>2, <1>4, <2>1, <2>6, Lengths
    <3>3. Path(c, y)
      BY <1>3, <2>1, <3>1, <3>2, Lengths DEF Path, Abs
    <3>4. Emitted(c, x, y, r)
      BY <2>5, <2>6, <2>8, <3>1 DEF Emitted
    <3> QED BY <3>3, <3>4 DEF y, r
  <2>11. CASE ~emit
    <3>1. y.s = s_want /\ y.s_emit = x.s_emit /\ ~r.emit /\ ~r.block_done
      BY <2>6, <2>8, <2>9, <2>11
    <3>2. /\ y.s_max \in Nat /\ y.s_max <= totalLen(c)
          /\ s_want >= y.s_max - RetractMax /\ x.s_emit >= y.s_max - RetractMax
      BY <1>2, <1>4, <2>1, <2>6, <2>7, <2>11, Lengths DEF Abs
    <3>3. Path(c, y)
      BY <1>2, <1>3, <1>4, <2>1, <2>7, <2>11, <3>1, <3>2 DEF Path
    <3>4. Emitted(c, x, y, r)
      BY <3>1 DEF Emitted
    <3> QED BY <3>3, <3>4 DEF y, r
  <2> QED BY <2>9, <2>10, <2>11
<1> QED BY <1>1, <1>5, <1>6, <1>7

-----------------------------------------------------------------------------
(* Rounding to motor steps. *)

LEMMA DivBounds ==
  ASSUME NEW a \in Int, NEW b \in Nat, b > 0
  PROVE  a \div b \in Int /\ b * (a \div b) <= a /\ a < b * (a \div b) + b
OBVIOUS

LEMMA TimesMonotone ==
  ASSUME NEW b \in Nat, b > 0, NEW x \in Int, NEW y \in Int, x >= y + 1
  PROVE  b * x >= b * y + b
<1>1. PICK d \in Nat : x = y + 1 + d
  <2>1. x - y - 1 \in Nat
    OBVIOUS
  <2> QED BY <2>1
<1>2. b * x = b * y + b + b * d
  BY <1>1
<1>3. b * d >= 0
  BY <1>1
<1> QED BY <1>2, <1>3

\* Two quotients differ by at most the quotient, rounded up, of the difference.
LEMMA DivDifference ==
  ASSUME NEW a \in Int, NEW c \in Int, NEW b \in Nat, b > 0, NEW m \in Nat, c - a <= m
  PROVE  c \div b - a \div b <= (m + b - 1) \div b
<1> DEFINE qa == a \div b
           qc == c \div b
           qm == (m + b - 1) \div b
<1>1. qa \in Int /\ b * qa <= a /\ a < b * qa + b
  BY DivBounds
<1>2. qc \in Int /\ b * qc <= c /\ c < b * qc + b
  BY DivBounds
<1>3. qm \in Int /\ b * qm <= m + b - 1 /\ m + b - 1 < b * qm + b
  <2>1. m + b - 1 \in Int
    OBVIOUS
  <2> QED BY <2>1, DivBounds
<1> HIDE DEF qa, qc, qm
<1>4. ASSUME qc >= (qa + qm) + 1 PROVE FALSE
  <2>1. b * qc >= b * (qa + qm) + b
    BY <1>1, <1>2, <1>3, <1>4, TimesMonotone
  <2>2. b * (qa + qm) = b * qa + b * qm
    BY <1>1, <1>3
  <2> QED BY <2>1, <2>2, <1>1, <1>2, <1>3
<1>5. qc - qa <= qm
  BY <1>1, <1>2, <1>3, <1>4
<1> QED BY <1>5 DEF qa, qc, qm

LEMMA StepsOf ==
  ASSUME NEW p \in Nat
  PROVE  steps(p) \in Nat
<1>1. StepLen \in Nat /\ StepLen > 0
  BY MotionAssumption
<1>2. StepLen \div 2 \in Nat
  BY <1>1
<1>3. p + StepLen \div 2 \in Nat
  BY <1>2
<1> QED BY <1>1, <1>3 DEF steps

LEMMA StepsMonotone ==
  ASSUME NEW p \in Nat, NEW q \in Nat, p <= q
  PROVE  steps(p) <= steps(q)
<1> DEFINE h == StepLen \div 2
<1>1. StepLen \in Nat /\ StepLen > 0 /\ h \in Nat
  BY MotionAssumption
<1>2. steps(p) = (p + h) \div StepLen /\ steps(q) = (q + h) \div StepLen
  BY DEF steps
<1> HIDE DEF h
<1>3. (p + h) \div StepLen - (q + h) \div StepLen <= (0 + StepLen - 1) \div StepLen
  <2>1. p + h \in Int /\ q + h \in Int /\ (p + h) - (q + h) <= 0
    BY <1>1
  <2> QED BY <1>1, <2>1, DivDifference
<1>4. (0 + StepLen - 1) \div StepLen = 0
  BY <1>1
<1>5. steps(p) \in Nat /\ steps(q) \in Nat
  BY StepsOf
<1> QED BY <1>2, <1>3, <1>4, <1>5

\* Positions at most a segment apart are at most SegMaxSteps steps apart.
LEMMA StepsApart ==
  ASSUME NEW p \in Nat, NEW q \in Nat, Abs(p - q) <= SegMax
  PROVE  Abs(steps(p) - steps(q)) <= SegMaxSteps
<1> DEFINE h == StepLen \div 2
<1>1. StepLen \in Nat /\ StepLen > 0 /\ h \in Nat /\ SegMax \in Nat
  BY MotionAssumption, Lengths
<1>2. steps(p) = (p + h) \div StepLen /\ steps(q) = (q + h) \div StepLen
  BY DEF steps
<1>3. steps(p) \in Nat /\ steps(q) \in Nat
  BY StepsOf
<1> HIDE DEF h
<1>4. p + h \in Int /\ q + h \in Int /\ (p + h) - (q + h) <= SegMax /\ (q + h) - (p + h) <= SegMax
  BY <1>1 DEF Abs
<1>5. steps(p) - steps(q) <= SegMaxSteps /\ steps(q) - steps(p) <= SegMaxSteps
  BY <1>1, <1>2, <1>4, DivDifference DEF SegMaxSteps
<1>6. SegMaxSteps \in Int
  BY <1>1 DEF SegMaxSteps
<1> QED BY <1>3, <1>5, <1>6 DEF Abs

-----------------------------------------------------------------------------
(* Types *)

MotionType == TypeOK /\ Contour(contour)

\* The controller's part of the state.
LifeOK == /\ phase \in Phase /\ spark \in BOOLEAN /\ stopping \in BOOLEAN
          /\ tick \in {"idle", "busy", "aiming", "started"}
          /\ shown \in [phase : Phase, v : Moves]

LEMMA LifeStep ==
  ASSUME LifeOK, Ticks \/ M3 \/ Quench \/ Stop \/ UNCHANGED cut
  PROVE  LifeOK'
<1>1. CASE Wake \/ Aim \/ Strike \/ Begin \/ Fail \/ Relieve
  BY <1>1 DEF LifeOK, Wake, Aim, Strike, Begin, Fail, Relieve, Phase
<1>2. CASE M3 \/ Quench \/ Stop \/ UNCHANGED cut
  BY <1>2 DEF LifeOK, M3, Quench, Stop, cut, Phase
<1>3. CASE Publish
  <2>1. PICK v \in Moves : shown' = [phase |-> phase, v |-> v]
    BY <1>3 DEF Publish
  <2>2. shown' \in [phase : Phase, v : Moves]
    BY <2>1 DEF LifeOK
  <2> QED BY <1>3, <2>2 DEF LifeOK, Publish
<1> QED BY <1>1, <1>2, <1>3 DEF Ticks

\* Positions counted from another origin.
LEMMA FromMotors ==
  ASSUME NEW q \in Seq(Int), mpos \in Int
  PROVE  /\ fromMotors(q) \in Seq(Int) /\ Len(fromMotors(q)) = Len(q)
         /\ q = <<>> => fromMotors(q) = <<>>
         /\ \A i \in 1..Len(q) : fromMotors(q)[i] = q[i] - mpos
<1>1. fromMotors(q) = [i \in 1..Len(q) |-> q[i] - mpos]
  BY DEF fromMotors
<1>2. \A i \in 1..Len(q) : q[i] - mpos \in Int
  OBVIOUS
<1>3. Len(q) \in Nat
  OBVIOUS
<1>4. fromMotors(q) \in Seq(Int) /\ Len(fromMotors(q)) = Len(q)
  <2> DEFINE n == Len(q)
             f == fromMotors(q)
  <2>1. f \in [1..n -> Int]
    BY <1>1, <1>2
  <2>2. n \in Nat
    BY <1>3
  <2> HIDE DEF n, f
  <2>3. f \in Seq(Int) /\ Len(f) = n
    BY <2>1, <2>2
  <2> QED BY <2>3 DEF n, f
<1>5. q = <<>> => fromMotors(q) = <<>>
  BY <1>4, EmptySeq
<1> QED BY <1>1, <1>4, <1>5

LEMMA ResetContour == Contour(reset)
BY ContourAssumption DEF Contour, reset

LEMMA StartTypes == NewState \in SamplerState /\ NoResult \in SampleResult
BY Lengths DEF NewState, NoResult, SamplerState, SampleResult, Moves

LEMMA TypeInit == Init => MotionType
<1> SUFFICES ASSUME Init PROVE MotionType
  OBVIOUS
<1>1. LifeOK
  BY DEF Init, LifeInit, LifeOK, Phase, Moves
<1>2. Contour(contour) /\ st \in SamplerState /\ res \in SampleResult
  BY ResetContour, StartTypes DEF Init
<1>3. queue \in Seq(Int) /\ Len(queue) <= MaxInflight
  <2>1. queue = <<>> /\ MaxInflight \in Nat
    BY MotionAssumption DEF Init
  <2> QED BY <2>1, EmptySeq
<1>4. /\ lpc = "gcode" /\ why = "none" /\ sys_state = "Idle" /\ v_seen = 0
      /\ plan_pos = 0 /\ mpos = 0
  BY DEF Init
<1>5. abort \in BOOLEAN /\ joined \in BOOLEAN /\ arming \in BOOLEAN
  BY DEF Init
<1> QED BY <1>1, <1>2, <1>3, <1>4, <1>5
        DEF MotionType, TypeOK, LifeOK, Contour, Outcomes, SamplerState, SampleResult

\* What a step of the loop may do to the controller and to its own place.
LEMMA ExitTypes ==
  ASSUME NEW w \in Outcomes, stopAnd(w) \/ syncAnd(w)
  PROVE  lpc' \in {"return", "sync"} /\ why' \in Outcomes /\ (requestStop \/ UNCHANGED callVars)
BY DEF stopAnd, syncAnd

LEMMA AfterSegmentTypes ==
  ASSUME MotionType, NEW r, NEW v, afterSegment(r, v)
  PROVE  lpc' \in {"loop", "sync"} /\ why' \in Outcomes /\ UNCHANGED callVars
BY DEF afterSegment, completes, syncAnd, Outcomes, MotionType, TypeOK

LEMMA TypeStep == MotionType /\ [Next]_vars => MotionType'
<1> SUFFICES ASSUME MotionType, [Next]_vars PROVE MotionType'
  OBVIOUS
<1> DEFINE LoopOK  == Contour(contour) /\ st \in SamplerState /\ res \in SampleResult
                      /\ v_seen \in Speeds \cup {0}
           PlaceOK == /\ lpc \in {"gcode", "loop", "check", "sample", "room", "sync", "return"}
                      /\ why \in Outcomes
           SysOK   == /\ sys_state \in {"Idle", "Cycle", "Hold", "Alarm", "Critical"}
                      /\ abort \in BOOLEAN
           PlanOK  == /\ queue \in Seq(Int) /\ Len(queue) <= MaxInflight
                      /\ plan_pos \in Int /\ mpos \in Int /\ joined \in BOOLEAN
           CallOK  == LifeOK /\ arming \in BOOLEAN
<1>a. CallOK /\ LoopOK /\ PlaceOK /\ SysOK /\ PlanOK
  BY DEF MotionType, TypeOK, LifeOK, SamplerState, SampleResult
<1>b. SUFFICES CallOK' /\ LoopOK' /\ PlaceOK' /\ SysOK' /\ PlanOK'
  BY <1>b DEF MotionType, TypeOK, LifeOK, SamplerState, SampleResult, Contour
<1>c. UNCHANGED callVars => CallOK'
  BY <1>a, LifeStep DEF callVars
<1>d. UNCHANGED loopVars => LoopOK'
  BY <1>a DEF loopVars
<1>e. UNCHANGED sysVars => SysOK'
  BY <1>a DEF sysVars
<1>f. UNCHANGED plannerVars => PlanOK'
  BY <1>a DEF plannerVars
<1>g. UNCHANGED <<lpc, why>> => PlaceOK'
  BY <1>a
<1>h. requestStop => CallOK'
  BY <1>a, LifeStep DEF requestStop
<1> HIDE DEF LoopOK, PlaceOK, SysOK, PlanOK, CallOK
<1>1. CASE (Ticks /\ UNCHANGED <<arming, motionVars>>) \/ Finish \/ UNCHANGED vars
  <2>1. UNCHANGED motionVars /\ arming' = arming /\ (Ticks \/ Stop \/ UNCHANGED cut)
    BY <1>1 DEF vars, callVars, Finish
  <2>2. UNCHANGED <<loopVars, lpc, why, sysVars, plannerVars>>
    BY <2>1 DEF motionVars
  <2>3. CallOK'
    BY <1>a, <2>1, LifeStep DEF CallOK
  <2> QED BY <1>d, <1>e, <1>f, <1>g, <2>2, <2>3
<1>2. CASE gM3 \/ gM5
  <2>1. CallOK'
    <3>1. CASE gM3
      BY <1>a, <3>1, LifeStep DEF gM3, CallOK
    <3>2. CASE gM5
      BY <1>h, <3>2 DEF gM5
    <3> QED BY <1>2, <3>1, <3>2
  <2>2. UNCHANGED <<loopVars, lpc, sysVars, plannerVars>> /\ why' \in {why, "none"}
    BY <1>2 DEF gM3, gM5, motionVars
  <2>3. PlaceOK'
    BY <1>a, <2>2 DEF PlaceOK, Outcomes
  <2> QED BY <1>d, <1>e, <1>f, <2>1, <2>2, <2>3
<1>3. CASE restart
  <2>1. PlanOK'
    BY <1>3, <1>a, MotionAssumption DEF restart, PlanOK
  <2>2. SysOK'
    BY <1>3 DEF restart, SysOK
  <2> QED BY <1>3, <1>d, <1>g, <1>h, <2>1, <2>2 DEF restart
<1>4. ASSUME NEW m \in Cuts, NEW inside \in BOOLEAN, runCut(m, inside)
      PROVE  CallOK' /\ LoopOK' /\ PlaceOK' /\ SysOK' /\ PlanOK'
  <2>1. m.segs \in Nat /\ m.ds \in Nat
    BY MotionAssumption
  <2>2. LoopOK'
    BY <1>4, <2>1, ArcContour, StartTypes DEF runCut, LoopOK
  <2>3. PlanOK'
    BY <1>4, <1>a, FromMotors DEF runCut, PlanOK
  <2>4. PlaceOK' /\ CallOK'
    BY <1>4, <1>c, <1>h DEF runCut, PlaceOK, Outcomes
  <2> QED BY <1>4, <1>e, <2>2, <2>3, <2>4 DEF runCut
<1>5. CASE loopTop \/ cycleStop
  <2>1. SysOK'
    BY <1>5, <1>a DEF loopTop, cycleStop, autoCycle, SysOK
  <2>2. PlaceOK'
    BY <1>5, <1>a DEF loopTop, cycleStop, PlaceOK
  <2> QED BY <1>5, <1>c, <1>d, <1>f, <2>1, <2>2 DEF loopTop, cycleStop
<1>6. CASE check \/ roomBails
  <2>1. /\ \/ \E w \in Outcomes : stopAnd(w) \/ syncAnd(w)
           \/ lpc' \in {"sample", "loop"} /\ UNCHANGED <<callVars, why>>
        /\ UNCHANGED <<loopVars, sysVars, plannerVars>>
    <3>1. {"abort", "alarm", "fault", "idle"} \subseteq Outcomes
      BY DEF Outcomes
    <3> QED BY <1>6, <3>1 DEF check, roomBails, bail, checkFault
  <2>2. PlaceOK' /\ CallOK'
    BY <1>a, <1>c, <1>h, <2>1, ExitTypes DEF PlaceOK
  <2> QED BY <1>d, <1>e, <1>f, <2>1, <2>2
<1>7. ASSUME NEW v \in Speeds, NEW e \in Elapsed, sample(v, e)
      PROVE  CallOK' /\ LoopOK' /\ PlaceOK' /\ SysOK' /\ PlanOK'
  <2>1. v \in Int /\ e \in Nat
    BY MotionAssumption
  <2>2. LoopOK'
    BY <1>7, <1>a, <2>1, StepType DEF sample, LoopOK
  <2>3. PlaceOK' /\ UNCHANGED callVars
    BY <1>7, <1>a, AfterSegmentTypes DEF sample, offer, PlaceOK
  <2> QED BY <1>7, <1>c, <1>e, <1>f, <2>2, <2>3 DEF sample
<1>8. CASE submit
  <2>1. steps(res.target) \in Nat
    BY <1>a, StepsOf DEF LoopOK, SampleResult
  <2>2. CASE planBufferLine(steps(res.target)) /\ joined' = TRUE /\ afterSegment(res, v_seen)
    <3>1. PlanOK'
      <4>1. Len(queue) < MaxInflight
        BY <1>8 DEF submit, hasRoom
      <4> QED BY <1>a, <2>1, <2>2, <4>1, MotionAssumption DEF planBufferLine, PlanOK
    <3>2. PlaceOK' /\ UNCHANGED callVars
      BY <2>2, AfterSegmentTypes DEF PlaceOK
    <3> QED BY <1>8, <1>c, <1>d, <1>e, <3>1, <3>2 DEF submit
  <2>3. CASE stopAnd("refused") /\ UNCHANGED plannerVars
    <3>1. PlaceOK' /\ CallOK'
      BY <1>h, <2>3 DEF stopAnd, PlaceOK, Outcomes
    <3> QED BY <1>8, <1>d, <1>e, <1>f, <2>3, <3>1 DEF submit
  <2> QED BY <1>8, <2>2, <2>3 DEF submit
<1>9. CASE sync
  <2>1. SysOK' /\ PlaceOK'
    BY <1>9, <1>a DEF sync, SysOK, PlaceOK
  <2> QED BY <1>9, <1>c, <1>d, <1>f, <2>1 DEF sync
<1>10. CASE return
  <2>1. SysOK' /\ PlaceOK'
    BY <1>10, <1>a DEF return, SysOK, PlaceOK
  <2>2. LoopOK'
    BY <1>10, ResetContour, StartTypes DEF return, LoopOK
  <2>3. PlanOK'
    BY <1>10, <1>a DEF return, PlanOK
  <2> QED BY <1>10, <1>c, <2>1, <2>2, <2>3 DEF return
<1>11. CASE stepBlock
  <2>1. PlanOK'
    BY <1>11, <1>a, MotionAssumption DEF stepBlock, PlanOK
  <2> QED BY <1>11, <1>c, <1>d, <1>e, <1>g, <2>1 DEF stepBlock
<1>12. ASSUME NEW e \in Events, realtime(e)
       PROVE  CallOK' /\ LoopOK' /\ PlaceOK' /\ SysOK' /\ PlanOK'
  <2>1. SysOK'
    BY <1>12, <1>a DEF realtime, SysOK
  <2>2. requestStop \/ UNCHANGED callVars
    BY <1>12 DEF realtime
  <2> QED BY <1>12, <1>c, <1>d, <1>f, <1>g, <1>h, <2>1, <2>2 DEF realtime
<1>13. CASE gCycle
  <2>1. SysOK'
    BY <1>13, <1>a DEF gCycle, autoCycle, SysOK
  <2> QED BY <1>13, <1>c, <1>d, <1>f, <1>g, <2>1 DEF gCycle
<1>14. ASSUME NEW d \in Rapids, gG0(d)
       PROVE  CallOK' /\ LoopOK' /\ PlaceOK' /\ SysOK' /\ PlanOK'
  <2> DEFINE q == fromMotors(queue)
  <2>1. d \in Int /\ Len(queue) < MaxInflight /\ MaxInflight \in Nat /\ mpos \in Int
    BY <1>14, <1>a, MotionAssumption DEF gG0, hasRoom, PlanOK
  <2>2. q \in Seq(Int) /\ Len(q) = Len(queue)
    BY <1>a, <2>1, FromMotors DEF PlanOK
  <2>3. plan_pos' \in Int /\ mpos' = 0 /\ queue' = Append(q, plan_pos') /\ joined' = joined
    BY <1>14, <1>a, <2>1 DEF gG0, PlanOK
  <2> HIDE DEF q
  <2>4. queue' \in Seq(Int) /\ Len(queue') = Len(queue) + 1
    BY <2>2, <2>3
  <2>5. PlanOK'
    BY <1>a, <2>1, <2>3, <2>4 DEF PlanOK
  <2> QED BY <1>14, <1>c, <1>d, <1>e, <1>g, <2>5 DEF gG0
<1> QED BY <1>1, <1>2, <1>3, <1>4, <1>5, <1>6, <1>7, <1>8, <1>9, <1>10, <1>11, <1>12, <1>13, <1>14
        DEF Next, GCode, Loop

LEMMA TypeInvariant == Spec => []MotionType
BY TypeInit, TypeStep, PTL DEF Spec

\* For every set of moves, speeds, periods and events: the contour stays in its
\* buffer, whatever the length of an arc, and the planner within its depth.
THEOREM MotionTypeCorrect == Spec => []TypeOK
<1>1. Spec => []MotionType
  BY TypeInit, TypeStep, PTL DEF Spec
<1> QED BY <1>1, PTL DEF MotionType

-----------------------------------------------------------------------------
(* A move that was given up *)

GivenUp == {"abort", "alarm", "refused", "outside"}

\* The move's outcome is set on the way out only.  A cut that was stopped with it
\* and was not armed then cannot be started again before the next M3, which
\* forgets the outcome: it is armed only until the stop is done, and no tick is
\* about to start the generator.
EndInv ==
  /\ lpc \in {"loop", "check", "sample", "room"} => why = "none"
  /\ lpc = "sync" => why \in {"done", "idle", "fault"}
  /\ why \in GivenUp /\ ~arming
     => /\ ~spark /\ tick # "aiming"
        /\ phase = "armed" => Serialised /\ stopping /\ tick = "idle"

\* What a stop leaves, in whatever tick it comes.
Quiet == ~arming => /\ ~spark /\ tick # "aiming"
                    /\ phase = "armed" => Serialised /\ stopping /\ tick = "idle"

LEMMA StopIsQuiet == ASSUME requestStop PROVE Quiet'
BY DEF requestStop, Quench, Callable, Quiet

LEMMA EndStep == EndInv /\ [Next]_vars => EndInv'
<1> SUFFICES ASSUME EndInv, [Next]_vars PROVE EndInv'
  OBVIOUS
<1>a. Quiet' /\ (lpc' \in {"loop", "check", "sample", "room"} => why' = "none")
      /\ (lpc' = "sync" => why' \in {"done", "idle", "fault"}) => EndInv'
  BY DEF Quiet, EndInv
<1>b. why' = "none" /\ lpc' # "sync" => EndInv'
  BY DEF EndInv, GivenUp
<1>c. UNCHANGED callVars /\ UNCHANGED why
      /\ (lpc' \in {"loop", "check", "sample", "room"} => why' = "none")
      /\ (lpc' = "sync" => why' \in {"done", "idle", "fault"}) => EndInv'
  BY DEF EndInv, callVars, cut
<1>1. CASE Ticks /\ UNCHANGED <<arming, motionVars>>
  <2> USE DEF EndInv, GivenUp
  <2>0. UNCHANGED <<lpc, why, arming>>
    BY <1>1 DEF motionVars
  <2>1. CASE Wake
    BY <2>0, <2>1 DEF Wake
  <2>2. CASE Aim
    BY <2>0, <2>2 DEF Aim
  <2>3. CASE Strike \/ Begin
    BY <2>0, <2>3 DEF Strike, Begin
  <2>4. CASE Fail \/ Relieve
    BY <2>0, <2>4 DEF Fail, Relieve
  <2>5. CASE Publish
    BY <2>0, <2>5 DEF Publish
  <2> QED BY <1>1, <2>1, <2>2, <2>3, <2>4, <2>5 DEF Ticks
<1>2. CASE gM3
  BY <1>2, <1>b DEF gM3, gReady
<1>3. CASE gM5 \/ restart
  <2>1. requestStop /\ lpc' = "gcode"
    BY <1>3 DEF gM5, restart, motionVars, gReady
  <2> QED BY <1>a, <2>1, StopIsQuiet
<1>4. ASSUME NEW m, NEW inside, runCut(m, inside) PROVE EndInv'
  <2>1. CASE inside
    BY <1>4, <1>b, <2>1 DEF runCut
  <2>2. CASE ~inside
    BY <1>4, <1>a, <2>2, StopIsQuiet DEF runCut
  <2> QED BY <2>1, <2>2
<1>5. CASE loopTop \/ stepBlock \/ cycleStop \/ gCycle
  BY <1>5, <1>c DEF loopTop, stepBlock, cycleStop, gCycle, EndInv
<1>6. CASE check \/ roomBails
  <2>1. \/ \E w : stopAnd(w)
        \/ \E w \in {"fault", "idle"} : syncAnd(w)
        \/ lpc' \in {"sample", "loop"} /\ UNCHANGED <<callVars, why>> /\ lpc = "check"
    BY <1>6 DEF check, roomBails, bail, checkFault
  <2>2. CASE \E w : stopAnd(w)
    BY <1>a, <2>2, StopIsQuiet DEF stopAnd
  <2>3. CASE \E w \in {"fault", "idle"} : syncAnd(w)
    BY <2>3 DEF syncAnd, EndInv, GivenUp
  <2>4. CASE lpc' \in {"sample", "loop"} /\ UNCHANGED <<callVars, why>> /\ lpc = "check"
    BY <1>c, <2>4 DEF EndInv
  <2> QED BY <2>1, <2>2, <2>3, <2>4
<1>7. ASSUME NEW v, NEW e, sample(v, e) PROVE EndInv'
  <2>1. why = "none" /\ \/ lpc' = "room" /\ why' = why
                        \/ lpc' = "loop" /\ why' = why
                        \/ lpc' = "sync" /\ why' = "done"
    BY <1>7 DEF sample, offer, afterSegment, completes, syncAnd, EndInv
  <2> QED BY <2>1 DEF EndInv, GivenUp
<1>8. CASE submit
  <2>1. CASE afterSegment(res, v_seen)
    <3>1. why = "none" /\ \/ lpc' = "loop" /\ why' = why
                          \/ lpc' = "sync" /\ why' = "done"
      BY <1>8, <2>1 DEF submit, afterSegment, completes, syncAnd, EndInv
    <3> QED BY <3>1 DEF EndInv, GivenUp
  <2>2. CASE stopAnd("refused")
    BY <1>a, <2>2, StopIsQuiet DEF stopAnd
  <2> QED BY <1>8, <2>1, <2>2 DEF submit
<1>9. CASE sync \/ return
  BY <1>9, <1>c DEF sync, return, EndInv
<1>10. ASSUME NEW e, realtime(e) PROVE EndInv'
  <2>1. lpc' = lpc /\ why' = why /\ (requestStop \/ UNCHANGED callVars)
    BY <1>10 DEF realtime
  <2>2. CASE requestStop
    BY <1>a, <2>1, <2>2, StopIsQuiet DEF EndInv
  <2>3. CASE UNCHANGED callVars
    BY <1>c, <2>1, <2>3 DEF EndInv
  <2> QED BY <2>1, <2>2, <2>3
<1>11. CASE UNCHANGED vars
  BY <1>11, <1>c DEF vars, motionVars, EndInv
<1>12. CASE Finish
  BY <1>12 DEF Finish, Stop, motionVars, EndInv
<1>13. ASSUME NEW d, gG0(d) PROVE EndInv'
  BY <1>13, <1>c DEF gG0, EndInv
<1> QED BY <1>1, <1>2, <1>3, <1>4, <1>5, <1>6, <1>7, <1>8, <1>9, <1>10, <1>11, <1>12, <1>13
        DEF Next, GCode, Loop

LEMMA EndInvariant == Spec => []EndInv
<1>1. Init => EndInv
  BY DEF Init, EndInv, GivenUp
<1> QED BY <1>1, EndStep, PTL DEF Spec

\* Reset, alarm, soft limits or a refused segment: the generator stays stopped
\* until the next M3, whatever the servo task's ticks do meanwhile and in
\* whatever tick the stop comes, unless the cut was armed then.
THEOREM GivenUpIsQuiet == Spec => []EarlyEndNoSpark
<1>1. EndInv => EarlyEndNoSpark
  BY DEF EndInv, GivenUp, EarlyEndNoSpark
<1> QED BY <1>1, EndInvariant, PTL

-----------------------------------------------------------------------------
(* The planner and the path *)

\* The planner ends where its last block does, or where the motors are.
PlannerEnd ==
  IF queue = <<>> THEN mpos = plan_pos ELSE queue[Len(queue)] = plan_pos

\* Outside the wait for room a planner that is on the contour was given
\* everything emitted; in it, all but the segment at hand.
Submitted ==
  /\ lpc \in {"loop", "check", "sample", "sync"} /\ joined
     => plan_pos = steps(poseAt(contour, st.s_emit))
  /\ lpc = "room" => /\ res.target = poseAt(contour, st.s_emit)
                     /\ joined => Abs(steps(res.target) - plan_pos) <= SegMaxSteps
                     /\ res.block_done => st.s_emit >= totalLen(contour) - EpsEnd
  /\ lpc = "gcode" => ~joined

\* A move that is done was sampled to its end and, unless a reset cut it short,
\* executed.
Finished ==
  why = "done" /\ lpc \in {"sync", "return"}
  => /\ st.s_emit >= totalLen(contour) - EpsEnd
     /\ plan_pos = steps(poseAt(contour, st.s_emit))
     /\ lpc = "return" => abort \/ queue = <<>>

PathInv == Path(contour, st) /\ PlannerEnd /\ Submitted /\ Finished

LEMMA PathStart == ASSUME NEW c, Contour(c) PROVE Path(c, NewState)
BY ContourNumbers, Lengths DEF Path, NewState, Abs

\* The end of a segment, submitted or with nothing to submit.
LEMMA SegmentEnds ==
  ASSUME MotionType, NEW r, NEW v, afterSegment(r, v)
  PROVE  \/ lpc' = "sync" /\ why' = "done" /\ r.block_done
         \/ lpc' = "loop" /\ why' = why
BY DEF afterSegment, completes, syncAnd

LEMMA TailKeepsLast ==
  ASSUME NEW q \in Seq(Int), q # <<>>
  PROVE  IF Tail(q) = <<>> THEN Head(q) = q[Len(q)]
         ELSE Tail(q)[Len(Tail(q))] = q[Len(q)]
<1>1. Len(q) \in Nat /\ Len(q) # 0
  BY EmptySeq
<1>2. Tail(q) \in Seq(Int) /\ Len(Tail(q)) = Len(q) - 1 /\ Head(q) = q[1]
      /\ \A i \in 1..Len(Tail(q)) : Tail(q)[i] = q[i + 1]
  BY <1>1
<1>3. CASE Tail(q) = <<>>
  <2>1. Len(q) = 1
    <3>1. Len(Tail(q)) = 0
      BY <1>3, EmptySeq
    <3> DEFINE n == Len(q)
    <3>2. n \in Nat /\ n - 1 = 0
      BY <1>1, <1>2, <3>1, Zenon
    <3> HIDE DEF n
    <3>3. n = 1
      BY <3>2
    <3> QED BY <3>3 DEF n
  <2> QED BY <1>2, <1>3, <2>1
<1>4. CASE Tail(q) # <<>>
  <2>1. Len(Tail(q)) # 0
    BY <1>2, <1>4, EmptySeq
  <2>2. Len(Tail(q)) \in 1..Len(Tail(q)) /\ Len(Tail(q)) + 1 = Len(q)
    BY <1>1, <1>2, <2>1
  <2> QED BY <1>2, <1>4, <2>2
<1> QED BY <1>3, <1>4

\* The end of the planner keeps its distance from the motors.
LEMMA ShiftKeepsEnd ==
  ASSUME queue \in Seq(Int), plan_pos \in Int, mpos \in Int, PlannerEnd,
         mpos' = 0, plan_pos' = plan_pos - mpos, queue' = fromMotors(queue)
  PROVE  PlannerEnd'
<1>1. CASE queue = <<>>
  <2>1. queue' = <<>>
    BY <1>1, FromMotors
  <2> QED BY <1>1, <2>1 DEF PlannerEnd
<1>2. CASE queue # <<>>
  <2>1. Len(queue) \in Nat /\ Len(queue) # 0
    BY <1>2, EmptySeq
  <2>2. Len(queue') = Len(queue) /\ queue'[Len(queue)] = queue[Len(queue)] - mpos
    BY <2>1, FromMotors
  <2>3. queue' # <<>>
    BY <2>1, <2>2
  <2> QED BY <1>2, <2>2, <2>3 DEF PlannerEnd
<1> QED BY <1>1, <1>2

LEMMA PathStep ==
  MotionType /\ EndInv /\ PathInv /\ [Next]_vars => PathInv'
<1> SUFFICES ASSUME MotionType, EndInv, PathInv, [Next]_vars PROVE PathInv'
  OBVIOUS
<1>a. /\ Contour(contour) /\ st \in SamplerState /\ res \in SampleResult
      /\ queue \in Seq(Int) /\ plan_pos \in Int /\ mpos \in Int
  BY DEF MotionType, TypeOK, SamplerState, SampleResult
<1>b. Path(contour, st) /\ PlannerEnd /\ Submitted /\ Finished
  BY DEF PathInv
<1>c. UNCHANGED loopVars => Path(contour, st)'
  <2>1. SUFFICES ASSUME UNCHANGED loopVars PROVE Path(contour', st')
    OBVIOUS
  <2> QED BY <1>b, <2>1 DEF loopVars
<1>d. UNCHANGED plannerVars => PlannerEnd'
  BY <1>b DEF PlannerEnd, plannerVars
<1>1. CASE UNCHANGED motionVars
  <2>1. UNCHANGED <<contour, st, res, lpc, why, sys_state, abort, queue, plan_pos, mpos, joined>>
    BY <1>1 DEF motionVars, loopVars, sysVars, plannerVars
  <2>2. UNCHANGED loopVars /\ UNCHANGED plannerVars
    BY <1>1 DEF motionVars
  <2>3. Submitted' /\ Finished'
    BY <1>b, <2>1 DEF Submitted, Finished
  <2> QED BY <1>c, <1>d, <2>2, <2>3 DEF PathInv
<1>2. CASE gM3
  <2>1. UNCHANGED <<contour, st, res, lpc, sys_state, abort, queue, plan_pos, mpos, joined>>
        /\ UNCHANGED loopVars /\ UNCHANGED plannerVars /\ lpc = "gcode"
    BY <1>2 DEF gM3, gReady, loopVars, sysVars, plannerVars
  <2>2. Submitted' /\ Finished'
    BY <1>b, <2>1 DEF Submitted, Finished
  <2> QED BY <1>c, <1>d, <2>1, <2>2 DEF PathInv
<1>3. CASE restart
  <2>1. UNCHANGED loopVars /\ PlannerEnd' /\ lpc = "gcode" /\ lpc' = "gcode" /\ joined' = joined
    BY <1>3 DEF restart, PlannerEnd
  <2>2. Submitted' /\ Finished'
    BY <1>b, <2>1 DEF Submitted, Finished
  <2> QED BY <1>c, <2>1, <2>2 DEF PathInv
<1>4. ASSUME NEW m \in Cuts, NEW inside \in BOOLEAN, runCut(m, inside)
      PROVE  PathInv'
  <2>1. m.segs \in Nat /\ m.ds \in Nat
    BY MotionAssumption
  <2>2. Contour(contour') /\ Path(contour', NewState)
    BY <1>4, <2>1, ArcContour, PathStart DEF runCut
  <2>3. /\ st' = NewState /\ joined' = (plan_pos' = steps(startS(contour')))
        /\ (lpc' = "loop" /\ why' = "none") \/ (lpc' = "return" /\ why' = "outside")
        /\ mpos' = 0 /\ plan_pos' = plan_pos - mpos /\ queue' = fromMotors(queue)
    BY <1>4 DEF runCut
  <2>4. st'.s_emit = 0 /\ poseAt(contour', 0) = startS(contour')
    BY <2>2, <2>3, ContourNumbers DEF NewState, poseAt
  <2>5. Submitted' /\ Finished'
    BY <2>3, <2>4 DEF Submitted, Finished
  <2>6. PlannerEnd'
    BY <1>a, <1>b, <2>3, ShiftKeepsEnd DEF PlannerEnd
  <2> QED BY <2>2, <2>3, <2>5, <2>6 DEF PathInv
<1>5. CASE loopTop \/ cycleStop \/ sync \/ gCycle
  <2>1. /\ UNCHANGED <<contour, st, res, why, abort, queue, plan_pos, mpos, joined>>
        /\ UNCHANGED loopVars /\ UNCHANGED plannerVars
    BY <1>5 DEF loopTop, cycleStop, sync, gCycle, loopVars, plannerVars
  <2>2. Submitted'
    BY <1>5, <1>b, <2>1 DEF loopTop, cycleStop, sync, gCycle, Submitted
  <2>3. Finished'
    BY <1>5, <1>b, <2>1 DEF loopTop, cycleStop, sync, gCycle, gReady, Finished, Pumping
  <2> QED BY <1>c, <1>d, <2>1, <2>2, <2>3 DEF PathInv
<1>6. CASE check \/ roomBails
  <2>1. /\ UNCHANGED <<contour, st, res, sys_state, abort, queue, plan_pos, mpos, joined>>
        /\ UNCHANGED loopVars /\ UNCHANGED plannerVars
    BY <1>6 DEF check, roomBails, loopVars, sysVars, plannerVars
  <2>2. Submitted'
    BY <1>6, <1>b, <2>1 DEF check, roomBails, bail, checkFault, stopAnd, syncAnd, Submitted
  <2>3. Finished'
    BY <1>6, <2>1 DEF check, roomBails, bail, checkFault, stopAnd, syncAnd, Finished, EndInv
  <2> QED BY <1>c, <1>d, <2>1, <2>2, <2>3 DEF PathInv
<1>7. ASSUME NEW v \in Speeds, NEW e \in Elapsed, sample(v, e)
      PROVE  PathInv'
  <2>1. v \in Int /\ e \in Nat
    BY MotionAssumption
  <2>2. /\ st' = step(contour, st, v, e).st /\ res' = step(contour, st, v, e).r
        /\ contour' = contour /\ lpc = "sample" /\ UNCHANGED plannerVars
        /\ UNCHANGED <<queue, plan_pos, mpos, joined>>
        /\ IF res'.emit THEN lpc' = "room" /\ why' = why ELSE afterSegment(res', v)
    BY <1>7 DEF sample, offer, plannerVars
  <2>3. Path(contour, st') /\ Emitted(contour, st, st', res')
    BY <1>a, <1>b, <2>1, <2>2, StepPath
  <2>4. st' \in SamplerState /\ st.s_emit \in Nat /\ st'.s_emit \in Nat
    <3>1. st' \in SamplerState
      BY <1>a, <2>1, <2>2, StepType
    <3> QED BY <1>a, <3>1 DEF SamplerState
  <2>5. (joined => plan_pos = steps(poseAt(contour, st.s_emit))) /\ why = "none"
    BY <1>b, <2>2 DEF Submitted, EndInv
  <2>6. CASE res'.emit
    <3>1. lpc' = "room" /\ why' = "none"
      BY <2>2, <2>5, <2>6
    <3>2. Abs(steps(poseAt(contour, st'.s_emit)) - steps(poseAt(contour, st.s_emit)))
            <= SegMaxSteps
      <4>1. /\ poseAt(contour, st'.s_emit) \in Nat /\ poseAt(contour, st.s_emit) \in Nat
            /\ Abs(poseAt(contour, st'.s_emit) - poseAt(contour, st.s_emit)) <= SegMax
        BY <1>a, <2>3, <2>4, <2>6, PosesApart DEF Emitted
      <4> QED BY <4>1, StepsApart
    <3>3. Submitted'
      BY <2>2, <2>3, <2>5, <2>6, <3>1, <3>2 DEF Submitted, Emitted
    <3>4. Finished'
      BY <3>1 DEF Finished
    <3> QED BY <1>d, <2>2, <2>3, <3>3, <3>4 DEF PathInv
  <2>7. CASE ~res'.emit
    <3>1. ~res'.block_done /\ st'.s_emit = st.s_emit
      BY <2>3, <2>7 DEF Emitted
    <3>2. lpc' = "loop" /\ why' = why
      BY <2>2, <2>7, <3>1, SegmentEnds
    <3>3. Submitted' /\ Finished'
      BY <2>2, <2>5, <3>1, <3>2 DEF Submitted, Finished
    <3> QED BY <1>d, <2>2, <2>3, <3>3 DEF PathInv
  <2> QED BY <2>6, <2>7
<1>8. CASE submit
  <2>1. lpc = "room" /\ UNCHANGED <<contour, st, res, sys_state, abort>> /\ UNCHANGED loopVars
    BY <1>8 DEF submit, loopVars, sysVars
  <2>2. /\ res.target = poseAt(contour, st.s_emit) /\ why = "none"
        /\ res.block_done => st.s_emit >= totalLen(contour) - EpsEnd
    BY <1>b, <2>1 DEF Submitted, EndInv
  <2>3. CASE planBufferLine(steps(res.target)) /\ afterSegment(res, v_seen)
    <3>1. plan_pos' = steps(poseAt(contour, st.s_emit)) /\ queue' = Append(queue, plan_pos')
      BY <2>2, <2>3 DEF planBufferLine
    <3>2. plan_pos' \in Int
      <4>1. steps(res.target) \in Nat
        BY <1>a, StepsOf DEF SampleResult
      <4> QED BY <2>2, <3>1, <4>1
    <3>3. PlannerEnd'
      <4>1. queue' # <<>> /\ queue'[Len(queue')] = plan_pos'
        BY <1>a, <3>1, <3>2
      <4> QED BY <4>1 DEF PlannerEnd
    <3>4. \/ lpc' = "sync" /\ why' = "done" /\ res.block_done
          \/ lpc' = "loop" /\ why' = why
      BY <2>3, SegmentEnds
    <3>5. Submitted' /\ Finished'
      BY <2>1, <2>2, <3>1, <3>4 DEF Submitted, Finished
    <3> QED BY <1>c, <2>1, <3>3, <3>5 DEF PathInv
  <2>4. CASE stopAnd("refused") /\ UNCHANGED plannerVars
    <3>1. Submitted' /\ Finished'
      BY <2>4 DEF stopAnd, Submitted, Finished
    <3> QED BY <1>c, <1>d, <2>1, <2>4, <3>1 DEF PathInv
  <2> QED BY <1>8, <2>3, <2>4 DEF submit
<1>9. CASE return
  <2>1. /\ contour' = reset /\ st' = NewState /\ lpc = "return" /\ lpc' = "gcode"
        /\ UNCHANGED <<why, abort, queue, plan_pos, mpos>> /\ joined' = FALSE
    BY <1>9 DEF return
  <2>2. Path(contour', st')
    BY <2>1, ResetContour, PathStart
  <2>3. Submitted' /\ Finished'
    BY <2>1 DEF Submitted, Finished
  <2>4. PlannerEnd'
    BY <1>b, <2>1 DEF PlannerEnd
  <2> QED BY <2>1, <2>2, <2>3, <2>4 DEF PathInv
<1>10. CASE stepBlock
  <2>1. /\ UNCHANGED <<contour, st, res, lpc, why, sys_state, abort, plan_pos, joined>>
        /\ UNCHANGED loopVars /\ queue # <<>> /\ sys_state = "Cycle"
        /\ mpos' = Head(queue) /\ queue' = Tail(queue)
    BY <1>10 DEF stepBlock, loopVars, sysVars
  <2>2. PlannerEnd'
    BY <1>a, <1>b, <2>1, TailKeepsLast DEF PlannerEnd
  <2>3. Submitted'
    BY <1>b, <2>1 DEF Submitted
  <2>4. Finished'
    BY <1>b, <2>1 DEF Finished
  <2> QED BY <1>c, <2>1, <2>2, <2>3, <2>4 DEF PathInv
<1>11. ASSUME NEW e \in Events, realtime(e)
       PROVE  PathInv'
  <2>1. /\ UNCHANGED <<contour, st, res, lpc, why, queue, plan_pos, mpos, joined>>
        /\ UNCHANGED loopVars /\ UNCHANGED plannerVars
        /\ lpc \in {"loop", "sync", "room"}
    BY <1>11 DEF realtime, loopVars, plannerVars, Pumping
  <2>2. Submitted' /\ Finished'
    BY <1>b, <2>1 DEF Submitted, Finished
  <2> QED BY <1>c, <1>d, <2>1, <2>2 DEF PathInv
<1>12. \/ Ticks /\ UNCHANGED <<arming, motionVars>>
       \/ Finish \/ gM5 \/ UNCHANGED vars => UNCHANGED motionVars
  BY DEF Finish, gM5, vars
<1>13. ASSUME NEW d \in Rapids, gG0(d)
       PROVE  PathInv'
  <2>1. /\ UNCHANGED <<contour, st, res, lpc, why, sys_state, abort, joined>> /\ lpc = "gcode"
        /\ UNCHANGED loopVars /\ queue' = Append(fromMotors(queue), plan_pos')
        /\ plan_pos' = plan_pos - mpos + d
    BY <1>13 DEF gG0, gReady, loopVars, sysVars
  <2>2. PlannerEnd'
    <3>1. d \in Int /\ plan_pos' \in Int /\ fromMotors(queue) \in Seq(Int)
      BY <1>a, <2>1, FromMotors, MotionAssumption
    <3>2. queue' # <<>> /\ queue'[Len(queue')] = plan_pos'
      BY <2>1, <3>1
    <3> QED BY <3>2 DEF PlannerEnd
  <2>3. Submitted' /\ Finished'
    BY <1>b, <2>1 DEF Submitted, Finished
  <2> QED BY <1>c, <2>1, <2>2, <2>3 DEF PathInv
<1> QED BY <1>1, <1>2, <1>3, <1>4, <1>5, <1>6, <1>7, <1>8, <1>9, <1>10, <1>11, <1>12, <1>13
        DEF Next, GCode, Loop

LEMMA PathInit == Init => PathInv
<1> SUFFICES ASSUME Init PROVE PathInv
  OBVIOUS
<1>1. Path(contour, st)
  BY ResetContour, PathStart DEF Init
<1> QED BY <1>1 DEF Init, PathInv, PlannerEnd, Submitted, Finished

LEMMA PathInvariant == Spec => []PathInv
BY PathInit, PathStep, TypeInvariant, EndInvariant, PTL DEF Spec

\* Whatever the velocities commanded, reversals included: never a whole segment
\* is left behind by the cap on a segment.
THEOREM PendingIsShort == Spec => []PendingShort
<1>1. PathInv => PendingShort
  BY DEF PathInv, Path, PendingShort
<1> QED BY <1>1, PathInvariant, PTL

\* Whatever the velocities, holds and alarms: once it is on the contour, the
\* planner is given nothing beyond its end or behind the retract window.
THEOREM StaysInWindow == Spec => []InWindow
<1>1. MotionType /\ PathInv => InWindow
  <2> SUFFICES ASSUME MotionType, PathInv, joined, lpc \in {"loop", "check", "sample", "sync"}
      PROVE  /\ plan_pos >= steps(retractFloor(contour, st.s_max, RetractMax))
             /\ plan_pos <= steps(totalLen(contour))
    BY DEF InWindow
  <2> DEFINE floor == retractFloor(contour, st.s_max, RetractMax)
             pose  == poseAt(contour, st.s_emit)
  <2>1. st.s_emit \in Nat /\ st.s_max \in Nat /\ Contour(contour) /\ RetractMax \in Nat
    BY Lengths DEF MotionType, TypeOK
  <2>2. /\ startS(contour) \in Nat /\ totalLen(contour) \in Nat
        /\ startS(contour) <= totalLen(contour)
    BY <2>1, ContourNumbers
  <2>3. floor \in Nat /\ floor <= pose /\ pose <= totalLen(contour) /\ pose \in Nat
    BY <2>1, <2>2 DEF retractFloor, poseAt, PathInv, Path
  <2>4. plan_pos = steps(pose)
    BY DEF PathInv, Submitted
  <2> HIDE DEF floor, pose
  <2>5. steps(floor) <= steps(pose) /\ steps(pose) <= steps(totalLen(contour))
    BY <2>2, <2>3, StepsMonotone
  <2> QED BY <2>4, <2>5 DEF floor
<1> QED BY <1>1, PathInvariant, TypeInvariant, PTL

\* A move that runContour reports as done ends where it was programmed to, with
\* the motors there.
THEOREM DoneIsThere == Spec => []Arrives
<1>1. PathInv => Arrives
  BY DEF PathInv, Finished, PlannerEnd, Arrives
<1> QED BY <1>1, PathInvariant, PTL

\* Every block the planner accepts after the first of a move, and the first too
\* when the planner is where the contour starts, is at most a segment long,
\* rounded up to motor steps.
THEOREM BlocksAreShort == Spec => ShortBlocks
<1>1. ASSUME MotionType, PathInv, [Next]_vars
      PROVE  [joined /\ Len(queue') > Len(queue) => Abs(plan_pos' - plan_pos) <= SegMaxSteps]_vars
  <2> SUFFICES ASSUME joined, Len(queue') > Len(queue)
      PROVE  Abs(plan_pos' - plan_pos) <= SegMaxSteps
    OBVIOUS
  <2>1. queue \in Seq(Int) /\ Len(queue) \in Nat /\ mpos \in Int
    BY <1>1 DEF MotionType, TypeOK
  <2>2. CASE submit
    <3>1. lpc = "room" /\ plan_pos' = steps(res.target)
      BY <2>1, <2>2 DEF submit, planBufferLine, plannerVars
    <3> QED BY <1>1, <3>1 DEF PathInv, Submitted
  <2>3. CASE restart \/ stepBlock
    <3>1. queue' = <<>> => Len(queue') = 0
      BY EmptySeq
    <3>2. CASE restart
      BY <2>1, <3>1, <3>2 DEF restart
    <3>3. CASE stepBlock
      <4>1. queue # <<>> /\ queue' = Tail(queue)
        BY <3>3 DEF stepBlock
      <4>2. Len(queue) > 0 /\ Len(queue') = Len(queue) - 1
        BY <2>1, <4>1, EmptySeq
      <4> QED BY <2>1, <4>2
    <3> QED BY <2>3, <3>2, <3>3
  <2>4. CASE queue' = queue
    BY <2>1, <2>4
  <2>5. CASE lpc = "gcode"
    BY <1>1, <2>5 DEF PathInv, Submitted
  <2>6. submit \/ restart \/ stepBlock \/ queue' = queue \/ lpc = "gcode"
    <3>1. CASE GCode
      BY <3>1 DEF GCode, gM3, gM5, restart, gCycle, gG0, runCut, gReady
    <3>2. CASE Loop
      BY <3>2 DEF Loop, loopTop, check, sample, roomBails, sync, return, plannerVars
    <3>3. CASE \/ Ticks /\ UNCHANGED <<arming, motionVars>>
               \/ Finish \/ UNCHANGED vars
      BY <3>3 DEF Finish, vars, motionVars, plannerVars
    <3>4. CASE cycleStop \/ \E e \in Events : realtime(e)
      BY <3>4 DEF cycleStop, realtime, plannerVars
    <3> QED BY <1>1, <3>1, <3>2, <3>3, <3>4 DEF Next
  <2> QED BY <2>2, <2>3, <2>4, <2>5, <2>6
<1> QED BY <1>1, PathInvariant, TypeInvariant, PTL DEF Spec, ShortBlocks
==============================================================================
