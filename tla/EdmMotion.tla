------------------------------ MODULE EdmMotion ------------------------------
(***************************************************************************)
(* A servo-fed cut move (EDM/Motion/EdmMotion, runCut and runCutArc) on    *)
(* the g-code thread, with the controller behind its lifecycle             *)
(* (CutLifecycle, whose ticks run on the other core), the planner and the  *)
(* stepper it feeds, and the realtime events FluidNC handles in the loop.  *)
(*                                                                         *)
(* The wire position is one dimensional: the distance along the programmed *)
(* path, which the planner rounds to motor steps.                          *)
(***************************************************************************)
EXTENDS CutLifecycle, PathSampler

CONSTANTS
  Cuts,          \* [segs, ds]: chords of a move and their length
  Speeds,        \* v_cmd_um_s values
  Elapsed,       \* times between two passes of the loop
  Rapids,        \* rapid moves between the cuts, in steps
  StepLen,       \* length of a motor step
  MaxInflight,   \* EDM_MAX_INFLIGHT (3)
  Events         \* realtime events that may happen: hold, limit, alarm, reset

ASSUME MotionAssumption ==
  /\ Cuts \subseteq [segs : Nat \ {0}, ds : Nat]
  /\ Speeds \subseteq Int /\ Elapsed \subseteq Nat /\ Rapids \subseteq Int
  /\ Serialised \in BOOLEAN
  /\ StepLen \in Nat \ {0} /\ MaxInflight \in Nat \ {0}
  /\ Events \subseteq {"hold", "limit", "alarm", "reset"}

VARIABLES
  contour,          \* the ContourBuffer
  st, res, v_seen,  \* SamplerState, the last SampleResult and the v it was for
  lpc,              \* where the g-code thread is
  why,              \* how the move ended, until the next one or M3
  sys_state, abort, \* FluidNC's State and sys.abort()
  queue, plan_pos,  \* planner blocks (target steps), the planner's position
  mpos,             \* the motors' position, in steps
  joined,           \* history: the planner's position is on this move's contour
  arming            \* history: the cut was armed when it was last stopped

callVars  == <<cut, arming>>
loopVars  == <<contour, st, res, v_seen>>
plannerVars == <<queue, plan_pos, mpos, joined>>
sysVars   == <<sys_state, abort>>
motionVars == <<loopVars, lpc, why, sysVars, plannerVars>>
vars == <<callVars, motionVars>>

\* lroundf(mpos * stepsPerMm); the start of a move is a whole step.
steps(p) == (p + StepLen \div 2) \div StepLen

\* How a move ends; refused: by the planner, outside: by invalid_line().
Outcomes == {"none", "done", "idle", "fault", "abort", "alarm", "refused", "outside"}

Init ==
  /\ LifeInit
  /\ contour = reset /\ st = NewState /\ res = NoResult /\ v_seen = 0
  /\ lpc = "gcode" /\ why = "none"
  /\ sys_state = "Idle" /\ abort = FALSE
  /\ queue = <<>> /\ plan_pos = 0 /\ mpos = 0
  /\ joined = FALSE /\ arming = FALSE

\* requestStop(), the frame; Finish, the state.  A tick that has found the cut
\* armed may start the generator after the frame.
requestStop ==
  Quench /\ arming' = (~Serialised /\ (phase = "armed" \/ tick = "aiming"))

Finish == Stop /\ UNCHANGED <<arming, motionVars>>

\* Mutant: one block too many in flight.
hasRoom_OffByOne == Len(queue) <= MaxInflight

\* The planner stays shallow: wait for room.
hasRoom == Len(queue) < MaxInflight

\* plan_buffer_line(): a block of no steps is refused.
planBufferLine(t) ==
  /\ t # plan_pos
  /\ queue' = Append(queue, t) /\ plan_pos' = t /\ UNCHANGED mpos

\* protocol_auto_cycle_start()
autoCycle(s) == IF queue # <<>> /\ s = "Idle" THEN "Cycle" ELSE s

-----------------------------------------------------------------------------
(* The g-code thread between moves. *)

gReady == lpc = "gcode" /\ sys_state \in {"Idle", "Cycle"} /\ ~abort

\* M3 and M5 wait for the planner to drain.
gM3 == /\ gReady /\ sys_state = "Idle" /\ queue = <<>>
       /\ M3 /\ arming' = FALSE /\ why' = "none"
       /\ UNCHANGED <<loopVars, lpc, sysVars, plannerVars>>

gM5 == /\ gReady /\ sys_state = "Idle" /\ queue = <<>>
       /\ requestStop /\ UNCHANGED motionVars

\* Path coordinates are counted from the motors' position.
fromMotors(q) == [i \in DOMAIN q |-> q[i] - mpos]

\* A G0 is queued and not waited for (as many as a cut has in flight).
gG0(d) ==
  /\ gReady /\ d # 0 /\ hasRoom
  /\ mpos' = 0 /\ plan_pos' = plan_pos - mpos + d
  /\ queue' = Append(fromMotors(queue), plan_pos')
  /\ UNCHANGED <<callVars, loopVars, lpc, why, sysVars, joined>>

\* A G1 (one chord) or G2/G3 while the EDM spindle is on: runCut, runCutArc.
\* The contour starts at the motors' position, wherever the planner is.
\* inside: every vertex passed invalid_line().
runCut(move, inside) ==
  /\ gReady
  /\ contour' = appendArc(reset, move.segs, move.ds)
  /\ st' = NewState /\ res' = NoResult /\ v_seen' = 0
  /\ mpos' = 0 /\ plan_pos' = plan_pos - mpos /\ queue' = fromMotors(queue)
  /\ joined' = (plan_pos' = steps(startS(contour')))
  /\ IF inside THEN lpc' = "loop" /\ why' = "none" /\ UNCHANGED callVars
     ELSE lpc' = "return" /\ why' = "outside" /\ requestStop
  /\ UNCHANGED sysVars

\* The restart after a reset, which also ends an alarm: the planner and the
\* spindle are reset.
restart ==
  /\ lpc = "gcode" /\ (abort \/ sys_state \in {"Alarm", "Critical"})
  /\ abort' = FALSE /\ sys_state' = "Idle" /\ queue' = <<>>
  /\ plan_pos' = mpos
  /\ requestStop
  /\ UNCHANGED <<loopVars, lpc, why, mpos, joined>>

-----------------------------------------------------------------------------
(* runContour(), pass by pass. *)

\* The pump at the top of a pass; realtime events are the actions below.
loopTop ==
  /\ lpc = "loop" /\ lpc' = "check"
  /\ sys_state' = autoCycle(sys_state)
  /\ UNCHANGED <<callVars, loopVars, why, abort, plannerVars>>

\* Leave the loop: at once after requestStop(), or once the queue drained.
stopAnd(w) == requestStop /\ lpc' = "return" /\ why' = w
syncAnd(w) == lpc' = "sync" /\ why' = w /\ UNCHANGED callVars

\* Mutant: a move given up for an alarm leaves the generator to the caller.
bail_NoStop ==
  \/ abort /\ stopAnd("abort")
  \/ ~abort /\ sys_state = "Alarm" /\ lpc' = "return" /\ why' = "alarm" /\ UNCHANGED callVars

bail == \/ abort /\ stopAnd("abort")
        \/ ~abort /\ sys_state = "Alarm" /\ stopAnd("alarm")

bails == abort \/ sys_state = "Alarm"

\* Mutant: a fault is treated as a hold: the loop waits for it to go away.
checkFault_Waits == shown.phase = "faulted" /\ lpc' = "loop" /\ UNCHANGED <<callVars, why>>

\* reportedState() is a fault.
checkFault == shown.phase = "faulted" /\ syncAnd("fault")

check ==
  /\ lpc = "check"
  /\ \/ bail
     \/ ~bails /\ checkFault
     \/ ~bails /\ shown.phase = "off" /\ syncAnd("idle")
     \/ /\ ~bails /\ shown.phase \in {"armed", "active"}
        /\ lpc' = IF sys_state \in {"Cycle", "Idle"} THEN "sample" ELSE "loop"
        /\ UNCHANGED <<callVars, why>>
  /\ UNCHANGED <<loopVars, sysVars, plannerVars>>

\* Mutant: the move is over when its last segment is queued.
completes_Queued == lpc' = "return" /\ why' = "done" /\ UNCHANGED callVars

completes == syncAnd("done")

\* The move completes on forward arrival, else the next pass follows.
afterSegment(r, v) ==
  IF r.block_done /\ v >= 0 THEN completes ELSE lpc' = "loop" /\ UNCHANGED <<callVars, why>>

\* Mutant: a segment is dropped when the planner is full.
offer_Drops(r, v) ==
  IF r.emit /\ hasRoom THEN lpc' = "room" /\ UNCHANGED <<callVars, why>>
  ELSE afterSegment(r, v)

\* A segment waits for room in the planner.
offer(r, v) ==
  IF r.emit THEN lpc' = "room" /\ UNCHANGED <<callVars, why>> ELSE afterSegment(r, v)

\* vCmdUmPerS(), a second read of the report, then PathSampler::step().
sample(v, e) ==
  LET r == step(contour, st, v, e) IN
  /\ lpc = "sample"
  /\ Sgn(v) = shown.v
  /\ st' = r.st /\ res' = r.r /\ v_seen' = v
  /\ offer(r.r, v)
  /\ UNCHANGED <<contour, sysVars, plannerVars>>

\* Mutant: the wait for room does not look at the abort flag.
roomBails_NoAbort ==
  /\ lpc = "room" /\ ~hasRoom /\ ~abort /\ bail
  /\ UNCHANGED <<loopVars, sysVars, plannerVars>>

roomBails ==
  /\ lpc = "room" /\ ~hasRoom /\ bail
  /\ UNCHANGED <<loopVars, sysVars, plannerVars>>

submit ==
  /\ lpc = "room" /\ hasRoom
  /\ \/ /\ planBufferLine(steps(res.target)) /\ joined' = TRUE
        /\ afterSegment(res, v_seen)
     \/ /\ steps(res.target) = plan_pos
        /\ stopAnd("refused") /\ UNCHANGED plannerVars
  /\ UNCHANGED <<loopVars, sysVars>>

\* protocol_buffer_synchronize(), then the return.
sync ==
  /\ lpc = "sync"
  /\ \/ /\ abort \/ (queue = <<>> /\ sys_state # "Cycle")
        /\ lpc' = "return" /\ UNCHANGED sys_state
     \/ /\ ~abort /\ queue # <<>> /\ sys_state = "Idle"
        /\ sys_state' = "Cycle" /\ UNCHANGED lpc
  /\ UNCHANGED <<callVars, loopVars, why, abort, plannerVars>>

\* A fault raises AbortCycle, a refused segment or vertex SoftLimit.  The
\* caller drops the result; the locals are gone.
return ==
  /\ lpc = "return" /\ lpc' = "gcode"
  /\ sys_state' = IF why = "fault" THEN "Alarm"
                  ELSE IF why \in {"refused", "outside"} THEN "Critical"
                  ELSE sys_state
  /\ contour' = reset /\ st' = NewState /\ res' = NoResult /\ v_seen' = 0
  /\ joined' = FALSE
  /\ UNCHANGED <<callVars, why, abort, queue, plan_pos, mpos>>

Loop ==
  /\ ~stopping
  /\ \/ loopTop \/ check \/ (\E v \in Speeds, e \in Elapsed : sample(v, e))
     \/ roomBails \/ submit \/ sync \/ return

-----------------------------------------------------------------------------
(* The stepper, and what protocol_execute_realtime() may find to do. *)

stepBlock ==
  /\ sys_state = "Cycle" /\ queue # <<>>
  /\ mpos' = Head(queue) /\ queue' = Tail(queue)
  /\ UNCHANGED <<callVars, loopVars, lpc, why, sysVars, plan_pos, joined>>

\* Where the g-code thread calls protocol_execute_realtime().
Pumping == /\ ~stopping
           /\ lpc \in {"gcode", "loop", "sync"} \/ (lpc = "room" /\ ~hasRoom)

cycleStop ==
  /\ Pumping /\ sys_state = "Cycle" /\ queue = <<>>
  /\ sys_state' = "Idle"
  /\ UNCHANGED <<callVars, loopVars, lpc, why, abort, plannerVars>>

\* Feed hold (even in Critical) and resume; a limit switch or fault pin; another alarm; a reset.
realtime(e) ==
  /\ e \in Events /\ Pumping /\ lpc # "gcode" /\ ~abort
  /\ \/ /\ e = "hold" /\ sys_state # "Alarm" /\ UNCHANGED <<callVars, abort>>
        /\ sys_state' = IF sys_state # "Hold" THEN "Hold"
                        ELSE IF queue = <<>> THEN "Idle" ELSE "Cycle"
     \/ /\ e = "limit" /\ sys_state \in {"Idle", "Cycle", "Hold"}
        /\ sys_state' = "Critical" /\ UNCHANGED <<callVars, abort>>
     \/ /\ e = "alarm" /\ sys_state \in {"Idle", "Cycle", "Hold"}
        /\ sys_state' = "Alarm" /\ UNCHANGED <<callVars, abort>>
     \/ /\ e = "reset" /\ abort' = TRUE
        \* a hold may still be stopping; a limit switch may have unhomed axes
        /\ \/ sys_state # "Idle" /\ sys_state' = "Alarm"
           \/ sys_state \in {"Critical", "Hold", "Idle"} /\ sys_state' = "Idle"
        /\ requestStop
  /\ UNCHANGED <<loopVars, lpc, why, plannerVars>>

-----------------------------------------------------------------------------
\* The main loop starts the cycle of what was queued.
gCycle == /\ gReady /\ sys_state' = autoCycle(sys_state)
          /\ UNCHANGED <<callVars, loopVars, lpc, why, abort, plannerVars>>

GCode == /\ ~stopping
         /\ \/ gM3 \/ gM5 \/ restart \/ gCycle \/ \E d \in Rapids : gG0(d)
            \/ \E m \in Cuts, inside \in BOOLEAN : runCut(m, inside)

Next ==
  \/ Ticks /\ UNCHANGED <<arming, motionVars>>   \* the servo task
  \/ GCode \/ Loop \/ Finish \/ stepBlock \/ cycleStop
  \/ \E e \in Events : realtime(e)

Spec == Init /\ [][Next]_vars

\* The loop, the stepper and the end of a cycle are never starved.  Nothing is
\* asked of the servo task.
FairSpec == /\ Spec /\ WF_vars(Loop) /\ WF_vars(Finish)
            /\ WF_vars(stepBlock) /\ WF_vars(cycleStop)

-----------------------------------------------------------------------------
(* Properties. *)

\* The types, the buffer within its capacity, the planner within its depth.
TypeOK ==
  /\ phase \in Phase /\ spark \in BOOLEAN /\ stopping \in BOOLEAN
  /\ tick \in {"idle", "busy", "aiming", "started"} /\ arming \in BOOLEAN
  /\ shown \in [phase : Phase, v : Moves]
  /\ contour \in Seq(Nat) /\ Len(contour) \in 1..Cap
  /\ queue \in Seq(Int) /\ Len(queue) <= MaxInflight
  /\ st \in [s : Nat, s_max : Nat, s_emit : Nat, v : -VMax..VMax, dir : Moves]
  /\ res \in [emit : BOOLEAN, target : Nat, block_done : BOOLEAN]
  /\ lpc \in {"gcode", "loop", "check", "sample", "room", "sync", "return"}
  /\ why \in Outcomes /\ abort \in BOOLEAN
  /\ sys_state \in {"Idle", "Cycle", "Hold", "Alarm", "Critical"}
  /\ v_seen \in Speeds \cup {0} /\ plan_pos \in Int /\ mpos \in Int
  /\ joined \in BOOLEAN

\* runContour returns true at the programmed end only: the last segment went
\* to within eps_end of it, and the motors have executed it.
Arrives ==
  lpc = "return" /\ why = "done" /\ ~abort =>
    /\ st.s_emit >= totalLen(contour) - EpsEnd
    /\ queue = <<>> /\ mpos = steps(poseAt(contour, st.s_emit))

\* Once the planner is on the contour, what it was given stays between the
\* retract window behind the furthest point reached and the end.
InWindow ==
  joined /\ lpc \in {"loop", "check", "sample", "sync"} =>
    /\ plan_pos >= steps(retractFloor(contour, st.s_max, RetractMax))
    /\ plan_pos <= steps(totalLen(contour))

\* The sampler never has a whole segment outstanding, even on a contour whose
\* start was dropped, so the cap on a segment never leaves part of the way to
\* the end behind.
PendingShort ==
  lpc \in {"loop", "check", "sample"} => Abs(st.s - st.s_emit) < SegMin

\* A move that is given up leaves the generator stopped until the next M3,
\* whether a reset, an alarm, the soft limits or the planner ended it, and
\* whatever tick it ends in; only an arming that overtakes the stop is not
\* covered (EdmController, SparkOffWhenIdle).
EarlyEndNoSpark ==
  /\ why \in {"abort", "alarm", "refused", "outside"}
  /\ lpc \in {"return", "gcode"} /\ ~arming
  => ~spark

\* Only the first block of a move may be longer than a segment, and only if
\* the planner was not where the contour starts: behind queued rapids, or with
\* the start of a long arc dropped from the buffer.  From there on the motion
\* follows the contour, vertex after vertex.
SegMaxSteps == (SegMax + StepLen - 1) \div StepLen
ShortBlocks ==
  [][joined /\ Len(queue') > Len(queue) => Abs(plan_pos' - plan_pos) <= SegMaxSteps]_vars

\* A wait for queued blocks while a hold, a limit switch or an alarm keeps the
\* stepper from executing them: it looks at neither the fault nor the cut.
Standing == /\ lpc \in {"room", "sync"} /\ queue # <<>>
            /\ sys_state \in {"Hold", "Critical", "Alarm"}

\* No move goes on under a fault that stays published (a wire-break event may
\* take it back before the loop reads it), unless it waits for blocks that a
\* hold, a limit switch or an alarm keeps the machine from executing.
FaultEndsMove == []<>(shown.phase # "faulted" \/ lpc = "gcode" \/ Standing)

\* A reset ends the move, wherever the loop is waiting.
AbortEndsMove == abort ~> (lpc = "gcode")
=============================================================================
