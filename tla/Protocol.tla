------------------------------ MODULE Protocol ------------------------------
(***************************************************************************)
(* The realtime side of the FluidNC core: Protocol.cpp with Parking.cpp,   *)
(* the part that decides, for the EDM spindle as for any other, when the   *)
(* machine holds, parks, resumes and resets.                               *)
(*                                                                         *)
(* One task runs everything: the main loop, and nested in it the suspend   *)
(* loop and the parking moves.  Each of them waits by calling              *)
(* protocol_exec_rt_system(), which takes the pending door stop and drains *)
(* the event queue.  pc says where that task is; ret where it goes when    *)
(* the queue is empty.                                                     *)
(*                                                                         *)
(*   line     top of protocol_main_loop()                                  *)
(*   rt       protocol_exec_rt_system() is entered                         *)
(*   events   protocol_handle_events() drains the queue                    *)
(*   top      back in the main loop from protocol_exec_rt_system()         *)
(*   suspend  top of the loop of protocol_exec_rt_suspend()                *)
(*   pull, park, back, plunge   the four moves of Parking                  *)
(*                                                                         *)
(* Beside it run the polling task and the pins, which only post events,    *)
(* and the stepper interrupt.  Segment preparation and the interrupt are   *)
(* one process here: Stepper.cpp sizes its buffer so that it does not run  *)
(* dry while there is motion to prepare.                                   *)
(***************************************************************************)
EXTENDS Integers, Sequences, FiniteSets

CONSTANTS
  Homes,        \* some axis homes
  Parks,        \* can_park(): parking enabled, its axis homes, M56 on
  OffOnAlarm,   \* off_on_alarm of the spindle
  QueueMax,     \* capacity of event_queue (50)
  TargetZ,      \* _target_mpos
  Pullout,      \* _pullout
  WorkZ,        \* where the tool is when the program starts
  BlockLen,     \* steps of a planner block
  MaxBlocks,    \* blocks a program has in the planner at a time
  Lines,        \* lines the channels send
  Inputs,       \* what the door, the channels and the pins do
  Rough,        \* those of them that are rare: reset, limit, overrides
  MaxLines, MaxInputs, MaxRough   \* how many of each

ASSUME ProtocolAssumption ==
  /\ {Homes, Parks, OffOnAlarm} \subseteq BOOLEAN /\ (Parks => Homes)
  /\ QueueMax \in Nat \ {0} /\ BlockLen \in Nat \ {0} /\ MaxBlocks \in Nat
  /\ MaxLines \in Nat /\ MaxInputs \in Nat /\ MaxRough \in Nat
  /\ TargetZ \in Int /\ WorkZ \in Int /\ Pullout \in Nat
  /\ Lines \subseteq {"move", "jog", "M3", "M5", "$SLP", "$X"}
  /\ Inputs \cup Rough \subseteq {"door", "safetyDoor", "feedHold", "cycleStart", "reset",
                                  "motionCancel", "spindleStop", "spindleOvr", "limit"}

VARIABLES
  sys,          \* state, suspend and step_control bits, abort
  rtSafetyDoor, \* a door stop is pending
  spindle_stop_ovr, \* bits set
  queue,        \* event_queue
  plan,         \* planner: blocks to run, [jog, todo]
  goal,         \* target of the system motion
  z, pl_z,      \* parking axis: the machine, the planner
  awake,        \* stepper interrupt running
  ajar, door,   \* value of the door pin as last handled, the door itself
  unhomed,      \* Homing::unhomed_axes(): the position was lost
  modal, spinning, \* gc_state.modal.spindle is on, the spindle is on
  pc, ret,
  restart,      \* unpark()'s parameter
  restore_target, retract_waypoint,
  lines, inputs, rough \* how many were sent

inputVars == <<door, inputs, rough>>
parkVars == <<restart, restore_target, retract_waypoint>>
motionVars == <<plan, goal, z, pl_z, awake, unhomed>>
vars == <<sys, rtSafetyDoor, spindle_stop_ovr, queue, motionVars, ajar, inputVars,
          modal, spinning, pc, ret, parkVars, lines>>

States == {"Idle", "Alarm", "Critical", "Hold", "Jog", "Cycle", "SafetyDoor", "Sleep"}
SuspendBits == {"holdComplete", "restartRetract", "retractComplete", "initiateRestore",
                "safetyDoorAjar", "motionCancel", "jogCancel"}
StepBits == {"executeHold", "executeSysMotion"}
\* The cycle starts differ only in who sent them.
CycleStarts == {"cycleStart", "autoStart", "resumed"}
Events == CycleStarts \cup {"doorOpen", "doorShut", "safetyDoor", "feedHold", "cycleStop",
           "motionCancel", "sleep", "spindleStop", "spindleOvr", "limit",
           "hardLimit", "alarm", "reset", "restart"}

\* Mutant: a full queue still grows.
sent_Unbounded(q, e) == Append(q, e)

\* protocol_send_event(): a full queue drops the event.
sent(q, e) == IF Len(q) < QueueMax THEN Append(q, e) ELSE q

Has(b) == b \in sys.suspend
Stepping(b) == b \in sys.step
inMotionState(s) ==
  s.state \in {"Cycle", "Jog"} \/ (s.state = "Hold" /\ "holdComplete" \notin s.suspend)

Init ==
  /\ sys = [state |-> "Idle", suspend |-> {}, step |-> {}, abort |-> FALSE]
  /\ rtSafetyDoor = FALSE /\ spindle_stop_ovr = {} /\ queue = <<>>
  /\ plan = <<>> /\ goal = WorkZ /\ z = WorkZ /\ pl_z = WorkZ /\ awake = FALSE
  /\ unhomed = FALSE
  /\ ajar = FALSE /\ door = FALSE /\ modal = FALSE /\ spinning = FALSE
  /\ pc = "line" /\ ret = "line" /\ restart = FALSE
  /\ restore_target = TargetZ /\ retract_waypoint = Pullout  \* written before they are read
  /\ lines = 0 /\ inputs = 0 /\ rough = 0

-----------------------------------------------------------------------------
(* What the handlers do to sys. *)

\* protocol_start_holding(), protocol_cancel_jogging(): blocked while cancelling.
cancelling(s) == s.suspend \cap {"motionCancel", "jogCancel"} # {}

\* Mutant: the stepper is not asked to decelerate.
start_holding_NotAsked(s) == s

start_holding(s) ==
  IF cancelling(s) THEN s ELSE [s EXCEPT !.step = {"executeHold"}]
cancel_jogging(s) ==
  IF cancelling(s) THEN s
  ELSE [s EXCEPT !.step = {"executeHold"}, !.suspend = @ \cup {"jogCancel"}]
hold_complete(s) == [s EXCEPT !.suspend = {"holdComplete"}]

motion_cancel(s) ==
  LET flagged(t) == [t EXCEPT !.suspend = @ \cup {"motionCancel"}]
  IN  CASE s.state = "Alarm" -> s
        [] s.state = "Jog"   -> cancel_jogging(s)
        [] s.state = "Idle"  -> flagged(hold_complete(s))
        [] s.state = "Cycle" -> flagged(start_holding(s))
        [] OTHER             -> flagged(s)

\* Mutant: a hold of a running cycle is complete at once.
feedhold_Complete(s) ==
  [(IF s.state \in {"Idle", "Cycle"} THEN hold_complete(s) ELSE s) EXCEPT !.state = "Hold"]

feedhold(s) ==
  LET held(t) == [t EXCEPT !.state = "Hold"]
  IN  CASE s.state \in {"Alarm", "SafetyDoor", "Sleep"} -> s
        [] s.state = "Jog"   -> cancel_jogging(s)
        [] s.state = "Idle"  -> held(hold_complete(s))
        [] s.state = "Cycle" -> held(start_holding(s))
        [] OTHER             -> held(s)

\* The door re-opened while the program is being restored: retract again.
restarted(s) ==
  [s EXCEPT !.step = IF "executeSysMotion" \in @ THEN {"executeHold", "executeSysMotion"} ELSE @,
            !.suspend = ((@ \ (IF "executeSysMotion" \in s.step THEN {"holdComplete"} ELSE {}))
                           \ {"retractComplete", "initiateRestore"}) \cup {"restartRetract"}]

doorStopped(s) ==
  CASE s.state = "Idle"  -> hold_complete(s)
    [] s.state = "Cycle" -> start_holding(s)
    [] s.state = "Jog"   -> cancel_jogging(s)
    [] s.state = "SafetyDoor" /\ "jogCancel" \notin s.suspend
         /\ "initiateRestore" \in s.suspend -> restarted(s)
    [] OTHER -> s

sleep(s) ==
  [CASE s.state = "Alarm" -> [s EXCEPT !.suspend = @ \cup {"retractComplete", "holdComplete"}]
     [] s.state = "Idle"  -> hold_complete(s)
     [] s.state \in {"Cycle", "Jog"} -> start_holding(s)
     [] OTHER -> s
   EXCEPT !.state = "Sleep"]

\* protocol_do_initiate_cycle(): resume with the next block, or go idle.
starts(s) == plan # <<>> /\ "motionCancel" \notin s.suspend
initiate_cycle(s) ==
  [s EXCEPT !.step = {}, !.suspend = {},
            !.state = IF ~starts(s) THEN "Idle" ELSE IF Head(plan).jog THEN "Jog" ELSE "Cycle"]

\* Mutant: the end of a parking move is not noted.
holdStopped_KeepsMotion(s) ==
  [s EXCEPT !.suspend = IF "executeHold" \in s.step THEN @ \cup {"holdComplete"} ELSE @,
            !.step = @ \ {"executeHold"}]

\* protocol_do_cycle_stop(), the hold branch and the end of a motion.
holdStopped(s) ==
  [s EXCEPT !.suspend = IF "executeHold" \in s.step THEN @ \cup {"holdComplete"} ELSE @,
            !.step = @ \ {"executeHold", "executeSysMotion"}]
motionDone(s) ==
  [s EXCEPT !.step = IF "jogCancel" \in s.suspend THEN {} ELSE @,
            !.suspend = IF "safetyDoorAjar" \in s.suspend
                        THEN (@ \ {"jogCancel"}) \cup {"holdComplete"} ELSE {},
            !.state = IF "safetyDoorAjar" \in s.suspend THEN "SafetyDoor" ELSE "Idle"]

-----------------------------------------------------------------------------
(* protocol_exec_rt_system(): the pending door stop, then the events. *)

RtBegin ==
  /\ pc = "rt" /\ pc' = "events"
  /\ LET s == doorStopped(sys)
     IN  IF ~rtSafetyDoor THEN UNCHANGED <<sys, rtSafetyDoor>>
         ELSE IF sys.state \in {"Alarm", "Sleep"}
         THEN rtSafetyDoor' = FALSE /\ UNCHANGED sys
         ELSE /\ rtSafetyDoor' = ("jogCancel" \in s.suspend)
              /\ sys' = [s EXCEPT !.suspend = @ \cup {"safetyDoorAjar"},
                                  !.state = IF "jogCancel" \in s.suspend THEN @ ELSE "SafetyDoor"]
  /\ UNCHANGED <<spindle_stop_ovr, queue, motionVars, ajar, inputVars, modal, spinning, ret,
                 parkVars, lines>>

RtEnd ==
  /\ pc = "events" /\ queue = <<>> /\ pc' = ret
  /\ UNCHANGED <<sys, rtSafetyDoor, spindle_stop_ovr, queue, motionVars, ajar, inputVars,
                 modal, spinning, ret, parkVars, lines>>

\* The event at the head of the queue is run.
handles(e) == pc = "events" /\ queue # <<>> /\ Head(queue) = e /\ UNCHANGED <<pc, ret>>

\* A handler that changes sys alone.
handled(s) ==
  /\ sys' = s /\ queue' = Tail(queue)
  /\ UNCHANGED <<rtSafetyDoor, spindle_stop_ovr, motionVars, ajar, inputVars, modal, spinning,
                 parkVars, lines>>

doMotionCancel == handles("motionCancel") /\ handled(motion_cancel(sys))
doFeedhold == handles("feedHold") /\ handled(feedhold(sys))
doSleep == handles("sleep") /\ handled(sleep(sys))

\* EventPin::trigger(): the pin's value, and its event when it becomes active.
doDoorPin ==
  /\ \/ handles("doorOpen") /\ ajar' = TRUE /\ queue' = sent(Tail(queue), "safetyDoor")
     \/ handles("doorShut") /\ ajar' = FALSE /\ queue' = Tail(queue)
  /\ UNCHANGED <<sys, rtSafetyDoor, spindle_stop_ovr, motionVars, inputVars, modal, spinning,
                 parkVars, lines>>

request_safety_door ==
  /\ handles("safetyDoor") /\ rtSafetyDoor' = TRUE /\ queue' = Tail(queue)
  /\ UNCHANGED <<sys, spindle_stop_ovr, motionVars, ajar, inputVars, modal, spinning,
                 parkVars, lines>>

\* In the door state a cycle start asks for the restore, in a hold for the spindle or the cycle.
restores(s) ==
  IF {"safetyDoorAjar", "retractComplete"} \cap s.suspend = {"retractComplete"}
  THEN [s EXCEPT !.suspend = @ \cup {"initiateRestore"}] ELSE s

\* Mutant: a hold that still decelerates is resumed.
cyclesNow_Early(s) ==
  s.state = "Idle" \/ (s.state = "Hold" /\ spindle_stop_ovr = {})

cyclesNow(s) == s.state = "Idle" \/ (s.state = "Hold" /\ "holdComplete" \in s.suspend
                                       /\ spindle_stop_ovr = {})
doCycleStart ==
  /\ \E e \in CycleStarts : handles(e)
  /\ queue' = Tail(queue)
  /\ sys' = CASE cyclesNow(sys) -> initiate_cycle(sys)
              [] sys.state = "SafetyDoor" -> restores(sys)
              [] OTHER -> sys
  /\ awake' = (awake \/ (cyclesNow(sys) /\ starts(sys)))
  /\ spindle_stop_ovr' =
       IF sys.state = "Hold" /\ "holdComplete" \in sys.suspend /\ spindle_stop_ovr # {}
       THEN spindle_stop_ovr \cup {"restoreCycle"} ELSE spindle_stop_ovr
  /\ UNCHANGED <<rtSafetyDoor, plan, goal, z, pl_z, unhomed, ajar, inputVars, modal, spinning,
                 parkVars, lines>>

doCycleStop ==
  /\ handles("cycleStop") /\ queue' = Tail(queue)
  /\ LET ends == sys.state \in {"Idle", "Cycle", "Jog"}
         flush == ends /\ "jogCancel" \in sys.suspend
     IN  /\ sys' = CASE sys.state \in {"Hold", "SafetyDoor", "Sleep"}
                          /\ "jogCancel" \notin sys.suspend -> holdStopped(sys)
                     [] ends -> motionDone(sys)
                     [] OTHER -> sys
         /\ plan' = IF flush THEN <<>> ELSE plan
         /\ awake' = (awake /\ ~flush)
         /\ pl_z' = IF flush THEN z ELSE pl_z
  /\ UNCHANGED <<rtSafetyDoor, spindle_stop_ovr, goal, z, unhomed, ajar, inputVars, modal, spinning,
                 parkVars, lines>>

\* Spindle stop override, in a hold only.
doSpindleStop ==
  /\ handles("spindleStop") /\ queue' = Tail(queue)
  /\ spindle_stop_ovr' =
       CASE sys.state = "Hold" /\ spindle_stop_ovr = {} -> {"initiate"}
         [] sys.state = "Hold" /\ "enabled" \in spindle_stop_ovr ->
              spindle_stop_ovr \cup {"restore"}
         [] OTHER -> spindle_stop_ovr
  /\ UNCHANGED <<sys, rtSafetyDoor, motionVars, ajar, inputVars, modal, spinning, parkVars, lines>>

\* A spindle speed override that changes the speed.
doSpindleOverride ==
  /\ handles("spindleOvr") /\ queue' = Tail(queue)
  /\ spinning' = (spinning \/ (modal /\ ~inMotionState(sys)))
  /\ UNCHANGED <<sys, rtSafetyDoor, spindle_stop_ovr, motionVars, ajar, inputVars, modal,
                 parkVars, lines>>

\* protocol_do_limit() of a hard limit: mc_critical().
doLimit ==
  /\ handles("limit")
  /\ LET hard == sys.state \in {"Cycle", "Jog", "Idle", "Hold", "SafetyDoor"}
         moving == inMotionState(sys) \/ Stepping("executeHold") \/ Stepping("executeSysMotion")
     IN  /\ queue' = IF hard THEN sent(Tail(queue), "hardLimit") ELSE Tail(queue)
         /\ awake' = (awake /\ ~(hard /\ moving))
  /\ UNCHANGED <<sys, rtSafetyDoor, spindle_stop_ovr, plan, goal, z, pl_z, unhomed, ajar, inputVars,
                 modal, spinning, parkVars, lines>>

\* protocol_do_alarm().
doAlarm ==
  /\ \/ handles("hardLimit") /\ sys' = [sys EXCEPT !.state = "Critical"] /\ unhomed' = Homes
     \/ handles("alarm") /\ sys' = [sys EXCEPT !.state = "Alarm"] /\ UNCHANGED unhomed
  /\ queue' = Tail(queue) /\ spinning' = (spinning /\ ~OffOnAlarm)
  /\ UNCHANGED <<rtSafetyDoor, spindle_stop_ovr, plan, goal, z, pl_z, awake, ajar, inputVars, modal,
                 parkVars, lines>>

\* protocol_do_rt_reset() with protocol_do_late_reset().
doReset ==
  /\ handles("reset") /\ queue' = sent(Tail(queue), "restart")
  /\ LET moving == sys.state \in {"Cycle", "Jog"} \/ Stepping("executeHold")
                     \/ Stepping("executeSysMotion")
         locked == moving \/ sys.state = "Alarm" \/ (sys.state = "Critical" /\ unhomed)
     IN  sys' = [sys EXCEPT !.state = IF locked THEN "Alarm" ELSE "Idle", !.abort = TRUE]
  /\ spinning' = FALSE
  /\ UNCHANGED <<rtSafetyDoor, spindle_stop_ovr, motionVars, ajar, inputVars, modal,
                 parkVars, lines>>

\* protocol_do_soft_restart(): everything but the state, the abort and the pins.
doRestart ==
  /\ handles("restart") /\ queue' = Tail(queue)
  /\ sys' = [sys EXCEPT !.suspend = {}, !.step = {}]
  /\ rtSafetyDoor' = FALSE /\ spindle_stop_ovr' = {} /\ modal' = FALSE /\ spinning' = FALSE
  /\ plan' = <<>> /\ awake' = FALSE /\ pl_z' = z
  /\ UNCHANGED <<goal, z, unhomed, ajar, inputVars, parkVars, lines>>

Handle ==
  \/ doMotionCancel \/ doFeedhold \/ doSleep \/ doDoorPin \/ request_safety_door
  \/ doCycleStart \/ doCycleStop \/ doSpindleStop \/ doSpindleOverride
  \/ doLimit \/ doAlarm \/ doReset \/ doRestart

-----------------------------------------------------------------------------
(* protocol_main_loop(). *)

\* protocol_auto_cycle_start() on the planner p.
auto_started(q, p, st) ==
  IF p # <<>> /\ st \notin {"Cycle", "Hold"} THEN sent(q, "autoStart") ELSE q

looped(q, p, st) ==
  /\ pc' = "rt" /\ ret' = "top"
  /\ queue' = auto_started(q, p, st)
  /\ UNCHANGED <<rtSafetyDoor, spindle_stop_ovr, goal, z, pl_z, awake, ajar, inputVars, parkVars>>

\* execute_line(): a line that is refused leaves nothing behind.  M3, M5, $SLP and $X wait in
\* protocol_buffer_synchronize() for the planner to run out first.
execute_line ==
  /\ pc = "line" /\ lines < MaxLines /\ lines' = lines + 1
  /\ \/ \E l \in Lines \cap {"move", "jog"} :
          /\ Len(plan) < MaxBlocks
          /\ sys.state \notin {"Alarm", "Jog"} \/ (l = "jog" /\ sys.state = "Jog")
          /\ l = "jog" => sys.state \in {"Idle", "Jog"}
          /\ LET lost == l = "move" /\ unhomed
             IN  /\ plan' = IF lost THEN plan
                            ELSE Append(plan, [jog |-> l = "jog", todo |-> BlockLen])
                 /\ looped(IF lost THEN sent(queue, "alarm") ELSE queue, plan', sys.state)
          /\ UNCHANGED <<sys, unhomed, modal, spinning>>
     \/ \E l \in Lines \cap {"M3", "M5"} :
          /\ plan = <<>> /\ sys.state \notin {"Alarm", "Jog", "Cycle"}
          /\ modal' = (l = "M3") /\ spinning' = (l = "M3")
          /\ looped(queue, plan, sys.state) /\ UNCHANGED <<sys, plan, unhomed>>
     \/ /\ "$SLP" \in Lines /\ plan = <<>> /\ sys.state \in {"Idle", "Alarm"}
        /\ looped(sent(queue, "sleep"), plan, sys.state)
        /\ UNCHANGED <<sys, plan, unhomed, modal, spinning>>
     \/ /\ "$X" \in Lines /\ plan = <<>> /\ sys.state = "Alarm"
        /\ sys' = [sys EXCEPT !.state = IF ajar THEN @ ELSE "Idle"]
        /\ unhomed' = (unhomed /\ ajar)
        /\ looped(IF ajar THEN sent(queue, "alarm") ELSE queue, plan, sys'.state)
        /\ UNCHANGED <<plan, modal, spinning>>

NoLine ==
  /\ pc = "line" /\ looped(queue, plan, sys.state)
  /\ UNCHANGED <<sys, plan, unhomed, modal, spinning, lines>>

\* protocol_execute_realtime(): into the suspend loop, with Parking::setup(), or on.
RealtimeDone ==
  /\ pc = "top"
  /\ IF sys.suspend # {}
     THEN pc' = "suspend" /\ retract_waypoint' = Pullout /\ UNCHANGED sys
     ELSE pc' = "line" /\ sys' = [sys EXCEPT !.abort = FALSE] /\ UNCHANGED retract_waypoint
  /\ UNCHANGED <<rtSafetyDoor, spindle_stop_ovr, queue, motionVars, ajar, inputVars, modal,
                 spinning, ret, restart, restore_target, lines>>

-----------------------------------------------------------------------------
(* protocol_exec_rt_suspend(). *)

SuspendEnds ==
  /\ pc = "suspend" /\ (sys.suspend = {} \/ sys.abort)
  /\ pc' = "line" /\ sys' = [sys EXCEPT !.abort = FALSE]
  /\ UNCHANGED <<rtSafetyDoor, spindle_stop_ovr, queue, motionVars, ajar, inputVars, modal,
                 spinning, ret, parkVars, lines>>

Suspended == pc = "suspend" /\ sys.suspend # {} /\ ~sys.abort
Parking == Suspended /\ Has("holdComplete") /\ sys.state \in {"SafetyDoor", "Sleep"}
again == pc' = "rt" /\ ret' = "suspend"

\* Decelerating: nothing to do but the events.
AwaitHold ==
  /\ Suspended /\ ~Has("holdComplete") /\ again
  /\ UNCHANGED <<sys, rtSafetyDoor, spindle_stop_ovr, queue, motionVars, ajar, inputVars, modal,
                 spinning, parkVars, lines>>

\* protocol_manage_spindle().
manage_spindle ==
  /\ Suspended /\ Has("holdComplete") /\ ~Parking /\ again
  /\ LET stops == "initiate" \in spindle_stop_ovr
         back == ~stops /\ {"restore", "restoreCycle"} \cap spindle_stop_ovr # {}
     IN  /\ spinning' = ((spinning /\ ~(stops /\ modal)) \/ (back /\ modal))
         /\ queue' = IF back /\ "restoreCycle" \in spindle_stop_ovr
                     THEN sent(queue, "resumed") ELSE queue
         /\ spindle_stop_ovr' = CASE stops -> IF modal THEN {"enabled"} ELSE {}
                                  [] back -> {}
                                  [] OTHER -> spindle_stop_ovr
  /\ UNCHANGED <<sys, rtSafetyDoor, motionVars, ajar, inputVars, modal, parkVars, lines>>

\* Parking::moveto(t), waited for at k; a move of no length only takes the events.
moveto(s, t, k) ==
  IF s.abort THEN pc' = k /\ sys' = s /\ UNCHANGED <<ret, goal, awake>>
  ELSE /\ pc' = "rt" /\ ret' = k /\ goal' = t /\ awake' = (awake \/ z # t)
       /\ sys' = [s EXCEPT !.step = IF z # t THEN @ \cup {"executeSysMotion"}
                                    ELSE @ \ {"executeSysMotion"}]
noMove(s, k) == pc' = k /\ sys' = s /\ UNCHANGED <<ret, goal, awake>>

\* A move lasts until its cycle stop, or an abort.
Arrived(k) == pc = k /\ (sys.abort \/ ~Stepping("executeSysMotion"))
KeepWaiting ==
  /\ pc \in {"pull", "park", "back", "plunge"} /\ ~Arrived(pc) /\ pc' = "rt"
  /\ UNCHANGED <<sys, rtSafetyDoor, spindle_stop_ovr, queue, motionVars, ajar, inputVars, modal,
                 spinning, ret, parkVars, lines>>

Least(a, b) == IF a < b THEN a ELSE b

\* Mutant: the test of restart is the wrong way round.
keepsTarget_Inverted == ~Has("restartRetract")

\* A retract that was restarted keeps the position the program was held at.
keepsTarget == Has("restartRetract")

\* Parking::park(): up to the waypoint, spindle off, up to the parking position.
ParkBegin ==
  /\ Parking /\ ~Has("retractComplete") /\ spindle_stop_ovr' = {}
  /\ restore_target' = IF keepsTarget THEN restore_target ELSE z
  /\ retract_waypoint' = IF Has("restartRetract") THEN retract_waypoint
                         ELSE Least(retract_waypoint + z, TargetZ)
  /\ IF Parks /\ z < TargetZ
     THEN /\ IF z < retract_waypoint' THEN moveto(sys, retract_waypoint', "pull")
             ELSE noMove(sys, "pull")
          /\ UNCHANGED spinning
     ELSE noMove(sys, "park") /\ spinning' = FALSE
  /\ UNCHANGED <<rtSafetyDoor, queue, plan, z, pl_z, unhomed, ajar,
                 inputVars, modal, restart, lines>>

\* Mutant: the spindle is left on.
SpinDown_Left ==
  /\ Arrived("pull") /\ UNCHANGED spinning
  /\ IF z < TargetZ THEN moveto(sys, TargetZ, "park") ELSE noMove(sys, "park")
  /\ UNCHANGED <<rtSafetyDoor, spindle_stop_ovr, queue, plan, z, pl_z, unhomed, ajar,
                 inputVars, modal, parkVars, lines>>

SpinDown ==
  /\ Arrived("pull") /\ spinning' = FALSE
  /\ IF z < TargetZ THEN moveto(sys, TargetZ, "park") ELSE noMove(sys, "park")
  /\ UNCHANGED <<rtSafetyDoor, spindle_stop_ovr, queue, plan, z, pl_z, unhomed, ajar,
                 inputVars, modal, parkVars, lines>>

ParkEnds ==
  /\ Arrived("park") /\ again
  /\ sys' = [sys EXCEPT !.suspend = (@ \cup {"retractComplete"}) \ {"restartRetract"}]
  /\ UNCHANGED <<rtSafetyDoor, spindle_stop_ovr, queue, motionVars, ajar, inputVars, modal,
                 spinning, parkVars, lines>>

\* Asleep until a reset.
Asleep ==
  /\ Parking /\ Has("retractComplete") /\ sys.state = "Sleep" /\ again
  /\ spinning' = FALSE /\ awake' = FALSE
  /\ UNCHANGED <<sys, rtSafetyDoor, spindle_stop_ovr, queue, plan, goal, z, pl_z, unhomed, ajar,
                 inputVars, modal, parkVars, lines>>

\* Parked: the door is polled, and Parking::unpark() begins once a cycle start asked for it.
polled(s) == IF ajar THEN s ELSE [s EXCEPT !.suspend = @ \ {"safetyDoorAjar"}]
DoorPoll ==
  /\ Parking /\ Has("retractComplete") /\ sys.state = "SafetyDoor"
  /\ IF ~Has("initiateRestore")
     THEN again /\ sys' = polled(sys) /\ UNCHANGED <<restart, goal, awake>>
     ELSE /\ restart' = Has("restartRetract")
          /\ IF Parks /\ z <= TargetZ THEN moveto(polled(sys), retract_waypoint, "back")
             ELSE noMove(polled(sys), "back")
  /\ UNCHANGED <<rtSafetyDoor, spindle_stop_ovr, queue, plan, z, pl_z, unhomed, ajar,
                 inputVars, modal, spinning, restore_target, retract_waypoint, lines>>

\* Spindle on, then the plunge to where the program was held.
SpinUp ==
  /\ Arrived("back")
  /\ spinning' = (spinning \/ (modal /\ ~restart))
  /\ IF Parks /\ ~restart THEN moveto(sys, restore_target, "plunge") ELSE noMove(sys, "plunge")
  /\ UNCHANGED <<rtSafetyDoor, spindle_stop_ovr, queue, plan, z, pl_z, unhomed, ajar,
                 inputVars, modal, parkVars, lines>>

UnparkEnds ==
  /\ Arrived("plunge") /\ again
  /\ IF ~Has("restartRetract") /\ sys.state = "SafetyDoor" /\ ~Has("safetyDoorAjar")
     THEN sys' = [sys EXCEPT !.state = "Idle"] /\ queue' = sent(queue, "autoStart")
     ELSE UNCHANGED <<sys, queue>>
  /\ UNCHANGED <<rtSafetyDoor, spindle_stop_ovr, motionVars, ajar, inputVars, modal, spinning,
                 parkVars, lines>>

MainTask ==
  \/ RtBegin \/ RtEnd \/ Handle \/ execute_line \/ NoLine \/ RealtimeDone
  \/ SuspendEnds \/ AwaitHold \/ manage_spindle \/ KeepWaiting \/ ParkBegin \/ SpinDown
  \/ ParkEnds \/ Asleep \/ DoorPoll \/ SpinUp \/ UnparkEnds

-----------------------------------------------------------------------------
(* The stepper interrupt, with the segments prep_buffer() made for it. *)

Finished == IF Stepping("executeSysMotion") THEN z = goal ELSE plan = <<>>

StepOn ==
  /\ awake /\ ~Finished
  /\ IF Stepping("executeSysMotion")
     THEN z' = (IF z < goal THEN z + 1 ELSE z - 1) /\ UNCHANGED plan
     ELSE /\ plan' = IF Head(plan).todo = 1 THEN Tail(plan)
                     ELSE [plan EXCEPT ![1].todo = @ - 1]
          /\ UNCHANGED z
  /\ UNCHANGED <<sys, rtSafetyDoor, spindle_stop_ovr, queue, goal, pl_z, awake, unhomed, ajar,
                 inputVars, modal, spinning, pc, ret, parkVars, lines>>

\* The segments run out: all is done, a hold has decelerated, or the state prepares no more.
ShutDown ==
  /\ awake
  /\ Finished \/ Stepping("executeHold") \/ sys.state \in {"Idle", "Alarm", "Critical", "Sleep"}
  /\ awake' = FALSE /\ queue' = sent(queue, "cycleStop")
  /\ UNCHANGED <<sys, rtSafetyDoor, spindle_stop_ovr, plan, goal, z, pl_z, unhomed, ajar,
                 inputVars, modal, spinning, pc, ret, parkVars, lines>>

-----------------------------------------------------------------------------
(* The polling task and the pins. *)

\* execute_realtime_command(), and a limit pin; a jog cancel is posted only while jogging.
Command ==
  /\ \E e \in (Inputs \cup Rough) \ {"door"} :
       /\ e = "motionCancel" => sys.state = "Jog"
       /\ inputs < MaxInputs \/ e \notin Inputs
       /\ rough < MaxRough \/ e \notin Rough
       /\ inputs' = inputs + (IF e \in Inputs THEN 1 ELSE 0)
       /\ rough' = rough + (IF e \in Rough THEN 1 ELSE 0)
       /\ queue' = sent(queue, e)
  /\ UNCHANGED <<sys, rtSafetyDoor, spindle_stop_ovr, motionVars, ajar, door, modal, spinning,
                 pc, ret, parkVars, lines>>

MoveDoor ==
  /\ "door" \in Inputs /\ inputs < MaxInputs /\ inputs' = inputs + 1 /\ UNCHANGED rough
  /\ door' = ~door /\ queue' = sent(queue, IF door THEN "doorShut" ELSE "doorOpen")
  /\ UNCHANGED <<sys, rtSafetyDoor, spindle_stop_ovr, motionVars, ajar, modal, spinning, pc, ret,
                 parkVars, lines>>

Next == MainTask \/ StepOn \/ ShutDown \/ Command \/ MoveDoor

\* The main task is never starved (its watchdog would reset the machine), nor is the timer.
Fairness == WF_vars(MainTask) /\ WF_vars(StepOn \/ ShutDown)

Spec == Init /\ [][Next]_vars /\ Fairness

-----------------------------------------------------------------------------
(* Properties. *)

Sys == [state : States, suspend : SUBSET SuspendBits, step : SUBSET StepBits, abort : BOOLEAN]
QueueOK == queue \in Seq(Events) /\ Len(queue) <= QueueMax
PlanOK == plan \in Seq([jog : BOOLEAN, todo : 1..BlockLen]) /\ Len(plan) <= MaxBlocks
PlacesOK == /\ z \in Int /\ pl_z \in Int /\ goal \in Int
            /\ restore_target \in Int /\ retract_waypoint \in Int
FlagsOK ==
  /\ rtSafetyDoor \in BOOLEAN /\ awake \in BOOLEAN /\ unhomed \in BOOLEAN /\ ajar \in BOOLEAN
  /\ door \in BOOLEAN /\ modal \in BOOLEAN /\ spinning \in BOOLEAN /\ restart \in BOOLEAN
  /\ spindle_stop_ovr \subseteq {"initiate", "enabled", "restore", "restoreCycle"}
TaskOK ==
  /\ pc \in {"line", "rt", "events", "top", "suspend", "pull", "park", "back", "plunge"}
  /\ ret \in {"line", "top", "suspend", "pull", "park", "back", "plunge"}

\* Every variable stays in its type: the queue and the planner within their capacity, the bits
\* of sys among those there are, and the main task in a place it can go on from.
TypeOK == sys \in Sys /\ QueueOK /\ PlanOK /\ PlacesOK /\ FlagsOK /\ TaskOK

\* SuspendBits::holdComplete, "Indicates initial feed hold is complete": once a hold is flagged
\* complete and no parking move is under way, the steppers stand still.
HoldStandsStill ==
  sys.state \in {"Hold", "SafetyDoor", "Sleep"} /\ Has("holdComplete")
    /\ ~Stepping("executeSysMotion") => ~awake

\* Neither a reset nor a hard limit is being dealt with.
Sound == ~sys.abort /\ ~unhomed

\* No cycle stop is left over: whenever the steppers run, the event that ended an earlier motion
\* has been handled, so it cannot end a parking move or a hold it does not belong to.
NoStaleStop == awake /\ Sound => \A i \in 1..Len(queue) : queue[i] # "cycleStop"

\* The program runs on where it was held: whatever the door did to the parking axis, a cycle
\* only ever starts with the machine where the planner believes it to be.
ResumesInPlace ==
  [][sys.state # "Cycle" /\ sys'.state = "Cycle" /\ Sound => z = pl_z]_vars

\* A parked machine has its spindle off until the operator asks for the restore (park() turns it
\* off before retractComplete is set), as long as the door and cycle starts are all there is.
ParkedIsOff ==
  sys.state \in {"SafetyDoor", "Sleep"} /\ Has("retractComplete") /\ ~Has("initiateRestore")
    /\ rough = 0 => ~spinning

\* "Block if safety door re-opened during prior restore actions": the spindle never comes on
\* in the door state while the door is known to be ajar.
NoSpinUpWhileAjar ==
  [][sys.state = "SafetyDoor" /\ Has("safetyDoorAjar") /\ ~spinning => ~spinning']_vars

StopQueued == \E i \in 1..Len(queue) : queue[i] = "cycleStop"

\* A feed hold is about to be handled in a cycle that runs, or whose cycle stop is queued.
HoldsRunning ==
  /\ pc = "events" /\ queue # <<>> /\ Head(queue) = "feedHold"
  /\ sys.state = "Cycle" /\ ~sys.abort /\ (awake \/ StopQueued)

\* protocol_start_holding() is followed by a cycle stop: the feed hold of a running cycle
\* completes, or the state is left, unless the stop found the event queue full.
HoldCompletes ==
  HoldsRunning ~> \/ sys.state \notin {"Cycle", "Hold"} \/ Has("holdComplete")
                  \/ Len(queue) = QueueMax /\ ~awake /\ ~StopQueued

\* Opening the door stops the spindle, through the hold, the pull-out move and every cycle stop
\* on the way, or the machine leaves the door state.
DoorStopsSpindle ==
  (sys.state = "SafetyDoor" /\ rough = 0) ~> (sys.state # "SafetyDoor" \/ ~spinning \/ rough > 0)
=============================================================================
