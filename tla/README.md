# FluidEDM: a TLA+ model of the wire EDM firmware

FluidEDM is FluidNC (a Grbl-like CNC firmware for the ESP32) with a wire EDM
machine in `FluidNC/src/EDM/`: a spark generator (PSU) that is told when and how
to cut, a gap servo that turns its telemetry into a path velocity a thousand
times a second, a motion loop that feeds the planner at that velocity, a wire
feed that keeps the wire running and under tension, and a dielectric (coolant)
module. This directory models the parts that decide, checks them with TLC on
small instances, and proves the main results with TLAPS for every value of the
constants. Source paths below are relative to `src/FluidNC/src/EDM/` unless they
begin with `src/`.

## 1. Inventory

### Components, their state and their operations

| Component | State | Operations |
|---|---|---|
| Cut controller, `Control/EdmController` | the state machine Idle, Armed, TouchOff, Cutting, Hold, BreakRelief, StallFault, Fault; the fault reason; mode and S word; deadlines on a 32-bit millisecond clock; the latched wire-break severity and its feed cap; counters; the report | `tick` (drain events, fault gates, dielectric loss, arming, relief, servo, publish); `requestCut`, `requestStop`, `notifyCutComplete`, `clearFault` |
| Gap servo, `Servo/GapServo` | filtered error, integrator, short count | `step`: a ladder of reflexes over a PI regulator |
| Mode table, `Servo/ModeTable` | none | S word to mode, the next lower energy, mode to PSU bounds |
| Contour buffer and path sampler, `Motion/ContourBuffer`, `Motion/PathSampler` | vertices of one move with their arc lengths; position, furthest point, last emitted point, velocity, direction | `reset`, `appendLine`, `appendArc`, `poseAt`, `retractFloor`; `step`: velocity to progress to planner segments |
| Motion loop, `Motion/EdmMotion` | locals of one move; FluidNC's state, abort flag, planner queue | `runCut`, `runCutArc`, `runContour` |
| Tension controller and wire feed, `Feed/TensionController`, `Feed/WireFeed`, `Feed/StepGen` | filter, integrator, collapse detector with its latch; rate and DISABLE line of two step generators | `tick`, `resetCollapse`, `setTensionSetpointN` |
| Load cell, `Feed/Hx711` | last conversion | sampling and calibration |
| PSU link, `Psu/PsuLink`, `Psu/SimPsuLink` | last window, last ack, heartbeat and protocol flags, a queue of 32 events | `poll`, `popEvent`, the commands |
| Protocol codecs, `Psu/Protocol`, `Diel/DielProtocol` | none | frames to bytes and back |
| Dielectric, `Diel/*`, `EdmDielTask` | last flow, level and conductivity, presence, the pump | poll, command |
| CAN driver, `Can/*` | controller registers | frame I/O |
| Spindle and commands, `EdmSpindle`, `EdmCommands`, `EdmServoTask` | the singletons and the configuration | M3/M5 and `$EDM/...` to calls of the above |
| Report channel, `EdmReportChannel` | subscribers | JSON reports |
| FluidNC protocol and parking, `src/FluidNC/src/Protocol.cpp`, `Parking.cpp` | machine state, suspend and step-control bits, abort; event queue of 50; pending door stop; spindle-stop override; restore position and retract waypoint | main loop, event handlers (hold, jog cancel, door, sleep, cycle start and stop, overrides, limit, alarm, reset), suspend loop, park and unpark |
| The rest of FluidNC | parser, planner, stepper, configuration, web server, drivers | unchanged by this fork |

### How they interact

- The *servo task* (own core, `vTaskDelay(1)`) runs `EdmController::tick`. The
  *g-code task* on the other core calls `requestCut` and `requestStop` directly:
  no lock protects the controller.
- The controller talks to the PSU through `IPsuLink` and reads the dielectric
  through `IDielLink`. Acks, events and windows arrive asynchronously.
- Every tick ends by writing a report field by field. The motion loop reads its
  state and its velocity in two reads, the wire feed its cap, severity and state
  in three. (`CutLifecycle` publishes state and velocity together; `WireFeed` field
  by field.)
- The motion loop runs on the g-code task inside a G1/G2/G3, pumps FluidNC's
  realtime events itself, and shares the planner with the stepper interrupt.
- The *wire-feed task* (`vTaskDelay(12)`) copies its `TensionState`, steps it and
  stores it back; `$EDM/ResetWireFeed` overwrites it from the command task.
- The *CAN receive task* stores decoded frames in the PSU link under a spinlock;
  the servo task reads them. The dielectric link does the same; the simulated
  dielectric is driven by a 10 Hz task from the controller's state.
- FluidNC's *main task* runs g-code, the realtime events and, nested in the wait
  for a resume, the parking moves. The *polling task*, the pins and the stepper
  interrupt only post events to its queue; a full queue drops them.

### What is hard

Calls that land inside a tick on the other core; a fault, a break and a stop in
every order, with the generator on or off; deadlines that must be set whenever a
state is entered, and compared across the wrap of the clock; break recovery,
which changes mode, bounds and cap together and must undo all three; decisions
on a report that is one tick old or torn; a loop that waits for planner room
which a reset, an alarm or a fault may never give; segments at the boundary of a
motor step; a buffer at its capacity; a collapse detector with a debounce, a
memory and a latch; acks without a sequence number, a heartbeat that latches, an
event queue that drops its oldest entry; a door that opens again while the machine
returns from parking; events handled in a state other than the one they were
posted in. `PROJECT.json` lists each under "hazards" with its line.

### What makes each part correct

- Controller: a fault or a stop silences the generator; no timer is left overdue;
  after a break the cut has its energy back and the PSU has the matching bounds;
  the wire never advances under a severity-3 break, nor on a window already used.
- Motion: a move that reports success is at its end; retracts stay in their
  window; a move that is given up leaves no spark; faults and resets end it.
- Wire feed: a snapped wire is detected within its debounce and stays detected
  until an operator resets it; a detected collapse or a severity-3 break parks
  and disables the feed.
- Links: a fault stops the cut although its event was dropped; a silent generator
  ends the cut; sparks start in the bounds of the mode; no spark without flushing.
- Protocol and parking: a complete hold stands still; a door stops the spindle, and
  it stays off until the restore; the program resumes where it was held.

## 2. Modules

| Module | Models | Built on |
|---|---|---|
| `ModeTable` | `Servo/ModeTable` | |
| `GapServo` | the ladder of `Servo/GapServo` | |
| `EdmController` | `Control/EdmController` and the g-code thread | `ModeTable`, `GapServo` |
| `CutLifecycle` | the abstract promise of the controller | |
| `EdmControllerCut` | the refinement mapping | `EdmController`, instance of `CutLifecycle` |
| `EdmControllerProofs`, `EdmTickProofs`, `EdmCutProofs` | theorems about the controller | the above |
| `ContourBuffer`, `PathSampler` | `Motion/ContourBuffer`, `Motion/PathSampler` | |
| `EdmMotion` | `Motion/EdmMotion` with planner, stepper and realtime events | `CutLifecycle`, `PathSampler` |
| `TensionController`, `WireFeed` | `Feed/TensionController`, `Feed/WireFeed`, `Feed/StepGen` | |
| `PsuLink` | `Psu/PsuLink` | |
| `EdmPsu` | the controller over that link, and a generator | `EdmController`, `PsuLink` |
| `EdmDiel` | the controller over `Diel/CanDielLink` and `Diel/SimDielLink` with `EdmDielTask` | `EdmController` |
| `Protocol` | `src/FluidNC/src/Protocol.cpp`, `Parking.cpp`, and the ends of motion of `Stepper.cpp` | |
| `EdmMotionProofs`, `WireFeedProofs`, `ProtocolProofs` | theorems about each of these modules | the module named |
| `EdmPsuProofs`, `EdmDielProofs` | theorems about the compositions | `EdmPsu`, `EdmDiel`, with `EdmTickProofs` |
| `MCEdmController`, `MCEdmMotion`, `MCWireFeed`, `MCEdmPsu`, `MCEdmDiel`, `MCProtocol` | constants for TLC | |

Definitions whose comment begins with "Mutant:" are plausible bugs of the
definition below them. Nothing uses them; replacing the definition by its mutant
must violate the property that `PROJECT.json` pairs them with.

### EdmController

`tick()` is one action per section of its body: `tickBegin`, the event drain
(`drainDone`, `drainFault`, `drainBreak`, `drainOther`, one event per step up to
`DrainBudget`), `gate` (snapshot of link and dielectric, staleness, fault gates,
dielectric loss), `arm`, `startCut` and `enterTouchOff` (cut apart at the PSU
call), `relief` (end of the relief and of the severity latch), one action per
branch of the servo section, and `publish`. `pc` names the section to run next
and `loc` holds the locals that live on. With `Serialised = TRUE` calls run
between ticks, as in the single-threaded host build and its tests, and an M3 is one
step (`requestCut`). With `FALSE` they run between any two sections, which is what the
two cores of the target allow, and M3 writes its fields one by one in the order of the
code (`testCut`, `writeCut`): the fault is tested with the first write, and a tick may
see Armed before its deadline, its settle flag or its bounds are written. `requestStop`
is cut at its STOP_CUT frame in both. A section of the tick stays one step, so a
call's write between two reads of the same section is still left out, and every write is
seen by the other core at once and in order.

Abstractions. Windows carry whole percentages of open, short and arc pulses. The
PI regulator is a filter over the reals, so a step takes the sign of its output
and "inside the deadband" as free inputs, and a velocity keeps only its sign;
the published rounding to um/s is left out. `ModeParams` are opaque: bounds are
which mode's parameters were sent and the point of the S band they were scaled
for. The PSU and dielectric links are seen through their interfaces and may
answer anything at any time, which covers lost, late and refused frames.
The override of line 186 never changes the result (a fresh window is never stale)
and is kept.

### CutLifecycle and EdmMotion

`CutLifecycle` says what the other tasks may rely on: four phases, whether the
generator was told to cut, and a report that follows at the end of a tick. Its calls and
its ticks overlap or not (`Serialised`), and an overlap has the two shapes that matter: a
tick that has found the cut armed still starts the generator (`Aim`, `Strike`, `Begin`),
and a stop has two halves (`Quench`, `Stop`). A break enters its relief from any phase
(`Relieve`), which is what the drain does. `EdmControllerCut` shows that the controller
implements it either way, and `EdmMotion` is composed with it in place of the
controller, with `Serialised = FALSE`: the loop's stops land inside ticks, and the loop
meets every sequence of reports the controller can produce.

A move is one dimensional: a pose is its distance along the programmed path, so
interpolation is the identity on arc length and a block is a target in motor
steps (`steps` rounds as `lroundf` does). `runContour` is one action per part of
a pass: the pump (`loopTop`), the checks, the sampler, the wait for room,
`submit`, the final `sync` and `return`. FluidNC's planner, stepper and realtime
events are modelled from how the loop uses them and from `src/FluidNC/src/Protocol.cpp`
and `Planner.cpp`, and happen where the thread pumps them. In a hold the code may
block in `protocol_exec_rt_suspend`; the model also allows further passes. A rapid is
queued and not waited for (`gG0`), and `runCut` does not synchronise: the contour starts
at the motors' position, the planner may end elsewhere, and an arc may be longer than the
buffer. Two history variables serve the properties: `joined` (the planner's position is on
this move's contour) and `arming` (the cut was armed when it was last stopped).

### TensionController and WireFeed

The step is the collapse detector and what it does to the two rates; the PI
correction of the tension rate is left out (a rate is "hold" or "servo"). Forces
are in tenths of a newton. The servo task publishes state, cap and severity in
three writes, the tick reads cap, severity and state in three reads, and both
assignments of `TensionState` (the tick's and the reset's) copy one field at a
time in any order. The tick's read of the state is taken at once.

### PsuLink and EdmPsu

Each method of the link is one step, because a spinlock guards it. Every step of the
composed system is a step of `EdmController` whose link inputs are what the link
holds: `gate` reads the last window, heartbeat and protocol flag, the drain pops the
link's queue, `arm` reads the status of the last ack. A command of the controller is
recognised by what it changes (`bounds`, `cutting`, `fault`) and reaches the
generator at once. The generator is external: it takes or refuses bounds, sparks
unless it is faulted, and sends every kind of frame, or not, between any two
sections of a tick up to the gates; later in a tick only the ack status is read, and
an ack that comes then might as well have come before. The sequence number is left
out, since the link never compares it. `quiet` is a ghost clock of the last window.

### EdmDiel

Flows are in tenths of cL/min so that the simulator's low-pass filter is integer
arithmetic (rounded down; the code rounds to the nearest when it reports). The CAN
module is external and reports flow and level at or just below their floors, or
nothing. `present` latches, as `_heartbeat_seen` does. The controller's generator is
connected and never faults here; that side is `EdmPsu`. `dry` and `asked` are ghost
clocks. The task runs once per period with one tick of the controller around it, where
the target has a hundred, and `SimDielLink.cpp:22`, which lowers the level by one every
2000 windows, is left out: a level below its floor comes from the CAN link.

### Protocol

One task runs everything, so `pc` says where it is and `ret` where
`protocol_exec_rt_system()` returns to: the top of the main loop, the suspend loop, or
one of the four moves of `Parking`. Each event handler is an action that takes the
head of the queue; the handlers' effect on `sys` is an operator each (`feedhold`,
`motion_cancel`, `doorStopped`, `sleep`, `initiate_cycle`, ...), by machine state. A
parking move is begun by `moveto` and lasts until its cycle stop is handled. The
stepper interrupt steps the block or the system motion and posts the cycle stop when
it runs dry or a hold has decelerated. A line that has to wait for the planner
(`protocol_buffer_synchronize`) is taken when the planner is empty. The parking axis is
one integer, `z` for the motors and `pl_z` for the planner; program blocks move other
axes.

`Inputs` are what a normal operator and the door do (door, resume, feed hold), `Rough` the
rare inputs (reset, limit, overrides, a jog cancel); each has its own bound. The door
command of the realtime set posts the event the door pin posts, which the run has.

## 3. Runs

| Run | Checks | Shows |
|---|---|---|
| `controller` | `TypeOK`, `SparkOffWhenFaulted`, `SparkOffWhenIdle`, `BoundsInSync`, `ModeRestored`, `NoOverdueTimer`, `NoAdvanceOnBreak`, `NoBlindAdvance`, `ImplementsCut`, `DielectricGuards` | the controller is right, and keeps the promise of `CutLifecycle`, when calls do not overlap ticks; flow lost in a cut faults it, and only touch-off is exempt |
| `controller_race` | `SparkOffWhenFaulted`, `ServoTimersServed`, `NoAdvanceOnBreak` | what survives calls between the sections of a tick, M3 write by write; the ack wait does not (section 5) |
| `motion` | `TypeOK`, `Arrives`, `InWindow`, `PendingShort`, `EarlyEndNoSpark`, `ShortBlocks` | moves under holds, limits, alarms, resets, faults and retracts, with arcs beyond the buffer, queued rapids and calls inside ticks |
| `motion_ends` | `FaultEndsMove`, `AbortEndsMove` | a reset ends every wait of the loop; a fault ends a move unless the machine is kept, by a hold, a limit or an alarm, from executing the blocks it waits for |
| `wire_feed` | `TypeOK`, `LatchedStopsFeed`, `NoAutoRecovery`, `SevereBreakStops` | the latch holds whatever tears or races; a severity-3 break that stays reported disables the feed |
| `wire_feed_snap` | `LatchIsEarned`, `SnapDetected` | up to severity 2 a collapse is latched exactly after its debounce |
| `psu_link` | `SysTypeOK`, `FaultTelemetryStops`, `SilenceEndsCut`, `StartsInBounds` | the controller over the link: telemetry makes up for lost events, a window's age for the latched heartbeat, and an ack within a tick for its missing sequence number |
| `dielectric` | `SysTypeOK`, `DrySparkBounded` | with both links, and every pattern of flow and level, the generator is never commanded to spark dry for longer than a touch-off or an ack wait |
| `protocol` | `TypeOK`, `HoldStandsStill`, `NoStaleStop`, `ParkedIsOff`, `ResumesInPlace`, `HoldCompletes`, `DoorStopsSpindle` | hold, door, parking, resume and reset, in every order of three inputs, one rare input and two lines; a feed hold of a running cycle completes unless its cycle stop was dropped by a full queue |

The other runs are expected to be violated: each states a sentence of the
repository that the code does not keep.

| Run | Violates | What happens |
|---|---|---|
| `controller_stop_race` | `SparkOffWhenIdle` | M5 between the tick's test of Armed and `startCut()`: the generator starts after the stop and the cut enters TouchOff |
| `dielectric_cold_start` | `FlushedCutProceeds` | the simulated pump follows the cut, whatever `$EDM/Flush` asked for, and the armed cut waits for its flow: M3 ends in DielectricNotReady |
| `door_restore` | `NoSpinUpWhileAjar` | the door opens during the return from parking; `unpark()` looks at a parameter evaluated before that move, spins up and plunges |

### Bounds, and why they are enough

- Controller. Timers are shrunk to 0..3 ms and the horizon to `MaxNow` = 5 (3 in
  the race run), so that every timer expires at least once, and the ack wait,
  the relief and the severity latch overlap. The two orders the code relies on
  (`ack` and `break_relief` at most `clear`) are kept; the touch-off budget and
  the stall time are the shortest that can expire inside the horizon, where the
  code has the longest. The checked properties do not depend on their order, and
  the theorems hold for every value. One event a tick (two in the race run), two contacts, two
  lost windows and three severities reach every branch. The S word 3 is a Rough
  cut, the one with two lower energies; 0, in the race run, is the S word that
  stops. Windows lie on both sides of each threshold. The interlock is required in
  `controller`: with a flow that never fails, which is among its behaviours, the
  controller is the one without interlock. The clock does not wrap. The runs end at the horizon because `tickBegin`
  is bounded, while calls stay possible.
- Motion. A segment is 2 to 4 units, a motor step 2, so lines end between two
  steps and a segment may round to none. The buffer holds two vertices: a line fits, and
  of the two arcs of `motion` each overflows it and loses its start, one by a chord a
  little longer than a segment, one by nearly two segments. The line is longer than the
  retract window. A rapid of four steps may be queued before each cut
  while the motors have executed none of it, some or all. Velocities are
  -1, 0 and 1; a pass takes the shortest or the longest `dt`. Two blocks in
  flight are enough for the wait for room. `motion_ends` has one line, one block in
  flight and the longest `dt`, and every realtime event: its properties are about the waits.
- Wire feed. Readings are parted, half or fully loaded; `LoadedRecent` and
  `CollapseMs` are 1 to 5 ticks, `Word` is just above, so that the saturation of
  `since_loaded_ms` happens. The histories `slack` and `snap` saturate at
  `CollapseMs`, and are kept with serialised commands only. `wire_feed` is about
  torn reads and races, and its delays are one tick; the timing of the detector,
  with gaps of one and two, is the business of `wire_feed_snap`.
- PSU link. A queue of one event and a drain of one a tick: every overflow that loses
  the FAULT happens. The horizon is four ticks, the ack wait two, the stale threshold
  one, so arming, cutting, silence and the fault all fit. The generator may refuse
  the bounds of the cut's mode (the theorem has every set of modes), and breaks have
  severity 3 (section 5 says why not 2). `PromptAcks` keeps an ack within the tick that follows its
  SET_MODE_BOUNDS: a millisecond, several times the round trip of the bus. Section 5
  says what happens without it.
- Dielectric. A unit is the task's 100 ms period. The horizon is six periods: a cut
  that is not supervised in a hold or a relief is then dry for longer than it may be.
  The interlock's wait is two periods in `dielectric` and four in
  `dielectric_cold_start`, where the simulated flow would pass its floor after two if
  the pump ran.
- Protocol. The tool works two steps below the parking position with a pull-out of one,
  so the four moves differ. A block is one step: a hold may find it running or done.
  Three inputs are a door that opens and closes and a resume, or holds and resumes; the
  rare fourth resets, trips a limit, cancels a jog or overrides the spindle. The queue has
  four places, fills, and drops the cycle stop of a hold. Two lines are M3
  and a move, or a jog, `$SLP`, `$X`. One configuration is checked: homed, parking on,
  `off_on_alarm` off. `NoStaleStop` and `ResumesInPlace` except a reset or limit that
  is being dealt with, `ParkedIsOff` and `DoorStopsSpindle` all rare inputs (section 5
  has the override that breaks them). One rare input at a time is a real restriction for
  limits and resets: section 5 has what a second one breaks, and the theorems of section
  4 say for which inputs no number of them does.

### Fairness

- `EdmMotion!FairSpec`: weak fairness of the g-code thread (its loop, and the second
  half of a stop), of the stepper while in Cycle, and of the end of the cycle when the
  queue is empty (an interrupt, and the event it posts). Nothing is assumed of the servo
  task: its ticks may stop. No realtime event is assumed to happen.
- `WireFeed!FairSpec`: weak fairness of the feed task (`vTaskDelay(12)`).
- `Protocol!Spec`: weak fairness of the main task, whose watchdog would reset the
  machine otherwise, and of the stepper interrupt while its timer runs. No input is
  assumed: not the cycle start, nor the door.

## 4. Proofs

All theorems hold for every value of the constants that satisfies the named
assumptions of the modules, all S words, windows, severities and timers.

| Theorem | States | From |
|---|---|---|
| **Controller** | | |
| `TypeCorrect` | `Spec => []TypeOK` | `ContactPending` |
| `FaultStopsSpark` | `Spec => []SparkOffWhenFaulted`, races included | `FaultInv` |
| `IdleStopsSpark` | `Spec => []SparkOffWhenIdle` | `Serialised`; `SerialInv` |
| `BoundsFollow` | `Spec => []BoundsInSync` | `Serialised`; inductive with the type |
| `ModeIsRestored` | `Spec => []ModeRestored` | `Serialised`, `TimersOrdered`, `NoWrap`; `TimedInv` |
| `BreakNeverAdvances` | `Spec => []NoAdvanceOnBreak`, races included | `CapInv` |
| `AdvanceIsFresh` | `Spec => []NoBlindAdvance` | `Serialised`; `FreshInv` |
| `ServoTimersAreServed` | `Spec => []ServoTimersServed`, races included | `ReliefTimer`, `TouchTimer` |
| `TimersAreServed` | `Spec => []NoOverdueTimer` | `Serialised`, `TimelyTicks`; `TimerInv` |
| `DielectricIsGuarded` | `Spec => DielectricGuards`, races included | `DielInv` |
| `ControllerImplementsCut` | `Spec => ImplementsCut`, races included | `SerialInv`, `MovesServoed` |
| **Motion loop** | | |
| `MotionTypeCorrect` | `Spec => []TypeOK` | `Contour` |
| `GivenUpIsQuiet` | `Spec => []EarlyEndNoSpark`, races included | `EndInv` |
| `PendingIsShort`, `StaysInWindow`, `DoneIsThere` | `Spec => []` `PendingShort`, `InWindow`, `Arrives` | `PathInv` |
| `BlocksAreShort` | `Spec => ShortBlocks` | `PathInv` |
| **Wire feed** | | |
| `FeedTypeCorrect` | `Spec => []TypeOK`, races included | inductive |
| `LatchParksFeed` | `Spec => []LatchedStopsFeed`, races included | `LatchInv` |
| `OnlyResetUnlatches` | `Spec => NoAutoRecovery`, races included | `LatchInv` |
| `CollapseIsEarned` | `Spec => []LatchIsEarned` | `Serialised`; `EarnedInv` |
| `SnapIsLatched` | `Spec => []SnapDetected` | `Serialised`, `SnapConditions`; `SnapInv` |
| **Controller and PSU link** | | |
| `SysTypeCorrect` | `SysSpec => []SysTypeOK` | inductive with `ContactPending` |
| `LinkedController` | `SysSpec => Spec` | the types |
| `FaultTelemetryActs` | `SysSpec => []FaultTelemetryStops` | `Serialised`; `ReadInv`, `FaultyInv` |
| `SilenceIsNoticed` | `SysSpec => []SilenceEndsCut` | `Serialised`, `MaxNow < Word`; `AgeInv`, `QuietInv` |
| `SparkStartsInBounds` | `SysSpec => StartsInBounds` | `Serialised`, `PromptAcks`, `NoLowering`; `BoundsInv` |
| **Controller and dielectric** | | |
| `DielTypeCorrect` | `SysSpec => []SysTypeOK` | inductive with `ContactPending` |
| `FlushedController` | `SysSpec => Spec` | the types |
| `DrySparkIsBounded` | `SysSpec => []DrySparkBounded` | `Serialised`, `DielRequired`, `TimelyTicks`; `SyncInv`, `WaitInv`, `DryInv` |
| **FluidNC protocol** | | |
| `ProtocolTypeCorrect` | `Spec => []TypeOK` | inductive |
| `HoldStill`, `StopsAreFresh` | `Spec => []` `HoldStandsStill`, `NoStaleStop` | `NoLimits`; `StillInv` |
| `ParkedStaysOff` | `Spec => []ParkedIsOff` | `Plain`; `DarkInv` |
| `ResumesWhereHeld` | `Spec => ResumesInPlace` | `NoLimits`, `NoResets`; `StillInv`, `PlaceInv` |

Hypotheses. `Serialised` puts calls between ticks; `controller_stop_race` shows that
`IdleStopsSpark` needs it, and a lock, or a command queue drained by the tick, would
establish it on the target. `TimelyTicks` says that two ticks are less than the ack time
apart (1 ms against 200) and that the clock does not wrap; the ack wait needs
`Serialised` too, the timers the servo task sets itself do not. The theorems of the
motion loop have no hypothesis: they hold for calls inside ticks, arcs of any number of
chords and any rapids. What that costs is in their statements: `EarlyEndNoSpark` excepts a
stop of an armed cut, `ShortBlocks` the block that brings the planner onto the contour,
and `InWindow` what comes before it. `SnapConditions` relates thresholds, setpoints and times of the collapse
detector; the defaults meet it below severity 3, and section 5 says what severity 3 does.
`PromptAcks` and `NoLowering` are explained in sections 3 and 5. `NoLimits` and
`NoResets` leave the limit pin and the reset out of the inputs, `Plain` lets resets,
limits and speed overrides come as rare inputs only, which `ParkedIsOff` excepts;
section 5 has the behaviours that make the first two necessary, found by TLC with more
than one rare input. No theorem bounds the number of events, faults, commands, chords
or frames.

The controller:

- `ContactPending`: a touch-off that goes on has fewer contacts than the limit, else
  the count could pass it.
- `FaultInv` adds that a tick that decided to start the generator is not faulted.
  Only the servo task writes a fault and only it starts the generator, so a call inside the
  tick cannot bring the two together; it may overwrite the fault with Armed or Idle.
- `SerialInv` adds that between the decision to start and touch-off the state is
  still Armed, and that a stop is over before the next tick.
- `TimedInv` is an argument about deadlines. The mode is restored when the
  severity clears, but only in a cut: an Armed or relieved controller would miss
  it. So a relief must end no later than the latch (`ReliefBeforeClear`), and an
  armed cut whose energy a break reduced must leave Armed before the latch clears
  (`ArmBound`, `ArmBeforeClear`). Both follow from `TimersOrdered`, which the
  defaults satisfy (50 and 200 below 500), and from a clock that does not wrap;
  section 5 says what happens when it does.
- `CapInv` ties the latched severity to the cap and both to the velocity on its way to
  the report: breaks are drained before the velocity is computed, so a cap that drops
  is never too late for the tick that drops it.
- `FreshInv` ties the flag of the gates to the window's date. Touch-off, and the tick
  that faults it, publish an advance without a window, and are exempt in the property.
- `TimerInv` says, section by section, which deadline was looked at last. Relief, latch
  and touch-off (`ReliefTimer`, `TouchTimer`) are set and looked at by the servo task, so
  calls inside a tick do not disturb them. The ack wait (`ArmTimer`) is set by M3, and the
  tick after it does not look; `TimelyTicks` covers that one.
- `DielInv`: what was published as running is not back in touch-off when the gates
  look, so the exemption of touch-off cannot hide a loss of flow in a cut.
- `CutStep` maps every action to a step of the lifecycle or a stutter, at either grain.
  Only the lifecycle's promise about a velocity needs an invariant: with calls between
  ticks it lives from the servo section to the report (`MovesServoed`).

The motion loop:

- `Contour` says of the vertices that their arc lengths rise. What `appendArc`'s
  recursive function makes of any number of chords is proved with a least
  counterexample (`LeastNat`) in place of an induction rule.
- `EndInv`: the outcome of a move is set on its way out only, with a stop. If the cut was
  not armed and no tick about to start the generator when the stop was sent (`arming`),
  then until the next M3 nothing is armed but a cut whose stop is half done between ticks,
  and no tick gets to start the generator (`Quiet`, `StopIsQuiet`).
- `PathInv` relates three positions: what was sampled, what was submitted and where the
  planner ends. The sampler caps a segment and keeps the rest for later, so that what
  is left must stay below a segment (`Path`, which starts at the oldest vertex left of a
  long arc); the planner ends at its last block or at the motors (`PlannerEnd`), also when
  coordinates are counted anew; once `joined`, it was given all but the segment in the wait
  for room (`Submitted`); a move that is done has nothing left to submit or execute
  (`Finished`).

The wire feed:

- `LatchInv` says which copy of the state the feed was parked by: the field up to the
  controller's step, the tick's output from there on. A reset lowers the field only,
  and the tick's store brings the latch back.
- `EarnedInv` and `SnapInv` compare the detector's counters with ghost histories of the
  readings, on the state the tick has decided on, while its fields are stored one by one.

The compositions:

- `LinkedController` and `FlushedController` say that every step of the composition is
  one of the controller whose inputs are the link's. All theorems about `Spec` hold of
  both compositions, and the proofs below use them.
- `ReadInv`, `FaultyInv`: past its gates, a tick that has read a faulty window has no
  cut. A break may take an idle controller to the relief, but the gates come after it.
- `AgeInv`, `QuietInv`: the controller dates a window by the tick that reads it, at most
  a period after it came.
- `BoundsInv`: a generator whose ack is out or was ok works with the bounds last sent,
  and arming is decided with no ack outstanding.
- `DryInv` bounds the dry time by the wait it passed in: the ack wait from M3, the
  touch-off from its start. `SyncInv` is about the simulator's task, which runs between
  the wake-up and the gates of a tick and dries an armed cut or wets a servoed one.

FluidNC's protocol. The main task nests its waits, so the invariants speak of `At`, the
place it is at or will come back to once the queue is empty, and of `Queued(e)`.

- `StillInv` is about whose motion it is. The steppers run only in a state that expects
  a cycle stop (`AwakeOK`: a cycle, a hold that brakes, a parking move, or an abort that
  has not been restarted yet), a queued cycle stop belongs to such a state and there is
  one of them (`StopOK`), and every handler that leaves such a state by another way takes
  the step bits along: a cancelled cycle is braking (`CycleOK`), parking moves are begun
  behind a complete hold and nowhere else (`ParkOK`). `AbortOK` carries this through a
  reset, whose handler leaves the steppers running until the restart it posts. The restart
  always finds room, as it is posted by a handler that has just taken an event. The
  capacity of the queue is not needed: an event that is dropped leaves less to go wrong
  for safety, though a hold may then not end (section 5).
- `DarkInv`: `park()` has turned the spindle off before it sets `retractComplete`; what
  turns it on again is `unpark()`, which `initiateRestore` asked for, or an M3, which
  comes at a line, where the suspend bits are clear.
- `PlaceInv`: away from the planner's position the tool is parked or on its way
  (`PlaceOK`), and then `restore_target` is that position (`TargetOK`). A plunge ends there
  (`PlungeOK`) unless the door opened again, which sets `restartRetract`, and that keeps
  the target. A hold bit left over from a cancelled cycle ends the first parking move
  early; the proof had to show that this is never the plunge.

With this every safety property the runs check is proved. Only model-checked is what
needs fairness, for which the prover has no rule (`FaultEndsMove`, `AbortEndsMove`,
`SevereBreakStops`, `HoldCompletes`, `DoorStopsSpindle`).

## 5. Observations without a run

The models show each of these; they are not runs, to keep the list of runs short.

Motion and controller:

- A severity-3 break moves a PSU fault to BreakRelief and back to TouchOff, servoed
  with the generator off (`Control/EdmController.cpp:88`), where the design (line 126)
  says "PSU `FAULT` → immediate feed-hold + spark-off (M5) + alarm."
- The last segment of a move, a reversal's flush, or a G1 to where the machine is, can
  be shorter than a motor step. The planner refuses it and the loop raises a SoftLimit
  alarm; the comment at `Motion/EdmMotion.cpp:174` says "Zero-length segments are
  excluded by the sampler's seg_min".
- M3 inside a tick (`Control/EdmController.cpp:16-23`, no lock). The tick may see Armed
  before its deadline is written, and fault with AckTimeout (or DielectricNotReady) on the
  deadline of an earlier arming; or before `_arm_fresh` is, and start the cut without the
  settle tick, on the last ack status; or before the bounds are sent, and start in those of
  the mode before. An M3 that tested the state before a fault overwrites the fault with
  Armed: the generator is off, but the next ticks arm and start it. With `Serialised =
  FALSE` `NoOverdueTimer` and `BoundsInSync` are violated; the generator of a published
  fault is off all the same (`SparkOffWhenFaulted`).
- The stop of the motion loop (`Motion/EdmMotion.cpp:99`, `103`, `153`, `157`, `176`) is a
  call from the other core like M5: in the tick that starts the generator it is overtaken,
  and the move returns with the generator on, after a reset or an alarm too. It is the
  interleaving of `controller_stop_race`; `EarlyEndNoSpark` excepts it (`arming`) and shows
  that there is no other way.
- The waits for room and for the planner to drain (`Motion/EdmMotion.cpp:145`, `:113`) test
  abort and alarm, or abort, and not the fault: with a feed hold or a limit switch (Critical)
  in them the stepper stands, and the loop outlasts a fault until a resume or a reset. The
  final drain of an alarm outlasts it too. `FaultEndsMove` excepts these (`Standing`).
- The contour starts at `get_mpos()` without a synchronisation
  (`Motion/EdmMotion.cpp:205`, `:259`): a cut behind queued rapids starts where the motors
  are, and the planner goes from the end of the rapids to the first segment in one block of
  any length, with the generator on. From there on `ShortBlocks` holds.
- A G1 within a servo period of M3 reads the report of the tick before and is skipped
  whole, as if M5 had landed (`Motion/EdmMotion.cpp:115`).
- A limit switch sets Critical, and the loop looks for Alarm only
  (`Motion/EdmMotion.cpp:102`): it waits as in a hold with the generator on until a
  reset, since `off_on_alarm` defaults to false.
- A wire that parts during a severity-3 break is never detected: the setpoint is 0, so
  nothing is below the threshold, and `since_loaded_ms` passes `loaded_recent_ms`
  meanwhile (`Feed/TensionController.cpp:60`).
- Touch-off creeps forward on stale telemetry (`Servo/GapServo.cpp:55` comes before
  the validity test), where the design (line 128) says "Stale telemetry >
  threshold → hold". `NoBlindAdvance` therefore exempts it.
- Deadlines are absolute and compared with `>=`: a break within `clear` ms of the
  wrap of the 32-bit clock is cleared at once or 49 days late, and its reduced
  mode is not restored. The runs and `ModeIsRestored` exclude the wrap.
- An arc of 256 chords or more (at the default tolerance a full circle of more than about
  27 mm radius) overruns the contour buffer: `runCutArc` appends all of it before the loop
  begins, `ContourBuffer::pushVertex` drops the start, nothing on the target evicts what
  was passed, and the sampler begins at 0, where `poseAt` clamps to the oldest vertex
  left. The first block is one straight jump past the chords dropped; the next segment
  forward may still be clamped to that vertex, is then refused as one of no steps and
  raises SoftLimit. What the run and the theorems show of such an arc is that nothing is
  submitted beyond its end or short of its oldest vertex, and that it is done at its end
  only. The design (line 107) has a window of "upcoming streamed waypoints".
- `since_loaded_ms` starts at 0, which counts as recently loaded: a cut that begins
  with a slack wire latches a collapse after `collapse_ms`, though
  `src/docs/superpowers/plans/2026-06-13-edm-psu-integration-P3.md:605` says "no
  false collapse during idle/startup before load".
- `resetCollapse()` between the tick's read of `_state` and its store is overwritten:
  the collapse stays latched until the operator resets it again. `LatchIsEarned`
  holds with serialised commands only.
- `StepGen::begin()` disables both motors and `WireFeed::tick` enables the feed motor
  only; nothing enables the tension motor.
- The tick in which the touch-off budget expires publishes Fault with the creep
  velocity it had computed; the next tick publishes 0.
- `clearFault()` and `notifyCutComplete()` have no caller on the target. M5 leaves
  a fault, because `requestStop()` is unconditional; the reason is kept.
- `_lostgap_contig` is not reset when touch-off begins again.
- A WIRE_BREAK of severity 0, outside the protocol's 1..3, would cap the feed at
  60 % with nothing to clear it.
- The Armed branch of `NoOverdueTimer` assumes calls between ticks, and two ticks less
  than the ack time apart.
- M5, M3 and G1 within one tick may read a report that still says faulted.
- `runContour` returns true even when a reset interrupts its final
  synchronisation; its caller (`src/FluidNC/src/GCode.cpp:1901`) ignores the result.
- The collapse debounce counts the `dt` of ticks with a fresh sample only: at 10
  samples a second it takes longer than `collapse_ms`.
- `Feed/WireFeed.h:106` says that M5 and a new M3 run `begin()` again; `setState`
  does not.
- A latched collapse is reported and parks the feed, but nothing tells the
  controller. `src/docs/superpowers/specs/2026-06-13-edm-psu-integration-design.md:129`
  asks for "emergency spark-off + hold".
- The CAN bus has one receive handler; `EdmSpindle.cpp:76` warns that a second
  user replaces the first.

Links:

- An ack later than one tick: the Armed section takes status 0 for an ok
  (`Control/EdmController.cpp:156`, "0 = ok/none") and starts the cut; a refusal that
  arrives then is never looked at, and the bounds are not sent again. With
  `PromptAcks = FALSE` `StartsInBounds` is violated.
- A break of severity 2 while Armed (`Control/EdmController.cpp:96`) sends the bounds of
  the lower energy from the drain of the very tick whose Armed section then starts the
  cut on the status of the ack before: the generator may start in the old bounds, or in
  ones it refused. With 2 among the severities, and a generator that refuses the lower
  mode, `StartsInBounds` is violated; the run and the theorem leave severity 2 out.
- The design (line 127) has "Loss of PSU heartbeat > threshold → fault"; the heartbeat
  latches, and only stale telemetry of a servoed cut faults. An M3 before the first
  heartbeat faults with ProtocolMismatch.
- STOP_CUT is sent once and never repeated or acknowledged.
- `EdmSpindle` wires the simulated links only, and nothing calls `SimPsuLink::tick` on
  the target, so every cut there ends in TouchOffNoContact.
- The telemetry of a dielectric module that died stays valid forever: `DrySparkBounded`
  is about the flow that is reported.

FluidNC, with the line of `src/FluidNC/src/`:

- `Protocol.cpp:335`: an automatic cycle start queued behind a feed hold resumes it at
  once, where line 815 says "Remain in HOLD or DOOR states until user has issued a resume
  command or reset."
- `Protocol.cpp:994`: a reset during a parking move. `park()` goes on after the abort and
  `retractComplete` is set after the restart cleared the suspend bits; the main task
  stays in the suspend loop, in Alarm, and takes no line until a second reset.
  Without a move under way the reset leads to Idle, and a hold and the door that come
  before `park()` is done enter the door state as already parked: `unpark()` then plunges
  to where an earlier program was held, and the next cycle starts with the tool beside
  the planner's position. `ResumesWhereHeld` therefore needs `NoResets`.
- `Protocol.cpp:1162`: the restart is queued behind what came after the reset. A reset that
  arrives while a line is parsed has the automatic cycle start of that line between it
  and the restart: the cycle starts, the restart empties the planner and stops the steppers
  without a cycle stop, and the machine stays in Cycle, where nothing starts the next move,
  until another reset.
- `MotionControl.cpp:395`: the alarm of a limit is queued behind what came before it. A
  cycle start between the two wakes the steppers, and Critical is entered with them
  running. After a reset or `$X` out of it the machine is Idle, or holds, while they run
  on, and their cycle stop ends the next motion. `HoldStill` and `StopsAreFresh`
  therefore need `NoLimits`.
- `RealtimeCmd.cpp:29`: a jog cancel that arrives as the jog ends is handled in Idle and
  suspends the idle machine until a cycle start ("Block all other states from invoking
  motion cancel.").
- `Parking.cpp:89`: when the door re-opens right after `unpark()` set Idle, `park()` runs
  again without `setup()` and adds to the waypoint of the last time, which may then lie
  below the work position ("Check to ensure the motion doesn't move below pull-out
  position.", line 138).
- `Protocol.cpp:1066`: a spindle speed override with the door open, or during a spindle
  stop, turns the spindle on; line 588 says the door "disables powered devices
  (spindle/coolant), and blocks resuming until switch is re-engaged".
- `Protocol.cpp:579`: a feed hold or the door takes the machine out of Critical without
  a reset, and a hold completed before the limit can then be resumed. `State.h:20` says
  "You can't do anything but reset with CTRL-x or the reset button".
- A reset with the door open forgets it: the pin's event comes on its edge only. A
  spindle stop and a cycle start drained together lose the resume. A queue that is full
  when the stepper stops drops the cycle stop (`Protocol.cpp:1222`), and the hold or the
  parking move never ends; `protocol` reaches it, and `HoldCompletes` excepts it.
- `Protocol.cpp:579`, `:975`: holds that never complete, beside that one. A feed hold after
  a limit switch takes Critical to Hold (the default branch) with no cycle stop to come;
  one in the Cycle that a dropped stop or a restart left behind waits for a stop that has
  gone; one handled between a reset and its restart loses `holdComplete`, or the request, to
  the restart. A cycle start resumes only with `holdComplete`, so it takes a
  reset to leave them. `HoldCompletes` is therefore about a hold of a cycle that runs or has
  its stop queued, with no reset pending.

## 6. Not modelled

- The load cell, the step generators' pulse timing, the PI regulators: signal
  processing over the reals, or register I/O.
- Protocol codecs, CAN driver, report channel: conversions and I/O without
  decisions of their own. The codecs are in the plan.
- `SimPsuLink`, a stand-in for host tests; the dielectric's temperature, conductivity
  and pressure, which are only reported, and its events, which nobody pops.
- FluidNC beyond `Protocol` and what the motion loop uses: homing, probing, check mode,
  laser spindles, coolant, feed overrides; velocity planning and step timing; the
  g-code parser, settings, web server, file systems, displays and drivers. These make
  most of the repository's 70 000 lines, come from upstream FluidNC unchanged, and are
  parsing and I/O rather than decisions about the machine. The EDM subsystem itself is
  about 4 000 lines, and the share of the whole repository that the modules cover stays
  small for that reason.

## 7. Plan

Done: the controller with its servo and mode table, the lifecycle it implements,
the motion loop composed with the lifecycle, the wire feed, the PSU link and the
dielectric composed with the controller, and FluidNC's protocol and parking. Next:

1. Codec lemmas: what `Psu/Endian.h` puts it gets back, for every value of each width.
2. Homing and probing in `Protocol`, which share the cycle stop with holds.
