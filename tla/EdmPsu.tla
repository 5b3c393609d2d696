------------------------------- MODULE EdmPsu -------------------------------
(***************************************************************************)
(* The controller behind its CAN link, with a generator at the other end.  *)
(* Every step of the controller is a step of EdmController whose link      *)
(* inputs are what PsuLink holds, and whose commands are frames.  The CAN  *)
(* receive task runs between any two sections of a tick up to the fault    *)
(* gates.  Later in a tick only the status of an ACK is read, and an ACK   *)
(* that comes then might as well have come before the gates; any other     *)
(* frame might as well come after the tick.                                *)
(*                                                                         *)
(* The generator is external and modelled from the frames the link and the *)
(* controller exchange with it.  It may refuse bounds, fault, fall silent  *)
(* in any kind of frame, and answer late.                                  *)
(***************************************************************************)
EXTENDS EdmController, PsuLink

CONSTANTS
  Refusals,     \* the sets of modes whose bounds a generator may refuse
  PromptAcks,   \* an ACK arrives before the next tick
  Compatible    \* protocol versions of the generator, TRUE = the link's

ASSUME EdmPsuAssumption ==
  /\ Refusals \subseteq SUBSET EdmMode /\ PromptAcks \in BOOLEAN
  /\ Compatible \subseteq BOOLEAN

VARIABLES
  psu_bounds,   \* the bounds the generator accepted last
  psu_cutting,  \* it sparks
  psu_faulted,  \* it is in its fault state
  psu_ack,      \* the ACK it has yet to send: NoAck or a status
  psu_version,  \* whether its protocol version is the link's
  psu_refuses,  \* the modes whose bounds it refuses
  quiet         \* ms since its last telemetry window, or since power-up

psuVars == <<psu_bounds, psu_cutting, psu_faulted, psu_ack, psu_version, psu_refuses>>
sysVars == <<vars, linkVars, psuVars, quiet>>

NoAck == -1

SysInit ==
  /\ Init /\ LinkInit
  /\ psu_bounds = NoBounds /\ psu_cutting = FALSE /\ psu_faulted = FALSE
  /\ psu_ack = NoAck /\ psu_version \in Compatible /\ psu_refuses \in Refusals
  /\ quiet = 0

-----------------------------------------------------------------------------
(* What the generator does with a command. *)

takesBounds ==
  LET ok == bounds'.id \notin psu_refuses IN
  /\ psu_bounds' = IF ok THEN bounds' ELSE psu_bounds
  /\ psu_ack' = IF ok THEN 0 ELSE 1
  /\ UNCHANGED <<psu_cutting, psu_faulted, psu_version, psu_refuses>>

takesStart == psu_cutting' = ~psu_faulted
              /\ UNCHANGED <<psu_bounds, psu_faulted, psu_ack, psu_version, psu_refuses>>

takesStop == psu_cutting' = FALSE
             /\ UNCHANGED <<psu_bounds, psu_faulted, psu_ack, psu_version, psu_refuses>>

takesClear == psu_faulted' = FALSE
              /\ UNCHANGED <<psu_bounds, psu_cutting, psu_ack, psu_version, psu_refuses>>

\* A step of the controller sends SET_MODE_BOUNDS when the bounds it last sent
\* change (maybeSendModeBounds), and STOP_CUT or START_CUT otherwise.
Sends ==
  IF bounds' # bounds THEN takesBounds
  ELSE IF cutting' /\ ~cutting THEN takesStart
  ELSE IF ~cutting' /\ cutting THEN takesStop
  ELSE UNCHANGED psuVars

-----------------------------------------------------------------------------
(* The controller's steps over the link. *)

Calls ==
  /\ GCode
  /\ IF fault # "None" /\ fault' = "None" THEN takesClear ELSE Sends
  /\ UNCHANGED <<linkVars, quiet>>

WakeUp(d) ==
  /\ PromptAcks => psu_ack = NoAck
  /\ tickBegin(d)
  /\ quiet' = quiet + d
  /\ UNCHANGED <<linkVars, psuVars>>

\* drainEvents() empties the queue or spends its budget.
DrainEnds ==
  /\ events = <<>> \/ budget = 0
  /\ drainDone
  /\ UNCHANGED <<linkVars, psuVars, quiet>>

DrainStep ==
  /\ \/ drainFault /\ popEvent([kind |-> "FaultEvt", severity |-> 0])
     \/ drainOther /\ popEvent([kind |-> "ArcBurstEvt", severity |-> 0])
     \/ \E x \in Severities :
          drainBreak(x) /\ popEvent([kind |-> "WireBreak", severity |-> x])
  /\ Sends /\ UNCHANGED quiet

GateStep ==
  /\ gate(fresh, stats_fault, heartbeat_seen, protocol_ok, TRUE)
  /\ takeStats
  /\ Sends /\ UNCHANGED quiet

\* The rest of the tick; lastAckStatus() is read by the Armed section.
RestOfTick ==
  /\ \/ arm(last_ack_status)
     \/ startCut \/ enterTouchOff \/ relief \/ Servo \/ publish
  /\ Sends
  /\ UNCHANGED <<linkVars, quiet>>

-----------------------------------------------------------------------------
(* Frames of the generator. *)

PsuStats ==
  /\ onStats(psu_faulted) /\ quiet' = 0
  /\ UNCHANGED <<vars, psuVars>>

PsuStatus ==
  /\ onStatus(psu_version) /\ UNCHANGED <<vars, psuVars, quiet>>

PsuAcks ==
  /\ psu_ack # NoAck
  /\ onAck(psu_ack) /\ psu_ack' = NoAck
  /\ UNCHANGED <<vars, psu_bounds, psu_cutting, psu_faulted, psu_version, psu_refuses, quiet>>

\* A break warning, an arc burst or an information text.
PsuEvent ==
  /\ \/ \E x \in Severities : onEvent([kind |-> "WireBreak", severity |-> x])
     \/ onEvent([kind |-> "ArcBurstEvt", severity |-> 0])
  /\ UNCHANGED <<vars, psuVars, quiet>>

\* It faults and stops sparking; the FAULT frame may get lost.
PsuFaults ==
  /\ ~psu_faulted
  /\ psu_faulted' = TRUE /\ psu_cutting' = FALSE
  /\ onEvent([kind |-> "FaultEvt", severity |-> 0]) \/ UNCHANGED linkVars
  /\ UNCHANGED <<vars, psu_bounds, psu_ack, psu_version, psu_refuses, quiet>>

Psu == /\ pc \in {"wait", "drain", "gate"}
       /\ PsuStats \/ PsuStatus \/ PsuAcks \/ PsuEvent \/ PsuFaults

SysNext == Calls \/ (\E d \in TickGaps : WakeUp(d)) \/ DrainEnds \/ DrainStep
           \/ GateStep \/ RestOfTick \/ Psu

SysSpec == SysInit /\ [][SysNext]_sysVars

-----------------------------------------------------------------------------
(* Properties. *)

PsuTypeOK ==
  /\ psu_bounds \in Bounds \cup {NoBounds} /\ psu_refuses \in Refusals
  /\ psu_cutting \in BOOLEAN /\ psu_faulted \in BOOLEAN /\ psu_version \in BOOLEAN
  /\ psu_ack \in {NoAck, 0, 1} /\ last_ack_status \in {0, 1} /\ quiet \in Nat

\* The link keeps at most kMaxEvents events, however they come in, and the
\* controller and the generator keep their types on its two sides.
SysTypeOK == TypeOK /\ LinkTypeOK /\ PsuTypeOK

\* Telemetry that shows the generator in its fault state is acted upon by the
\* tick that reads it: whatever breaks, calls and lost FAULT frames came in
\* between, the controller's last command is then STOP_CUT.
FaultTelemetryStops ==
  pc = "wait" /\ stats_valid /\ stats_fault /\ ~unread => ~cutting

\* "Stale telemetry" ends the cut although the heartbeat latches: no servoed
\* cut outlives the last new window by more than tele_fault and a period.
SilenceEndsCut ==
  /\ pc = "wait" /\ have_window /\ state \in Servoing
  => \E d \in TickGaps : quiet <= TeleFault + d

\* The arming waits for the ACK: the generator only starts to spark with the
\* bounds of the controller's current mode and S word.
StartsInBounds ==
  [][~psu_cutting /\ psu_cutting' => psu_bounds = bounds]_sysVars
=============================================================================
