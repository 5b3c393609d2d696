------------------------------- MODULE PsuLink -------------------------------
(***************************************************************************)
(* The session layer over the CAN bus to the generator (EDM/Psu/PsuLink):  *)
(* onFrame() runs on the CAN receive task and stores what it decodes; the  *)
(* servo task on the other core reads it.  A spinlock guards every method, *)
(* so each operation is one step.  The sequence number setModeBounds()     *)
(* stamps on a frame is left out: the link decodes it from an ACK and      *)
(* throws it away.                                                         *)
(***************************************************************************)
EXTENDS Integers, Sequences

CONSTANT MaxEvents      \* kMaxEvents (32): length of the event queue

ASSUME PsuLinkAssumption == MaxEvents \in Nat \ {0}

VARIABLES
  stats_valid,          \* _stats_valid
  stats_fault,          \* _stats.state == 2
  unread,               \* _stats.window_id is not the controller's _last_window_id
  events,               \* _events
  heartbeat_seen,       \* _heartbeat_seen
  protocol_ok,          \* _protocol_ok
  last_ack_status       \* _last_ack_status, 0 = ok or none

statsVars == <<stats_valid, stats_fault, unread>>
healthVars == <<heartbeat_seen, protocol_ok>>
linkVars == <<stats_valid, stats_fault, unread, events, heartbeat_seen,
              protocol_ok, last_ack_status>>

\* An Event: a break carries its severity, the others nothing that is read.
\* ArcBurstEvt stands for Info as well, which is handled alike.
Event == [kind : {"WireBreak"}, severity : 1..255]
         \cup [kind : {"FaultEvt", "ArcBurstEvt"}, severity : {0}]

LinkInit ==
  /\ stats_valid = FALSE /\ stats_fault = FALSE /\ unread = FALSE
  /\ events = <<>>
  /\ heartbeat_seen = FALSE /\ protocol_ok = FALSE /\ last_ack_status = 0

-----------------------------------------------------------------------------
(* onFrame(), by frame identifier. *)

\* STATS_AGG with a new window id.  A repeated window changes nothing.
onStats(faulty) ==
  /\ stats_valid' = TRUE /\ stats_fault' = faulty /\ unread' = TRUE
  /\ UNCHANGED <<events, healthVars, last_ack_status>>

\* Mutant: the status of an ACK is not stored.
onAck_Ignored(status) == UNCHANGED linkVars

\* ACK_MODE_BOUNDS: the last status wins, whichever frame it answers.
onAck(status) ==
  /\ last_ack_status' = status
  /\ UNCHANGED <<statsVars, events, healthVars>>

\* PSU_STATUS: the heartbeat latches.
onStatus(compatible) ==
  /\ heartbeat_seen' = TRUE /\ protocol_ok' = compatible
  /\ UNCHANGED <<statsVars, events, last_ack_status>>

\* Mutant: a full queue still grows.
pushEvent_Unbounded(e) == events' = Append(events, e)

\* pushEvent(): the oldest event gives way on overflow.
pushEvent(e) ==
  events' = Append(IF Len(events) >= MaxEvents THEN Tail(events) ELSE events, e)

\* WIRE_BREAK, FAULT, ARC_BURST and INFO.
onEvent(e) == pushEvent(e) /\ UNCHANGED <<statsVars, healthVars, last_ack_status>>

-----------------------------------------------------------------------------
(* The servo task's side. *)

\* popEvent() returned e.
popEvent(e) ==
  /\ events # <<>> /\ e = Head(events)
  /\ events' = Tail(events)
  /\ UNCHANGED <<statsVars, healthVars, last_ack_status>>

\* Mutant: every snapshot counts as a new window.
fresh_Got == stats_valid

\* latestStats() holds a window the controller has not used yet.
fresh == stats_valid /\ unread

\* The controller takes the window: _last_window_id = window_id.
takeStats == unread' = FALSE
             /\ UNCHANGED <<stats_valid, stats_fault, events, healthVars, last_ack_status>>

LinkTypeOK ==
  /\ stats_valid \in BOOLEAN /\ stats_fault \in BOOLEAN /\ unread \in BOOLEAN
  /\ heartbeat_seen \in BOOLEAN /\ protocol_ok \in BOOLEAN
  /\ last_ack_status \in Nat
  /\ events \in Seq(Event) /\ Len(events) <= MaxEvents
=============================================================================
