------------------------------ MODULE WifiDevice ------------------------------
(***************************************************************************)
(* The guest's Wi-Fi device as the runner drives it (runner/src/           *)
(* wifi_net.cpp): the single-slot event shim under its microsecond timer,  *)
(* power control, the access point's client status, the localhost          *)
(* multiplayer transport, and the guard word that decides whether a        *)
(* savestate may be taken (runner/src/network_savestate_guard.cpp).  The   *)
(* device itself is vendored and modelled from the calls it makes.         *)
(***************************************************************************)
EXTENDS Naturals, Sequences

CONSTANTS Interval,     \* cycles between two ticks of the microsecond timer
          MaxTime,      \* bound on the system timestamp
          MaxFrames,    \* datagrams that arrive in a behaviour
          Capacity,     \* kQueueCapacity
          ResetPowered  \* a debug reset may come while the device is powered

VARIABLES
  now,      \* CurrentSystemTimestamp
  event,    \* [sched, at]: the one event slot
  enabled, powerUS, on, \* POWCNT2 bit 1, W_PowerUS bit 0, Wifi::PowerOn
  client,   \* WifiAP::ClientStatus
  socket,   \* the transport's socket is open
  waiting,  \* datagrams in the socket: "cmd" or "reply"
  packets, replies,     \* packet_queue_, reply_queue_
  arrivals, \* datagrams so far
  guard,    \* the guard's word, by field
  ticks     \* the callback ran in the last step

vars == <<now, event, enabled, powerUS, on, client, socket, waiting, packets,
          replies, arrivals, guard, ticks>>

NoEvent == [sched |-> FALSE, at |-> 0]

\* nds_wifi3d_attach, BeginAttach to FinishAttach, then the first reset
Init ==
  /\ now = 0 /\ event = NoEvent
  /\ enabled = FALSE /\ powerUS = FALSE /\ on = FALSE /\ client = 0
  /\ socket = FALSE /\ waiting = <<>> /\ packets = <<>> /\ replies = <<>>
  /\ arrivals = 0 /\ ticks = FALSE
  /\ guard = [bridge |-> "ready", assoc |-> 0, active |-> FALSE,
              listening |-> FALSE, peer |-> FALSE]

-----------------------------------------------------------------------------
\* NDS::ScheduleEvent: a pending event is never overwritten, a periodic one
\* follows the last deadline and a first one the current time.
Scheduled(e, periodic) ==
  IF e.sched THEN e
  ELSE [sched |-> TRUE, at |-> (IF periodic THEN e.at ELSE now) + Interval]

\* NDS::CancelEvent
Cancelled(e) == [e EXCEPT !.sched = FALSE]

\* NdsNetworkSavestateGuard::SetLocalMpListening
Listening(g, listening) ==
  [g EXCEPT !.listening = listening, !.peer = listening /\ @]

\* LocalMpTransport::Begin and End (MP_Begin, MP_End): the guard learns of the
\* listening socket only when this call opens it, and forgets the peer on End.
Begun(g) == IF socket THEN g ELSE Listening(g, TRUE)

\* Wifi::UpdatePowerOn
UpdatePowerOn(on_) ==
  /\ on' = on_
  /\ CASE on_ = on ->
            UNCHANGED <<event, guard, socket, waiting, packets, replies>>
       [] on_ /\ ~on ->
            /\ event' = Scheduled(event, FALSE)
            /\ guard' = Begun([guard EXCEPT !.active = TRUE])
            /\ socket' = TRUE /\ UNCHANGED <<waiting, packets, replies>>
       [] ~on_ /\ on ->
            /\ event' = Cancelled(event)
            /\ guard' = [Listening(guard, FALSE) EXCEPT !.active = FALSE]
            /\ socket' = FALSE /\ waiting' = <<>>
            /\ packets' = <<>> /\ replies' = <<>>

\* nds_wifi_set_power_control
SetPowerControl(bit) ==
  /\ enabled' = bit /\ UpdatePowerOn(bit /\ ~powerUS) /\ ticks' = FALSE
  /\ UNCHANGED <<now, powerUS, client, arrivals>>

\* nds_wifi_write of W_PowerUS
WritePowerUS(bit) ==
  /\ powerUS' = bit /\ UpdatePowerOn(enabled /\ ~bit) /\ ticks' = FALSE
  /\ UNCHANGED <<now, enabled, client, arrivals>>

\* nds_wifi_on_client_state_changed: the guest talks to the access point.
Associate(status) ==
  /\ on /\ client' = status
  /\ guard' = [guard EXCEPT !.assoc = status] /\ ticks' = FALSE
  /\ UNCHANGED <<now, event, enabled, powerUS, on, socket, waiting, packets,
                 replies, arrivals>>

\* A validated datagram of another instance reaches the socket.
Arrive(type) ==
  /\ socket /\ arrivals < MaxFrames /\ arrivals' = arrivals + 1
  /\ waiting' = Append(waiting, type) /\ ticks' = FALSE
  /\ UNCHANGED <<now, event, enabled, powerUS, on, client, socket, packets,
                 replies, guard>>

Queued(queue, type) ==
  LET wanted == SelectSeq(waiting, LAMBDA w : w = type)
      all == queue \o wanted
  IN SubSeq(all, 1, IF Len(all) < Capacity THEN Len(all) ELSE Capacity)

\* LocalMpTransport::DrainSocket: a datagram is the evidence of a peer.
Drained ==
  /\ waiting' = <<>>
  /\ guard' = IF waiting = <<>> THEN guard ELSE [guard EXCEPT !.peer = TRUE]

\* RecvPacketGeneric: one packet, or nothing (at once, or at the deadline)
Received(queue) == IF queue = <<>> THEN queue ELSE Tail(queue)

\* nds_wifi_run_events: the timer's tick polls the transport for a packet and
\* schedules the next one.
Tick ==
  /\ event.sched /\ event.at <= now
  /\ Drained
  /\ packets' = Received(Queued(packets, "cmd"))
  /\ replies' = Queued(replies, "reply")
  /\ event' = Scheduled([event EXCEPT !.sched = FALSE], TRUE)
  /\ ticks' = TRUE
  /\ UNCHANGED <<now, enabled, powerUS, on, client, socket, arrivals>>

\* RecvReplies: the host of a game collects its clients' answers, all of them
\* or those that came before the deadline.
RecvReplies ==
  /\ on /\ Drained
  /\ packets' = Queued(packets, "cmd")
  /\ replies' \in {<<>>, Received(Queued(replies, "reply"))}
  /\ ticks' = FALSE
  /\ UNCHANGED <<now, event, enabled, powerUS, on, client, socket, arrivals>>

\* nds_wifi_on_local_mp_disconnected
Disconnect ==
  /\ on /\ guard' = [guard EXCEPT !.peer = FALSE] /\ ticks' = FALSE
  /\ UNCHANGED <<now, event, enabled, powerUS, on, client, socket, waiting,
                 packets, replies, arrivals>>

\* nds_wifi_next_event_time bounds the scheduler's next rendezvous.
Pass ==
  /\ now < MaxTime /\ (event.sched => event.at > now)
  /\ now' = now + 1 /\ ticks' = FALSE
  /\ UNCHANGED <<event, enabled, powerUS, on, client, socket, waiting, packets,
                 replies, arrivals, guard>>

\* ResetGuestWifi
GuardReset(g) == [g EXCEPT !.assoc = 0, !.active = FALSE, !.listening = FALSE,
                           !.peer = FALSE]

\* nds_wifi_reset and Wifi::Reset at a debug reset, which starts time over
\* (boot, scheduler_init).
Reset ==
  /\ ResetPowered \/ ~on
  /\ now' = 0 /\ guard' = GuardReset(guard)
  /\ enabled' = FALSE /\ powerUS' = FALSE /\ on' = FALSE /\ client' = 0
  /\ ticks' = FALSE
  /\ UNCHANGED <<event, socket, waiting, packets, replies, arrivals>>

Next ==
  \/ \E bit \in BOOLEAN : SetPowerControl(bit) \/ WritePowerUS(bit)
  \/ \E status \in 0..2 : Associate(status)
  \/ \E type \in {"cmd", "reply"} : Arrive(type)
  \/ Tick \/ RecvReplies \/ Disconnect \/ Pass \/ Reset

Spec == Init /\ [][Next]_vars

-----------------------------------------------------------------------------

\* NdsNetworkSavestateGuard::Evaluate
Allowed ==
  /\ guard.bridge = "ready" /\ guard.assoc = 0
  /\ ~guard.peer /\ ~guard.active

\* A savestate is allowed only while the device holds nothing the state does
\* not contain: it is off, no client is known to the access point, no event is
\* due and no peer's frame is queued (Evaluate, whose flags other calls keep).
AllowedIsIdle ==
  Allowed => /\ ~on /\ client = 0 /\ ~event.sched
             /\ ~socket /\ packets = <<>> /\ replies = <<>>

\* The guest's microsecond timer always has its next tick at hand while the
\* device is powered, and a powered-off device never ticks (the one event slot
\* of NDS::ScheduleEvent, which refuses to move a pending event).
TimerAlive ==
  /\ on => event.sched /\ event.at <= now + Interval
  /\ ticks => on
=============================================================================
