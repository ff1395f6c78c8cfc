------------------------------ MODULE WifiBridge ------------------------------
(***************************************************************************)
(* The host network bridge (runner/src/wifi_net.cpp): the emulation thread *)
(* (Net_SendPacket, Net_RecvPacket) and one worker thread, which owns the  *)
(* user-mode stack, exchange whole packets through two bounded queues.  A  *)
(* packet driver is called by both threads: the emulation thread's receive *)
(* tick checks the adapter too, and the driver's callback fills the same   *)
(* queue from either.  The guest's frames are numbered 1, 2, ... as it     *)
(* sends them and the host's as a thread takes them from the stack, the    *)
(* adapter or a localhost peer; a frame carries that thread.               *)
(***************************************************************************)
EXTENDS Naturals, Sequences, SequencesExt, FiniteSets

CONSTANTS Backend,      \* "slirp", "pcap" or "off" (no backend at all)
          TxCapacity,   \* kWifiNetTxQueueCapacity
          RxCapacity,   \* kWifiNetRxQueueCapacity
          InnerCapacity,\* packets the vendored dispatcher queue holds
          MaxTx, MaxRx  \* frames of a behaviour

VARIABLES
  emu,      \* the emulation thread: "run", "report", "check", "callback",
            \* "deliver", "join", "gone"
  worker,   \* the worker: "none", "top", "drain", "send", "poll", "callback",
            \* "peers", "wait", "done"
  inDriver, \* the threads inside a call of the driver
  stop, wake,
  txq, hand,\* tx_queue; the packet the worker popped (a sequence, at most 1)
  rxq, inner,
  emuRx, workerRx, \* the frame a thread's callback holds (at most 1)
  dropped,  \* rx_dropped_since_last_report
  oversized,\* pcap_rx_oversize_since_last_report
  ring,     \* BACKEND_DROP events by cause
  ntx, nrx, \* frames sent by the guest and taken from the host so far
  sent,     \* frames the driver was given
  forwarded,\* frames sent to a localhost peer
  unsent,   \* frames for a localhost peer whose sendto failed
  delivered,\* frames the guest received
  lost      \* host frames the dispatcher discarded

vars == <<emu, worker, inDriver, stop, wake, txq, hand, rxq, inner, emuRx,
          workerRx, dropped, oversized, ring, ntx, nrx, sent, forwarded, unsent,
          delivered, lost>>

Causes == {"full", "big", "rx", "rxbig"}

\* nds_wifi3d_attach: the worker starts last, and only with a live backend.
Init ==
  /\ emu = "run" /\ worker = IF Backend = "off" THEN "none" ELSE "top"
  /\ inDriver = {} /\ stop = FALSE /\ wake = FALSE
  /\ txq = <<>> /\ hand = <<>> /\ rxq = <<>> /\ inner = <<>>
  /\ emuRx = <<>> /\ workerRx = <<>>
  /\ dropped = 0 /\ oversized = 0 /\ ring = [c \in Causes |-> 0]
  /\ ntx = 0 /\ nrx = 0
  /\ sent = <<>> /\ forwarded = <<>> /\ unsent = <<>>
  /\ delivered = <<>> /\ lost = <<>>

-----------------------------------------------------------------------------
(* The emulation thread.                                                   *)

rxVars == <<rxq, inner, emuRx, workerRx, dropped, oversized, nrx, delivered, lost>>
txVars == <<txq, hand, ntx, sent, forwarded, unsent>>

Reported(cause, k) == ring' = [ring EXCEPT ![cause] = @ + k]

\* BoundedPacketQueue::TryPush
Fits(queue, capacity) == Len(queue) < capacity

Sent(no) == [by |-> "emu", no |-> no]

\* Net_SendPacket of an ordinary frame
SendPacket ==
  /\ emu = "run" /\ ntx < MaxTx /\ ntx' = ntx + 1
  /\ \/ Backend = "off" /\ UNCHANGED <<txq, wake, ring>>
     \/ /\ Backend # "off" /\ Fits(txq, TxCapacity)
        /\ txq' = Append(txq, Sent(ntx + 1)) /\ wake' = TRUE /\ UNCHANGED ring
     \/ /\ Backend # "off" /\ ~Fits(txq, TxCapacity)
        /\ Reported("full", 1) /\ UNCHANGED <<txq, wake>>
  /\ UNCHANGED <<rxVars, emu, worker, inDriver, stop, hand, sent, forwarded, unsent>>

\* Net_SendPacket of a frame above kWifiNetMaxPacketBytes
SendOversize ==
  /\ emu = "run" /\ ntx < MaxTx /\ Backend # "off" /\ ntx' = ntx + 1
  /\ Reported("big", 1)
  /\ UNCHANGED <<rxVars, emu, worker, inDriver, stop, wake, txq, hand, sent,
                 forwarded, unsent>>

\* Net_SendPacket of a frame for another instance's subnet
\* (LocalWfcPeerBridge::ForwardIfPeerFrame, open with the user-mode stack): a
\* sendto that fails, or a host without the transport, loses the frame, and the
\* caller is told it was sent.
SendToPeer ==
  /\ emu = "run" /\ ntx < MaxTx /\ Backend = "slirp" /\ ntx' = ntx + 1
  /\ \/ forwarded' = Append(forwarded, Sent(ntx + 1)) /\ UNCHANGED unsent
     \/ unsent' = Append(unsent, Sent(ntx + 1)) /\ UNCHANGED forwarded
  /\ UNCHANGED <<rxVars, emu, worker, inDriver, stop, wake, txq, hand, ring, sent>>

\* What the dispatcher keeps when packets are enqueued behind others: the
\* newest that fit (PacketDispatcher::sendPacket discards old packets).
Kept(queue) ==
  IF Len(queue) <= InnerCapacity THEN queue
  ELSE SubSeq(queue, Len(queue) - InnerCapacity + 1, Len(queue))

\* Net_RecvPacket, the guest's receive tick: every queued packet moves on to
\* the dispatcher ...
RecvDrain ==
  /\ emu = "run" /\ emu' = "report"
  /\ rxq' = <<>> /\ inner' = Kept(inner \o rxq)
  /\ lost' = lost \o SubSeq(inner \o rxq, 1, Len(inner \o rxq) - Len(inner'))
  /\ UNCHANGED <<txVars, worker, inDriver, stop, wake, emuRx, workerRx, dropped,
                 oversized, ring, nrx, delivered>>

\* ... the drops since the last tick are put on record, by cause ...
RecvReport ==
  /\ emu = "report" /\ emu' = "check"
  /\ ring' = [ring EXCEPT !["rx"] = @ + dropped, !["rxbig"] = @ + oversized]
  /\ dropped' = 0 /\ oversized' = 0
  /\ inDriver' = IF Backend = "pcap" THEN inDriver \cup {"emu"} ELSE inDriver
  /\ UNCHANGED <<txVars, worker, stop, wake, rxq, inner, emuRx, workerRx, nrx,
                 delivered, lost>>

\* A frame is taken from the host: a thread's callback holds it from then on.
Taken(thread) ==
  /\ nrx < MaxRx /\ nrx' = nrx + 1
  /\ IF thread = "emu"
     THEN emuRx' = <<[by |-> "emu", no |-> nrx + 1]>> /\ UNCHANGED workerRx
     ELSE workerRx' = <<[by |-> "worker", no |-> nrx + 1]>> /\ UNCHANGED emuRx

HandedUncounted(held) ==
  /\ rxq' = IF Fits(rxq, RxCapacity) THEN rxq \o held ELSE rxq
  /\ UNCHANGED <<dropped, oversized>>

\* What the driver's callback, or DrainTo, does with the frame it holds: it is
\* queued, or counted as dropped, or (packet driver) counted as oversized.
Handed(held) ==
  \/ /\ Fits(rxq, RxCapacity) /\ rxq' = rxq \o held
     /\ UNCHANGED <<dropped, oversized>>
  \/ /\ ~Fits(rxq, RxCapacity) /\ dropped' = dropped + 1
     /\ UNCHANGED <<rxq, oversized>>
  \/ /\ Backend = "pcap" /\ oversized' = oversized + 1
     /\ UNCHANGED <<rxq, dropped>>

recvVars == <<txVars, worker, stop, wake, ring, inner, delivered, lost>>

\* ... Net::RecvPacket calls the driver's RecvCheck, which is empty in the
\* user-mode stack and dispatches at most one frame of a packet driver ...
RecvCheck ==
  /\ emu = "check"
  /\ \/ emu' = "deliver" /\ inDriver' = inDriver \ {"emu"}
        /\ UNCHANGED <<emuRx, workerRx, nrx>>
     \/ /\ Backend = "pcap" /\ Taken("emu") /\ emu' = "callback"
        /\ UNCHANGED inDriver
  /\ UNCHANGED <<recvVars, rxq, dropped, oversized>>

RecvCallback ==
  /\ emu = "callback" /\ emu' = "deliver" /\ inDriver' = inDriver \ {"emu"}
  /\ Handed(emuRx) /\ emuRx' = <<>>
  /\ UNCHANGED <<recvVars, workerRx, nrx>>

\* ... and one packet is delivered.
RecvDeliver ==
  /\ emu = "deliver" /\ emu' = "run"
  /\ IF Backend = "off" \/ inner = <<>> THEN UNCHANGED <<inner, delivered>>
     ELSE delivered' = Append(delivered, Head(inner)) /\ inner' = Tail(inner)
  /\ UNCHANGED <<txVars, worker, inDriver, stop, wake, rxq, emuRx, workerRx,
                 dropped, oversized, ring, nrx, lost>>

\* ~WifiBridgeState: StopWorker raises the flag, wakes the worker and joins it
\* before any member, the driver first of all, is destroyed.
Exit ==
  /\ emu = "run"
  /\ emu' = IF worker = "none" THEN "gone" ELSE "join"
  /\ stop' = TRUE /\ wake' = TRUE
  /\ UNCHANGED <<rxVars, txVars, worker, inDriver, ring>>

JoinReturns == worker = "done"

Join ==
  /\ emu = "join" /\ JoinReturns /\ emu' = "gone"
  /\ UNCHANGED <<rxVars, txVars, worker, inDriver, stop, wake, ring>>

-----------------------------------------------------------------------------
(* The worker thread, WifiWorkerThreadMain.                                *)

emuVars == <<emu, ntx, forwarded, unsent, delivered, lost, ring, inner, emuRx>>

TopIgnoringStop ==
  /\ worker = "top" /\ worker' = "drain"
  /\ UNCHANGED <<rxVars, txVars, emu, inDriver, stop, wake, ring>>

WorkerTop ==
  /\ worker = "top" /\ worker' = IF stop THEN "done" ELSE "drain"
  /\ UNCHANGED <<rxVars, txVars, emu, inDriver, stop, wake, ring>>

WorkerPop ==
  /\ worker = "drain" /\ inDriver' = inDriver \cup {"worker"}
  /\ \/ /\ txq # <<>> /\ hand' = <<Head(txq)>> /\ txq' = Tail(txq)
        /\ worker' = "send"
     \/ txq = <<>> /\ worker' = "poll" /\ UNCHANGED <<hand, txq>>
  /\ UNCHANGED <<rxVars, emu, stop, wake, ring, ntx, sent, forwarded, unsent>>

\* live_driver->SendPacket
WorkerSend ==
  /\ worker = "send" /\ workerRx = <<>> /\ worker' = "drain"
  /\ sent' = sent \o hand /\ hand' = <<>>
  /\ inDriver' = inDriver \ {"worker"}
  /\ UNCHANGED <<rxVars, emu, stop, wake, ring, ntx, txq, forwarded, unsent>>

\* A frame is taken: by the stack inside SendPacket (a synthesised DNS answer)
\* or PollHostSockets, by the packet driver's RecvCheck (pcap_dispatch of one
\* packet), or by DrainTo from a peer.
WorkerTake ==
  /\ worker \in {"send", "poll", "peers"} /\ workerRx = <<>>
  /\ Backend = "slirp" \/ worker = "poll"
  /\ Taken("worker")
  /\ worker' = IF Backend = "pcap" THEN "callback" ELSE worker
  /\ UNCHANGED <<emuVars, inDriver, stop, wake, txq, hand, rxq, dropped,
                 oversized, sent>>

\* The callback: RecvCheck of the packet driver then returns, the stack and
\* DrainTo may take another frame.
WorkerCallback ==
  /\ workerRx # <<>> /\ Handed(workerRx) /\ workerRx' = <<>>
  /\ IF Backend = "pcap"
     THEN worker' = "peers" /\ inDriver' = inDriver \ {"worker"}
     ELSE UNCHANGED <<worker, inDriver>>
  /\ UNCHANGED <<emuVars, stop, wake, txq, hand, nrx, sent>>

\* PollHostSockets, or a RecvCheck without a packet, returns.
WorkerPoll ==
  /\ worker = "poll" /\ workerRx = <<>>
  /\ worker' = "peers" /\ inDriver' = inDriver \ {"worker"}
  /\ UNCHANGED <<rxVars, txVars, emu, stop, wake, ring>>

\* LocalWfcPeerBridge::DrainTo returns.
WorkerPeers ==
  /\ worker = "peers" /\ workerRx = <<>> /\ worker' = "wait"
  /\ UNCHANGED <<rxVars, txVars, emu, inDriver, stop, wake, ring>>

\* wake_cv.wait_for: a wake-up, the stop flag, or the 2 ms timeout.
WorkerWait ==
  /\ worker = "wait" /\ worker' = "top" /\ wake' = FALSE
  /\ UNCHANGED <<rxVars, txVars, emu, inDriver, stop, ring>>

Worker == WorkerTop \/ WorkerPop \/ WorkerSend \/ WorkerTake \/ WorkerCallback
          \/ WorkerPoll \/ WorkerPeers \/ WorkerWait

Next ==
  \/ SendPacket \/ SendOversize \/ SendToPeer
  \/ RecvDrain \/ RecvReport \/ RecvCheck \/ RecvCallback \/ RecvDeliver
  \/ Exit \/ Join
  \/ Worker

\* The worker's loop, and the host calls it makes, never block for good
\* (PollHostSockets is non-blocking, the wait has a timeout).
Fairness == WF_vars(Worker) /\ WF_vars(Join)

Spec == Init /\ [][Next]_vars /\ Fairness

-----------------------------------------------------------------------------
\* Frames are told apart, and those one thread put in keep their order.
Earlier(x, y) == x.no # y.no /\ (x.by = y.by => x.no < y.no)
InOrder(s) == \A i, j \in DOMAIN s : i < j => Earlier(s[i], s[j])

\* Every guest frame is with the driver, with a peer, in the queue, on record as
\* dropped, or one whose sendto failed.  Every host frame is delivered, queued,
\* in a callback's hands, discarded by the full dispatcher, or counted and then
\* put on record.  The failed sendto and the dispatcher's discarding are the two
\* losses without a record.  No frame is seen twice, and
\* those one thread put into the bridge are never reordered: all the guest's, all
\* the user-mode stack's; a packet driver's frames may overtake each other only
\* when two threads took them (the move-only queues, the atomic drop counters
\* and the rendezvous of Net_RecvPacket).
PacketsAccounted ==
  LET tx == sent \o hand \o txq  rx == delivered \o inner \o rxq
  IN /\ InOrder(tx) /\ InOrder(forwarded)
     /\ InOrder(rx \o emuRx) /\ InOrder(rx \o workerRx)
     /\ Backend # "off" =>
          /\ Len(tx) + Len(forwarded) + Len(unsent) + ring["full"] + ring["big"] = ntx
          /\ Len(rx) + Len(emuRx) + Len(workerRx) + Len(lost) + dropped + oversized
               + ring["rx"] + ring["rxbig"] = nrx

\* With the user-mode stack only one thread at a time is inside the driver (the
\* single-caller contract of Net_Slirp).
DriverSerial == Cardinality(inDriver) <= 1

\* None is inside the driver once it is being destroyed (StopWorker).
DriverOutlives == emu = "gone" => inDriver = {} /\ worker \in {"none", "done"}

\* The process does leave: the join of StopWorker returns.
ExitCompletes == emu = "join" ~> emu = "gone"
=============================================================================
