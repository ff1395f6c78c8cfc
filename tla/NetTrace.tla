------------------------------- MODULE NetTrace -------------------------------
(***************************************************************************)
(* The records kept of network traffic (runner/src/net).  A session is     *)
(* captured to a file, its frames' identifying fields rewritten            *)
(* (net_capture.cpp, net_sanitize.cpp), the process may be killed at any   *)
(* point, and a later run of the same guest is fed from the file           *)
(* (net_replay.cpp).  And the event ring, with its separate, smaller table *)
(* of host names (net_ring.cpp).                                           *)
(*                                                                         *)
(* A frame carries the Ethernet addresses, the client address inside a     *)
(* DHCP or ARP body, the host name option, whether its UDP checksum is     *)
(* right, and the protocol: "dhcp", "arp" or "data".                       *)
(***************************************************************************)
EXTENDS Naturals, Sequences, SequencesExt

CONSTANTS MaxTick,      \* receive ticks of a session
          MaxLag,       \* ticks by which a replaying guest may run late
          HostFrames,   \* frames the host may send
          Timed,        \* frames the guest sends on its own, by tick
          Answer(_),    \* the frames the guest sends on receiving one
          RingSize, NameSlots, MaxEvents

VARIABLES
  phase,    \* "live", "killed" or "replay"
  lag,      \* how much later than in the capture the guest acts on its own
  sanitize, \* the capture is sanitized (not --net-capture-raw)
  tick,
  inner,    \* packets enqueued for the guest
  state,    \* NdsNetSanitizeState: the identity learned, as a set
  file,     \* the records: [cycle, dir, frame]
  partial,  \* the file ends inside a record
  live,     \* what the guest received at each tick of the live session
  got,      \* what it received at each tick of the replay
  nextTx, nextRx, mismatch,
  entries, names, seq, w, nameW, retained,
  history   \* the host name given to each event since the last reset

replayVars == <<phase, lag, sanitize, tick, inner, state, file, partial, live,
                got, nextTx, nextRx, mismatch>>
ringVars == <<entries, names, seq, w, nameW, retained, history>>
vars == <<replayVars, ringVars>>

-----------------------------------------------------------------------------
(* Sanitizing.  "me" is the console's address and "syn" its substitute, a  *)
(* hash of it: the same in every run.                                      *)

Mapped(mac, from, to) == IF mac = from THEN to ELSE mac

\* The checksum of a datagram whose body changed is recomputed, unless it is
\* zero: a sender that computes none.
Recomputed(sum, changed) == IF changed /\ sum # "off" THEN "right" ELSE sum

\* The body is only decoded in an ARP or a BOOTP frame.
Rewritten(f, from, to, host) ==
  LET body == IF f.kind = "data" THEN f.mac ELSE Mapped(f.mac, from, to)
      name == IF f.kind = "dhcp" THEN host ELSE f.host
  IN [f EXCEPT !.src = Mapped(@, from, to), !.dst = Mapped(@, from, to),
               !.mac = body, !.host = name,
               !.sum = Recomputed(@, f.kind = "dhcp"
                                       /\ (body # f.mac \/ name # f.host))]

\* The identity is the source of the first frame the guest sends.
Learned(known, dir, f) ==
  IF known = {} /\ dir = "tx" THEN {f.src} ELSE known

SynName(host) == IF host = "" THEN "" ELSE "synthetic"

\* net_sanitize_ethernet_frame with the state it leaves
Sanitized(f, known) ==
  IF "me" \in known THEN Rewritten(f, "me", "syn", SynName(f.host))
  ELSE Rewritten(f, "none", "none", SynName(f.host))

\* net_desanitize_ethernet_frame_for_replay
Desanitized(f) == Rewritten(f, "syn", "me", f.host)

-----------------------------------------------------------------------------
ReplayInit ==
  /\ phase = "live" /\ lag = 0 /\ sanitize \in BOOLEAN /\ tick = 0
  /\ inner = <<>> /\ state = {} /\ file = <<>> /\ partial = FALSE
  /\ live = <<>> /\ got = <<>>
  /\ nextTx = 1 /\ nextRx = 1 /\ mismatch = {}

\* The worker's packets reach the dispatcher; only a host that has heard from
\* the guest knows its address.
HostSends(f) ==
  /\ phase = "live" /\ tick < MaxTick /\ Len(inner) < 2
  /\ "me" \in {f.src, f.dst, f.mac} =>
       \E i \in DOMAIN file : file[i].dir = "tx"
  /\ inner' = Append(inner, f)
  /\ UNCHANGED <<phase, lag, sanitize, tick, state, file, partial, live, got,
                 nextTx, nextRx, mismatch>>

\* The frame the guest gets at this tick, and what it then sends
Popped(queue) == IF queue = <<>> THEN <<>> ELSE <<Head(queue)>>

Sends(rx) ==
  (IF rx = <<>> THEN <<>> ELSE Answer(rx[1]))
    \o (IF tick < lag THEN <<>> ELSE Timed[tick - lag])

\* NdsNetCaptureWriter::Write
Written(f, dir, known) ==
  [cycle |-> tick, dir |-> dir,
   frame |-> IF sanitize THEN Sanitized(f, known) ELSE f]

\* A receive tick of the captured session: Net_RecvPacket delivers and records
\* one frame, and what the guest sends in answer is recorded as it is sent.
LiveTick ==
  LET rx == Popped(inner)
      tx == Sends(rx)
      known == IF tx = <<>> THEN state ELSE Learned(state, "tx", tx[1])
  IN /\ phase = "live" /\ tick < MaxTick
     /\ inner' = IF rx = <<>> THEN inner ELSE Tail(inner)
     /\ file' = file \o [i \in DOMAIN rx |-> Written(rx[i], "rx", state)]
                     \o [i \in DOMAIN tx |-> Written(tx[i], "tx", known)]
     /\ state' = IF sanitize THEN known ELSE state
     /\ live' = Append(live, rx)
     /\ tick' = tick + 1
     /\ UNCHANGED <<phase, lag, sanitize, partial, got, nextTx, nextRx, mismatch>>

\* The process ends: between two records, or inside the last one.
Kill ==
  /\ phase = "live" /\ phase' = "killed"
  /\ \/ UNCHANGED <<file, partial>>
     \/ /\ file # <<>> /\ partial' = TRUE
        /\ file' = SubSeq(file, 1, Len(file) - 1)
  /\ UNCHANGED <<lag, sanitize, tick, inner, state, live, got, nextTx,
                 nextRx, mismatch>>

\* NdsNetCaptureReader::ReadAll accepts only a file that ends at a record.
Readable == ~partial

\* The replaying run starts from a fresh machine (NetReplay::NetReplay); its
\* pace follows the user's input, so it may reach its first frame later.
StartReplay ==
  /\ phase = "killed" /\ Readable /\ phase' = "replay" /\ lag' \in 0..MaxLag
  /\ tick' = 0 /\ inner' = <<>> /\ state' = {} /\ got' = <<>>
  /\ UNCHANGED <<sanitize, file, partial, live, nextTx, nextRx, mismatch>>

TxRecords == SelectSeq(file, LAMBDA r : r.dir = "tx")
RxRecords == SelectSeq(file, LAMBDA r : r.dir = "rx")

RequiresNone(k) == 0

\* The frames the guest had sent when record k of the received ones was
\* captured (rx_required_tx_)
RequiredTx(k) ==
  LET at == CHOOSE i \in DOMAIN file :
              /\ file[i].dir = "rx"
              /\ Len(SelectSeq(SubSeq(file, 1, i), LAMBDA r : r.dir = "rx")) = k
  IN Len(SelectSeq(SubSeq(file, 1, at), LAMBDA r : r.dir = "tx"))

\* RecvCheck: received record k is due
Due(k) == /\ RxRecords[k].cycle <= tick
          /\ nextTx - 1 >= RequiredTx(k)

Delivered(k) ==
  IF sanitize /\ state # {} THEN Desanitized(RxRecords[k].frame)
  ELSE RxRecords[k].frame

\* NetReplay::SendPacket on each frame in turn: the first divergence is latched
\* and nothing is compared after it.
Matched(tx, known) ==
  LET same(i) == /\ nextTx + i - 1 <= Len(TxRecords)
                 /\ TxRecords[nextTx + i - 1].frame =
                      IF sanitize THEN Sanitized(tx[i], known) ELSE tx[i]
      bad == {i \in DOMAIN tx : ~same(i)}
  IN IF mismatch # {} THEN [n |-> 0, at |-> mismatch]
     ELSE IF bad = {} THEN [n |-> Len(tx), at |-> {}]
     ELSE LET first == CHOOSE i \in bad : \A j \in bad : i <= j
          IN [n |-> first - 1, at |-> {nextTx + first - 1}]

\* A receive tick of the replaying run: every record that is due is enqueued
\* (RecvCheck), one frame is delivered, and the guest's frames are compared.
ReplayTick ==
  LET due == {n \in 0..(Len(RxRecords) - nextRx + 1) :
                \A k \in nextRx..(nextRx + n - 1) : Due(k)}
      n == CHOOSE n \in due : \A m \in due : m <= n
      queue == inner \o [i \in 1..n |-> Delivered(nextRx + i - 1)]
      rx == Popped(queue)
      tx == Sends(rx)
      known == IF tx = <<>> \/ mismatch # {} THEN state
               ELSE Learned(state, "tx", tx[1])
      result == Matched(tx, known)
  IN /\ phase = "replay" /\ tick < MaxTick
     /\ inner' = IF rx = <<>> THEN queue ELSE Tail(queue)
     /\ nextRx' = nextRx + n
     /\ state' = IF sanitize THEN known ELSE state
     /\ nextTx' = nextTx + result.n /\ mismatch' = result.at
     /\ got' = Append(got, rx)
     /\ tick' = tick + 1
     /\ UNCHANGED <<phase, lag, sanitize, file, partial, live>>

ReplayNext ==
  \/ \E f \in HostFrames : HostSends(f)
  \/ LiveTick \/ Kill \/ StartReplay \/ ReplayTick

\* A frame as far as replay promises it: the host name is not restored.
Nameless(rx) == [i \in DOMAIN rx |-> [rx[i] EXCEPT !.host = ""]]

\* The guest of a replay receives the captured frames in their order, each at
\* its tick when the run keeps the captured pace, and its own frames are
\* accepted until the capture is exhausted, sanitized or not (rx_required_tx_,
\* the cycle gate, the comparison in sanitized space and
\* net_desanitize_ethernet_frame_for_replay).
ReplayReproduces ==
  phase = "replay" =>
    /\ IsPrefix(Nameless(FlattenSeq(got)), Nameless(FlattenSeq(live)))
    /\ lag = 0 => \A i \in DOMAIN got \cap DOMAIN live :
                    Nameless(got[i]) = Nameless(live[i])
    /\ \A i \in mismatch : i = Len(TxRecords) + 1

\* No record of a sanitized capture holds the console's address or a host name,
\* and every checksum the guest will verify is right
\* (NdsNetCaptureWriter::Write).
CaptureHasNoIdentity ==
  sanitize => \A i \in DOMAIN file :
    LET f == file[i].frame IN
    /\ "me" \notin {f.src, f.dst} /\ (f.kind # "data" => f.mac # "me")
    /\ f.host \in {"", "synthetic"} /\ f.sum # "wrong"

-----------------------------------------------------------------------------
(* The event ring.  Entries are numbered from 1 since the last reset; a    *)
(* slot is free storage that a reset does not clear.                       *)

NoEntry == [count |-> 0, hasName |-> FALSE, ref |-> 0]

RingInit ==
  /\ entries = [i \in 0..(RingSize - 1) |-> NoEntry]
  /\ names = [i \in 0..(NameSlots - 1) |-> [owner |-> 0, name |-> 0]]
  /\ seq = 0 /\ w = 0 /\ nameW = 0 /\ retained = 0 /\ history = <<>>

\* net_ring_push
Push ==
  /\ seq < MaxEvents /\ seq' = seq + 1
  /\ entries' = [entries EXCEPT ![w] = [NoEntry EXCEPT !.count = seq']]
  /\ w' = (w + 1) % RingSize
  /\ retained' = IF retained < RingSize THEN retained + 1 ELSE retained
  /\ history' = Append(history, 0)
  /\ UNCHANGED <<names, nameW>>

SlotOf(count) == (count - 1) % RingSize

\* net_ring_set_hostname, of an event that may have been evicted meanwhile;
\* `name' is 1, 2, ... in the order the names are given.
SetHostname(count, name) ==
  /\ history' = [history EXCEPT ![count] = name]
  /\ IF entries[SlotOf(count)].count # count THEN UNCHANGED <<entries, names, nameW>>
     ELSE /\ names' = [names EXCEPT ![nameW] = [owner |-> count, name |-> name]]
          /\ entries' = [entries EXCEPT ![SlotOf(count)] =
                           [@ EXCEPT !.hasName = TRUE, !.ref = nameW]]
          /\ nameW' = (nameW + 1) % NameSlots
  /\ UNCHANGED <<seq, w, retained>>

\* net_ring_reset
RingReset ==
  /\ seq > 0 /\ seq' = 0 /\ w' = 0 /\ retained' = 0 /\ nameW' = 0
  /\ history' = <<>> /\ UNCHANGED <<entries, names>>

RingNext ==
  \/ Push \/ RingReset
  \/ \E count \in 1..seq, name \in 1..2 : SetHostname(count, name)

\* net_ring_get and net_ring_get_hostname: what a query finds, as a set
Found(count) ==
  IF count \in 1..seq /\ entries[SlotOf(count)].count = count
  THEN {entries[SlotOf(count)]} ELSE {}

HostnameOf(count) ==
  UNION {IF e.hasName /\ names[e.ref].owner = count
         THEN {names[e.ref].name} ELSE {} : e \in Found(count)}

\* net_ring_copy_recent over the whole window, oldest first
Recent == [i \in 1..retained |->
             entries[(w + RingSize - 1 - (retained - i)) % RingSize].count]

\* A query returns exactly the newest events, in order, and never another
\* event's host name, whatever was evicted from either table or left behind by
\* a reset (net_ring_get, net_ring_get_hostname, net_ring_copy_recent).
RingExact ==
  /\ \A count \in 1..(MaxEvents + 1) :
       /\ (Found(count) # {}) = (count \in (seq - retained + 1)..seq)
       /\ HostnameOf(count) # {} => HostnameOf(count) = {history[count]}
  /\ Recent = [i \in 1..retained |-> seq - retained + i]
=============================================================================
