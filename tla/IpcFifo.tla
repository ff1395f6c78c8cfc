------------------------------ MODULE IpcFifo ------------------------------
(***************************************************************************)
(* The IPC FIFO of runner/src/io.cpp: a ring of words per direction and    *)
(* one IPCFIFOCNT register per core.  Every register access is one atomic  *)
(* handler; the two cores' accesses interleave at instruction granularity. *)
(***************************************************************************)
EXTENDS Integers, SequenceTheorems, TLAPS

CONSTANTS FifoSize,   \* slots of a ring (16 in the code)
          Words,      \* the values guest code sends
          Controls    \* the values guest code writes to IPCFIFOCNT

ASSUME IpcFifoAssumption == FifoSize \in Nat \ {0} /\ Words # {}

CPUs == {0, 1}
Peer(c) == 1 - c

SendEmpty == 17       \* IF bit: the own queue ran empty
RecvNotEmpty == 18    \* IF bit: the peer's queue holds data

VARIABLES
  fifo,    \* g_fifo[c]: the ring of words c has sent
  head,    \* g_fifo_head[c]
  cnt,     \* g_fifo_cnt[c]
  ctl,     \* g_fifocnt[c]: its stored bits
  lastrx,  \* g_fifo_lastrx[c]
  iflag    \* the FIFO's bits of g_if[c]

vars == <<fifo, head, cnt, ctl, lastrx, iflag>>

(* IPCFIFOCNT: bits 15 enable, 10 recv-not-empty IRQ, 2 send-empty IRQ,    *)
(* 14 error.                                                               *)
Control == [enable : BOOLEAN, recvIrq : BOOLEAN, sendIrq : BOOLEAN, error : BOOLEAN]

ASSUME ControlsAssumption == Controls \subseteq Control

(* The values of the run: on with both interrupts; off, acknowledging an   *)
(* error.  The theorems below cover every combination.                     *)
GuestControls ==
  {v \in Control : /\ v.recvIrq = v.enable /\ v.sendIrq = v.enable
                   /\ v.error = ~v.enable}

TypeOK ==
  /\ fifo \in [CPUs -> [0..(FifoSize - 1) -> Words]]
  /\ head \in [CPUs -> 0..(FifoSize - 1)]
  /\ cnt \in [CPUs -> 0..FifoSize]
  /\ ctl \in [CPUs -> Control]
  /\ lastrx \in [CPUs -> Words]
  /\ iflag \in [CPUs -> SUBSET {SendEmpty, RecvNotEmpty}]

(* nds_io_reset.  It leaves the ring's old words in place.                 *)
Init ==
  /\ \E w \in Words : /\ fifo = [c \in CPUs |-> [i \in 0..(FifoSize - 1) |-> w]]
                      /\ lastrx = [c \in CPUs |-> w]
  /\ head = [c \in CPUs |-> 0] /\ cnt = [c \in CPUs |-> 0]
  /\ ctl = [c \in CPUs |-> [enable |-> FALSE, recvIrq |-> FALSE,
                            sendIrq |-> FALSE, error |-> FALSE]]
  /\ iflag = [c \in CPUs |-> {}]

(* nds_raise_irq, restricted to this device's bits.                        *)
Raise(c, bits) == iflag' = [iflag EXCEPT ![c] = @ \cup bits]

Error(c) == ctl' = [ctl EXCEPT ![c].error = TRUE]

(* A position on the ring.                                                 *)
Wrap(i) == i % FifoSize

(* Mutant: the new word is stored one slot too far.                        *)
TailSlotOff(c) == Wrap(head[c] + cnt[c] + 1)

(* The slot the next word goes to.                                         *)
TailSlot(c) == Wrap(head[c] + cnt[c])

(* fifo_send: a disabled FIFO ignores the write, a full one records an     *)
(* error.  The receiver is interrupted when its queue was empty.           *)
Send(c) ==
  /\ ctl[c].enable
  /\ IF cnt[c] >= FifoSize
     THEN Error(c) /\ UNCHANGED <<fifo, cnt, iflag>>
     ELSE /\ \E w \in Words : fifo' = [fifo EXCEPT ![c][TailSlot(c)] = w]
          /\ cnt' = [cnt EXCEPT ![c] = @ + 1]
          /\ Raise(Peer(c), IF cnt[c] = 0 /\ ctl[Peer(c)].recvIrq
                            THEN {RecvNotEmpty} ELSE {})
          /\ UNCHANGED ctl
  /\ UNCHANGED <<head, lastrx>>

(* Mutant: send-empty is requested by the read that finds the queue empty, *)
(* not by the read that empties it.                                        *)
EmptiedByReadLate(snd) == cnt[snd] = 0

(* Popping the last word empties the sender's queue.                       *)
EmptiedByRead(snd) == cnt[snd] = 1

(* fifo_recv: reads the peer's ring; an empty one records an error and     *)
(* returns the last word again.  The enable bit is not consulted.          *)
Receive(c) ==
  LET snd == Peer(c)
  IN  IF cnt[snd] = 0
      THEN Error(c) /\ UNCHANGED <<fifo, head, cnt, lastrx, iflag>>
      ELSE /\ lastrx' = [lastrx EXCEPT ![c] = fifo[snd][head[snd]]]
           /\ head' = [head EXCEPT ![snd] = Wrap(@ + 1)]
           /\ cnt' = [cnt EXCEPT ![snd] = @ - 1]
           /\ Raise(snd, IF EmptiedByRead(snd) /\ ctl[snd].sendIrq
                         THEN {SendEmpty} ELSE {})
           /\ UNCHANGED <<fifo, ctl>>

(* Mutant: the queue's fill level is read after the enable bits, but the   *)
(* rising edge of an enable bit is not looked at.                          *)
EnableEdgesIgnored(c, v, n) == {}

(* The interrupts a control write requests: an enable bit that rises while *)
(* its condition already holds.  n is the own queue's fill level after the *)
(* clear bit has been obeyed.                                              *)
EnableEdges(c, v, n) ==
  (IF v.sendIrq /\ ~ctl[c].sendIrq /\ n = 0 THEN {SendEmpty} ELSE {})
  \cup
  (IF v.recvIrq /\ ~ctl[c].recvIrq /\ cnt[Peer(c)] # 0 THEN {RecvNotEmpty} ELSE {})

(* fifocnt_write: v's error bit acknowledges the error, clear (bit 3)      *)
(* empties the own queue first.                                            *)
ControlWrite(c, v, clear) ==
  LET n == IF clear THEN 0 ELSE cnt[c]
  IN  /\ cnt' = [cnt EXCEPT ![c] = n]
      /\ head' = [head EXCEPT ![c] = IF clear THEN 0 ELSE @]
      /\ Raise(c, EnableEdges(c, v, n))
      /\ ctl' = [ctl EXCEPT ![c] =
                   [enable |-> v.enable, recvIrq |-> v.recvIrq, sendIrq |-> v.sendIrq,
                    error |-> @.error /\ ~v.error]]
      /\ UNCHANGED <<fifo, lastrx>>

(* The IF register: write one to acknowledge.                              *)
Acknowledge(c, bits) ==
  /\ iflag' = [iflag EXCEPT ![c] = @ \ bits]
  /\ UNCHANGED <<fifo, head, cnt, ctl, lastrx>>

Next ==
  \E c \in CPUs :
    \/ Send(c)
    \/ Receive(c)
    \/ \E v \in Controls, clear \in BOOLEAN : ControlWrite(c, v, clear)
    \/ \E bit \in iflag[c] : Acknowledge(c, {bit})

Spec == Init /\ [][Next]_vars

------------------------------------------------------------------------------
(* The words in flight from c, oldest first.                               *)
Queue(c) == [i \in 1..cnt[c] |-> fifo[c][Wrap(head[c] + i - 1)]]

Channel == INSTANCE IpcChannel WITH
             queue <- [c \in CPUs |-> Queue(c)], last <- lastrx

(* The rings with their wrapping heads, fill counts and clear bit behave   *)
(* as two ordered, loss-free bounded queues, whatever the control writes   *)
(* and errors in between.                                                  *)
RefinesChannel == Channel!Spec

DataWaits(c) == ctl[c].recvIrq /\ cnt[Peer(c)] # 0
Drained(c)   == ctl[c].sendIrq /\ cnt[c] = 0

(* No lost wake-up: whenever "data waits and its interrupt is enabled"     *)
(* becomes true for a core, by the peer's send or by its own control       *)
(* write, the request bit is set in the same step.                         *)
RecvEdgeRequested ==
  [][\A c \in CPUs : ~DataWaits(c) /\ DataWaits(c)' => RecvNotEmpty \in iflag'[c]]_vars

(* The same for "the own queue is drained": by the peer's read or by       *)
(* enabling the interrupt.  Only the own control write with the clear bit  *)
(* may drain the queue silently.                                           *)
DrainEdgeRequested ==
  [][\A c \in CPUs :
       ~Drained(c) /\ Drained(c)' /\ ~(\E v \in Controls : ControlWrite(c, v, TRUE))
         => SendEmpty \in iflag'[c]]_vars

------------------------------------------------------------------------------
(***************************************************************************)
(* Proofs, for every ring size, word set and set of control values: types, *)
(* the two interrupt edges, and the refinement of the abstract channel.    *)
(***************************************************************************)

(* Wrapping an index of at most two turns around the ring, as every ring   *)
(* access of fifo_send and fifo_recv does.                                 *)
LEMMA WrapIsSubtract ==
  ASSUME NEW a \in 0..(2 * FifoSize - 1)
  PROVE  Wrap(a) = IF a < FifoSize THEN a ELSE a - FifoSize
PROOF
<1> DEFINE n == FifoSize
<1>0. n \in Nat \ {0} /\ a \in 0..(2 * n - 1)
  BY IpcFifoAssumption
<1> SUFFICES a % n = IF a < n THEN a ELSE a - n
  BY DEF Wrap
<1> HIDE DEF n
<1> DEFINE q == a \div n
           r == a % n
<1>1. q \in Int /\ r \in 0..(n - 1) /\ a = n * q + r
  BY <1>0
<1> HIDE DEF q, r
<1>2. CASE q <= -1
  <2>1. n * q <= n * (-1)
    BY <1>0, <1>1, <1>2
  <2> QED BY <1>0, <1>1, <2>1
<1>3. CASE q = 0
  BY <1>0, <1>1, <1>3 DEF r
<1>4. CASE q = 1
  BY <1>0, <1>1, <1>4 DEF r
<1>5. CASE q >= 2
  <2>1. n * q >= n * 2
    BY <1>0, <1>1, <1>5
  <2> QED BY <1>0, <1>1, <2>1
<1> QED BY <1>0, <1>1, <1>2, <1>3, <1>4, <1>5

LEMMA TypeInit == Init => TypeOK
PROOF BY IpcFifoAssumption DEF Init, TypeOK, Control, CPUs

LEMMA TailSlotType ==
  ASSUME TypeOK, NEW c \in CPUs, cnt[c] < FifoSize
  PROVE  TailSlot(c) \in 0..(FifoSize - 1)
PROOF
<1>1. head[c] + cnt[c] \in 0..(2 * FifoSize - 1)
  BY IpcFifoAssumption DEF TypeOK
<1> QED BY <1>1, WrapIsSubtract, IpcFifoAssumption DEF TailSlot, TypeOK

(* What a send to a queue with room does.                                  *)
LEMMA SendAppends ==
  ASSUME TypeOK, NEW c \in CPUs, Send(c), cnt[c] < FifoSize
  PROVE  /\ \E w \in Words : fifo' = [fifo EXCEPT ![c][TailSlot(c)] = w]
         /\ cnt' = [cnt EXCEPT ![c] = cnt[c] + 1]
         /\ iflag' = [iflag EXCEPT ![Peer(c)] = @ \cup
                        (IF cnt[c] = 0 /\ ctl[Peer(c)].recvIrq THEN {RecvNotEmpty} ELSE {})]
         /\ ctl' = ctl /\ head' = head /\ lastrx' = lastrx
PROOF
<1>1. ~(cnt[c] >= FifoSize)
  BY IpcFifoAssumption DEF TypeOK
<1> QED BY <1>1 DEF Send, Raise

(* What a read of a queue that holds data does.                            *)
LEMMA ReceivePops ==
  ASSUME NEW c \in CPUs, Receive(c), cnt[Peer(c)] # 0
  PROVE  /\ lastrx' = [lastrx EXCEPT ![c] = fifo[Peer(c)][head[Peer(c)]]]
         /\ head' = [head EXCEPT ![Peer(c)] = Wrap(@ + 1)]
         /\ cnt' = [cnt EXCEPT ![Peer(c)] = @ - 1]
         /\ iflag' = [iflag EXCEPT ![Peer(c)] = @ \cup
                        (IF cnt[Peer(c)] = 1 /\ ctl[Peer(c)].sendIrq THEN {SendEmpty} ELSE {})]
         /\ fifo' = fifo /\ ctl' = ctl
PROOF BY DEF Receive, Raise, EmptiedByRead

(* A send to a full queue, or a read of an empty one, only records an      *)
(* error.                                                                  *)
LEMMA ErrorOnly ==
  ASSUME NEW c \in CPUs,
         (Send(c) /\ cnt[c] >= FifoSize) \/ (Receive(c) /\ cnt[Peer(c)] = 0)
  PROVE  /\ ctl' = [ctl EXCEPT ![c].error = TRUE]
         /\ UNCHANGED <<fifo, head, cnt, lastrx, iflag>>
PROOF BY DEF Send, Receive, Error

LEMMA PeerType == ASSUME NEW c \in CPUs
                  PROVE  Peer(c) \in CPUs /\ Peer(c) # c /\ Peer(Peer(c)) = c
PROOF BY DEF CPUs, Peer

LEMMA TypeNext == TypeOK /\ [Next]_vars => TypeOK'
PROOF
<1> SUFFICES ASSUME TypeOK, [Next]_vars PROVE TypeOK'
  OBVIOUS
<1>1. CASE UNCHANGED vars
  BY <1>1 DEF TypeOK, vars
<1>2. ASSUME NEW c \in CPUs, Send(c) PROVE TypeOK'
  <2>1. CASE cnt[c] >= FifoSize
    <3>1. ctl' = [ctl EXCEPT ![c].error = TRUE] /\ UNCHANGED <<fifo, head, cnt, lastrx, iflag>>
      BY <1>2, <2>1, ErrorOnly
    <3> QED BY <3>1 DEF TypeOK, Control
  <2>2. CASE cnt[c] < FifoSize
    <3>1. TailSlot(c) \in 0..(FifoSize - 1)
      BY <2>2, TailSlotType, <1>2
    <3>2. PICK w \in Words : fifo' = [fifo EXCEPT ![c][TailSlot(c)] = w]
      BY <1>2, <2>2, SendAppends
    <3>3. fifo' \in [CPUs -> [0..(FifoSize - 1) -> Words]]
      BY <3>1, <3>2, <1>2 DEF TypeOK
    <3>4. /\ cnt' = [cnt EXCEPT ![c] = cnt[c] + 1]
          /\ iflag' = [iflag EXCEPT ![Peer(c)] = @ \cup
                        (IF cnt[c] = 0 /\ ctl[Peer(c)].recvIrq THEN {RecvNotEmpty} ELSE {})]
          /\ ctl' = ctl /\ head' = head /\ lastrx' = lastrx
      BY <1>2, <2>2, SendAppends
    <3>5. cnt' \in [CPUs -> 0..FifoSize]
      BY <3>4, <2>2, IpcFifoAssumption DEF TypeOK
    <3>6. iflag' \in [CPUs -> SUBSET {SendEmpty, RecvNotEmpty}]
      BY <3>4 DEF TypeOK
    <3> QED BY <3>3, <3>4, <3>5, <3>6 DEF TypeOK
  <2> QED BY <2>1, <2>2, <1>2, IpcFifoAssumption DEF TypeOK
<1>3. ASSUME NEW c \in CPUs, Receive(c) PROVE TypeOK'
  <2>1. Peer(c) \in CPUs
    BY <1>3, PeerType
  <2>2. CASE cnt[Peer(c)] = 0
    <3>1. ctl' = [ctl EXCEPT ![c].error = TRUE] /\ UNCHANGED <<fifo, head, cnt, lastrx, iflag>>
      BY <1>3, <2>2, ErrorOnly
    <3> QED BY <3>1 DEF TypeOK, Control
  <2>3. CASE cnt[Peer(c)] # 0
    <3>1. Wrap(head[Peer(c)] + 1) \in 0..(FifoSize - 1)
      <4>1. head[Peer(c)] + 1 \in 0..(2 * FifoSize - 1) /\ head[Peer(c)] \in Nat
        BY <2>1, IpcFifoAssumption DEF TypeOK
      <4> QED BY <4>1, WrapIsSubtract, IpcFifoAssumption
    <3>2. /\ lastrx' = [lastrx EXCEPT ![c] = fifo[Peer(c)][head[Peer(c)]]]
          /\ head' = [head EXCEPT ![Peer(c)] = Wrap(@ + 1)]
          /\ cnt' = [cnt EXCEPT ![Peer(c)] = @ - 1]
          /\ iflag' = [iflag EXCEPT ![Peer(c)] = @ \cup
                        (IF cnt[Peer(c)] = 1 /\ ctl[Peer(c)].sendIrq THEN {SendEmpty} ELSE {})]
          /\ fifo' = fifo /\ ctl' = ctl
      BY <1>3, <2>3, ReceivePops
    <3>3. head' \in [CPUs -> 0..(FifoSize - 1)]
      BY <3>1, <3>2 DEF TypeOK
    <3>4. cnt' \in [CPUs -> 0..FifoSize]
      BY <2>1, <2>3, <3>2, IpcFifoAssumption DEF TypeOK
    <3>5. lastrx' \in [CPUs -> Words]
      BY <2>1, <3>2 DEF TypeOK
    <3>6. iflag' \in [CPUs -> SUBSET {SendEmpty, RecvNotEmpty}]
      BY <3>2 DEF TypeOK
    <3> QED BY <3>2, <3>3, <3>4, <3>5, <3>6 DEF TypeOK
  <2> QED BY <2>2, <2>3
<1>4. ASSUME NEW c \in CPUs, NEW v \in Controls, NEW clear \in BOOLEAN,
             ControlWrite(c, v, clear)
      PROVE  TypeOK'
  <2>1. v \in Control
    BY ControlsAssumption
  <2>2. cnt' \in [CPUs -> 0..FifoSize] /\ head' \in [CPUs -> 0..(FifoSize - 1)]
    BY <1>4, IpcFifoAssumption DEF ControlWrite, TypeOK
  <2>3. iflag' \in [CPUs -> SUBSET {SendEmpty, RecvNotEmpty}]
    BY <1>4 DEF ControlWrite, Raise, EnableEdges, TypeOK
  <2>4. ctl' \in [CPUs -> Control]
    BY <1>4, <2>1 DEF ControlWrite, Control, TypeOK
  <2> QED BY <1>4, <2>2, <2>3, <2>4 DEF ControlWrite, TypeOK
<1>5. ASSUME NEW c \in CPUs, NEW bit \in iflag[c], Acknowledge(c, {bit})
      PROVE  TypeOK'
  BY <1>5 DEF Acknowledge, TypeOK
<1> QED BY <1>1, <1>2, <1>3, <1>4, <1>5 DEF Next

(* The rings never overfill and their heads stay inside: the indices       *)
(* fifo_send and fifo_recv compute are always valid.                       *)
THEOREM TypeCorrect == Spec => []TypeOK
PROOF BY TypeInit, TypeNext, PTL DEF Spec

(* No step makes waiting data visible without requesting the interrupt.    *)
LEMMA RecvEdgeStep ==
  ASSUME TypeOK, [Next]_vars, NEW d \in CPUs, ~DataWaits(d), DataWaits(d)'
  PROVE  RecvNotEmpty \in iflag'[d]
PROOF
<1> USE DEF DataWaits
<1>1. CASE UNCHANGED vars
  BY <1>1 DEF vars, CPUs, Peer
<1>2. ASSUME NEW c \in CPUs, Send(c) PROVE RecvNotEmpty \in iflag'[d]
  <2>1. CASE cnt[c] >= FifoSize
    <3>1. ctl' = [ctl EXCEPT ![c].error = TRUE] /\ UNCHANGED <<fifo, head, cnt, lastrx, iflag>>
      BY <1>2, <2>1, ErrorOnly
    <3> QED BY <3>1, PeerType DEF TypeOK, Control
  <2>2. CASE cnt[c] < FifoSize
    BY <1>2, <2>2, SendAppends DEF TypeOK, CPUs, Peer
  <2> QED BY <2>1, <2>2, IpcFifoAssumption DEF TypeOK
<1>3. ASSUME NEW c \in CPUs, Receive(c) PROVE RecvNotEmpty \in iflag'[d]
  <2>1. CASE cnt[Peer(c)] = 0
    <3>1. ctl' = [ctl EXCEPT ![c].error = TRUE] /\ UNCHANGED <<fifo, head, cnt, lastrx, iflag>>
      BY <1>3, <2>1, ErrorOnly
    <3> QED BY <3>1, PeerType DEF TypeOK, Control
  <2>2. CASE cnt[Peer(c)] # 0
    BY <1>3, <2>2, ReceivePops DEF TypeOK, CPUs, Peer
  <2> QED BY <2>1, <2>2
<1>4. ASSUME NEW c \in CPUs, NEW v \in Controls, NEW clear \in BOOLEAN,
             ControlWrite(c, v, clear)
      PROVE  RecvNotEmpty \in iflag'[d]
  BY <1>4, ControlsAssumption DEF ControlWrite, EnableEdges, Raise, TypeOK, Control, CPUs, Peer
<1>5. ASSUME NEW c \in CPUs, NEW bit \in iflag[c], Acknowledge(c, {bit})
      PROVE  RecvNotEmpty \in iflag'[d]
  BY <1>5 DEF Acknowledge, TypeOK, CPUs, Peer
<1> QED BY <1>1, <1>2, <1>3, <1>4, <1>5 DEF Next

(* No lost wake-up: "data waits and its interrupt is enabled" never        *)
(* becomes true without the request bit of fifo_send or fifocnt_write.     *)
THEOREM RecvEdgeAlwaysRequested == Spec => RecvEdgeRequested
PROOF
<1>1. TypeOK /\ [Next]_vars =>
        [\A c \in CPUs : ~DataWaits(c) /\ DataWaits(c)' => RecvNotEmpty \in iflag'[c]]_vars
  BY RecvEdgeStep
<1> QED BY <1>1, TypeCorrect, PTL DEF Spec, RecvEdgeRequested

LEMMA DrainEdgeStep ==
  ASSUME TypeOK, [Next]_vars, NEW d \in CPUs, ~Drained(d), Drained(d)',
         ~(\E v \in Controls : ControlWrite(d, v, TRUE))
  PROVE  SendEmpty \in iflag'[d]
PROOF
<1> USE DEF Drained
<1>1. CASE UNCHANGED vars
  BY <1>1 DEF vars, CPUs, Peer
<1>2. ASSUME NEW c \in CPUs, Send(c) PROVE SendEmpty \in iflag'[d]
  <2>1. CASE cnt[c] >= FifoSize
    <3>1. ctl' = [ctl EXCEPT ![c].error = TRUE] /\ UNCHANGED <<fifo, head, cnt, lastrx, iflag>>
      BY <1>2, <2>1, ErrorOnly
    <3> QED BY <3>1, PeerType DEF TypeOK, Control
  <2>2. CASE cnt[c] < FifoSize
    BY <1>2, <2>2, SendAppends DEF TypeOK, CPUs, Peer
  <2> QED BY <2>1, <2>2, IpcFifoAssumption DEF TypeOK
<1>3. ASSUME NEW c \in CPUs, Receive(c) PROVE SendEmpty \in iflag'[d]
  <2>1. CASE cnt[Peer(c)] = 0
    <3>1. ctl' = [ctl EXCEPT ![c].error = TRUE] /\ UNCHANGED <<fifo, head, cnt, lastrx, iflag>>
      BY <1>3, <2>1, ErrorOnly
    <3> QED BY <3>1, PeerType DEF TypeOK, Control
  <2>2. CASE cnt[Peer(c)] # 0
    BY <1>3, <2>2, ReceivePops DEF TypeOK, CPUs, Peer
  <2> QED BY <2>1, <2>2
<1>4. ASSUME NEW c \in CPUs, NEW v \in Controls, NEW clear \in BOOLEAN,
             ControlWrite(c, v, clear)
      PROVE  SendEmpty \in iflag'[d]
  <2>1. CASE clear /\ c = d
    BY <1>4, <2>1
  <2>2. CASE c # d
    BY <1>4, <2>2, ControlsAssumption DEF ControlWrite, TypeOK, Control, CPUs, Peer
  <2>3. CASE ~clear /\ c = d
    BY <1>4, <2>3, ControlsAssumption
       DEF ControlWrite, EnableEdges, Raise, TypeOK, Control, CPUs, Peer
  <2> QED BY <2>1, <2>2, <2>3
<1>5. ASSUME NEW c \in CPUs, NEW bit \in iflag[c], Acknowledge(c, {bit})
      PROVE  SendEmpty \in iflag'[d]
  BY <1>5 DEF Acknowledge, TypeOK, CPUs, Peer
<1> QED BY <1>1, <1>2, <1>3, <1>4, <1>5 DEF Next

(* The own queue never runs dry with its interrupt enabled, other than by  *)
(* the clear bit, without fifo_recv or fifocnt_write requesting it.        *)
THEOREM DrainEdgeAlwaysRequested == Spec => DrainEdgeRequested
PROOF
<1>1. TypeOK /\ [Next]_vars =>
        [\A c \in CPUs :
           ~Drained(c) /\ Drained(c)' /\ ~(\E v \in Controls : ControlWrite(c, v, TRUE))
             => SendEmpty \in iflag'[c]]_vars
  BY DrainEdgeStep
<1> QED BY <1>1, TypeCorrect, PTL DEF Spec, DrainEdgeRequested

------------------------------------------------------------------------------
(* The refinement of IpcChannel.                                           *)

(* The slot of the i-th word in flight.                                    *)
LEMMA SlotType ==
  ASSUME TypeOK, NEW c \in CPUs, NEW i \in 1..cnt[c]
  PROVE  Wrap(head[c] + i - 1) \in 0..(FifoSize - 1)
PROOF
<1>1. head[c] + i - 1 \in 0..(2 * FifoSize - 1)
  BY IpcFifoAssumption DEF TypeOK
<1> QED BY <1>1, WrapIsSubtract, IpcFifoAssumption DEF TypeOK

LEMMA QueueIsSeq ==
  ASSUME TypeOK, NEW c \in CPUs
  PROVE  /\ Queue(c) \in Seq(Words)
         /\ Len(Queue(c)) = cnt[c]
         /\ \A i \in 1..cnt[c] : Queue(c)[i] = fifo[c][Wrap(head[c] + i - 1)]
PROOF
<1>1. cnt[c] \in Nat
  BY IpcFifoAssumption DEF TypeOK
<1>2. \A i \in 1..cnt[c] : fifo[c][Wrap(head[c] + i - 1)] \in Words
  BY SlotType DEF TypeOK
<1>3. Queue(c) \in [1..cnt[c] -> Words]
  BY <1>2 DEF Queue
<1>4. Queue(c) \in Seq(Words) /\ Len(Queue(c)) = cnt[c]
  BY <1>1, <1>3
<1> QED BY <1>4 DEF Queue

LEMMA QueueIsSeqNext ==
  ASSUME TypeOK', NEW c \in CPUs
  PROVE  /\ Queue(c)' \in Seq(Words)
         /\ Len(Queue(c)') = cnt'[c]
         /\ \A i \in 1..cnt'[c] : Queue(c)'[i] = fifo'[c][Wrap(head'[c] + i - 1)]
PROOF
<1>1. /\ (Queue(c) \in Seq(Words))'
      /\ (Len(Queue(c)) = cnt[c])'
      /\ (\A i \in 1..cnt[c] : Queue(c)[i] = fifo[c][Wrap(head[c] + i - 1)])'
  BY QueueIsSeq, PTL
<1> QED BY <1>1

(* A send appends the word to the sender's queue.                          *)
LEMMA SendRefines ==
  ASSUME TypeOK, TypeOK', NEW c \in CPUs, Send(c), cnt[c] < FifoSize
  PROVE  /\ \E w \in Words : Queue(c)' = Append(Queue(c), w)
         /\ Queue(Peer(c))' = Queue(Peer(c))
         /\ lastrx' = lastrx
PROOF
<1>1. PICK w \in Words : fifo' = [fifo EXCEPT ![c][TailSlot(c)] = w]
  BY SendAppends
<1>2. cnt' = [cnt EXCEPT ![c] = cnt[c] + 1] /\ head' = head /\ lastrx' = lastrx
  BY SendAppends
<1>3. Queue(Peer(c))' = Queue(Peer(c))
  BY <1>1, <1>2, PeerType DEF Queue, TypeOK
<1>4. TailSlot(c) \in 0..(FifoSize - 1)
  BY TailSlotType
<1>5. cnt[c] \in Nat /\ head[c] \in 0..(FifoSize - 1) /\ cnt'[c] = cnt[c] + 1
  BY <1>2, IpcFifoAssumption DEF TypeOK
<1>6. /\ Queue(c)' \in Seq(Words)
      /\ Len(Queue(c)') = cnt[c] + 1
      /\ \A i \in 1..(cnt[c] + 1) :
           Queue(c)'[i] = fifo'[c][Wrap(head[c] + i - 1)]
  BY <1>2, <1>5, QueueIsSeqNext
<1>7. ASSUME NEW i \in 1..cnt[c]
      PROVE  Queue(c)'[i] = Queue(c)[i]
  <2>1. head[c] + i - 1 \in 0..(2 * FifoSize - 1)
        /\ head[c] + cnt[c] \in 0..(2 * FifoSize - 1)
    BY <1>5, IpcFifoAssumption
  <2>2. Wrap(head[c] + i - 1) # TailSlot(c)
    <3> DEFINE x == Wrap(head[c] + i - 1)
               y == Wrap(head[c] + cnt[c])
    <3>1. x = IF head[c] + i - 1 < FifoSize THEN head[c] + i - 1
              ELSE head[c] + i - 1 - FifoSize
      BY <2>1, <1>5, WrapIsSubtract, IpcFifoAssumption
    <3>2. y = IF head[c] + cnt[c] < FifoSize THEN head[c] + cnt[c]
              ELSE head[c] + cnt[c] - FifoSize
      BY <2>1, <1>5, WrapIsSubtract, IpcFifoAssumption
    <3> HIDE DEF x, y
    <3>3. x # y
      BY <3>1, <3>2, <1>5, IpcFifoAssumption
    <3> QED BY <3>3 DEF x, y, TailSlot
  <2>3. Wrap(head[c] + i - 1) \in 0..(FifoSize - 1)
    BY SlotType
  <2>4. fifo'[c][Wrap(head[c] + i - 1)] = fifo[c][Wrap(head[c] + i - 1)]
    BY <1>1, <2>2, <2>3 DEF TypeOK
  <2> QED BY <2>4, <1>5, <1>6, QueueIsSeq
<1>8. Queue(c)'[cnt[c] + 1] = w
  <2>1. head[c] + (cnt[c] + 1) - 1 = head[c] + cnt[c]
    BY <1>5
  <2>2. fifo'[c][TailSlot(c)] = w
    BY <1>1, <1>4 DEF TypeOK
  <2> QED BY <2>1, <2>2, <1>5, <1>6 DEF TailSlot
<1>9. Queue(c)' = Append(Queue(c), w)
  <2> DEFINE q == Queue(c)
             r == Queue(c)'
             a == Append(q, w)
  <2>1. q \in Seq(Words) /\ Len(q) = cnt[c]
    BY QueueIsSeq
  <2>2. /\ a \in Seq(Words) /\ Len(a) = cnt[c] + 1
        /\ \A i \in 1..cnt[c] : a[i] = q[i]
        /\ a[cnt[c] + 1] = w
    BY <2>1, AppendProperties
  <2>3. /\ r \in Seq(Words) /\ Len(r) = cnt[c] + 1
        /\ \A i \in 1..cnt[c] : r[i] = q[i]
        /\ r[cnt[c] + 1] = w
    BY <1>6, <1>7, <1>8
  <2> HIDE DEF q, r, a
  <2>4. ASSUME NEW i \in 1..(cnt[c] + 1) PROVE r[i] = a[i]
    <3>1. CASE i = cnt[c] + 1
      BY <3>1, <2>2, <2>3
    <3>2. CASE i \in 1..cnt[c]
      BY <3>2, <2>2, <2>3
    <3> QED BY <3>1, <3>2, <1>5
  <2>5. r = a
    BY <2>2, <2>3, <2>4, <1>5, SeqEqual
  <2> QED BY <2>5 DEF r, a, q
<1> QED BY <1>2, <1>3, <1>9

(* A read takes the head of the peer's queue.                              *)
LEMMA ReceiveRefines ==
  ASSUME TypeOK, TypeOK', NEW c \in CPUs, Receive(c), cnt[Peer(c)] # 0
  PROVE  /\ Queue(Peer(c)) # <<>>
         /\ Queue(Peer(c))' = Tail(Queue(Peer(c)))
         /\ Queue(c)' = Queue(c)
         /\ lastrx' = [lastrx EXCEPT ![c] = Head(Queue(Peer(c)))]
PROOF
<1> DEFINE p == Peer(c)
<1>1. p \in CPUs /\ p # c
  BY PeerType
<1>2. /\ lastrx' = [lastrx EXCEPT ![c] = fifo[p][head[p]]]
      /\ head' = [head EXCEPT ![p] = Wrap(@ + 1)]
      /\ cnt' = [cnt EXCEPT ![p] = @ - 1]
      /\ fifo' = fifo
  BY ReceivePops
<1>3. Queue(c)' = Queue(c)
  BY <1>1, <1>2 DEF Queue, TypeOK
<1>4. /\ cnt[p] \in Nat \ {0} /\ cnt[p] <= FifoSize /\ head[p] \in 0..(FifoSize - 1)
      /\ cnt'[p] = cnt[p] - 1 /\ head'[p] = Wrap(head[p] + 1)
  BY <1>1, <1>2, IpcFifoAssumption DEF TypeOK
<1>5. /\ Queue(p) \in Seq(Words) /\ Len(Queue(p)) = cnt[p]
      /\ \A i \in 1..cnt[p] : Queue(p)[i] = fifo[p][Wrap(head[p] + i - 1)]
  BY <1>1, QueueIsSeq
<1>6. Queue(p) # <<>>
  BY <1>4, <1>5, EmptySeq
<1>7. /\ Queue(p)' \in Seq(Words) /\ Len(Queue(p)') = cnt[p] - 1
      /\ \A i \in 1..(cnt[p] - 1) :
           Queue(p)'[i] = fifo[p][Wrap(head'[p] + i - 1)]
  BY <1>1, <1>2, <1>4, QueueIsSeqNext
<1>8. Head(Queue(p)) = fifo[p][head[p]]
  <2>1. Queue(p)[1] = fifo[p][Wrap(head[p] + 1 - 1)]
    BY <1>4, <1>5
  <2>2. Wrap(head[p] + 1 - 1) = head[p]
    <3>1. head[p] + 1 - 1 = head[p] /\ head[p] \in 0..(2 * FifoSize - 1)
      BY <1>4, IpcFifoAssumption
    <3>2. Wrap(head[p]) = IF head[p] < FifoSize THEN head[p] ELSE head[p] - FifoSize
      BY <3>1, WrapIsSubtract
    <3> QED BY <3>1, <3>2, <1>4, IpcFifoAssumption
  <2> QED BY <2>1, <2>2
<1>9. ASSUME NEW i \in 1..(cnt[p] - 1)
      PROVE  Queue(p)'[i] = Queue(p)[i + 1]
  <2>1. head'[p] = IF head[p] + 1 < FifoSize THEN head[p] + 1 ELSE 0
    <3>1. head[p] + 1 \in 0..(2 * FifoSize - 1)
      BY <1>4, IpcFifoAssumption
    <3>2. Wrap(head[p] + 1) = IF head[p] + 1 < FifoSize THEN head[p] + 1
                                     ELSE head[p] + 1 - FifoSize
      BY <3>1, <1>4, WrapIsSubtract, IpcFifoAssumption
    <3>3. head'[p] = Wrap(head[p] + 1)
      BY <1>4
    <3> DEFINE x == Wrap(head[p] + 1)
    <3> HIDE DEF x
    <3>4. x = IF head[p] + 1 < FifoSize THEN head[p] + 1 ELSE head[p] + 1 - FifoSize
      BY <3>2 DEF x
    <3>5. head'[p] = x
      BY <3>3 DEF x
    <3> QED BY <3>4, <3>5, <1>4, IpcFifoAssumption
  <2>2. head'[p] + i - 1 \in 0..(2 * FifoSize - 1) /\ head[p] + i \in 0..(2 * FifoSize - 1)
    BY <2>1, <1>4, IpcFifoAssumption
  <2>3. Wrap(head'[p] + i - 1) = Wrap(head[p] + i)
    <3> DEFINE x == Wrap(head'[p] + i - 1)
               y == Wrap(head[p] + i)
    <3>1. x = IF head'[p] + i - 1 < FifoSize THEN head'[p] + i - 1
              ELSE head'[p] + i - 1 - FifoSize
      BY <2>1, <2>2, <1>4, WrapIsSubtract, IpcFifoAssumption
    <3>2. y = IF head[p] + i < FifoSize THEN head[p] + i ELSE head[p] + i - FifoSize
      BY <2>1, <2>2, <1>4, WrapIsSubtract, IpcFifoAssumption
    <3> HIDE DEF x, y
    <3>3. x = y
      BY <3>1, <3>2, <2>1, <1>4, IpcFifoAssumption
    <3> QED BY <3>3 DEF x, y
  <2>4. i + 1 \in 1..cnt[p] /\ head[p] + (i + 1) - 1 = head[p] + i
    BY <1>4
  <2> QED BY <2>3, <2>4, <1>5, <1>7
<1>10. Queue(p)' = Tail(Queue(p))
  <2> DEFINE q == Queue(p)
             r == Queue(p)'
             t == Tail(q)
  <2>1. /\ t \in Seq(Words) /\ Len(t) = cnt[p] - 1
        /\ \A i \in 1..(cnt[p] - 1) : t[i] = q[i + 1]
    BY <1>5, <1>6, HeadTailProperties
  <2>2. /\ r \in Seq(Words) /\ Len(r) = cnt[p] - 1
        /\ \A i \in 1..(cnt[p] - 1) : r[i] = q[i + 1]
    BY <1>7, <1>9
  <2> HIDE DEF q, r, t
  <2>3. \A i \in 1..Len(r) : r[i] = t[i]
    BY <2>1, <2>2
  <2>4. r = t
    BY <2>1, <2>2, <2>3, SeqEqual
  <2> QED BY <2>4 DEF r, t, q
<1> QED BY <1>2, <1>3, <1>6, <1>8, <1>10

LEMMA OtherIsPeer ==
  ASSUME NEW c \in CPUs, NEW d \in CPUs PROVE (d = c \/ d = Peer(c)) /\ Peer(c) # c
PROOF BY DEF CPUs, Peer

LEMMA InitRefines == Init => Channel!Init
PROOF
<1> SUFFICES ASSUME Init PROVE Channel!Init
  OBVIOUS
<1>1. TypeOK
  BY TypeInit
<1>2. ASSUME NEW c \in CPUs PROVE Queue(c) = <<>>
  BY <1>2, <1>1, QueueIsSeq, EmptySeq DEF Init
<1> QED BY <1>1, <1>2 DEF TypeOK, Channel!Init, Channel!CPUs, CPUs

LEMMA StepRefines ==
  TypeOK /\ TypeOK' /\ [Next]_vars
    => [Channel!Next]_<<[c \in CPUs |-> Queue(c)], lastrx>>
PROOF
<1> DEFINE Q == [c \in CPUs |-> Queue(c)]
<1> SUFFICES ASSUME TypeOK, TypeOK', [Next]_vars
             PROVE  Channel!Next \/ UNCHANGED <<Q, lastrx>>
  OBVIOUS
<1> USE DEF Channel!CPUs, Channel!Peer
<1>1. CASE UNCHANGED vars
  BY <1>1 DEF vars, Queue
<1>2. ASSUME NEW c \in CPUs, Send(c) PROVE Channel!Next \/ UNCHANGED <<Q, lastrx>>
  <2>1. CASE cnt[c] >= FifoSize
    <3>1. UNCHANGED <<fifo, head, cnt, lastrx, iflag>>
      BY <1>2, <2>1, ErrorOnly
    <3> QED BY <3>1 DEF Queue
  <2>2. CASE cnt[c] < FifoSize
    <3>1. PICK w \in Words : Queue(c)' = Append(Queue(c), w)
      BY <1>2, <2>2, SendRefines
    <3>2. Queue(Peer(c))' = Queue(Peer(c)) /\ lastrx' = lastrx
      BY <1>2, <2>2, SendRefines
    <3>3. Q' = [Q EXCEPT ![c] = Append(@, w)]
      <4>1. \A d \in CPUs : Queue(d)' = IF d = c THEN Append(Queue(c), w) ELSE Queue(d)
        BY <3>1, <3>2, OtherIsPeer
      <4> QED BY <4>1
    <3>4. Len(Q[c]) < FifoSize
      BY <2>2, QueueIsSeq
    <3>5. Channel!Send(c)
      BY <3>2, <3>3, <3>4 DEF Channel!Send
    <3> QED BY <3>5 DEF Channel!Next, CPUs
  <2> QED BY <2>1, <2>2, <1>2, IpcFifoAssumption DEF TypeOK
<1>3. ASSUME NEW c \in CPUs, Receive(c) PROVE Channel!Next \/ UNCHANGED <<Q, lastrx>>
  <2>1. CASE cnt[Peer(c)] = 0
    <3>1. UNCHANGED <<fifo, head, cnt, lastrx, iflag>>
      BY <1>3, <2>1, ErrorOnly
    <3> QED BY <3>1 DEF Queue
  <2>2. CASE cnt[Peer(c)] # 0
    <3>1. /\ Queue(Peer(c)) # <<>>
          /\ Queue(Peer(c))' = Tail(Queue(Peer(c)))
          /\ Queue(c)' = Queue(c)
          /\ lastrx' = [lastrx EXCEPT ![c] = Head(Queue(Peer(c)))]
      BY <1>3, <2>2, ReceiveRefines
    <3>2. Q' = [Q EXCEPT ![Peer(c)] = Tail(@)]
      <4>1. \A d \in CPUs : Queue(d)' = IF d = Peer(c) THEN Tail(Queue(Peer(c))) ELSE Queue(d)
        BY <3>1, OtherIsPeer
      <4> QED BY <4>1, PeerType
    <3>3. Channel!Receive(c)
      BY <3>1, <3>2, PeerType DEF Channel!Receive, Peer
    <3> QED BY <3>3 DEF Channel!Next, CPUs
  <2> QED BY <2>1, <2>2
<1>4. ASSUME NEW c \in CPUs, NEW v \in Controls, NEW clear \in BOOLEAN,
             ControlWrite(c, v, clear)
      PROVE  Channel!Next \/ UNCHANGED <<Q, lastrx>>
  <2>1. CASE clear
    <3>1. cnt' = [cnt EXCEPT ![c] = 0] /\ head' = [head EXCEPT ![c] = 0]
          /\ fifo' = fifo /\ lastrx' = lastrx
      BY <1>4, <2>1 DEF ControlWrite
    <3>2. Queue(Peer(c))' = Queue(Peer(c))
      BY <3>1, PeerType DEF Queue, TypeOK
    <3>3. Queue(c)' = <<>>
      <4>1. cnt'[c] = 0
        BY <3>1 DEF TypeOK
      <4>2. (Queue(c) \in Seq(Words))' /\ (Len(Queue(c)) = cnt[c])'
        BY QueueIsSeq, PTL
      <4> QED BY <4>1, <4>2, EmptySeq
    <3>4. Q' = [Q EXCEPT ![c] = <<>>]
      BY <3>2, <3>3 DEF CPUs, Peer
    <3>5. Channel!Clear(c)
      BY <3>1, <3>4 DEF Channel!Clear
    <3> QED BY <3>5 DEF Channel!Next, CPUs
  <2>2. CASE ~clear
    <3>1. cnt' = cnt /\ head' = head /\ fifo' = fifo /\ lastrx' = lastrx
      BY <1>4, <2>2 DEF ControlWrite, TypeOK
    <3> QED BY <3>1 DEF Queue
  <2> QED BY <2>1, <2>2
<1>5. ASSUME NEW c \in CPUs, NEW bit \in iflag[c], Acknowledge(c, {bit})
      PROVE  Channel!Next \/ UNCHANGED <<Q, lastrx>>
  BY <1>5 DEF Acknowledge, Queue
<1> QED BY <1>1, <1>2, <1>3, <1>4, <1>5 DEF Next

(* The rings implement two ordered bounded queues: no word that fifo_send  *)
(* accepted is lost, duplicated or reordered before fifo_recv returns it,  *)
(* however the head wraps and whatever control writes come in between.     *)
THEOREM FifoImplementsChannel == Spec => RefinesChannel
PROOF
<1>1. Spec => []TypeOK
  BY TypeCorrect
<1> QED BY <1>1, InitRefines, StepRefines, PTL DEF Spec, RefinesChannel, Channel!Spec

==============================================================================
