----------------------------- MODULE IpcChannel -----------------------------
(***************************************************************************)
(* What the IPC FIFO promises the two cores: one bounded first-in          *)
(* first-out queue per direction, whose words reach the peer in order,     *)
(* none duplicated and none dropped unless its sender clears the queue.    *)
(***************************************************************************)
EXTENDS Naturals, Sequences

CONSTANTS FifoSize,  \* words per direction (16 in the hardware)
          Words

CPUs == {0, 1}
Peer(c) == 1 - c

VARIABLES queue,  \* queue[c]: the words c has sent and its peer not yet read
          last    \* last[c]: the last word c read from its peer

Init == /\ queue = [c \in CPUs |-> <<>>]
        /\ last \in [CPUs -> Words]

Send(c) == /\ Len(queue[c]) < FifoSize
           /\ \E w \in Words : queue' = [queue EXCEPT ![c] = Append(@, w)]
           /\ UNCHANGED last

Receive(c) == /\ queue[Peer(c)] # <<>>
              /\ queue' = [queue EXCEPT ![Peer(c)] = Tail(@)]
              /\ last' = [last EXCEPT ![c] = Head(queue[Peer(c)])]

Clear(c) == /\ queue' = [queue EXCEPT ![c] = <<>>]
            /\ UNCHANGED last

Next == \E c \in CPUs : Send(c) \/ Receive(c) \/ Clear(c)

Spec == Init /\ [][Next]_<<queue, last>>

==============================================================================
