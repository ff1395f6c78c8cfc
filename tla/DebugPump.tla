------------------------------- MODULE DebugPump -------------------------------
(***************************************************************************)
(* The play-mode debug surface (runner/src/debug_server.cpp): an I/O       *)
(* thread owns the socket and hands each request line to the frontend      *)
(* thread, which executes it between frames; the two share one slot.       *)
(* Requests are numbered in the order the client sends them, and an answer *)
(* is the number of the request it answers.  The socket is external.       *)
(***************************************************************************)
EXTENDS Integers

CONSTANTS MaxRequests   \* requests a behaviour sends

VARIABLES
  io,       \* the I/O thread: "accept", "recv", "wait", "send", "close", "exit"
  front,    \* the frontend thread: "frame", "handle", and the steps of a stop
  slot,     \* [state, req, resp]: g_pump_state, g_pump_req, g_pump_resp
  handling, \* the request of the frontend's call of handle
  sent,     \* requests the I/O thread has received
  answer,   \* request -> the answer sent, Busy, or 0
  executed, \* request -> times handle ran it
  shutdown, listening, connected  \* g_pump_shutdown, the two sockets

vars == <<io, front, slot, handling, sent, answer, executed, shutdown,
          listening, connected>>

Requests == 1..MaxRequests
Busy == -1

Init ==
  /\ io = "accept" /\ front = "frame"
  /\ slot = [state |-> "idle", req |-> 0, resp |-> 0]
  /\ handling = 0 /\ sent = 0
  /\ answer = [r \in Requests |-> 0] /\ executed = [r \in Requests |-> 0]
  /\ shutdown = FALSE /\ listening = TRUE /\ connected = FALSE

-----------------------------------------------------------------------------
(* pump_io_thread.                                                         *)

IoUnchanged == UNCHANGED <<front, handling, executed, shutdown, listening>>

\* A client, or the connection debug_pump_stop wakes accept with
Accept ==
  /\ io = "accept" /\ listening
  /\ IF shutdown THEN io' = "close" /\ UNCHANGED connected
     ELSE io' = "recv" /\ connected' = TRUE
  /\ IoUnchanged /\ UNCHANGED <<slot, sent, answer>>

\* accept fails once the listener is closed
AcceptFails ==
  /\ io = "accept" /\ ~listening
  /\ io' = "exit"
  /\ IoUnchanged /\ UNCHANGED <<slot, sent, answer, connected>>

\* A request line is posted in the slot, whatever is there
Post ==
  /\ io = "recv" /\ connected /\ ~shutdown /\ sent < MaxRequests
  /\ sent' = sent + 1
  /\ slot' = [slot EXCEPT !.state = "req", !.req = sent + 1]
  /\ io' = "wait"
  /\ IoUnchanged /\ UNCHANGED <<answer, connected>>

\* ping is answered here
Ping ==
  /\ io = "recv" /\ connected /\ ~shutdown /\ sent < MaxRequests
  /\ sent' = sent + 1
  /\ answer' = [answer EXCEPT ![sent + 1] = sent + 1]
  /\ io' = "send"
  /\ IoUnchanged /\ UNCHANGED <<slot, connected>>

\* wait_for saw PumpIo::Resp
Answered ==
  /\ io = "wait" /\ slot.state = "resp"
  /\ answer' = [answer EXCEPT ![sent] = slot.resp]
  /\ slot' = [slot EXCEPT !.state = "idle"]
  /\ io' = "send"
  /\ IoUnchanged /\ UNCHANGED <<sent, connected>>

\* wait_for returned without it
TimeOut ==
  /\ io = "wait" /\ slot.state # "resp"
  /\ answer' = [answer EXCEPT ![sent] = Busy]
  /\ slot' = [slot EXCEPT !.state = "idle"]
  /\ io' = "send"
  /\ IoUnchanged /\ UNCHANGED <<sent, connected>>

\* send_all, or its failure on a closed socket
Reply ==
  /\ io = "send"
  /\ io' = IF connected /\ ~shutdown THEN "recv" ELSE "close"
  /\ IoUnchanged /\ UNCHANGED <<slot, sent, answer, connected>>

\* recv returns nothing: the client left, or the stop closed the socket
Disconnected ==
  /\ io = "recv"
  /\ io' = "close"
  /\ IoUnchanged /\ UNCHANGED <<slot, sent, answer, connected>>

\* exchange-then-close, and the loop's test of the flag
CloseClient ==
  /\ io = "close"
  /\ connected' = FALSE
  /\ io' = IF shutdown THEN "exit" ELSE "accept"
  /\ IoUnchanged /\ UNCHANGED <<slot, sent, answer>>

\* recv unblocks by itself only when the stop has closed the socket
Unblocked == ~connected /\ Disconnected

IoThread ==
  \/ Accept \/ AcceptFails \/ Answered \/ TimeOut \/ Reply \/ CloseClient
  \/ Unblocked

Client == Post \/ Ping \/ Disconnected

-----------------------------------------------------------------------------
(* The frontend thread.                                                    *)

FrontUnchanged == UNCHANGED <<io, sent, answer>>

\* debug_pump takes the request and lets go of the lock
Pump ==
  /\ front = "frame" /\ slot.state = "req"
  /\ front' = "handle" /\ handling' = slot.req
  /\ FrontUnchanged
  /\ UNCHANGED <<slot, executed, shutdown, listening, connected>>

\* handle ran; the answer is put in the slot, whatever is there
Respond ==
  /\ front = "handle"
  /\ executed' = [executed EXCEPT ![handling] = @ + 1]
  /\ slot' = [slot EXCEPT !.state = "resp", !.resp = handling]
  /\ front' = "frame"
  /\ FrontUnchanged
  /\ UNCHANGED <<handling, shutdown, listening, connected>>

\* debug_pump_stop: the flag, then the wake-up connection and the listener,
\* then the client, then the join
Stop ==
  /\ front = "frame"
  /\ front' = "closing" /\ shutdown' = TRUE
  /\ FrontUnchanged
  /\ UNCHANGED <<slot, handling, executed, listening, connected>>

CloseListener ==
  /\ front = "closing"
  /\ front' = "dropping" /\ listening' = FALSE
  /\ FrontUnchanged
  /\ UNCHANGED <<slot, handling, executed, shutdown, connected>>

DropClient ==
  /\ front = "dropping"
  /\ front' = "joining" /\ connected' = FALSE
  /\ FrontUnchanged
  /\ UNCHANGED <<slot, handling, executed, shutdown, listening>>

Join ==
  /\ front = "joining" /\ io = "exit"
  /\ front' = "done"
  /\ FrontUnchanged
  /\ UNCHANGED <<slot, handling, executed, shutdown, listening, connected>>

Stopping == CloseListener \/ DropClient \/ Join

Next == IoThread \/ Client \/ Pump \/ Respond \/ Stop \/ Stopping

Fairness == WF_vars(IoThread) /\ WF_vars(Respond) /\ WF_vars(Stopping)

Spec == Init /\ [][Next]_vars /\ Fairness

-----------------------------------------------------------------------------
\* A request runs at most once, and what the client reads is the answer to its
\* request, "busy", or the late answer to an earlier request that was reported
\* busy (the slot of pump_io_thread and debug_pump).
AnswersAccounted ==
  \A r \in Requests :
    /\ executed[r] <= 1
    /\ answer[r] > 0 /\ answer[r] # r =>
         answer[r] < r /\ answer[answer[r]] = Busy

\* A stop completes: the I/O thread leaves accept, recv or its wait and is
\* joined (debug_pump_stop).
StopCompletes == front = "closing" ~> front = "done"
=============================================================================
