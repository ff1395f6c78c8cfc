------------------------------- MODULE MCThreads ------------------------------
(***************************************************************************)
(* The presentation, network, debug and audio threads of the host, model   *)
(* checked side by side: `part' names the component that runs in a         *)
(* behaviour, the others keep their first state.                           *)
(***************************************************************************)
EXTENDS Integers, SequenceTheorems, FiniteSetTheorems, TLAPS

CONSTANTS
  Helpers,       \* threads of the band pool
  Lines,         \* lines it composites per frame (192 in the code)
  TxCapacity, RxCapacity, InnerCapacity,   \* the queues of the network bridge
  Sessions, Target, Start, Capacity, Glide,   \* of the frontend loop
  \* Bounds of a behaviour: frames composited, packets the guest sends over
  \* the user-mode stack and over a packet driver, packets of the host, debug
  \* requests, frames played, savestates loaded.
  Frames, SlirpTx, PcapTx, HostRx, MaxRequests, PlayFrames, MaxLoads

ASSUME ThreadsAssumption ==
  /\ IsFiniteSet(Helpers) /\ Lines \in Nat
  /\ InnerCapacity \in Nat
  /\ Sessions \subseteq [audio : BOOLEAN, blend : BOOLEAN, direct : BOOLEAN]
  /\ Capacity \in Nat /\ Target \in 1..Capacity /\ Start \in 1..Capacity
  /\ Glide \in Nat
  /\ MaxRequests \in Nat

VARIABLES part,
  \* BandPool
  generation, ctx, y_end, next_y, completed, frame, mpc, my, wpc, seen, wctx,
  wend, wy,
  \* WifiBridge
  emu, worker, inDriver, stop, wake, txq, hand, rxq, inner, emuRx, workerRx,
  dropped, oversized, drops, ntx, nrx, sent, forwarded, unsent, delivered, lost,
  \* DebugPump
  io, front, slot, handling, received, answer, executed, shutdown, listening,
  connected,
  \* PlayLoop
  session, pc, queue, samples, started, playing, threshold, floor, epoch,
  noticed, tab, debug, turbo, n, direct, cache, error, shown, synthetic, last,
  cut

bVars == <<generation, ctx, y_end, next_y, completed, frame, mpc, my, wpc, seen,
           wctx, wend, wy>>
wVars == <<emu, worker, inDriver, stop, wake, txq, hand, rxq, inner, emuRx,
           workerRx, dropped, oversized, drops, ntx, nrx, sent, forwarded, unsent,
           delivered, lost>>
dVars == <<io, front, slot, handling, received, answer, executed, shutdown,
           listening, connected>>
pVars == <<session, pc, queue, samples, started, playing, threshold, floor,
           epoch, noticed, tab, debug, turbo, n, direct, cache, error, shown,
           synthetic, last, cut>>
vars == <<part, bVars, wVars, dVars, pVars>>

Bands == INSTANCE BandPool WITH
       MaxFrames <- Frames

\* The bridge over the user-mode stack, over a packet driver, and with no
\* backend.
Slirp == INSTANCE WifiBridge WITH
       Backend <- "slirp", MaxTx <- SlirpTx, MaxRx <- HostRx, ring <- drops
Pcap == INSTANCE WifiBridge WITH
       Backend <- "pcap", MaxTx <- PcapTx, MaxRx <- HostRx, ring <- drops
Off == INSTANCE WifiBridge WITH
       Backend <- "off", MaxTx <- PcapTx, MaxRx <- 0, ring <- drops

D == INSTANCE DebugPump WITH sent <- received

\* The run's sessions: with audio and blending, with audio and frames shown by
\* the direct presenter, without an audio device.
PlaySessions == {[audio |-> TRUE, blend |-> TRUE, direct |-> FALSE],
                 [audio |-> TRUE, blend |-> FALSE, direct |-> TRUE],
                 [audio |-> FALSE, blend |-> TRUE, direct |-> FALSE]}
P == INSTANCE PlayLoop WITH
       MaxFrames <- PlayFrames, ring <- samples, seen <- noticed

-----------------------------------------------------------------------------
Init ==
  /\ part \in {"bands", "slirp", "pcap", "offline", "pump", "play"}
  /\ Bands!Init /\ D!Init /\ P!Init
  /\ IF part \in {"slirp", "pcap"} THEN Slirp!Init ELSE Off!Init
  /\ part # "play" => ~session.audio

Next ==
  \/ part = "bands" /\ Bands!Next /\ UNCHANGED <<part, wVars, dVars, pVars>>
  \/ part = "slirp" /\ Slirp!Next /\ UNCHANGED <<part, bVars, dVars, pVars>>
  \/ part = "pcap" /\ Pcap!Next /\ UNCHANGED <<part, bVars, dVars, pVars>>
  \/ part = "offline" /\ Off!Next /\ UNCHANGED <<part, bVars, dVars, pVars>>
  \/ part = "pump" /\ D!Next /\ UNCHANGED <<part, bVars, wVars, pVars>>
  \/ part = "play" /\ P!Next /\ UNCHANGED <<part, bVars, wVars, dVars>>

\* The fairness of the component that runs.
Fairness ==
  /\ WF_wVars(part = "slirp" /\ Slirp!Worker)
  /\ WF_wVars(part = "pcap" /\ Pcap!Worker)
  /\ WF_wVars(part \in {"slirp", "pcap"} /\ Slirp!Join)
  /\ WF_dVars(part = "pump" /\ D!IoThread)
  /\ WF_dVars(part = "pump" /\ D!Respond)
  /\ WF_dVars(part = "pump" /\ D!Stopping)
  /\ WF_pVars(part = "play" /\ P!Loop)
  /\ WF_pVars(part = "play" /\ P!Pull)

Spec == Init /\ [][Next]_vars /\ Fairness

-----------------------------------------------------------------------------
\* No two threads composite one row at once, and none composites with a context
\* older than the frame it woke for (composite_adaptive_frame, helper_main).
BandsExact == part = "bands" => Bands!RowsDisjoint /\ Bands!NoOlderContext

\* What one thread hands another is neither lost in silence nor repeated, and
\* each thread's goods keep their order: network frames, debug requests, audio
\* blocks and blended frames (WifiWorkerThreadMain, Net_SendPacket,
\* Net_RecvPacket, pump_io_thread, debug_pump, the audio loop of frontend.cpp).
\* No thread is inside a network driver that is being destroyed, and at most one
\* at a time is inside the user-mode stack.
HandoffsExact ==
  /\ part = "slirp" => Slirp!PacketsAccounted /\ Slirp!DriverSerial /\ Slirp!DriverOutlives
  /\ part = "pcap" => Pcap!PacketsAccounted /\ Pcap!DriverOutlives
  /\ part = "pump" => D!AnswersAccounted
  /\ part = "play" => P!StreamContinuous /\ P!BlendsNeighbours

\* Every wait of one thread for another ends: the joins of the network worker
\* and of the debug server's I/O thread, and the audio pacing of a frame (the
\* shutdowns of wifi_net.cpp and debug_server.cpp, the pacing loop of
\* frontend.cpp).
WaitsEnd == Slirp!ExitCompletes /\ D!StopCompletes /\ P!PacingEnds
-----------------------------------------------------------------------------
(***************************************************************************)
(* Proof of BandsExact for every set of helpers and number of lines.  A    *)
(* claim is a fetch_add whose result is acted on later, and the presenter  *)
(* resets the claim counter and the completion counter in two separate     *)
(* stores while a laggard of the previous frame may still be claiming.     *)
(***************************************************************************)

\* Helpers between their claim and their count.
BandHeld == {h \in Helpers : wpc[h] \in {"line", "count"}}

\* Lines of the frame that somebody claimed.
BandClaimed == IF next_y <= Lines THEN next_y ELSE Lines

BandMine == IF mpc = "line" THEN 1 ELSE 0

BandType ==
  /\ generation \in Nat /\ frame \in Nat /\ y_end \in {0, Lines}
  /\ next_y \in Nat /\ completed \in Nat /\ my \in Nat
  /\ ctx \in {Bands!NoCtx, frame}
  /\ mpc \in {"idle", "y_end", "next_y", "completed", "bump", "claim", "line", "await"}
  /\ wpc \in [Helpers -> {"wait", "ctx", "y_end", "claim", "line", "count"}]
  /\ seen \in [Helpers -> Nat] /\ wctx \in [Helpers -> Nat]
  /\ wend \in [Helpers -> {0, Lines}] /\ wy \in [Helpers -> Nat]

\* The frame is one ahead of the generation exactly while it is published.
BandContexts ==
  /\ frame = generation + (IF mpc \in {"y_end", "next_y", "completed", "bump"} THEN 1 ELSE 0)
  /\ \A h \in Helpers : /\ seen[h] <= generation
                        /\ wpc[h] # "wait" => seen[h] > 0
  /\ Bands!NoOlderContext

\* From the return of one frame to the reset of the claim counter nobody holds
\* a line and nobody can get one.
BandQuiet ==
  mpc \in {"idle", "y_end", "next_y"} =>
    BandHeld = {} /\ (generation = 0 \/ next_y >= Lines)

\* A line counted, or in somebody's hands, was claimed in this frame.
BandCounted ==
  /\ mpc = "completed" => Cardinality(BandHeld) <= BandClaimed
  /\ mpc \in {"bump", "claim", "line", "await"} =>
       completed + Cardinality(BandHeld) + BandMine <= BandClaimed

\* Claims are handed out in order.
BandRows ==
  /\ \A h \in Helpers : wpc[h] = "line" => wy[h] < next_y
  /\ mpc = "line" => my < next_y
  /\ Bands!RowsDisjoint

BandInv == BandType /\ BandContexts /\ BandQuiet /\ BandCounted /\ BandRows

LEMMA BandInit == Init => BandInv
PROOF
<1> SUFFICES ASSUME Init PROVE BandInv
  OBVIOUS
<1> USE DEF Init, Bands!Init, Bands!NoCtx
<1>1. BandHeld = {}
  BY DEF BandHeld
<1>2. BandType
  BY ThreadsAssumption DEF BandType
<1>3. BandContexts
  BY DEF BandContexts, Bands!NoOlderContext
<1>4. BandQuiet /\ BandCounted
  BY <1>1 DEF BandQuiet, BandCounted
<1>5. BandRows
  BY DEF BandRows, Bands!RowsDisjoint
<1> QED BY <1>2, <1>3, <1>4, <1>5 DEF BandInv

LEMMA BandHeldFinite ==
  IsFiniteSet(BandHeld) /\ Cardinality(BandHeld) \in Nat
PROOF
<1>1. BandHeld \subseteq Helpers
  BY DEF BandHeld
<1> QED BY <1>1, ThreadsAssumption, FS_Subset, FS_CardinalityType

\* With no helper between a claim and a count, whatever the pool's counters say.
LEMMA BandIdle == BandHeld = {} => Cardinality(BandHeld) = 0
PROOF BY FS_EmptySet

LEMMA BandMainStep == BandInv /\ Bands!Main => BandInv'
PROOF
<1> SUFFICES ASSUME BandInv, Bands!Main PROVE BandInv'
  OBVIOUS
<1> USE DEF BandInv, Bands!NoCtx
<1> DEFINE held == Cardinality(BandHeld)
<1>1. held \in Nat
  BY BandHeldFinite
<1>2. UNCHANGED <<wpc, seen, wctx, wend, wy>>
  BY DEF Bands!Main, Bands!StoreCtx, Bands!StoreYEnd, Bands!StoreNextY,
         Bands!StoreCompleted, Bands!BumpGeneration, Bands!MainClaim,
         Bands!MainLine, Bands!MainReturn, Bands!helper
<1>3. BandHeld' = BandHeld /\ held' = held
  BY <1>2 DEF BandHeld
<1> HIDE DEF held
<1>4. CASE Bands!StoreCtx
  <2>1. /\ mpc = "idle" /\ frame' = frame + 1 /\ ctx' = frame + 1 /\ mpc' = "y_end"
        /\ UNCHANGED <<generation, y_end, next_y, completed, my>>
    BY <1>4 DEF Bands!StoreCtx
  <2>2. BandType'
    BY <1>2, <2>1 DEF BandType
  <2>3. BandContexts'
    BY <1>2, <2>1 DEF BandType, BandContexts, Bands!NoOlderContext
  <2>4. BandQuiet' /\ BandCounted'
    BY <1>3, <2>1 DEF BandQuiet, BandCounted
  <2>5. BandRows'
    BY <1>2, <2>1 DEF BandRows, Bands!RowsDisjoint
  <2> QED BY <2>2, <2>3, <2>4, <2>5
<1>5. CASE Bands!StoreYEnd
  <2>1. /\ mpc = "y_end" /\ y_end' = Lines /\ mpc' = "next_y"
        /\ UNCHANGED <<generation, frame, ctx, next_y, completed, my>>
    BY <1>5 DEF Bands!StoreYEnd
  <2>2. BandType'
    BY <1>2, <2>1 DEF BandType
  <2>3. BandContexts'
    BY <1>2, <2>1 DEF BandType, BandContexts, Bands!NoOlderContext
  <2>4. BandQuiet' /\ BandCounted'
    BY <1>3, <2>1 DEF BandQuiet, BandCounted
  <2>5. BandRows'
    BY <1>2, <2>1 DEF BandRows, Bands!RowsDisjoint
  <2> QED BY <2>2, <2>3, <2>4, <2>5
<1>6. CASE Bands!StoreNextY
  <2>1. /\ mpc = "next_y" /\ next_y' = 0 /\ mpc' = "completed"
        /\ UNCHANGED <<generation, frame, ctx, y_end, completed, my>>
    BY <1>6 DEF Bands!StoreNextY
  <2>2. BandType'
    BY <1>2, <2>1 DEF BandType
  <2>3. BandContexts'
    BY <1>2, <2>1 DEF BandType, BandContexts, Bands!NoOlderContext
  <2>4. BandHeld = {} /\ held = 0
    BY <2>1, BandIdle DEF BandQuiet, held
  <2>5. BandQuiet' /\ BandCounted'
    BY <1>3, <2>1, <2>4, ThreadsAssumption DEF BandQuiet, BandCounted, BandClaimed, held
  <2>6. BandRows'
    BY <1>2, <2>1, <2>4 DEF BandRows, BandHeld, Bands!RowsDisjoint
  <2> QED BY <2>2, <2>3, <2>5, <2>6
<1>7. CASE Bands!StoreCompleted
  <2>1. /\ mpc = "completed" /\ completed' = 0 /\ mpc' = "bump"
        /\ UNCHANGED <<generation, frame, ctx, y_end, next_y, my>>
    BY <1>7 DEF Bands!StoreCompleted
  <2>2. BandType'
    BY <1>2, <2>1 DEF BandType
  <2>3. BandContexts'
    BY <1>2, <2>1 DEF BandType, BandContexts, Bands!NoOlderContext
  <2>4. held <= BandClaimed
    BY <2>1 DEF BandCounted, held
  <2>5. BandQuiet' /\ BandCounted'
    BY <1>1, <1>3, <2>1, <2>4 DEF BandQuiet, BandCounted, BandClaimed, BandMine, held
  <2>6. BandRows'
    BY <1>2, <2>1 DEF BandRows, Bands!RowsDisjoint
  <2> QED BY <2>2, <2>3, <2>5, <2>6
<1>8. CASE Bands!BumpGeneration
  <2>1. /\ mpc = "bump" /\ generation' = generation + 1 /\ mpc' = "claim"
        /\ UNCHANGED <<frame, ctx, y_end, next_y, completed, my>>
    BY <1>8 DEF Bands!BumpGeneration
  <2>2. BandType'
    BY <1>2, <2>1 DEF BandType
  <2>3. BandContexts'
    BY <1>2, <2>1 DEF BandType, BandContexts, Bands!NoOlderContext
  <2>4. completed + held <= BandClaimed
    BY <1>1, <2>1 DEF BandType, BandCounted, BandMine, held
  <2>5. BandQuiet' /\ BandCounted'
    BY <1>1, <1>3, <2>1, <2>4 DEF BandType, BandQuiet, BandCounted, BandClaimed, BandMine, held
  <2>6. BandRows'
    BY <1>2, <2>1 DEF BandRows, Bands!RowsDisjoint
  <2> QED BY <2>2, <2>3, <2>5, <2>6
<1>9. CASE Bands!MainClaim
  <2>1. /\ mpc = "claim" /\ next_y' = next_y + 1 /\ my' = next_y
        /\ mpc' = IF next_y >= Lines THEN "await" ELSE "line"
        /\ UNCHANGED <<generation, frame, ctx, y_end, completed>>
    BY <1>9 DEF Bands!MainClaim, Bands!AfterClaim
  <2>2. BandType'
    BY <1>2, <2>1 DEF BandType
  <2>3. BandContexts'
    BY <1>2, <2>1 DEF BandType, BandContexts, Bands!NoOlderContext
  <2>4. completed + held <= BandClaimed
    BY <1>1, <2>1 DEF BandType, BandCounted, BandMine, held
  <2>5. BandQuiet' /\ BandCounted'
    BY <1>1, <1>3, <2>1, <2>4, ThreadsAssumption
       DEF BandType, BandQuiet, BandCounted, BandClaimed, BandMine, held
  <2>6. BandRows'
    BY <1>2, <2>1 DEF BandType, BandRows, Bands!RowsDisjoint
  <2> QED BY <2>2, <2>3, <2>5, <2>6
<1>10. CASE Bands!MainLine
  <2>1. /\ mpc = "line" /\ completed' = completed + 1 /\ mpc' = "claim"
        /\ UNCHANGED <<generation, frame, ctx, y_end, next_y, my>>
    BY <1>10 DEF Bands!MainLine
  <2>2. BandType'
    BY <1>2, <2>1 DEF BandType
  <2>3. BandContexts'
    BY <1>2, <2>1 DEF BandType, BandContexts, Bands!NoOlderContext
  <2>4. completed + held + 1 <= BandClaimed
    BY <1>1, <2>1 DEF BandType, BandCounted, BandMine, held
  <2>5. BandQuiet' /\ BandCounted'
    BY <1>1, <1>3, <2>1, <2>4
       DEF BandType, BandQuiet, BandCounted, BandClaimed, BandMine, held
  <2>6. BandRows'
    BY <1>2, <2>1 DEF BandRows, Bands!RowsDisjoint
  <2> QED BY <2>2, <2>3, <2>5, <2>6
<1>11. CASE Bands!MainReturn
  <2>1. /\ mpc = "await" /\ completed >= Lines /\ ctx' = 0 /\ mpc' = "idle"
        /\ UNCHANGED <<generation, frame, y_end, next_y, completed, my>>
    BY <1>11 DEF Bands!MainReturn
  <2>2. BandType'
    BY <1>2, <2>1 DEF BandType
  <2>3. BandContexts'
    BY <1>2, <2>1 DEF BandType, BandContexts, Bands!NoOlderContext
  <2>4. held = 0 /\ next_y >= Lines
    BY <1>1, <2>1, ThreadsAssumption DEF BandType, BandCounted, BandClaimed, BandMine, held
  <2>5. BandHeld = {}
    BY <2>4, BandHeldFinite, FS_EmptySet DEF held
  <2>6. BandQuiet' /\ BandCounted'
    BY <1>3, <2>1, <2>4, <2>5 DEF BandQuiet, BandCounted
  <2>7. BandRows'
    BY <1>2, <2>1 DEF BandRows, Bands!RowsDisjoint
  <2> QED BY <2>2, <2>3, <2>6, <2>7
<1> QED BY <1>4, <1>5, <1>6, <1>7, <1>8, <1>9, <1>10, <1>11 DEF Bands!Main

LEMMA BandHelperStep ==
  ASSUME BandInv, NEW h \in Helpers, Bands!Helper(h)
  PROVE  BandInv'
PROOF
<1> USE DEF BandInv, Bands!NoCtx
<1> DEFINE held == Cardinality(BandHeld)
<1>1. held \in Nat /\ IsFiniteSet(BandHeld)
  BY BandHeldFinite
<1>2. UNCHANGED <<generation, ctx, y_end, frame, mpc, my>>
  BY DEF Bands!Helper, Bands!Wake, Bands!LoadCtx, Bands!LoadYEnd,
         Bands!HelperClaim, Bands!HelperLine, Bands!HelperCount, Bands!pool
<1>3. CASE Bands!Wake(h)
  <2>1. /\ wpc[h] = "wait" /\ generation # seen[h]
        /\ seen' = [seen EXCEPT ![h] = generation]
        /\ wpc' = [wpc EXCEPT ![h] = "ctx"]
        /\ UNCHANGED <<next_y, completed, wctx, wend, wy>>
    BY <1>3 DEF Bands!Wake, Bands!pool
  <2>2. BandType'
    BY <1>2, <2>1 DEF BandType
  <2>3. BandContexts'
    BY <1>2, <2>1 DEF BandType, BandContexts, Bands!NoOlderContext
  <2>4. BandHeld' = BandHeld
    BY <2>1 DEF BandType, BandHeld
  <2>5. BandQuiet' /\ BandCounted'
    BY <1>2, <2>1, <2>4 DEF BandQuiet, BandCounted, BandClaimed, BandMine
  <2>6. BandRows'
    BY <1>2, <2>1 DEF BandType, BandRows, Bands!RowsDisjoint
  <2> QED BY <2>2, <2>3, <2>5, <2>6
<1>4. CASE Bands!LoadCtx(h)
  <2>1. /\ wpc[h] = "ctx" /\ wctx' = [wctx EXCEPT ![h] = ctx]
        /\ wpc' = [wpc EXCEPT ![h] = "y_end"]
        /\ UNCHANGED <<next_y, completed, seen, wend, wy>>
    BY <1>4 DEF Bands!LoadCtx, Bands!pool
  <2>2. BandType'
    BY <1>2, <2>1 DEF BandType
  <2>3. ctx = 0 \/ ctx >= seen[h]
    BY DEF BandType, BandContexts
  <2>4. BandContexts'
    BY <1>2, <2>1, <2>3 DEF BandType, BandContexts, Bands!NoOlderContext
  <2>5. BandHeld' = BandHeld
    BY <2>1 DEF BandType, BandHeld
  <2>6. BandQuiet' /\ BandCounted'
    BY <1>2, <2>1, <2>5 DEF BandQuiet, BandCounted, BandClaimed, BandMine
  <2>7. BandRows'
    BY <1>2, <2>1 DEF BandType, BandRows, Bands!RowsDisjoint
  <2> QED BY <2>2, <2>4, <2>6, <2>7
<1>5. CASE Bands!LoadYEnd(h)
  <2>1. /\ wpc[h] = "y_end" /\ wend' = [wend EXCEPT ![h] = y_end]
        /\ \E to \in {"wait", "claim"} :
             /\ wpc' = [wpc EXCEPT ![h] = to]
        /\ UNCHANGED <<next_y, completed, seen, wctx, wy>>
    BY <1>5 DEF Bands!LoadYEnd, Bands!pool
  <2>2. BandType'
    BY <1>2, <2>1 DEF BandType
  <2>3. BandContexts'
    BY <1>2, <2>1 DEF BandType, BandContexts, Bands!NoOlderContext
  <2>4. BandHeld' = BandHeld
    BY <2>1 DEF BandType, BandHeld
  <2>5. BandQuiet' /\ BandCounted'
    BY <1>2, <2>1, <2>4 DEF BandQuiet, BandCounted, BandClaimed, BandMine
  <2>6. BandRows'
    BY <1>2, <2>1 DEF BandType, BandRows, Bands!RowsDisjoint
  <2> QED BY <2>2, <2>3, <2>5, <2>6
<1>6. CASE Bands!HelperClaim(h)
  <2>1. /\ wpc[h] = "claim" /\ next_y' = next_y + 1
        /\ wy' = [wy EXCEPT ![h] = next_y]
        /\ wpc' = [wpc EXCEPT ![h] = IF next_y >= wend[h] THEN "wait" ELSE "line"]
        /\ UNCHANGED <<completed, seen, wctx, wend>>
    BY <1>6 DEF Bands!HelperClaim, Bands!AfterClaim
  <2>2. BandType'
    BY <1>2, <2>1 DEF BandType
  <2>3. BandContexts'
    BY <1>2, <2>1 DEF BandType, BandContexts, Bands!NoOlderContext
  <2>4. BandRows'
    BY <1>2, <2>1 DEF BandType, BandRows, Bands!RowsDisjoint
  <2>5. CASE next_y >= wend[h]
    <3>1. BandHeld' = BandHeld
      BY <2>1, <2>5 DEF BandType, BandHeld
    <3>2. BandQuiet' /\ BandCounted'
      BY <1>1, <1>2, <2>1, <3>1, ThreadsAssumption
         DEF BandType, BandQuiet, BandCounted, BandClaimed, BandMine
    <3> QED BY <2>2, <2>3, <2>4, <3>2
  <2>6. CASE ~(next_y >= wend[h])
    <3>1. /\ next_y < Lines /\ generation # 0
      BY <2>1, <2>6, ThreadsAssumption DEF BandType, BandContexts
    <3>2. BandHeld' = BandHeld \cup {h} /\ h \notin BandHeld
      BY <2>1, <2>6 DEF BandType, BandHeld
    <3>3. held' = held + 1
      BY <1>1, <3>2, FS_AddElement
    <3>4. mpc \notin {"idle", "y_end", "next_y"}
      BY <3>1, ThreadsAssumption DEF BandType, BandQuiet
    <3> HIDE DEF held
    <3>5. /\ mpc = "completed" => held <= BandClaimed
          /\ mpc \in {"bump", "claim", "line", "await"} =>
               completed + held + BandMine <= BandClaimed
      BY DEF held, BandCounted
    <3>6. BandClaimed' = BandClaimed + 1 /\ BandClaimed \in Nat
      BY <2>1, <3>1, ThreadsAssumption DEF BandType, BandClaimed
    <3>7. BandMine' = BandMine /\ BandMine \in Nat
      BY <1>2 DEF BandMine
    <3>8. (mpc = "completed" => held <= BandClaimed)'
      BY <1>1, <1>2, <3>3, <3>5, <3>6
    <3>9. (mpc \in {"bump", "claim", "line", "await"} =>
               completed + held + BandMine <= BandClaimed)'
      BY <1>1, <1>2, <2>1, <3>3, <3>5, <3>6, <3>7 DEF BandType
    <3>10. BandQuiet' /\ BandCounted'
      BY <1>2, <3>4, <3>8, <3>9 DEF held, BandQuiet, BandCounted
    <3> QED BY <2>2, <2>3, <2>4, <3>10
  <2> QED BY <2>5, <2>6
<1>7. CASE Bands!HelperLine(h)
  <2>1. /\ wpc[h] = "line" /\ wpc' = [wpc EXCEPT ![h] = "count"]
        /\ UNCHANGED <<next_y, completed, seen, wctx, wend, wy>>
    BY <1>7 DEF Bands!HelperLine, Bands!pool
  <2>2. BandType'
    BY <1>2, <2>1 DEF BandType
  <2>3. BandContexts'
    BY <1>2, <2>1 DEF BandType, BandContexts, Bands!NoOlderContext
  <2>4. BandHeld' = BandHeld
    BY <2>1 DEF BandType, BandHeld
  <2>5. BandQuiet' /\ BandCounted'
    BY <1>2, <2>1, <2>4 DEF BandQuiet, BandCounted, BandClaimed, BandMine
  <2>6. BandRows'
    BY <1>2, <2>1 DEF BandType, BandRows, Bands!RowsDisjoint
  <2> QED BY <2>2, <2>3, <2>5, <2>6
<1>8. CASE Bands!HelperCount(h)
  <2>1. /\ wpc[h] = "count" /\ wpc' = [wpc EXCEPT ![h] = "claim"]
        /\ completed' = completed + 1
        /\ UNCHANGED <<next_y, seen, wctx, wend, wy>>
    BY <1>8 DEF Bands!HelperCount
  <2>2. BandType'
    BY <1>2, <2>1 DEF BandType
  <2>3. BandContexts'
    BY <1>2, <2>1 DEF BandType, BandContexts, Bands!NoOlderContext
  <2>4. BandRows'
    BY <1>2, <2>1 DEF BandType, BandRows, Bands!RowsDisjoint
  <2>5. BandHeld' = BandHeld \ {h} /\ h \in BandHeld
    BY <2>1 DEF BandType, BandHeld
  <2>6. held' = held - 1
    BY <1>1, <2>5, FS_RemoveElement
  <2>7. mpc \notin {"idle", "y_end", "next_y"}
    BY <2>5 DEF BandQuiet
  <2> HIDE DEF held
  <2>8. /\ mpc = "completed" => held <= BandClaimed
        /\ mpc \in {"bump", "claim", "line", "await"} =>
             completed + held + BandMine <= BandClaimed
    BY DEF held, BandCounted
  <2>9. BandClaimed' = BandClaimed /\ BandClaimed \in Nat
    BY <2>1, ThreadsAssumption DEF BandType, BandClaimed
  <2>10. BandMine' = BandMine /\ BandMine \in Nat
    BY <1>2 DEF BandMine
  <2>11. (mpc = "completed" => held <= BandClaimed)'
    BY <1>1, <1>2, <2>6, <2>8, <2>9
  <2>12. (mpc \in {"bump", "claim", "line", "await"} =>
             completed + held + BandMine <= BandClaimed)'
    BY <1>1, <1>2, <2>1, <2>6, <2>8, <2>9, <2>10 DEF BandType
  <2>13. BandQuiet' /\ BandCounted'
    BY <1>2, <2>7, <2>11, <2>12 DEF held, BandQuiet, BandCounted
  <2> QED BY <2>2, <2>3, <2>4, <2>13
<1> QED BY <1>3, <1>4, <1>5, <1>6, <1>7, <1>8 DEF Bands!Helper

LEMMA BandNext == BandInv /\ [Next]_vars => BandInv'
PROOF
<1> SUFFICES ASSUME BandInv, [Next]_vars PROVE BandInv'
  OBVIOUS
<1>1. CASE UNCHANGED bVars
  BY <1>1 DEF bVars, BandInv, BandType, BandContexts, BandQuiet, BandCounted,
              BandRows, BandHeld, BandClaimed, BandMine,
              Bands!NoOlderContext, Bands!RowsDisjoint
<1>2. CASE Bands!Next
  BY <1>2, BandMainStep, BandHelperStep DEF Bands!Next
<1> QED BY <1>1, <1>2 DEF Next, vars

\* For every set of helpers and every number of lines: no row of the surface is
\* composited by two threads at once, and no helper composites with a context
\* older than the frame it woke for, although claims, the two counter resets,
\* the context and the generation are separate atomic accesses
\* (composite_adaptive_frame, band_worker_main).
THEOREM BandsAreExact == Spec => []BandsExact
PROOF
<1>1. BandInv => BandsExact
  BY DEF BandInv, BandRows, BandContexts, BandsExact
<1> QED BY <1>1, BandInit, BandNext, PTL DEF Spec

-----------------------------------------------------------------------------
(***************************************************************************)
(* Proof of HandoffsExact, component by component: first the slot of the   *)
(* debug pump.                                                             *)
(***************************************************************************)

PumpType ==
  /\ io \in {"accept", "recv", "wait", "send", "close", "exit"}
  /\ front \in {"frame", "handle", "closing", "dropping", "joining", "done"}
  /\ slot \in [state : {"idle", "req", "resp"}, req : Nat, resp : Nat]
  /\ handling \in Nat /\ received \in 0..MaxRequests
  /\ answer \in [D!Requests -> Int] /\ executed \in [D!Requests -> Nat]

\* A posted request is the one the I/O thread waits for, and has not run.
PumpPosted ==
  slot.state = "req" => /\ io = "wait" /\ slot.req = received
                        /\ executed[received] = 0

PumpWaits == io = "wait" => received > 0 /\ answer[received] = 0

PumpFresh == \A r \in D!Requests : r > received => executed[r] = 0 /\ answer[r] = 0

\* An answer in the slot, or in the making, is for the request the I/O thread
\* waits for or for one it has given up on.
PumpAnswer ==
  /\ slot.state = "resp" =>
       /\ slot.resp \in 1..received
       /\ (io = "wait" /\ slot.resp = received) \/ answer[slot.resp] = D!Busy
  /\ front = "handle" =>
       /\ handling \in 1..received /\ executed[handling] = 0
       /\ (slot.state = "req" /\ slot.req = handling) \/ answer[handling] = D!Busy

PumpInv == /\ PumpType /\ PumpPosted /\ PumpWaits /\ PumpFresh /\ PumpAnswer
           /\ D!AnswersAccounted

LEMMA PumpInit == Init => PumpInv
PROOF
<1> SUFFICES ASSUME Init PROVE PumpInv
  OBVIOUS
<1> USE DEF Init, D!Init, D!Busy
<1>1. PumpType
  BY ThreadsAssumption DEF PumpType
<1>2. PumpPosted /\ PumpWaits /\ PumpFresh /\ PumpAnswer
  BY DEF PumpPosted, PumpWaits, PumpFresh, PumpAnswer
<1>3. D!AnswersAccounted
  BY DEF D!AnswersAccounted
<1> QED BY <1>1, <1>2, <1>3 DEF PumpInv

\* A step that leaves the slot and the records alone, and does not begin a wait.
LEMMA PumpIdleStep ==
  ASSUME PumpInv, UNCHANGED <<slot, handling, received, answer, executed>>,
         io' \in {"accept", "recv", "wait", "send", "close", "exit"},
         front' \in {"frame", "handle", "closing", "dropping", "joining", "done"},
         io' = io \/ (io # "wait" /\ io' # "wait"),
         front' = "handle" => front = "handle"
  PROVE  PumpInv'
PROOF
<1> USE DEF PumpInv
<1>1. PumpType'
  BY DEF PumpType
<1>2. PumpPosted' /\ PumpWaits' /\ PumpFresh'
  BY DEF PumpPosted, PumpWaits, PumpFresh
<1>3. PumpAnswer'
  BY DEF PumpAnswer, PumpPosted
<1>4. D!AnswersAccounted'
  BY DEF D!AnswersAccounted
<1> QED BY <1>1, <1>2, <1>3, <1>4

LEMMA PumpPost == PumpInv /\ D!Post => PumpInv'
PROOF
<1> SUFFICES ASSUME PumpInv, D!Post PROVE PumpInv'
  OBVIOUS
<1> USE DEF PumpInv, D!Requests, D!Busy
<1>1. /\ io = "recv" /\ received < MaxRequests /\ received' = received + 1
      /\ slot' = [slot EXCEPT !.state = "req", !.req = received + 1]
      /\ io' = "wait"
      /\ UNCHANGED <<front, handling, executed, answer>>
  BY DEF D!Post, D!IoUnchanged
<1>2. received + 1 \in D!Requests /\ received \in 0..MaxRequests
  BY <1>1, ThreadsAssumption DEF PumpType
<1>3. /\ slot' \in [state : {"idle", "req", "resp"}, req : Nat, resp : Nat]
      /\ slot'.state = "req" /\ slot'.req = received + 1
  <2>1. PICK k \in Nat : k = received + 1
    BY <1>2, ThreadsAssumption
  <2>2. slot' = [slot EXCEPT !.state = "req", !.req = k]
    BY <1>1, <2>1
  <2>3. slot \in [state : {"idle", "req", "resp"}, req : Nat, resp : Nat]
    BY DEF PumpType
  <2>4. slot' \in [state : {"idle", "req", "resp"}, req : Nat, resp : Nat]
    BY <2>2, <2>3
  <2> QED BY <2>1, <2>2, <2>3, <2>4
<1>4. executed[received + 1] = 0 /\ answer[received + 1] = 0
  BY <1>2 DEF PumpFresh
<1>5. PumpType'
  <2>1. received' \in 0..MaxRequests
    BY <1>1, <1>2, ThreadsAssumption
  <2>2. io' = "wait" /\ UNCHANGED <<front, handling, executed, answer>>
    BY <1>1
  <2> QED BY <1>3, <2>1, <2>2 DEF PumpType
<1>6. PumpPosted' /\ PumpWaits' /\ PumpFresh'
  BY <1>1, <1>2, <1>3, <1>4 DEF PumpPosted, PumpWaits, PumpFresh
<1>7. front = "handle" => answer[handling] = -1
  BY <1>1 DEF PumpAnswer, PumpPosted
<1>8. PumpAnswer'
  BY <1>1, <1>2, <1>3, <1>7 DEF PumpAnswer, PumpType
<1>9. D!AnswersAccounted'
  BY <1>1 DEF D!AnswersAccounted
<1> QED BY <1>5, <1>6, <1>8, <1>9

LEMMA PumpPing == PumpInv /\ D!Ping => PumpInv'
PROOF
<1> SUFFICES ASSUME PumpInv, D!Ping PROVE PumpInv'
  OBVIOUS
<1> USE DEF PumpInv, D!Requests, D!Busy
<1>1. /\ io = "recv" /\ received < MaxRequests /\ received' = received + 1
      /\ answer' = [answer EXCEPT ![received + 1] = received + 1]
      /\ io' = "send"
      /\ UNCHANGED <<front, handling, executed, slot>>
  BY DEF D!Ping, D!IoUnchanged
<1>2. received + 1 \in D!Requests /\ received \in 0..MaxRequests
  BY <1>1, ThreadsAssumption DEF PumpType
<1>3. executed[received + 1] = 0 /\ answer[received + 1] = 0
  BY <1>2 DEF PumpFresh
<1>4. /\ answer' \in [D!Requests -> Int] /\ answer'[received + 1] = received + 1
      /\ \A r \in D!Requests : r # received + 1 => answer'[r] = answer[r]
  BY <1>1, <1>2 DEF PumpType
<1>5. PumpType'
  BY <1>1, <1>2, <1>4, ThreadsAssumption DEF PumpType
<1>6. PumpPosted' /\ PumpWaits' /\ PumpFresh'
  BY <1>1, <1>2, <1>4 DEF PumpPosted, PumpWaits, PumpFresh
<1>7. PumpAnswer'
  BY <1>1, <1>2, <1>4 DEF PumpAnswer, PumpPosted, PumpType
<1>8. D!AnswersAccounted'
  <2>1. ASSUME NEW r \in D!Requests, answer'[r] > 0, answer'[r] # r
        PROVE  answer'[r] < r /\ answer'[answer'[r]] = -1
    <3>1. r # received + 1 /\ answer'[r] = answer[r]
      BY <1>4, <2>1
    <3>2. answer[r] < r /\ answer[answer[r]] = -1
      BY <2>1, <3>1 DEF D!AnswersAccounted
    <3>3. answer[r] \in D!Requests /\ answer[r] # received + 1
      BY <1>2, <1>3, <2>1, <3>1, <3>2, ThreadsAssumption DEF PumpType
    <3> QED BY <1>4, <3>1, <3>2, <3>3
  <2> QED BY <1>1, <2>1 DEF D!AnswersAccounted
<1> QED BY <1>5, <1>6, <1>7, <1>8

\* The wait ends, with an answer of this request or of one already reported
\* busy, or with "busy".
LEMMA PumpWaitEnds ==
  ASSUME PumpInv, NEW a \in Int, io = "wait", io' = "send",
         answer' = [answer EXCEPT ![received] = a],
         slot' = [slot EXCEPT !.state = "idle"],
         UNCHANGED <<front, handling, received, executed>>,
         \/ a = D!Busy
         \/ slot.state = "resp" /\ a = slot.resp
  PROVE  PumpInv'
PROOF
<1> USE DEF PumpInv, D!Requests, D!Busy
<1>1. received \in D!Requests /\ answer[received] = 0
  BY DEF PumpType, PumpWaits
<1>2. /\ answer' \in [D!Requests -> Int] /\ answer'[received] = a
      /\ \A r \in D!Requests : r # received => answer'[r] = answer[r]
  BY <1>1 DEF PumpType
<1>3. /\ slot' \in [state : {"idle", "req", "resp"}, req : Nat, resp : Nat]
      /\ slot'.state = "idle"
  BY DEF PumpType
<1>4. PumpType'
  BY <1>2, <1>3 DEF PumpType
<1>5. PumpPosted' /\ PumpWaits' /\ PumpFresh'
  BY <1>1, <1>2, <1>3 DEF PumpPosted, PumpWaits, PumpFresh, PumpType
<1>6. a = -1 \/ a = received \/ (a \in 1..received /\ a # received /\ answer[a] = -1)
  BY <1>1 DEF PumpAnswer
<1>7. PumpAnswer'
  <2>1. CASE front # "handle"
    BY <1>3, <2>1 DEF PumpAnswer
  <2>2. CASE front = "handle" /\ slot.state = "req" /\ slot.req = handling
    BY <1>1, <1>2, <1>3, <2>2 DEF PumpAnswer, PumpPosted
  <2>3. CASE front = "handle" /\ answer[handling] = -1
    <3>1. handling \in D!Requests /\ handling # received
      BY <1>1, <2>3, ThreadsAssumption DEF PumpAnswer, PumpType
    <3> QED BY <1>2, <1>3, <2>3, <3>1 DEF PumpAnswer
  <2> QED BY <2>1, <2>2, <2>3 DEF PumpAnswer
<1>8. D!AnswersAccounted'
  <2>1. ASSUME NEW r \in D!Requests, answer'[r] > 0, answer'[r] # r
        PROVE  answer'[r] < r /\ answer'[answer'[r]] = -1
    <3>1. CASE r = received
      <4>1. answer'[r] = a /\ a \in 1..received /\ a # received /\ answer[a] = -1
        BY <1>2, <1>6, <2>1, <3>1
      <4>2. a \in D!Requests
        BY <4>1, <1>1, ThreadsAssumption
      <4> QED BY <1>1, <1>2, <3>1, <4>1, <4>2
    <3>2. CASE r # received
      <4>1. answer[r] < r /\ answer[answer[r]] = -1 /\ answer'[r] = answer[r]
        BY <1>2, <2>1, <3>2 DEF D!AnswersAccounted
      <4>2. r \in 1..MaxRequests /\ MaxRequests \in Nat
        BY <2>1, ThreadsAssumption
      <4>3. answer[r] \in Int
        BY <4>2 DEF PumpType
      <4>4. answer[r] > 0
        BY <2>1, <4>1
      <4>5. answer[r] \in 1..MaxRequests
        BY <4>1, <4>2, <4>3, <4>4
      <4>6. answer[r] # received
        BY <1>1, <4>1
      <4> QED BY <1>2, <4>1, <4>5, <4>6
    <3> QED BY <3>1, <3>2
  <2> QED BY <2>1 DEF D!AnswersAccounted
<1> QED BY <1>4, <1>5, <1>7, <1>8

LEMMA PumpTake == PumpInv /\ D!Pump => PumpInv'
PROOF
<1> SUFFICES ASSUME PumpInv, D!Pump PROVE PumpInv'
  OBVIOUS
<1> USE DEF PumpInv, D!Requests, D!Busy
<1>1. /\ front = "frame" /\ slot.state = "req" /\ front' = "handle"
      /\ handling' = slot.req
      /\ UNCHANGED <<io, slot, received, answer, executed>>
  BY DEF D!Pump, D!FrontUnchanged
<1>2. slot.req = received /\ received > 0 /\ executed[received] = 0
  BY <1>1 DEF PumpPosted, PumpWaits
<1>3. PumpType'
  BY <1>1 DEF PumpType
<1>4. PumpPosted' /\ PumpWaits' /\ PumpFresh'
  BY <1>1 DEF PumpPosted, PumpWaits, PumpFresh
<1>5. PumpAnswer'
  BY <1>1, <1>2 DEF PumpAnswer, PumpType
<1>6. D!AnswersAccounted'
  BY <1>1 DEF D!AnswersAccounted
<1> QED BY <1>3, <1>4, <1>5, <1>6

LEMMA PumpRespond == PumpInv /\ D!Respond => PumpInv'
PROOF
<1> SUFFICES ASSUME PumpInv, D!Respond PROVE PumpInv'
  OBVIOUS
<1> USE DEF PumpInv, D!Requests, D!Busy
<1>1. /\ front = "handle" /\ front' = "frame"
      /\ executed' = [executed EXCEPT ![handling] = @ + 1]
      /\ slot' = [slot EXCEPT !.state = "resp", !.resp = handling]
      /\ UNCHANGED <<io, handling, received, answer>>
  BY DEF D!Respond, D!FrontUnchanged
<1>2. /\ slot' \in [state : {"idle", "req", "resp"}, req : Nat, resp : Nat]
      /\ slot'.state = "resp" /\ slot'.resp = handling
  BY <1>1 DEF PumpType
<1>3. /\ handling \in D!Requests /\ handling \in 1..received /\ executed[handling] = 0
  BY <1>1, ThreadsAssumption DEF PumpAnswer, PumpType
<1>4. /\ executed' \in [D!Requests -> Nat] /\ executed'[handling] = 1
      /\ \A r \in D!Requests : r # handling => executed'[r] = executed[r]
  BY <1>1, <1>3 DEF PumpType
<1>5. PumpType'
  BY <1>1, <1>2, <1>4 DEF PumpType
<1>6. PumpPosted' /\ PumpWaits' /\ PumpFresh'
  BY <1>1, <1>2, <1>3, <1>4 DEF PumpPosted, PumpWaits, PumpFresh, PumpType
<1>7. (io = "wait" /\ handling = received) \/ answer[handling] = -1
  BY <1>1 DEF PumpAnswer, PumpPosted
<1>8. PumpAnswer'
  BY <1>1, <1>2, <1>3, <1>7 DEF PumpAnswer
<1>9. D!AnswersAccounted'
  BY <1>1, <1>4 DEF D!AnswersAccounted
<1> QED BY <1>5, <1>6, <1>8, <1>9

LEMMA PumpNext == PumpInv /\ [Next]_vars => PumpInv'
PROOF
<1> SUFFICES ASSUME PumpInv, [Next]_vars PROVE PumpInv'
  OBVIOUS
<1>1. CASE UNCHANGED dVars
  <2>1. UNCHANGED <<io, front, slot, handling, received, answer, executed>>
    BY <1>1 DEF dVars
  <2> QED BY <2>1, PumpIdleStep DEF PumpInv, PumpType
<1>2. CASE D!Next
  <2>1. CASE D!Accept \/ D!AcceptFails \/ D!Reply \/ D!CloseClient
             \/ D!Unblocked \/ D!Disconnected
    <3>1. /\ UNCHANGED <<front, slot, handling, received, answer, executed>>
          /\ io' \in {"accept", "recv", "wait", "send", "close", "exit"}
          /\ io # "wait" /\ io' # "wait"
      BY <2>1 DEF D!Accept, D!AcceptFails, D!Reply, D!CloseClient, D!Unblocked,
                  D!Disconnected, D!IoUnchanged
    <3> QED BY <3>1, PumpIdleStep DEF PumpInv, PumpType
  <2>2. CASE D!Answered
    <3>1. /\ io = "wait" /\ slot.state = "resp" /\ io' = "send"
          /\ answer' = [answer EXCEPT ![received] = slot.resp]
          /\ slot' = [slot EXCEPT !.state = "idle"]
          /\ UNCHANGED <<front, handling, received, executed>>
      BY <2>2 DEF D!Answered, D!IoUnchanged
    <3>2. slot.resp \in Int
      BY DEF PumpInv, PumpType
    <3> QED BY <3>1, <3>2, PumpWaitEnds
  <2>3. CASE D!TimeOut
    <3>1. /\ io = "wait" /\ io' = "send"
          /\ answer' = [answer EXCEPT ![received] = D!Busy]
          /\ slot' = [slot EXCEPT !.state = "idle"]
          /\ UNCHANGED <<front, handling, received, executed>>
      BY <2>3 DEF D!TimeOut, D!IoUnchanged
    <3>2. D!Busy \in Int
      BY DEF D!Busy
    <3> QED BY <3>1, <3>2, PumpWaitEnds
  <2>4. CASE D!Stop \/ D!Stopping
    <3>1. /\ UNCHANGED <<io, slot, handling, received, answer, executed>>
          /\ front' \in {"closing", "dropping", "joining", "done"}
      BY <2>4 DEF D!Stop, D!Stopping, D!CloseListener, D!DropClient, D!Join,
                  D!FrontUnchanged
    <3> QED BY <3>1, PumpIdleStep DEF PumpInv, PumpType
  <2> QED BY <1>2, <2>1, <2>2, <2>3, <2>4, PumpPost, PumpPing, PumpTake,
             PumpRespond DEF D!Next, D!IoThread, D!Client
<1> QED BY <1>1, <1>2 DEF Next, vars

-----------------------------------------------------------------------------
(* The packets of the network bridge.                                      *)

Before(a, b) == \A i \in DOMAIN a, j \in DOMAIN b : Slirp!Earlier(a[i], b[j])
UpTo(a, m) == \A i \in DOMAIN a : a[i].no <= m

Packet == [by : {"emu", "worker"}, no : Nat]

WifiType ==
  /\ emu \in {"run", "report", "check", "callback", "deliver", "join", "gone"}
  /\ worker \in {"top", "drain", "send", "poll", "callback", "peers", "wait", "done"}
  /\ txq \in Seq(Packet) /\ hand \in Seq(Packet) /\ sent \in Seq(Packet)
  /\ rxq \in Seq(Packet) /\ inner \in Seq(Packet) /\ delivered \in Seq(Packet)
  /\ emuRx \in Seq(Packet) /\ workerRx \in Seq(Packet)
  /\ forwarded \in Seq(Packet) /\ unsent \in Seq(Packet) /\ lost \in Seq(Packet)
  /\ dropped \in Nat /\ oversized \in Nat /\ ntx \in Nat /\ nrx \in Nat
  /\ drops \in [{"full", "big", "rx", "rxbig"} -> Nat]

\* What the threads hold, and which of them is inside the driver.
WifiThreads ==
  /\ worker # "send" => hand = <<>>
  /\ emu = "callback" <=> emuRx # <<>>
  /\ inDriver = (IF worker \in {"send", "poll", "callback"} THEN {"worker"} ELSE {})
                 \cup (IF part = "pcap" /\ emu \in {"check", "callback"} THEN {"emu"} ELSE {})
  /\ emu = "gone" => worker = "done"
  /\ workerRx # <<>> => worker \in (IF part = "pcap" THEN {"callback"}
                                    ELSE {"send", "poll", "peers"})

WifiSends ==
  /\ Slirp!InOrder(sent) /\ Slirp!InOrder(hand) /\ Slirp!InOrder(txq)
  /\ Before(sent, hand) /\ Before(sent, txq) /\ Before(hand, txq)
  /\ UpTo(sent, ntx) /\ UpTo(hand, ntx) /\ UpTo(txq, ntx)
  /\ Slirp!InOrder(forwarded) /\ UpTo(forwarded, ntx)
  /\ Len(sent) + Len(hand) + Len(txq) + Len(forwarded) + Len(unsent)
       + drops["full"] + drops["big"] = ntx

\* The host's frames d (delivered), i (inside the dispatcher) and q (queued), up
\* to number m, ...
RxRun(d, i, q, m) ==
  /\ Slirp!InOrder(d) /\ Slirp!InOrder(i) /\ Slirp!InOrder(q)
  /\ Before(d, i) /\ Before(d, q) /\ Before(i, q)
  /\ UpTo(d, m) /\ UpTo(i, m) /\ UpTo(q, m)

\* ... the frame h in a callback's hands, which may still be queued behind them,
RxHeld(d, i, q, h, m) ==
  /\ Len(h) <= 1 /\ Slirp!InOrder(h) /\ UpTo(h, m)
  /\ Before(d, h) /\ Before(i, h) /\ Before(q, h)

\* ... in any order with the frame the other thread's callback holds.
RxApart(h, o) == Before(h, o) /\ Before(o, h)
RxBy(h, thread) == \A k \in DOMAIN h : h[k].by = thread

WifiOrder ==
  /\ RxRun(delivered, inner, rxq, nrx)
  /\ RxHeld(delivered, inner, rxq, emuRx, nrx)
  /\ RxHeld(delivered, inner, rxq, workerRx, nrx)
  /\ RxApart(emuRx, workerRx) /\ RxBy(emuRx, "emu") /\ RxBy(workerRx, "worker")

WifiCount ==
  Len(delivered) + Len(inner) + Len(rxq) + Len(emuRx) + Len(workerRx) + Len(lost)
    + dropped + oversized + drops["rx"] + drops["rxbig"] = nrx

WifiReceives == WifiOrder /\ WifiCount

WifiInv == part \in {"slirp", "pcap"} =>
             WifiType /\ WifiThreads /\ WifiSends /\ WifiReceives

\* Concatenation, as an index reads it.
LEMMA CatAt ==
  ASSUME NEW a \in Seq(Packet), NEW b \in Seq(Packet)
  PROVE  /\ a \o b \in Seq(Packet) /\ Len(a \o b) = Len(a) + Len(b)
         /\ \A i \in DOMAIN a : i \in DOMAIN (a \o b) /\ (a \o b)[i] = a[i]
         /\ \A i \in DOMAIN b : /\ Len(a) + i \in DOMAIN (a \o b)
                                /\ (a \o b)[Len(a) + i] = b[i]
         /\ \A i \in DOMAIN (a \o b) :
              \/ i \in DOMAIN a
              \/ \E j \in DOMAIN b : i = Len(a) + j
PROOF
<1>1. a \o b \in Seq(Packet) /\ Len(a \o b) = Len(a) + Len(b)
  OBVIOUS
<1>2. \A i \in 1..(Len(a) + Len(b)) :
        (a \o b)[i] = IF i <= Len(a) THEN a[i] ELSE b[i - Len(a)]
  OBVIOUS
<1>3. /\ DOMAIN a = 1..Len(a) /\ DOMAIN b = 1..Len(b)
      /\ DOMAIN (a \o b) = 1..(Len(a) + Len(b))
      /\ Len(a) \in Nat /\ Len(b) \in Nat
  OBVIOUS
<1>4. \A i \in DOMAIN a : i \in DOMAIN (a \o b) /\ (a \o b)[i] = a[i]
  BY <1>2, <1>3
<1>5. ASSUME NEW i \in DOMAIN b
      PROVE  Len(a) + i \in DOMAIN (a \o b) /\ (a \o b)[Len(a) + i] = b[i]
  <2>1. Len(a) + i \in 1..(Len(a) + Len(b)) /\ ~(Len(a) + i <= Len(a))
    BY <1>3
  <2>2. (Len(a) + i) - Len(a) = i
    BY <1>3
  <2> QED BY <1>2, <1>3, <2>1, <2>2
<1>6. ASSUME NEW i \in DOMAIN (a \o b)
      PROVE  i \in DOMAIN a \/ \E j \in DOMAIN b : i = Len(a) + j
  <2>1. CASE i <= Len(a)
    BY <1>3, <2>1
  <2>2. CASE ~(i <= Len(a))
    <3>1. i - Len(a) \in DOMAIN b /\ i = Len(a) + (i - Len(a))
      BY <1>3, <2>2
    <3> QED BY <3>1
  <2> QED BY <2>1, <2>2
<1> QED BY <1>1, <1>4, <1>5, <1>6

LEMMA CatOrder ==
  ASSUME NEW a \in Seq(Packet), NEW b \in Seq(Packet)
  PROVE  /\ Slirp!InOrder(a) /\ Slirp!InOrder(b) /\ Before(a, b)
              => Slirp!InOrder(a \o b)
         /\ \A m \in Nat : UpTo(a, m) /\ UpTo(b, m) => UpTo(a \o b, m)
         /\ \A c \in Seq(Packet) : Before(a, c) /\ Before(b, c) => Before(a \o b, c)
         /\ \A c \in Seq(Packet) : Before(c, a) /\ Before(c, b) => Before(c, a \o b)
PROOF
<1>1. ASSUME Slirp!InOrder(a), Slirp!InOrder(b), Before(a, b),
             NEW i \in DOMAIN (a \o b), NEW j \in DOMAIN (a \o b), i < j
      PROVE  Slirp!Earlier((a \o b)[i], (a \o b)[j])
  <2>0. DOMAIN a = 1..Len(a) /\ DOMAIN b = 1..Len(b) /\ Len(a) \in Nat
    OBVIOUS
  <2>1. CASE i \in DOMAIN a /\ j \in DOMAIN a
    BY <1>1, <2>1, CatAt DEF Slirp!InOrder
  <2>2. ASSUME i \in DOMAIN a, NEW k \in DOMAIN b, j = Len(a) + k
        PROVE  Slirp!Earlier((a \o b)[i], (a \o b)[j])
    BY <1>1, <2>2, CatAt DEF Before
  <2>3. ASSUME NEW h \in DOMAIN b, i = Len(a) + h, j \in DOMAIN a
        PROVE  FALSE
    BY <1>1, <2>0, <2>3
  <2>4. ASSUME NEW h \in DOMAIN b, i = Len(a) + h, NEW k \in DOMAIN b, j = Len(a) + k
        PROVE  Slirp!Earlier((a \o b)[i], (a \o b)[j])
    <3>1. h < k
      BY <1>1, <2>0, <2>4
    <3> QED BY <1>1, <2>4, <3>1, CatAt DEF Slirp!InOrder
  <2> QED BY <2>1, <2>2, <2>3, <2>4, CatAt
<1>2. ASSUME NEW m \in Nat, UpTo(a, m), UpTo(b, m) PROVE UpTo(a \o b, m)
  BY <1>2, CatAt DEF UpTo
<1>3. ASSUME NEW c \in Seq(Packet), Before(a, c), Before(b, c) PROVE Before(a \o b, c)
  <2>1. ASSUME NEW i \in DOMAIN (a \o b), NEW j \in DOMAIN c
        PROVE  Slirp!Earlier((a \o b)[i], c[j])
    <3>1. CASE i \in DOMAIN a
      BY <1>3, <3>1, CatAt DEF Before
    <3>2. ASSUME NEW k \in DOMAIN b, i = Len(a) + k PROVE Slirp!Earlier((a \o b)[i], c[j])
      BY <1>3, <3>2, CatAt DEF Before
    <3> QED BY <3>1, <3>2, CatAt
  <2> QED BY <2>1 DEF Before
<1>4. ASSUME NEW c \in Seq(Packet), Before(c, a), Before(c, b) PROVE Before(c, a \o b)
  <2>1. ASSUME NEW i \in DOMAIN (a \o b), NEW j \in DOMAIN c
        PROVE  Slirp!Earlier(c[j], (a \o b)[i])
    <3>1. CASE i \in DOMAIN a
      BY <1>4, <3>1, CatAt DEF Before
    <3>2. ASSUME NEW k \in DOMAIN b, i = Len(a) + k PROVE Slirp!Earlier(c[j], (a \o b)[i])
      BY <1>4, <3>2, CatAt DEF Before
    <3> QED BY <3>1, <3>2, CatAt
  <2> QED BY <2>1 DEF Before
<1> QED BY <1>1, <1>2, <1>3, <1>4 DEF Slirp!InOrder

LEMMA OneOrder ==
  ASSUME NEW x \in Packet
  PROVE  /\ <<x>> \in Seq(Packet) /\ Len(<<x>>) = 1 /\ Slirp!InOrder(<<x>>)
         /\ \A m \in Nat : x.no <= m => UpTo(<<x>>, m)
         /\ \A c \in Seq(Packet), m \in Nat : UpTo(c, m) /\ m < x.no => Before(c, <<x>>)
PROOF
<1>1. <<x>> \in Seq(Packet) /\ Len(<<x>>) = 1 /\ DOMAIN <<x>> = {1} /\ <<x>>[1] = x
  OBVIOUS
<1>2. Slirp!InOrder(<<x>>)
  BY <1>1 DEF Slirp!InOrder
<1>3. ASSUME NEW c \in Seq(Packet), NEW m \in Nat, UpTo(c, m), m < x.no
      PROVE  Before(c, <<x>>)
  <2>1. \A i \in DOMAIN c : c[i] \in Packet
    OBVIOUS
  <2>2. ASSUME NEW i \in DOMAIN c PROVE Slirp!Earlier(c[i], x)
    <3>1. c[i].no \in Nat /\ c[i].no <= m /\ x.no \in Nat
      BY <1>3, <2>1 DEF UpTo, Packet
    <3> QED BY <1>3, <3>1 DEF Slirp!Earlier
  <2> QED BY <1>1, <2>2 DEF Before
<1> QED BY <1>1, <1>2, <1>3 DEF UpTo

LEMMA NoneOrder ==
  /\ <<>> \in Seq(Packet) /\ Len(<<>>) = 0 /\ Slirp!InOrder(<<>>)
  /\ \A c, m : UpTo(<<>>, m) /\ Before(<<>>, c) /\ Before(c, <<>>)
PROOF
<1>1. DOMAIN <<>> = {}
  OBVIOUS
<1> QED BY <1>1 DEF Slirp!InOrder, UpTo, Before

LEMMA RunIndex ==
  \A k \in Nat : \A from \in 1..(k + 1) : \A i \in 1..(k - from + 1) : from + i - 1 \in 1..k
OBVIOUS

\* A run of consecutive elements keeps the order.
LEMMA RunOrder ==
  ASSUME NEW a \in Seq(Packet), NEW from \in 1..(Len(a) + 1), NEW b \in Seq(Packet),
         Len(b) = Len(a) - from + 1,
         \A i \in DOMAIN b : b[i] = a[from + i - 1]
  PROVE  /\ Slirp!InOrder(a) => Slirp!InOrder(b)
         /\ \A m \in Nat : UpTo(a, m) => UpTo(b, m)
         /\ \A c \in Seq(Packet) : /\ Before(c, a) => Before(c, b)
                                   /\ Before(a, c) => Before(b, c)
PROOF
<1>1. DOMAIN b = 1..Len(b) /\ DOMAIN a = 1..Len(a) /\ Len(a) \in Nat
  OBVIOUS
<1>2. ASSUME NEW i \in DOMAIN b PROVE from + i - 1 \in DOMAIN a
  <2>1. PICK k \in Nat : k = Len(a)
    BY <1>1
  <2>2. i \in 1..(k - from + 1) /\ from \in 1..(k + 1)
    BY <1>1, <2>1
  <2>3. from + i - 1 \in 1..k
    BY <2>2, RunIndex
  <2> QED BY <1>1, <2>1, <2>3
<1>3. ASSUME Slirp!InOrder(a) PROVE Slirp!InOrder(b)
  <2>1. ASSUME NEW i \in DOMAIN b, NEW j \in DOMAIN b, i < j PROVE Slirp!Earlier(b[i], b[j])
    <3>1. from + i - 1 < from + j - 1
      BY <1>1, <2>1
    <3> QED BY <1>2, <1>3, <3>1 DEF Slirp!InOrder
  <2> QED BY <2>1 DEF Slirp!InOrder
<1>4. ASSUME NEW m \in Nat, UpTo(a, m) PROVE UpTo(b, m)
  BY <1>2, <1>4 DEF UpTo
<1>5. ASSUME NEW c \in Seq(Packet)
      PROVE  (Before(c, a) => Before(c, b)) /\ (Before(a, c) => Before(b, c))
  BY <1>2 DEF Before
<1> QED BY <1>3, <1>4, <1>5

LEMMA HeadTailOrder ==
  ASSUME NEW a \in Seq(Packet), a # <<>>
  PROVE  /\ Head(a) \in Packet /\ Tail(a) \in Seq(Packet) /\ Len(Tail(a)) = Len(a) - 1
         /\ Slirp!InOrder(a) => /\ Slirp!InOrder(Tail(a))
                                /\ Before(<<Head(a)>>, Tail(a))
         /\ \A m \in Nat : UpTo(a, m) => UpTo(Tail(a), m) /\ Head(a).no <= m
         /\ \A c \in Seq(Packet) :
              /\ Before(c, a) => Before(c, Tail(a)) /\ Before(c, <<Head(a)>>)
              /\ Before(a, c) => Before(Tail(a), c) /\ Before(<<Head(a)>>, c)
PROOF
<1>1. /\ Head(a) = a[1] /\ Tail(a) \in Seq(Packet) /\ Len(Tail(a)) = Len(a) - 1
      /\ \A i \in DOMAIN Tail(a) : Tail(a)[i] = a[2 + i - 1]
      /\ Len(a) \in Nat /\ Len(a) >= 1 /\ DOMAIN a = 1..Len(a)
      /\ DOMAIN Tail(a) = 1..(Len(a) - 1)
  OBVIOUS
<1>2. 1 \in DOMAIN a /\ a[1] \in Packet /\ 2 \in 1..(Len(a) + 1)
  BY <1>1
<1>3. Len(Tail(a)) = Len(a) - 2 + 1
  BY <1>1
<1>4. /\ Slirp!InOrder(a) => Slirp!InOrder(Tail(a))
      /\ \A m \in Nat : UpTo(a, m) => UpTo(Tail(a), m)
      /\ \A c \in Seq(Packet) : /\ Before(c, a) => Before(c, Tail(a))
                                /\ Before(a, c) => Before(Tail(a), c)
  BY <1>1, <1>2, <1>3, RunOrder
<1>5. DOMAIN <<Head(a)>> = {1} /\ <<Head(a)>>[1] = a[1]
  BY <1>1
<1>6. ASSUME Slirp!InOrder(a) PROVE Before(<<Head(a)>>, Tail(a))
  <2>1. ASSUME NEW i \in DOMAIN Tail(a) PROVE Slirp!Earlier(a[1], Tail(a)[i])
    <3>1. 2 + i - 1 \in DOMAIN a /\ 1 < 2 + i - 1
      BY <1>1
    <3> QED BY <1>1, <1>2, <1>6, <3>1 DEF Slirp!InOrder
  <2> QED BY <1>5, <2>1 DEF Before
<1>7. \A m \in Nat : UpTo(a, m) => Head(a).no <= m
  BY <1>1, <1>2 DEF UpTo
<1>8. \A c \in Seq(Packet) : /\ Before(c, a) => Before(c, <<Head(a)>>)
                             /\ Before(a, c) => Before(<<Head(a)>>, c)
  BY <1>2, <1>5 DEF Before
<1>9. Head(a) \in Packet
  BY <1>1, <1>2
<1>10. \A m \in Nat : UpTo(a, m) => UpTo(Tail(a), m) /\ Head(a).no <= m
  BY <1>4, <1>7
<1>11. \A c \in Seq(Packet) :
         /\ Before(c, a) => Before(c, Tail(a)) /\ Before(c, <<Head(a)>>)
         /\ Before(a, c) => Before(Tail(a), c) /\ Before(<<Head(a)>>, c)
  BY <1>4, <1>8
<1>12. Slirp!InOrder(a) => Slirp!InOrder(Tail(a)) /\ Before(<<Head(a)>>, Tail(a))
  BY <1>4, <1>6
<1> QED BY <1>1, <1>9, <1>10, <1>11, <1>12

\* What a step does to the guest's packets, whatever the backend ...
SendMove ==
  \/ /\ UNCHANGED <<sent, hand, txq, forwarded, unsent, ntx>>
     /\ drops'["full"] = drops["full"] /\ drops'["big"] = drops["big"]
  \/ /\ ntx' = ntx + 1 /\ txq' = Append(txq, Slirp!Sent(ntx + 1))
     /\ UNCHANGED <<sent, hand, forwarded, unsent, drops>>
  \/ /\ ntx' = ntx + 1
     /\ \E cause \in {"full", "big"} : drops' = [drops EXCEPT ![cause] = @ + 1]
     /\ UNCHANGED <<sent, hand, txq, forwarded, unsent>>
  \/ /\ ntx' = ntx + 1 /\ forwarded' = Append(forwarded, Slirp!Sent(ntx + 1))
     /\ UNCHANGED <<sent, hand, txq, unsent, drops>>
  \/ /\ ntx' = ntx + 1 /\ unsent' = Append(unsent, Slirp!Sent(ntx + 1))
     /\ UNCHANGED <<sent, hand, txq, forwarded, drops>>
  \/ /\ hand = <<>> /\ txq # <<>> /\ hand' = <<Head(txq)>> /\ txq' = Tail(txq)
     /\ UNCHANGED <<sent, forwarded, unsent, ntx, drops>>
  \/ /\ sent' = sent \o hand /\ hand' = <<>>
     /\ UNCHANGED <<txq, forwarded, unsent, ntx, drops>>

\* ... to the host's ...
ReceiveMove ==
  \/ /\ UNCHANGED <<delivered, inner, rxq, emuRx, workerRx, lost, dropped, oversized, nrx>>
     /\ drops'["rx"] = drops["rx"] /\ drops'["rxbig"] = drops["rxbig"]
  \/ /\ nrx' = nrx + 1 /\ emuRx = <<>>
     /\ emuRx' = <<[by |-> "emu", no |-> nrx + 1]>>
     /\ UNCHANGED <<delivered, inner, rxq, workerRx, lost, dropped, oversized, drops>>
  \/ /\ nrx' = nrx + 1 /\ workerRx = <<>>
     /\ workerRx' = <<[by |-> "worker", no |-> nrx + 1]>>
     /\ UNCHANGED <<delivered, inner, rxq, emuRx, lost, dropped, oversized, drops>>
  \/ /\ rxq' = rxq \o emuRx /\ emuRx' = <<>>
     /\ UNCHANGED <<delivered, inner, workerRx, lost, dropped, oversized, nrx, drops>>
  \/ /\ rxq' = rxq \o workerRx /\ workerRx' = <<>>
     /\ UNCHANGED <<delivered, inner, emuRx, lost, dropped, oversized, nrx, drops>>
  \/ /\ emuRx # <<>> /\ emuRx' = <<>>
     /\ \/ dropped' = dropped + 1 /\ UNCHANGED oversized
        \/ oversized' = oversized + 1 /\ UNCHANGED dropped
     /\ UNCHANGED <<delivered, inner, rxq, workerRx, lost, nrx, drops>>
  \/ /\ workerRx # <<>> /\ workerRx' = <<>>
     /\ \/ dropped' = dropped + 1 /\ UNCHANGED oversized
        \/ oversized' = oversized + 1 /\ UNCHANGED dropped
     /\ UNCHANGED <<delivered, inner, rxq, emuRx, lost, nrx, drops>>
  \/ /\ rxq' = <<>> /\ inner' = Slirp!Kept(inner \o rxq)
     /\ lost' = lost \o SubSeq(inner \o rxq, 1, Len(inner \o rxq) - Len(inner'))
     /\ UNCHANGED <<delivered, emuRx, workerRx, dropped, oversized, nrx, drops>>
  \/ /\ drops' = [drops EXCEPT !["rx"] = @ + dropped, !["rxbig"] = @ + oversized]
     /\ dropped' = 0 /\ oversized' = 0
     /\ UNCHANGED <<delivered, inner, rxq, emuRx, workerRx, lost, nrx>>
  \/ /\ inner # <<>> /\ delivered' = Append(delivered, Head(inner))
     /\ inner' = Tail(inner)
     /\ UNCHANGED <<rxq, emuRx, workerRx, lost, dropped, oversized, nrx, drops>>

\* ... and to the threads.
ThreadMove ==
  /\ emu' \in {"run", "report", "check", "callback", "deliver", "join", "gone"}
  /\ worker' \in {"top", "drain", "send", "poll", "callback", "peers", "wait", "done"}
  /\ WifiThreads'
  /\ \/ drops' = drops
     \/ \E cause \in {"full", "big"} : drops' = [drops EXCEPT ![cause] = @ + 1]
     \/ drops' = [drops EXCEPT !["rx"] = @ + dropped, !["rxbig"] = @ + oversized]

LEMMA WifiEmuMoves ==
  ASSUME WifiType, WifiThreads, WifiOrder,
         \/ part = "slirp" /\ (\/ Slirp!SendPacket \/ Slirp!SendOversize \/ Slirp!SendToPeer
                               \/ Slirp!RecvDrain \/ Slirp!RecvReport \/ Slirp!RecvCheck
                               \/ Slirp!RecvCallback \/ Slirp!RecvDeliver
                               \/ Slirp!Exit \/ Slirp!Join)
         \/ part = "pcap" /\ (\/ Pcap!SendPacket \/ Pcap!SendOversize \/ Pcap!SendToPeer
                              \/ Pcap!RecvDrain \/ Pcap!RecvReport \/ Pcap!RecvCheck
                              \/ Pcap!RecvCallback \/ Pcap!RecvDeliver
                              \/ Pcap!Exit \/ Pcap!Join),
         part' = part
  PROVE  SendMove /\ ReceiveMove /\ ThreadMove
PROOF
<1>0. \A x : <<x>> # <<>>
  OBVIOUS
<1>1. CASE \/ part = "slirp" /\ Slirp!SendPacket
           \/ part = "pcap" /\ Pcap!SendPacket
  BY <1>0, <1>1 DEF Slirp!SendPacket, Pcap!SendPacket, Slirp!rxVars, Pcap!rxVars,
              Slirp!Reported, Pcap!Reported, Slirp!Sent, Pcap!Sent, WifiType, WifiThreads,
              WifiOrder, RxHeld, SendMove, ReceiveMove, ThreadMove
<1>2. CASE \/ part = "slirp" /\ Slirp!SendOversize
           \/ part = "pcap" /\ Pcap!SendOversize
  BY <1>0, <1>2 DEF Slirp!SendOversize, Pcap!SendOversize, Slirp!rxVars, Pcap!rxVars,
              Slirp!Reported, Pcap!Reported, WifiType, WifiThreads, WifiOrder, RxHeld,
              SendMove, ReceiveMove, ThreadMove
<1>3. CASE \/ part = "slirp" /\ Slirp!SendToPeer
           \/ part = "pcap" /\ Pcap!SendToPeer
  BY <1>0, <1>3 DEF Slirp!SendToPeer, Pcap!SendToPeer, Slirp!rxVars, Pcap!rxVars,
              Slirp!Sent, Pcap!Sent, WifiType, WifiThreads, WifiOrder, RxHeld, SendMove,
              ReceiveMove, ThreadMove
<1>4. CASE \/ part = "slirp" /\ Slirp!RecvDrain
           \/ part = "pcap" /\ Pcap!RecvDrain
  BY <1>0, <1>4 DEF Slirp!RecvDrain, Pcap!RecvDrain, Slirp!txVars, Pcap!txVars, Slirp!Kept,
              Pcap!Kept, WifiType, WifiThreads, WifiOrder, RxHeld, SendMove, ReceiveMove,
              ThreadMove
<1>5. CASE \/ part = "slirp" /\ Slirp!RecvReport
           \/ part = "pcap" /\ Pcap!RecvReport
  BY <1>0, <1>5 DEF Slirp!RecvReport, Pcap!RecvReport, Slirp!txVars, Pcap!txVars, WifiType,
              WifiThreads, WifiOrder, RxHeld, SendMove, ReceiveMove, ThreadMove
<1>6. CASE \/ part = "slirp" /\ Slirp!RecvCheck
           \/ part = "pcap" /\ Pcap!RecvCheck
  BY <1>0, <1>6 DEF Slirp!RecvCheck, Pcap!RecvCheck, Slirp!txVars, Pcap!txVars,
              Slirp!recvVars, Pcap!recvVars, Slirp!Taken, Pcap!Taken, WifiType,
              WifiThreads, WifiOrder, RxHeld, SendMove, ReceiveMove, ThreadMove
<1>7. CASE \/ part = "slirp" /\ Slirp!RecvCallback
           \/ part = "pcap" /\ Pcap!RecvCallback
  BY <1>0, <1>7 DEF Slirp!RecvCallback, Pcap!RecvCallback, Slirp!txVars, Pcap!txVars,
              Slirp!recvVars, Pcap!recvVars, Slirp!Handed, Pcap!Handed, WifiType,
              WifiThreads, WifiOrder, RxHeld, SendMove, ReceiveMove, ThreadMove
<1>8. CASE \/ part = "slirp" /\ Slirp!RecvDeliver
           \/ part = "pcap" /\ Pcap!RecvDeliver
  BY <1>0, <1>8 DEF Slirp!RecvDeliver, Pcap!RecvDeliver, Slirp!txVars, Pcap!txVars,
              WifiType, WifiThreads, WifiOrder, RxHeld, SendMove, ReceiveMove, ThreadMove
<1>9. CASE \/ part = "slirp" /\ (Slirp!Exit \/ Slirp!Join)
           \/ part = "pcap" /\ (Pcap!Exit \/ Pcap!Join)
  BY <1>0, <1>9 DEF Slirp!Exit, Pcap!Exit, Slirp!Join, Pcap!Join, Slirp!rxVars,
              Pcap!rxVars, Slirp!txVars, Pcap!txVars, Slirp!JoinReturns, Pcap!JoinReturns,
              WifiType, WifiThreads, WifiOrder, RxHeld, SendMove, ReceiveMove, ThreadMove
<1> QED BY <1>1, <1>2, <1>3, <1>4, <1>5, <1>6, <1>7, <1>8, <1>9

LEMMA WifiWorkerMoves ==
  ASSUME WifiType, WifiThreads, WifiOrder,
         \/ part = "slirp" /\ Slirp!Worker
         \/ part = "pcap" /\ Pcap!Worker,
         part' = part
  PROVE  SendMove /\ ReceiveMove /\ ThreadMove
PROOF
<1>0. \A x : <<x>> # <<>>
  OBVIOUS
<1>1. CASE \/ part = "slirp" /\ Slirp!WorkerTop
           \/ part = "pcap" /\ Pcap!WorkerTop
  BY <1>0, <1>1 DEF Slirp!WorkerTop, Pcap!WorkerTop, Slirp!rxVars, Pcap!rxVars,
              Slirp!txVars, Pcap!txVars, WifiType, WifiThreads, WifiOrder, RxHeld,
              SendMove, ReceiveMove, ThreadMove
<1>2. CASE \/ part = "slirp" /\ Slirp!WorkerPop
           \/ part = "pcap" /\ Pcap!WorkerPop
  BY <1>0, <1>2 DEF Slirp!WorkerPop, Pcap!WorkerPop, Slirp!rxVars, Pcap!rxVars, WifiType,
              WifiThreads, WifiOrder, RxHeld, SendMove, ReceiveMove, ThreadMove
<1>3. CASE \/ part = "slirp" /\ Slirp!WorkerSend
           \/ part = "pcap" /\ Pcap!WorkerSend
  BY <1>0, <1>3 DEF Slirp!WorkerSend, Pcap!WorkerSend, Slirp!rxVars, Pcap!rxVars, WifiType,
              WifiThreads, WifiOrder, RxHeld, SendMove, ReceiveMove, ThreadMove
<1>4. CASE \/ part = "slirp" /\ Slirp!WorkerTake
           \/ part = "pcap" /\ Pcap!WorkerTake
  BY <1>0, <1>4 DEF Slirp!WorkerTake, Pcap!WorkerTake, Slirp!emuVars, Pcap!emuVars,
              Slirp!Taken, Pcap!Taken, WifiType, WifiThreads, WifiOrder, RxHeld, SendMove,
              ReceiveMove, ThreadMove
<1>5. CASE \/ part = "slirp" /\ Slirp!WorkerCallback
           \/ part = "pcap" /\ Pcap!WorkerCallback
  BY <1>0, <1>5 DEF Slirp!WorkerCallback, Pcap!WorkerCallback, Slirp!emuVars, Pcap!emuVars,
              Slirp!Handed, Pcap!Handed, WifiType, WifiThreads, WifiOrder, RxHeld,
              SendMove, ReceiveMove, ThreadMove
<1>6. CASE \/ part = "slirp" /\ Slirp!WorkerPoll
           \/ part = "pcap" /\ Pcap!WorkerPoll
  BY <1>0, <1>6 DEF Slirp!WorkerPoll, Pcap!WorkerPoll, Slirp!rxVars, Pcap!rxVars,
              Slirp!txVars, Pcap!txVars, WifiType, WifiThreads, WifiOrder, RxHeld,
              SendMove, ReceiveMove, ThreadMove
<1>7. CASE \/ part = "slirp" /\ Slirp!WorkerPeers
           \/ part = "pcap" /\ Pcap!WorkerPeers
  BY <1>0, <1>7 DEF Slirp!WorkerPeers, Pcap!WorkerPeers, Slirp!rxVars, Pcap!rxVars,
              Slirp!txVars, Pcap!txVars, WifiType, WifiThreads, WifiOrder, RxHeld,
              SendMove, ReceiveMove, ThreadMove
<1>8. CASE \/ part = "slirp" /\ Slirp!WorkerWait
           \/ part = "pcap" /\ Pcap!WorkerWait
  BY <1>0, <1>8 DEF Slirp!WorkerWait, Pcap!WorkerWait, Slirp!rxVars, Pcap!rxVars,
              Slirp!txVars, Pcap!txVars, WifiType, WifiThreads, WifiOrder, RxHeld,
              SendMove, ReceiveMove, ThreadMove
<1> QED BY <1>1, <1>2, <1>3, <1>4, <1>5, <1>6, <1>7, <1>8 DEF Slirp!Worker, Pcap!Worker

LEMMA DropsType ==
  ASSUME WifiType
  PROVE  /\ drops["full"] \in Nat /\ drops["big"] \in Nat /\ drops["rx"] \in Nat /\ drops["rxbig"] \in Nat
         /\ \A cause \in {"full", "big", "rx", "rxbig"}, k \in Nat :
              LET after == [drops EXCEPT ![cause] = @ + k]
              IN  /\ after \in [{"full", "big", "rx", "rxbig"} -> Nat]
                  /\ after[cause] = drops[cause] + k
                  /\ \A other \in {"full", "big", "rx", "rxbig"} \ {cause} :
                       after[other] = drops[other]
PROOF
<1>1. drops \in [{"full", "big", "rx", "rxbig"} -> Nat]
  BY DEF WifiType
<1>2. drops["full"] \in Nat /\ drops["big"] \in Nat /\ drops["rx"] \in Nat /\ drops["rxbig"] \in Nat
  BY <1>1
<1>3. ASSUME NEW cause \in {"full", "big", "rx", "rxbig"}, NEW k \in Nat
      PROVE  LET after == [drops EXCEPT ![cause] = @ + k]
             IN  /\ after \in [{"full", "big", "rx", "rxbig"} -> Nat]
                 /\ after[cause] = drops[cause] + k
                 /\ \A other \in {"full", "big", "rx", "rxbig"} \ {cause} :
                      after[other] = drops[other]
  <2>1. PICK m \in Nat : m = drops[cause] + k
    BY <1>1
  <2>2. [drops EXCEPT ![cause] = @ + k] = [drops EXCEPT ![cause] = m]
    BY <2>1
  <2> QED BY <1>1, <2>1, <2>2
<1> QED BY <1>2, <1>3

LEMMA UpToMore ==
  ASSUME NEW a \in Seq(Packet), NEW m \in Nat, UpTo(a, m)
  PROVE  UpTo(a, m + 1)
PROOF
<1>0. \A i \in DOMAIN a : a[i] \in Packet
  OBVIOUS
<1>1. \A i \in DOMAIN a : a[i].no \in Nat
  BY <1>0 DEF Packet
<1> QED BY <1>1 DEF UpTo

\* A frame numbered above everything in a queue goes to its end.
LEMMA AppendOrder ==
  ASSUME NEW a \in Seq(Packet), NEW m \in Nat, UpTo(a, m),
         NEW x \in Packet, x.no = m + 1
  PROVE  /\ Append(a, x) \in Seq(Packet) /\ Len(Append(a, x)) = Len(a) + 1
         /\ UpTo(Append(a, x), m + 1) /\ UpTo(a, m + 1)
         /\ Slirp!InOrder(a) => Slirp!InOrder(Append(a, x))
         /\ \A c \in Seq(Packet) : Before(c, a) /\ UpTo(c, m) => Before(c, Append(a, x))
PROOF
<1>1. m < x.no /\ x.no <= m + 1 /\ m + 1 \in Nat
  OBVIOUS
<1>2. Append(a, x) = a \o <<x>> /\ Len(Append(a, x)) = Len(a) + 1 /\ Append(a, x) \in Seq(Packet)
  OBVIOUS
<1>3. UpTo(a, m + 1)
  BY UpToMore
<1>4. UpTo(Append(a, x), m + 1)
  <2>1. UpTo(<<x>>, m + 1) /\ <<x>> \in Seq(Packet)
    BY <1>1, OneOrder
  <2> QED BY <1>1, <1>2, <1>3, <2>1, CatOrder
<1>5. Before(a, <<x>>)
  BY <1>1, OneOrder
<1>6. Slirp!InOrder(a) => Slirp!InOrder(Append(a, x))
  BY <1>2, <1>5, OneOrder, CatOrder
<1>7. ASSUME NEW c \in Seq(Packet), Before(c, a), UpTo(c, m) PROVE Before(c, Append(a, x))
  <2>1. Before(c, <<x>>)
    BY <1>1, <1>7, OneOrder
  <2> QED BY <1>2, <1>7, <2>1, OneOrder, CatOrder
<1> QED BY <1>2, <1>3, <1>4, <1>6, <1>7

SendType == /\ txq \in Seq(Packet) /\ hand \in Seq(Packet) /\ sent \in Seq(Packet)
            /\ forwarded \in Seq(Packet) /\ unsent \in Seq(Packet) /\ ntx \in Nat

LEMMA ReportType ==
  ASSUME WifiType, drops' = [drops EXCEPT !["rx"] = @ + dropped, !["rxbig"] = @ + oversized]
  PROVE  /\ drops' \in [{"full", "big", "rx", "rxbig"} -> Nat]
         /\ drops'["rx"] = drops["rx"] + dropped
         /\ drops'["rxbig"] = drops["rxbig"] + oversized
PROOF
<1>1. drops \in [{"full", "big", "rx", "rxbig"} -> Nat] /\ dropped \in Nat /\ oversized \in Nat
  BY DEF WifiType
<1>2. PICK j \in Nat, k \in Nat : j = drops["rx"] + dropped /\ k = drops["rxbig"] + oversized
  BY <1>1
<1>3. drops' = [drops EXCEPT !["rx"] = j, !["rxbig"] = k]
  BY <1>2
<1> QED BY <1>1, <1>2, <1>3

LEMMA SendsKept ==
  ASSUME WifiType, WifiSends, SendMove
  PROVE  SendType' /\ WifiSends'
PROOF
<1> DEFINE full == drops["full"]
           big  == drops["big"]
<1>1. SendType /\ full \in Nat /\ big \in Nat
  BY DropsType DEF WifiType, SendType
<1>2. /\ Len(sent) \in Nat /\ Len(hand) \in Nat /\ Len(txq) \in Nat
      /\ Len(forwarded) \in Nat /\ Len(unsent) \in Nat
  BY <1>1 DEF SendType
<1>0. Len(sent) + Len(hand) + Len(txq) + Len(forwarded) + Len(unsent) + full + big = ntx /\ ntx \in Nat
  BY <1>1 DEF SendType, WifiSends
<1>3. UpTo(sent, ntx + 1) /\ UpTo(hand, ntx + 1) /\ UpTo(txq, ntx + 1) /\ UpTo(forwarded, ntx + 1)
  BY <1>1, UpToMore DEF SendType, WifiSends
<1>10. Slirp!Sent(ntx + 1) \in Packet /\ Slirp!Sent(ntx + 1).no = ntx + 1
  BY <1>1 DEF Slirp!Sent, Packet, SendType
<1>4. CASE /\ UNCHANGED <<sent, hand, txq, forwarded, unsent, ntx>>
           /\ full' = full /\ big' = big
  BY <1>1, <1>4 DEF SendType, WifiSends
<1>5. CASE /\ ntx' = ntx + 1 /\ txq' = Append(txq, Slirp!Sent(ntx + 1))
           /\ UNCHANGED <<sent, hand, forwarded, unsent, drops>>
  <2>1. /\ txq' \in Seq(Packet) /\ Len(txq') = Len(txq) + 1 /\ UpTo(txq', ntx + 1)
        /\ Slirp!InOrder(txq') /\ Before(sent, txq') /\ Before(hand, txq')
    BY <1>1, <1>5, <1>10, AppendOrder DEF SendType, WifiSends
  <2>2. SendType'
    BY <1>1, <1>5, <2>1 DEF SendType
  <2>3. Len(sent) + Len(hand) + Len(txq') + Len(forwarded) + Len(unsent) + full + big = ntx + 1
    <3>1. PICK k \in Nat : k = Len(txq')
      BY <2>1
    <3>0. k = Len(txq) + 1
      BY <2>1, <3>1
    <3> HIDE DEF full, big
    <3>2. Len(sent) + Len(hand) + k + Len(forwarded) + Len(unsent) + full + big = ntx + 1
      BY <1>0, <1>1, <1>2, <3>0
    <3> QED BY <3>1, <3>2
  <2> QED BY <1>3, <1>5, <2>1, <2>2, <2>3 DEF WifiSends
<1>6. ASSUME NEW cause \in {"full", "big"}, ntx' = ntx + 1,
             drops' = [drops EXCEPT ![cause] = @ + 1],
             UNCHANGED <<sent, hand, txq, forwarded, unsent>>
      PROVE  SendType' /\ WifiSends'
  <2>1. full' + big' = full + big + 1
    BY <1>1, <1>6, DropsType
  <2>2. full' \in Nat /\ big' \in Nat
    BY <1>1, <1>6, DropsType
  <2>3. Len(sent) + Len(hand) + Len(txq) + Len(forwarded) + Len(unsent) + full' + big' = ntx + 1
    <3>1. PICK k \in Nat, m \in Nat : k = full' /\ m = big'
      BY <2>2
    <3>2. k + m = full + big + 1
      BY <2>1, <3>1
    <3> HIDE DEF full, big
    <3>3. Len(sent) + Len(hand) + Len(txq) + Len(forwarded) + Len(unsent) + k + m = ntx + 1
      BY <1>0, <1>1, <1>2, <3>2
    <3> QED BY <3>1, <3>3
  <2> QED BY <1>1, <1>3, <1>6, <2>3 DEF SendType, WifiSends
<1>7. CASE /\ ntx' = ntx + 1 /\ forwarded' = Append(forwarded, Slirp!Sent(ntx + 1))
           /\ UNCHANGED <<sent, hand, txq, unsent, drops>>
  <2>1. /\ forwarded' \in Seq(Packet) /\ Len(forwarded') = Len(forwarded) + 1
        /\ UpTo(forwarded', ntx + 1) /\ Slirp!InOrder(forwarded')
    BY <1>1, <1>7, <1>10, AppendOrder DEF SendType, WifiSends
  <2>2. Len(sent) + Len(hand) + Len(txq) + Len(forwarded') + Len(unsent) + full + big = ntx + 1
    <3>1. PICK k \in Nat : k = Len(forwarded')
      BY <2>1
    <3>0. k = Len(forwarded) + 1
      BY <2>1, <3>1
    <3> HIDE DEF full, big
    <3>2. Len(sent) + Len(hand) + Len(txq) + k + Len(unsent) + full + big = ntx + 1
      BY <1>0, <1>1, <1>2, <3>0
    <3> QED BY <3>1, <3>2
  <2> QED BY <1>1, <1>3, <1>7, <2>1, <2>2 DEF SendType, WifiSends
<1>8. CASE /\ hand = <<>> /\ txq # <<>> /\ hand' = <<Head(txq)>> /\ txq' = Tail(txq)
           /\ UNCHANGED <<sent, forwarded, unsent, ntx, drops>>
  <2>1. /\ hand' \in Seq(Packet) /\ Len(hand') = 1 /\ Slirp!InOrder(hand')
        /\ UpTo(hand', ntx) /\ Before(sent, hand') /\ Before(hand', txq')
    BY <1>1, <1>8, HeadTailOrder, OneOrder DEF SendType, WifiSends
  <2>2. /\ txq' \in Seq(Packet) /\ Len(txq') = Len(txq) - 1 /\ Slirp!InOrder(txq')
        /\ UpTo(txq', ntx) /\ Before(sent, txq')
    BY <1>1, <1>8, HeadTailOrder DEF SendType, WifiSends
  <2>3. Len(sent) + Len(hand') + Len(txq') + Len(forwarded) + Len(unsent) + full + big = ntx
    BY <1>1, <1>2, <1>8, <2>1, <2>2, NoneOrder DEF SendType, WifiSends
  <2> QED BY <1>1, <1>8, <2>1, <2>2, <2>3 DEF SendType, WifiSends
<1>9. CASE /\ sent' = sent \o hand /\ hand' = <<>>
           /\ UNCHANGED <<txq, forwarded, unsent, ntx, drops>>
  <2>1. /\ sent' \in Seq(Packet) /\ Len(sent') = Len(sent) + Len(hand)
        /\ Slirp!InOrder(sent') /\ UpTo(sent', ntx) /\ Before(sent', txq)
    BY <1>1, <1>9, CatAt, CatOrder DEF SendType, WifiSends
  <2>2. Len(sent') + Len(hand') + Len(txq) + Len(forwarded) + Len(unsent) + full + big = ntx
    BY <1>1, <1>2, <1>9, <2>1, NoneOrder DEF SendType, WifiSends
  <2> QED BY <1>1, <1>9, <2>1, <2>2, NoneOrder DEF SendType, WifiSends
<1>11. CASE /\ ntx' = ntx + 1 /\ unsent' = Append(unsent, Slirp!Sent(ntx + 1))
            /\ UNCHANGED <<sent, hand, txq, forwarded, drops>>
  <2>1. unsent' \in Seq(Packet) /\ Len(unsent') = Len(unsent) + 1
    <3>1. PICK x \in Packet : x = Slirp!Sent(ntx + 1)
      BY <1>10
    <3> QED BY <1>1, <1>11, <3>1 DEF SendType
  <2>2. Len(sent) + Len(hand) + Len(txq) + Len(forwarded) + Len(unsent') + full + big = ntx + 1
    <3>1. PICK k \in Nat : k = Len(unsent')
      BY <2>1
    <3>0. k = Len(unsent) + 1
      BY <2>1, <3>1
    <3> HIDE DEF full, big
    <3>2. Len(sent) + Len(hand) + Len(txq) + Len(forwarded) + k + full + big = ntx + 1
      BY <1>0, <1>1, <1>2, <3>0
    <3> QED BY <3>1, <3>2
  <2> QED BY <1>1, <1>3, <1>11, <2>1, <2>2 DEF SendType, WifiSends
<1> QED BY <1>4, <1>5, <1>6, <1>7, <1>8, <1>9, <1>11 DEF SendMove

ReceiveType == /\ delivered \in Seq(Packet) /\ inner \in Seq(Packet) /\ rxq \in Seq(Packet)
               /\ emuRx \in Seq(Packet) /\ workerRx \in Seq(Packet) /\ lost \in Seq(Packet)
               /\ nrx \in Nat /\ dropped \in Nat /\ oversized \in Nat

\* What the dispatcher keeps is the newest packets, in order; the rest is lost.
LEMMA KeptOrder ==
  ASSUME NEW a \in Seq(Packet)
  PROVE  LET b == Slirp!Kept(a)
             gone == SubSeq(a, 1, Len(a) - Len(b))
         IN  /\ b \in Seq(Packet) /\ gone \in Seq(Packet)
             /\ Len(b) + Len(gone) = Len(a)
             /\ Slirp!InOrder(a) => Slirp!InOrder(b)
             /\ \A m \in Nat : UpTo(a, m) => UpTo(b, m)
             /\ \A c \in Seq(Packet) : /\ Before(c, a) => Before(c, b)
                                       /\ Before(a, c) => Before(b, c)
PROOF
<1> DEFINE b == Slirp!Kept(a)
           gone == SubSeq(a, 1, Len(a) - Len(b))
<1>1. InnerCapacity \in Nat /\ Len(a) \in Nat
  BY ThreadsAssumption
<1>2. CASE Len(a) <= InnerCapacity
  <2>1. b = a
    BY <1>2 DEF Slirp!Kept
  <2>2. gone \in Seq(Packet) /\ Len(gone) = 0
    BY <1>1, <2>1
  <2> QED BY <1>1, <2>1, <2>2
<1>3. CASE ~(Len(a) <= InnerCapacity)
  <2>1. PICK from \in 1..(Len(a) + 1) : from = Len(a) - InnerCapacity + 1
    <3>1. PICK k \in Nat : k = Len(a)
      BY <1>1
    <3>2. k - InnerCapacity + 1 \in 1..(k + 1)
      BY <1>1, <1>3, <3>1
    <3> QED BY <3>1, <3>2
  <2>2. b = SubSeq(a, from, Len(a))
    BY <1>3, <2>1 DEF Slirp!Kept
  <2>3. /\ b \in Seq(Packet) /\ Len(b) = Len(a) - from + 1
        /\ \A i \in DOMAIN b : b[i] = a[from + i - 1]
    BY <1>1, <2>2
  <2>4. Len(a) - Len(b) = from - 1 /\ from - 1 \in 0..Len(a)
    BY <1>1, <2>3
  <2>5. PICK k \in 0..Len(a) : k = from - 1
    BY <2>4
  <2>6. SubSeq(a, 1, k) \in Seq(Packet) /\ Len(SubSeq(a, 1, k)) = k
    BY <1>1
  <2>7. gone \in Seq(Packet) /\ Len(b) + Len(gone) = Len(a)
    <3>1. gone = SubSeq(a, 1, k)
      BY <2>4, <2>5
    <3>2. Len(b) + k = Len(a)
      BY <1>1, <2>3, <2>5
    <3> QED BY <2>6, <3>1, <3>2
  <2> HIDE DEF b, gone
  <2>8. /\ Slirp!InOrder(a) => Slirp!InOrder(b)
        /\ \A m \in Nat : UpTo(a, m) => UpTo(b, m)
        /\ \A c \in Seq(Packet) : /\ Before(c, a) => Before(c, b)
                                  /\ Before(a, c) => Before(b, c)
    BY <2>3, RunOrder
  <2> QED BY <2>3, <2>7, <2>8 DEF b, gone
<1> QED BY <1>2, <1>3

\* A new frame is in order behind everything, and apart from what the other
\* thread's callback holds.
LEMMA TakeLaw ==
  ASSUME NEW d \in Seq(Packet), NEW i \in Seq(Packet), NEW q \in Seq(Packet),
         NEW o \in Seq(Packet), NEW m \in Nat,
         NEW x \in Packet, x.no = m + 1, NEW thread, x.by # thread,
         RxRun(d, i, q, m), RxHeld(d, i, q, o, m), RxBy(o, thread)
  PROVE  /\ RxRun(d, i, q, m + 1) /\ RxHeld(d, i, q, o, m + 1)
         /\ RxHeld(d, i, q, <<x>>, m + 1)
         /\ RxApart(<<x>>, o) /\ RxBy(<<x>>, x.by)
         /\ <<x>> \in Seq(Packet) /\ Len(<<x>>) = 1
PROOF
<1>1. /\ UpTo(d, m) /\ UpTo(i, m) /\ UpTo(q, m) /\ UpTo(o, m)
      /\ UpTo(d, m + 1) /\ UpTo(i, m + 1) /\ UpTo(q, m + 1) /\ UpTo(o, m + 1)
  BY UpToMore DEF RxRun, RxHeld
<1>2. m < x.no /\ x.no <= m + 1 /\ m + 1 \in Nat
  OBVIOUS
<1>3. /\ <<x>> \in Seq(Packet) /\ Len(<<x>>) = 1 /\ Slirp!InOrder(<<x>>) /\ UpTo(<<x>>, m + 1)
      /\ Before(d, <<x>>) /\ Before(i, <<x>>) /\ Before(q, <<x>>) /\ Before(o, <<x>>)
  BY <1>1, <1>2, OneOrder
<1>4. DOMAIN <<x>> = {1} /\ <<x>>[1] = x
  OBVIOUS
<1>5. Before(<<x>>, o)
  <2>1. ASSUME NEW k \in DOMAIN o PROVE Slirp!Earlier(x, o[k])
    <3>1. o[k] \in Packet /\ o[k].by = thread /\ o[k].no <= m
      BY <1>1 DEF RxBy, UpTo
    <3> QED BY <1>2, <3>1 DEF Slirp!Earlier, Packet
  <2> QED BY <1>4, <2>1 DEF Before
<1>6. RxBy(<<x>>, x.by)
  BY <1>4 DEF RxBy
<1>7. RxRun(d, i, q, m + 1) /\ RxHeld(d, i, q, o, m + 1)
  BY <1>1 DEF RxRun, RxHeld
<1>8. RxHeld(d, i, q, <<x>>, m + 1)
  BY <1>3 DEF RxHeld
<1> QED BY <1>3, <1>5, <1>6, <1>7, <1>8 DEF RxApart

\* Queueing what a callback holds keeps it all in order.
LEMMA QueueLaw ==
  ASSUME NEW d \in Seq(Packet), NEW i \in Seq(Packet), NEW q \in Seq(Packet),
         NEW h \in Seq(Packet), NEW o \in Seq(Packet), NEW m \in Nat,
         RxRun(d, i, q, m), RxHeld(d, i, q, h, m), RxHeld(d, i, q, o, m), RxApart(h, o)
  PROVE  /\ RxRun(d, i, q \o h, m) /\ RxHeld(d, i, q \o h, o, m)
         /\ q \o h \in Seq(Packet) /\ Len(q \o h) = Len(q) + Len(h)
PROOF
<1>1. /\ Slirp!InOrder(q) /\ Slirp!InOrder(h) /\ Before(q, h) /\ Before(d, q) /\ Before(d, h)
      /\ Before(i, q) /\ Before(i, h) /\ UpTo(q, m) /\ UpTo(h, m)
      /\ Before(q, o) /\ Before(h, o)
  BY DEF RxRun, RxHeld, RxApart
<1>2. /\ Slirp!InOrder(q \o h) /\ Before(d, q \o h) /\ Before(i, q \o h) /\ UpTo(q \o h, m)
      /\ Before(q \o h, o)
  BY <1>1, CatOrder
<1>3. q \o h \in Seq(Packet) /\ Len(q \o h) = Len(q) + Len(h)
  BY CatAt
<1> HIDE DEF RxApart
<1>4. RxRun(d, i, q \o h, m)
  BY <1>2 DEF RxRun
<1>5. RxHeld(d, i, q \o h, o, m)
  BY <1>2 DEF RxHeld
<1> QED BY <1>3, <1>4, <1>5

\* An empty hand is in order with everything.
LEMMA EmptyLaw ==
  ASSUME NEW d, NEW i, NEW q, NEW o, NEW m
  PROVE  RxHeld(d, i, q, <<>>, m) /\ RxApart(<<>>, o) /\ RxApart(o, <<>>)
         /\ \A thread : RxBy(<<>>, thread)
PROOF
<1>1. DOMAIN <<>> = {} /\ Len(<<>>) <= 1
  OBVIOUS
<1> QED BY <1>1, NoneOrder DEF RxHeld, RxApart, RxBy

\* So is what the dispatcher keeps of the queue ...
LEMMA DrainLaw ==
  ASSUME NEW d \in Seq(Packet), NEW i \in Seq(Packet), NEW q \in Seq(Packet),
         NEW m \in Nat, RxRun(d, i, q, m),
         NEW b \in Seq(Packet), b = Slirp!Kept(i \o q)
  PROVE  /\ RxRun(d, b, <<>>, m)
         /\ \A h \in Seq(Packet) : RxHeld(d, i, q, h, m) => RxHeld(d, b, <<>>, h, m)
PROOF
<1>1. PICK a \in Seq(Packet) : a = i \o q
  BY CatAt
<1>2. Slirp!InOrder(a) /\ Before(d, a) /\ UpTo(a, m)
  BY <1>1, CatOrder DEF RxRun
<1>3. /\ Slirp!InOrder(b) /\ Before(d, b) /\ UpTo(b, m)
      /\ \A c \in Seq(Packet) : Before(a, c) => Before(b, c)
  BY <1>1, <1>2, KeptOrder
<1>4. RxRun(d, b, <<>>, m)
  BY <1>3, NoneOrder DEF RxRun
<1>5. ASSUME NEW h \in Seq(Packet), RxHeld(d, i, q, h, m)
      PROVE  RxHeld(d, b, <<>>, h, m)
  <2>1. Before(a, h)
    BY <1>1, <1>5, CatOrder DEF RxHeld
  <2> QED BY <1>3, <1>5, <2>1, NoneOrder DEF RxHeld
<1> QED BY <1>4, <1>5

\* ... and the delivery of its oldest packet.
LEMMA DeliverLaw ==
  ASSUME NEW d \in Seq(Packet), NEW i \in Seq(Packet), NEW q \in Seq(Packet),
         NEW m \in Nat, RxRun(d, i, q, m), i # <<>>
  PROVE  /\ RxRun(Append(d, Head(i)), Tail(i), q, m)
         /\ \A h \in Seq(Packet) :
              RxHeld(d, i, q, h, m) => RxHeld(Append(d, Head(i)), Tail(i), q, h, m)
         /\ Append(d, Head(i)) \in Seq(Packet) /\ Len(Append(d, Head(i))) = Len(d) + 1
         /\ Tail(i) \in Seq(Packet) /\ Len(Tail(i)) = Len(i) - 1
PROOF
<1>1. PICK x \in Packet : x = Head(i)
  BY HeadTailOrder
<1>2. PICK e \in Seq(Packet) : e = d \o <<x>>
  BY OneOrder, CatAt
<1>3. Append(d, x) = e /\ Len(e) = Len(d) + 1
  BY <1>2, OneOrder, CatAt
<1>4. PICK t \in Seq(Packet) : t = Tail(i)
  BY HeadTailOrder
<1>5. /\ <<x>> \in Seq(Packet) /\ Slirp!InOrder(<<x>>) /\ UpTo(<<x>>, m)
      /\ Before(d, <<x>>) /\ Before(<<x>>, t) /\ Before(<<x>>, q)
  BY <1>1, <1>4, HeadTailOrder, OneOrder DEF RxRun
<1>6. /\ Slirp!InOrder(t) /\ UpTo(t, m) /\ Before(d, t) /\ Before(t, q)
      /\ Len(t) = Len(i) - 1
  BY <1>4, HeadTailOrder DEF RxRun
<1>7. /\ Slirp!InOrder(e) /\ UpTo(e, m) /\ Before(e, t) /\ Before(e, q)
  BY <1>2, <1>5, <1>6, CatOrder DEF RxRun
<1>8. RxRun(e, t, q, m)
  BY <1>6, <1>7 DEF RxRun
<1>9. ASSUME NEW h \in Seq(Packet), RxHeld(d, i, q, h, m)
      PROVE  RxHeld(e, t, q, h, m)
  <2>1. Before(<<x>>, h) /\ Before(t, h)
    BY <1>1, <1>4, <1>9, HeadTailOrder DEF RxHeld
  <2>2. Before(e, h)
    BY <1>2, <1>5, <1>9, <2>1, CatOrder DEF RxHeld
  <2> QED BY <1>9, <2>1, <2>2 DEF RxHeld
<1> QED BY <1>1, <1>3, <1>4, <1>6, <1>8, <1>9

LEMMA ReceivesKept ==
  ASSUME WifiType, WifiReceives, ReceiveMove
  PROVE  ReceiveType' /\ WifiReceives'
PROOF
<1> DEFINE rx == drops["rx"]
           big == drops["rxbig"]
<1>1. ReceiveType /\ WifiOrder /\ rx \in Nat /\ big \in Nat
  BY DropsType DEF WifiType, ReceiveType, WifiReceives
<1>2. /\ Len(delivered) \in Nat /\ Len(inner) \in Nat /\ Len(rxq) \in Nat
      /\ Len(emuRx) \in Nat /\ Len(workerRx) \in Nat /\ Len(lost) \in Nat
  BY <1>1 DEF ReceiveType
<1>0. /\ Len(delivered) + Len(inner) + Len(rxq) + Len(emuRx) + Len(workerRx) + Len(lost)
           + dropped + oversized + rx + big = nrx
      /\ nrx \in Nat /\ dropped \in Nat /\ oversized \in Nat
  BY <1>1 DEF ReceiveType, WifiReceives, WifiCount
<1>12. drops["rx"] \in Nat /\ drops["rxbig"] \in Nat
  BY <1>1
<1>13. PICK dl \in Nat, ins \in Nat, qd \in Nat, eh \in Nat, wh \in Nat, lt \in Nat,
            dr \in Nat, ov \in Nat, rr \in Nat, rb \in Nat :
         /\ dl = Len(delivered) /\ ins = Len(inner) /\ qd = Len(rxq) /\ eh = Len(emuRx)
         /\ wh = Len(workerRx) /\ lt = Len(lost) /\ dr = dropped /\ ov = oversized
         /\ rr = drops["rx"] /\ rb = drops["rxbig"]
  BY <1>0, <1>2, <1>12
<1>14. dl + ins + qd + eh + wh + lt + dr + ov + rr + rb = nrx /\ nrx \in Nat
  BY <1>0, <1>13
<1>15. /\ dl \in Nat /\ ins \in Nat /\ qd \in Nat /\ eh \in Nat /\ wh \in Nat
       /\ lt \in Nat /\ dr \in Nat /\ ov \in Nat /\ rr \in Nat /\ rb \in Nat
  OBVIOUS
<1>3. CASE /\ UNCHANGED <<delivered, inner, rxq, emuRx, workerRx, lost, dropped, oversized, nrx>>
           /\ rx' = rx /\ big' = big
  BY <1>1, <1>3 DEF ReceiveType, WifiReceives, WifiOrder, WifiCount
<1>4. CASE /\ nrx' = nrx + 1 /\ emuRx = <<>>
           /\ emuRx' = <<[by |-> "emu", no |-> nrx + 1]>>
           /\ UNCHANGED <<delivered, inner, rxq, workerRx, lost, dropped, oversized, drops>>
  <2>0. PICK k \in Nat : k = nrx + 1
    BY <1>0
  <2>1. PICK x \in Packet : x = [by |-> "emu", no |-> nrx + 1]
    <3>1. [by |-> "emu", no |-> k] \in Packet
      BY DEF Packet
    <3> QED BY <2>0, <3>1
  <2>2. x.no = nrx + 1 /\ x.by = "emu" /\ x.by # "worker" /\ emuRx' = <<x>>
    BY <1>4, <2>1
  <2>3. /\ RxRun(delivered, inner, rxq, nrx + 1) /\ RxHeld(delivered, inner, rxq, workerRx, nrx + 1)
        /\ RxHeld(delivered, inner, rxq, <<x>>, nrx + 1)
        /\ RxApart(<<x>>, workerRx) /\ RxBy(<<x>>, x.by)
        /\ <<x>> \in Seq(Packet) /\ Len(<<x>>) = 1
    BY <1>1, <2>2, TakeLaw DEF ReceiveType, WifiOrder
  <2>4. WifiOrder'
    BY <1>1, <1>4, <2>2, <2>3 DEF WifiOrder
  <2>5. Len(emuRx) = 0 /\ Len(emuRx') = 1
    BY <1>4, <2>2, <2>3, NoneOrder
  <2>8. /\ UNCHANGED <<delivered, inner, rxq, workerRx, lost, dropped, oversized, drops>>
        /\ nrx' = nrx + 1
    BY <1>0, <1>4
  <2>6. WifiCount'
    <3>3. eh = 0
      BY <1>13, <2>5
    <3>1. dl + ins + qd + 1 + wh + lt + dr + ov + rr + rb = nrx + 1
      BY <1>14, <1>15, <3>3
    <3>2. /\ Len(delivered') = dl /\ Len(inner') = ins /\ Len(rxq') = qd /\ Len(emuRx') = 1
          /\ Len(workerRx') = wh /\ Len(lost') = lt /\ dropped' = dr /\ oversized' = ov
          /\ drops'["rx"] = rr /\ drops'["rxbig"] = rb /\ nrx' = nrx + 1
      BY <1>13, <2>8, <2>5
    <3> QED BY <3>1, <3>2 DEF WifiCount
  <2>7. ReceiveType'
    BY <1>0, <1>1, <1>4, <2>2, <2>3 DEF ReceiveType
  <2> QED BY <2>4, <2>6, <2>7 DEF WifiReceives
<1>5. CASE /\ nrx' = nrx + 1 /\ workerRx = <<>>
           /\ workerRx' = <<[by |-> "worker", no |-> nrx + 1]>>
           /\ UNCHANGED <<delivered, inner, rxq, emuRx, lost, dropped, oversized, drops>>
  <2>0. PICK k \in Nat : k = nrx + 1
    BY <1>0
  <2>1. PICK x \in Packet : x = [by |-> "worker", no |-> nrx + 1]
    <3>1. [by |-> "worker", no |-> k] \in Packet
      BY DEF Packet
    <3> QED BY <2>0, <3>1
  <2>2. x.no = nrx + 1 /\ x.by = "worker" /\ x.by # "emu" /\ workerRx' = <<x>>
    BY <1>5, <2>1
  <2>3. /\ RxRun(delivered, inner, rxq, nrx + 1) /\ RxHeld(delivered, inner, rxq, emuRx, nrx + 1)
        /\ RxHeld(delivered, inner, rxq, <<x>>, nrx + 1)
        /\ RxApart(<<x>>, emuRx) /\ RxBy(<<x>>, x.by)
        /\ <<x>> \in Seq(Packet) /\ Len(<<x>>) = 1
    BY <1>1, <2>2, TakeLaw DEF ReceiveType, WifiOrder
  <2>4. WifiOrder'
    BY <1>1, <1>5, <2>2, <2>3 DEF WifiOrder, RxApart
  <2>5. Len(workerRx) = 0 /\ Len(workerRx') = 1
    BY <1>5, <2>2, <2>3, NoneOrder
  <2>8. /\ UNCHANGED <<delivered, inner, rxq, emuRx, lost, dropped, oversized, drops>>
        /\ nrx' = nrx + 1
    BY <1>0, <1>5
  <2>6. WifiCount'
    <3>3. wh = 0
      BY <1>13, <2>5
    <3>1. dl + ins + qd + eh + 1 + lt + dr + ov + rr + rb = nrx + 1
      BY <1>14, <1>15, <3>3
    <3>2. /\ Len(delivered') = dl /\ Len(inner') = ins /\ Len(rxq') = qd /\ Len(emuRx') = eh
          /\ Len(workerRx') = 1 /\ Len(lost') = lt /\ dropped' = dr /\ oversized' = ov
          /\ drops'["rx"] = rr /\ drops'["rxbig"] = rb /\ nrx' = nrx + 1
      BY <1>13, <2>8, <2>5
    <3> QED BY <3>1, <3>2 DEF WifiCount
  <2>7. ReceiveType'
    BY <1>0, <1>1, <1>5, <2>2, <2>3 DEF ReceiveType
  <2> QED BY <2>4, <2>6, <2>7 DEF WifiReceives
<1>6. CASE /\ rxq' = rxq \o emuRx /\ emuRx' = <<>>
           /\ UNCHANGED <<delivered, inner, workerRx, lost, dropped, oversized, nrx, drops>>
  <2>1. PICK q \in Seq(Packet) : q = rxq \o emuRx
    BY <1>1, CatAt DEF ReceiveType
  <2>9. /\ RxRun(delivered, inner, rxq, nrx) /\ RxApart(emuRx, workerRx)
        /\ RxHeld(delivered, inner, rxq, workerRx, nrx) /\ RxHeld(delivered, inner, rxq, emuRx, nrx)
    BY <1>1 DEF WifiOrder
  <2>0. /\ delivered \in Seq(Packet) /\ inner \in Seq(Packet) /\ rxq \in Seq(Packet)
        /\ workerRx \in Seq(Packet) /\ emuRx \in Seq(Packet) /\ nrx \in Nat
    BY <1>1 DEF ReceiveType
  <2>2. /\ RxRun(delivered, inner, q, nrx) /\ RxHeld(delivered, inner, q, workerRx, nrx)
        /\ Len(q) = Len(rxq) + Len(emuRx)
    BY <2>0, <2>1, <2>9, QueueLaw
  <2>3. WifiOrder'
    BY <1>1, <1>6, <2>1, <2>2, EmptyLaw DEF WifiOrder
  <2>4. Len(rxq') = Len(rxq) + Len(emuRx) /\ Len(emuRx') = 0
    BY <1>6, <2>1, <2>2, NoneOrder
  <2>8. UNCHANGED <<delivered, inner, workerRx, lost, dropped, oversized, nrx, drops>>
    BY <1>0, <1>6
  <2>5. WifiCount'
    BY <1>0, <1>2, <1>12, <2>8, <2>4 DEF WifiCount
  <2>6. ReceiveType'
    BY <1>1, <1>6, <2>1, NoneOrder DEF ReceiveType
  <2> QED BY <2>3, <2>5, <2>6 DEF WifiReceives
<1>7. CASE /\ rxq' = rxq \o workerRx /\ workerRx' = <<>>
           /\ UNCHANGED <<delivered, inner, emuRx, lost, dropped, oversized, nrx, drops>>
  <2>1. PICK q \in Seq(Packet) : q = rxq \o workerRx
    BY <1>1, CatAt DEF ReceiveType
  <2>2. RxApart(workerRx, emuRx)
    BY <1>1 DEF WifiOrder, RxApart
  <2>9. /\ RxRun(delivered, inner, rxq, nrx)
        /\ RxHeld(delivered, inner, rxq, workerRx, nrx) /\ RxHeld(delivered, inner, rxq, emuRx, nrx)
    BY <1>1 DEF WifiOrder
  <2>0. /\ delivered \in Seq(Packet) /\ inner \in Seq(Packet) /\ rxq \in Seq(Packet)
        /\ workerRx \in Seq(Packet) /\ emuRx \in Seq(Packet) /\ nrx \in Nat
    BY <1>1 DEF ReceiveType
  <2>3. /\ RxRun(delivered, inner, q, nrx) /\ RxHeld(delivered, inner, q, emuRx, nrx)
        /\ Len(q) = Len(rxq) + Len(workerRx)
    BY <2>0, <2>1, <2>2, <2>9, QueueLaw
  <2>4. WifiOrder'
    BY <1>1, <1>7, <2>1, <2>3, EmptyLaw DEF WifiOrder
  <2>5. Len(rxq') = Len(rxq) + Len(workerRx) /\ Len(workerRx') = 0
    BY <1>7, <2>1, <2>3, NoneOrder
  <2>8. UNCHANGED <<delivered, inner, emuRx, lost, dropped, oversized, nrx, drops>>
    BY <1>0, <1>7
  <2>6. WifiCount'
    BY <1>0, <1>2, <1>12, <2>8, <2>5 DEF WifiCount
  <2>7. ReceiveType'
    BY <1>1, <1>7, <2>1, NoneOrder DEF ReceiveType
  <2> QED BY <2>4, <2>6, <2>7 DEF WifiReceives
<1>8. ASSUME NEW h \in Seq(Packet), Len(h) <= 1, h # <<>> PROVE Len(h) = 1
  <2>1. PICK k \in Nat : k = Len(h)
    OBVIOUS
  <2>2. k # 0 /\ k <= 1
    BY <1>8, <2>1, EmptySeq
  <2>3. k = 1
    BY <2>2
  <2> QED BY <2>1, <2>3
<1>9. CASE /\ emuRx # <<>> /\ emuRx' = <<>>
           /\ \/ dropped' = dropped + 1 /\ UNCHANGED oversized
              \/ oversized' = oversized + 1 /\ UNCHANGED dropped
           /\ UNCHANGED <<delivered, inner, rxq, workerRx, lost, nrx, drops>>
  <2>1. Len(emuRx) = 1 /\ Len(emuRx') = 0
    BY <1>1, <1>8, <1>9, NoneOrder DEF ReceiveType, WifiOrder, RxHeld
  <2>2. WifiOrder'
    BY <1>1, <1>9, EmptyLaw DEF WifiOrder
  <2>0. dropped' \in Nat /\ oversized' \in Nat
    BY <1>0, <1>9
  <2>8. /\ UNCHANGED <<delivered, inner, rxq, workerRx, lost, nrx, drops>>
        /\ dropped' + oversized' = dropped + oversized + 1
    BY <1>0, <1>9
  <2>3. WifiCount'
    <3>0. PICK dn \in Nat, on \in Nat : dn = dropped' /\ on = oversized' /\ dn + on = dr + ov + 1
      BY <1>13, <2>0, <2>8
    <3>3. eh = 1
      BY <1>13, <2>1
    <3>4. dn \in Nat /\ on \in Nat /\ dn + on = dr + ov + 1
      BY <3>0
    <3>1. dl + ins + qd + 0 + wh + lt + dn + on + rr + rb = nrx
      BY <1>14, <1>15, <3>3, <3>4
    <3>2. /\ Len(delivered') = dl /\ Len(inner') = ins /\ Len(rxq') = qd /\ Len(emuRx') = 0
          /\ Len(workerRx') = wh /\ Len(lost') = lt /\ dropped' = dn /\ oversized' = on
          /\ drops'["rx"] = rr /\ drops'["rxbig"] = rb /\ nrx' = nrx
      BY <1>13, <2>1, <2>8, <3>0
    <3> QED BY <3>1, <3>2 DEF WifiCount
  <2>4. ReceiveType'
    BY <1>1, <1>9, <2>0, NoneOrder DEF ReceiveType
  <2> QED BY <2>2, <2>3, <2>4 DEF WifiReceives
<1>10. CASE /\ workerRx # <<>> /\ workerRx' = <<>>
            /\ \/ dropped' = dropped + 1 /\ UNCHANGED oversized
               \/ oversized' = oversized + 1 /\ UNCHANGED dropped
            /\ UNCHANGED <<delivered, inner, rxq, emuRx, lost, nrx, drops>>
  <2>1. Len(workerRx) = 1 /\ Len(workerRx') = 0
    BY <1>1, <1>8, <1>10, NoneOrder DEF ReceiveType, WifiOrder, RxHeld
  <2>2. WifiOrder'
    BY <1>1, <1>10, EmptyLaw DEF WifiOrder
  <2>0. dropped' \in Nat /\ oversized' \in Nat
    BY <1>0, <1>10
  <2>8. /\ UNCHANGED <<delivered, inner, rxq, emuRx, lost, nrx, drops>>
        /\ dropped' + oversized' = dropped + oversized + 1
    BY <1>0, <1>10
  <2>3. WifiCount'
    <3>0. PICK dn \in Nat, on \in Nat : dn = dropped' /\ on = oversized' /\ dn + on = dr + ov + 1
      BY <1>13, <2>0, <2>8
    <3>3. wh = 1
      BY <1>13, <2>1
    <3>4. dn \in Nat /\ on \in Nat /\ dn + on = dr + ov + 1
      BY <3>0
    <3>1. dl + ins + qd + eh + 0 + lt + dn + on + rr + rb = nrx
      BY <1>14, <1>15, <3>3, <3>4
    <3>2. /\ Len(delivered') = dl /\ Len(inner') = ins /\ Len(rxq') = qd /\ Len(emuRx') = eh
          /\ Len(workerRx') = 0 /\ Len(lost') = lt /\ dropped' = dn /\ oversized' = on
          /\ drops'["rx"] = rr /\ drops'["rxbig"] = rb /\ nrx' = nrx
      BY <1>13, <2>1, <2>8, <3>0
    <3> QED BY <3>1, <3>2 DEF WifiCount
  <2>4. ReceiveType'
    BY <1>1, <1>10, <2>0, NoneOrder DEF ReceiveType
  <2> QED BY <2>2, <2>3, <2>4 DEF WifiReceives
<1>11. CASE /\ rxq' = <<>> /\ inner' = Slirp!Kept(inner \o rxq)
            /\ lost' = lost \o SubSeq(inner \o rxq, 1, Len(inner \o rxq) - Len(inner'))
            /\ UNCHANGED <<delivered, emuRx, workerRx, dropped, oversized, nrx, drops>>
  <2>1. PICK a \in Seq(Packet) : a = inner \o rxq /\ Len(a) = Len(inner) + Len(rxq)
    BY <1>1, CatAt DEF ReceiveType
  <2>2. PICK b \in Seq(Packet) : b = Slirp!Kept(a)
    BY KeptOrder
  <2>3. PICK g \in Seq(Packet) : g = SubSeq(a, 1, Len(a) - Len(b)) /\ Len(b) + Len(g) = Len(a)
    BY <2>2, KeptOrder
  <2>4. inner' = b /\ lost' = lost \o g
    BY <1>11, <2>1, <2>2, <2>3
  <2>5. /\ RxRun(delivered, b, <<>>, nrx)
        /\ RxHeld(delivered, b, <<>>, emuRx, nrx) /\ RxHeld(delivered, b, <<>>, workerRx, nrx)
    BY <1>1, <2>1, <2>2, DrainLaw DEF ReceiveType, WifiOrder
  <2>6. WifiOrder'
    BY <1>1, <1>11, <2>4, <2>5 DEF WifiOrder
  <2>7. lost' \in Seq(Packet) /\ Len(lost') = Len(lost) + Len(g)
    BY <1>1, <2>4, CatAt DEF ReceiveType
  <2>8. Len(inner') = Len(b) /\ Len(rxq') = 0 /\ Len(b) \in Nat /\ Len(g) \in Nat
    BY <1>11, <2>4, NoneOrder
  <2>9. WifiCount'
    <3>1. PICK j \in Nat, k \in Nat : j = Len(inner') /\ k = Len(lost')
      BY <2>7, <2>8
    <3>2. PICK v \in Nat : v = Len(g)
      BY <2>8
    <3>3. j + v = ins + qd /\ k = lt + v
      BY <1>13, <2>1, <2>3, <2>7, <2>8, <3>1, <3>2
    <3>4. j \in Nat /\ k \in Nat /\ v \in Nat
      OBVIOUS
    <3>5. dl + j + 0 + eh + wh + k + dr + ov + rr + rb = nrx
      BY <1>14, <1>15, <3>3, <3>4
    <3>6. /\ Len(delivered') = dl /\ Len(inner') = j /\ Len(rxq') = 0 /\ Len(emuRx') = eh
          /\ Len(workerRx') = wh /\ Len(lost') = k /\ dropped' = dr /\ oversized' = ov
          /\ drops'["rx"] = rr /\ drops'["rxbig"] = rb /\ nrx' = nrx
      BY <1>11, <1>13, <2>8, <3>1
    <3> QED BY <3>5, <3>6 DEF WifiCount
  <2>10. ReceiveType'
    BY <1>1, <1>11, <2>4, <2>7, NoneOrder DEF ReceiveType
  <2> QED BY <2>6, <2>9, <2>10 DEF WifiReceives
<1>16. CASE /\ drops' = [drops EXCEPT !["rx"] = @ + dropped, !["rxbig"] = @ + oversized]
            /\ dropped' = 0 /\ oversized' = 0
            /\ UNCHANGED <<delivered, inner, rxq, emuRx, workerRx, lost, nrx>>
  <2>1. rx' = rx + dropped /\ big' = big + oversized
    BY <1>1, <1>16, ReportType
  <2>2. PICK j \in Nat, k \in Nat : j = rx' /\ k = big'
    BY <1>0, <1>1, <2>1
  <2>3. j = rx + dropped /\ k = big + oversized
    BY <2>1, <2>2
  <2>7. j \in Nat /\ k \in Nat /\ j = rr + dr /\ k = rb + ov
    BY <1>13, <2>3
  <2>4. dl + ins + qd + eh + wh + lt + 0 + 0 + j + k = nrx
    BY <1>14, <1>15, <2>7
  <2>8. /\ Len(delivered') = dl /\ Len(inner') = ins /\ Len(rxq') = qd /\ Len(emuRx') = eh
        /\ Len(workerRx') = wh /\ Len(lost') = lt /\ dropped' = 0 /\ oversized' = 0
        /\ drops'["rx"] = j /\ drops'["rxbig"] = k /\ nrx' = nrx
    BY <1>13, <1>16, <2>2
  <2>5. WifiCount'
    BY <2>4, <2>8 DEF WifiCount
  <2>6. WifiOrder' /\ ReceiveType'
    BY <1>1, <1>16 DEF WifiOrder, ReceiveType
  <2> QED BY <2>5, <2>6 DEF WifiReceives
<1>17. CASE /\ inner # <<>> /\ delivered' = Append(delivered, Head(inner))
            /\ inner' = Tail(inner)
            /\ UNCHANGED <<rxq, emuRx, workerRx, lost, dropped, oversized, nrx, drops>>
  <2>1. /\ RxRun(delivered', inner', rxq, nrx)
        /\ RxHeld(delivered', inner', rxq, emuRx, nrx)
        /\ RxHeld(delivered', inner', rxq, workerRx, nrx)
        /\ delivered' \in Seq(Packet) /\ Len(delivered') = Len(delivered) + 1
        /\ inner' \in Seq(Packet) /\ Len(inner') = Len(inner) - 1
    BY <1>1, <1>17, DeliverLaw DEF ReceiveType, WifiOrder
  <2>2. WifiOrder'
    BY <1>1, <1>17, <2>1 DEF WifiOrder
  <2>3. WifiCount'
    <3>1. PICK j \in Nat, k \in Nat : j = Len(delivered') /\ k = Len(inner')
      BY <2>1
    <3>2. j \in Nat /\ k \in Nat /\ j = dl + 1 /\ k = ins - 1
      BY <1>13, <2>1, <3>1
    <3>3. j + k + qd + eh + wh + lt + dr + ov + rr + rb = nrx
      BY <1>14, <1>15, <3>2
    <3>4. /\ Len(delivered') = j /\ Len(inner') = k /\ Len(rxq') = qd /\ Len(emuRx') = eh
          /\ Len(workerRx') = wh /\ Len(lost') = lt /\ dropped' = dr /\ oversized' = ov
          /\ drops'["rx"] = rr /\ drops'["rxbig"] = rb /\ nrx' = nrx
      BY <1>13, <1>17, <3>1
    <3> QED BY <3>3, <3>4 DEF WifiCount
  <2>4. ReceiveType'
    BY <1>1, <1>17, <2>1 DEF ReceiveType
  <2> QED BY <2>2, <2>3, <2>4 DEF WifiReceives
<1> QED BY <1>3, <1>4, <1>5, <1>6, <1>7, <1>9, <1>10, <1>11, <1>16, <1>17 DEF ReceiveMove

LEMMA WifiInit == Init => WifiInv
PROOF
<1> SUFFICES ASSUME Init, part \in {"slirp", "pcap"}
             PROVE  WifiType /\ WifiThreads /\ WifiSends /\ WifiReceives
  BY DEF WifiInv
<1>1. Slirp!Init
  BY DEF Init
<1>2. WifiType
  BY <1>1 DEF Slirp!Init, Slirp!Causes, WifiType
<1>3. WifiThreads
  BY <1>1 DEF Slirp!Init, WifiThreads
<1>4. /\ sent = <<>> /\ hand = <<>> /\ txq = <<>> /\ forwarded = <<>> /\ unsent = <<>>
      /\ delivered = <<>> /\ inner = <<>> /\ rxq = <<>> /\ lost = <<>>
      /\ emuRx = <<>> /\ workerRx = <<>>
      /\ drops["full"] = 0 /\ drops["big"] = 0 /\ drops["rx"] = 0 /\ drops["rxbig"] = 0
      /\ ntx = 0 /\ nrx = 0 /\ dropped = 0 /\ oversized = 0
  BY <1>1 DEF Slirp!Init, Slirp!Causes
<1>5. WifiSends
  BY <1>4, NoneOrder DEF WifiSends
<1>6. RxRun(<<>>, <<>>, <<>>, 0)
  BY NoneOrder DEF RxRun
<1>7. WifiReceives
  BY <1>4, <1>6, NoneOrder, EmptyLaw DEF WifiReceives, WifiOrder, WifiCount
<1> QED BY <1>2, <1>3, <1>5, <1>7

LEMMA WifiStep ==
  ASSUME WifiType, WifiThreads, WifiSends, WifiReceives,
         SendMove, ReceiveMove, ThreadMove
  PROVE  WifiType' /\ WifiThreads' /\ WifiSends' /\ WifiReceives'
PROOF
<1>1. SendType' /\ WifiSends' /\ ReceiveType' /\ WifiReceives'
  BY SendsKept, ReceivesKept
<1>2. drops' \in [{"full", "big", "rx", "rxbig"} -> Nat]
  <2>1. CASE drops' = drops
    BY <2>1 DEF WifiType
  <2>2. ASSUME NEW cause \in {"full", "big", "rx", "rxbig"}, NEW k \in Nat,
               drops' = [drops EXCEPT ![cause] = @ + k]
        PROVE  drops' \in [{"full", "big", "rx", "rxbig"} -> Nat]
    BY <2>2, DropsType
  <2>3. 1 \in Nat
    OBVIOUS
  <2> QED BY <2>1, <2>2, <2>3, ReportType DEF ThreadMove
<1>3. WifiType'
  BY <1>1, <1>2 DEF WifiType, SendType, ReceiveType, ThreadMove
<1> QED BY <1>1, <1>3 DEF ThreadMove

LEMMA WifiNext == WifiInv /\ [Next]_vars => WifiInv'
PROOF
<1> SUFFICES ASSUME WifiInv, [Next]_vars PROVE WifiInv'
  OBVIOUS
<1>1. CASE UNCHANGED <<part, wVars>>
  BY <1>1 DEF WifiInv, WifiType, WifiThreads, WifiSends, WifiReceives, WifiOrder,
              WifiCount, wVars
<1>2. CASE /\ part' = part
           /\ \/ part = "slirp" /\ Slirp!Next
              \/ part = "pcap" /\ Pcap!Next
  <2>1. WifiType /\ WifiThreads /\ WifiSends /\ WifiReceives
    BY <1>2 DEF WifiInv
  <2>2. SendMove /\ ReceiveMove /\ ThreadMove
    BY <1>2, <2>1, WifiEmuMoves, WifiWorkerMoves DEF Slirp!Next, Pcap!Next, WifiReceives
  <2>3. WifiType' /\ WifiThreads' /\ WifiSends' /\ WifiReceives'
    BY <2>1, <2>2, WifiStep
  <2> QED BY <2>3 DEF WifiInv
<1>3. CASE part' = part /\ part \notin {"slirp", "pcap"}
  BY <1>3 DEF WifiInv
<1>4. UNCHANGED vars => UNCHANGED <<part, wVars>>
  BY DEF vars
<1> QED BY <1>1, <1>2, <1>3, <1>4 DEF Next

\* What a callback holds goes behind the run.
LEMMA HeldBehind ==
  ASSUME NEW d \in Seq(Packet), NEW i \in Seq(Packet), NEW q \in Seq(Packet),
         NEW h \in Seq(Packet), NEW m \in Nat,
         RxRun(d, i, q, m), RxHeld(d, i, q, h, m)
  PROVE  /\ Slirp!InOrder(d \o i \o q \o h)
         /\ Len(d \o i \o q) = Len(d) + Len(i) + Len(q)
PROOF
<1>1. PICK a \in Seq(Packet) : a = d \o i /\ Len(a) = Len(d) + Len(i)
  BY CatAt
<1>2. Slirp!InOrder(a) /\ Before(a, q) /\ Before(a, h)
  BY <1>1, CatOrder DEF RxRun, RxHeld
<1>3. PICK b \in Seq(Packet) : b = a \o q /\ Len(b) = Len(a) + Len(q)
  BY CatAt
<1>4. Slirp!InOrder(b) /\ Before(b, h)
  BY <1>2, <1>3, CatOrder DEF RxRun, RxHeld
<1>5. Slirp!InOrder(b \o h)
  BY <1>4, CatOrder DEF RxHeld
<1> QED BY <1>1, <1>3, <1>5

\* What the packets keep is what HandoffsExact promises.
LEMMA WifiHandoffs ==
  ASSUME WifiInv
  PROVE  /\ part = "slirp" =>
              Slirp!PacketsAccounted /\ Slirp!DriverSerial /\ Slirp!DriverOutlives
         /\ part = "pcap" => Pcap!PacketsAccounted /\ Pcap!DriverOutlives
PROOF
<1> SUFFICES ASSUME part \in {"slirp", "pcap"}
             PROVE  /\ Slirp!PacketsAccounted /\ Pcap!PacketsAccounted
                    /\ Slirp!DriverOutlives /\ Pcap!DriverOutlives
                    /\ part = "slirp" => Slirp!DriverSerial
  OBVIOUS
<1> DEFINE tx == sent \o hand \o txq
           rx == delivered \o inner \o rxq
<1>1. WifiType /\ WifiThreads /\ WifiSends /\ WifiReceives
  BY DEF WifiInv
<1>2. /\ sent \o hand \in Seq(Packet) /\ Slirp!InOrder(sent \o hand)
      /\ Before(sent \o hand, txq) /\ Len(sent \o hand) = Len(sent) + Len(hand)
  BY <1>1, CatAt, CatOrder DEF WifiType, WifiSends
<1>3. Slirp!InOrder(tx) /\ Len(tx) = Len(sent \o hand) + Len(txq)
  BY <1>1, <1>2, CatAt, CatOrder DEF WifiType, WifiSends
<1>4. /\ Slirp!InOrder(rx \o emuRx) /\ Slirp!InOrder(rx \o workerRx)
      /\ Len(rx) = Len(delivered) + Len(inner) + Len(rxq)
  <2>1. /\ delivered \in Seq(Packet) /\ inner \in Seq(Packet) /\ rxq \in Seq(Packet)
        /\ emuRx \in Seq(Packet) /\ workerRx \in Seq(Packet) /\ nrx \in Nat
    BY <1>1 DEF WifiType
  <2>2. /\ RxRun(delivered, inner, rxq, nrx)
        /\ RxHeld(delivered, inner, rxq, emuRx, nrx)
        /\ RxHeld(delivered, inner, rxq, workerRx, nrx)
    BY <1>1 DEF WifiReceives, WifiOrder
  <2>3. Slirp!InOrder(rx \o emuRx) /\ Len(rx) = Len(delivered) + Len(inner) + Len(rxq)
    BY <2>1, <2>2, HeldBehind
  <2>4. Slirp!InOrder(rx \o workerRx)
    BY <2>1, <2>2, HeldBehind
  <2> QED BY <2>3, <2>4
<1>5. Len(tx) + Len(forwarded) + Len(unsent) + drops["full"] + drops["big"] = ntx
  <2>1. Len(tx) = Len(sent) + Len(hand) + Len(txq)
    BY <1>2, <1>3
  <2> HIDE DEF tx
  <2> QED BY <1>1, <2>1 DEF WifiSends
<1>6. Len(rx) + Len(emuRx) + Len(workerRx) + Len(lost) + dropped + oversized
        + drops["rx"] + drops["rxbig"] = nrx
  <2> HIDE DEF rx
  <2> QED BY <1>1, <1>4 DEF WifiReceives, WifiCount
<1>7. \A s : Pcap!InOrder(s) <=> Slirp!InOrder(s)
  BY DEF Pcap!InOrder, Slirp!InOrder, Pcap!Earlier, Slirp!Earlier
<1>8. Slirp!InOrder(forwarded)
  BY <1>1 DEF WifiSends
<1>9. Slirp!PacketsAccounted /\ Pcap!PacketsAccounted
  <2> HIDE DEF tx, rx
  <2> QED BY <1>3, <1>4, <1>5, <1>6, <1>7, <1>8
          DEF Slirp!PacketsAccounted, Pcap!PacketsAccounted, tx, rx
<1>10. Slirp!DriverOutlives /\ Pcap!DriverOutlives
  BY <1>1 DEF WifiThreads, Slirp!DriverOutlives, Pcap!DriverOutlives
<1>11. ASSUME part = "slirp" PROVE Slirp!DriverSerial
  <2>1. inDriver = {} \/ inDriver = {"worker"}
    BY <1>1, <1>11 DEF WifiThreads
  <2>2. Cardinality({}) = 0 /\ Cardinality({"worker"}) = 1
    BY FS_EmptySet, FS_Singleton
  <2>3. Cardinality(inDriver) \in {0, 1}
    BY <2>1, <2>2
  <2>4. Cardinality(inDriver) <= 1
    BY <2>3
  <2>5. Slirp!Cardinality(inDriver) = Cardinality(inDriver)
    BY Zenon DEF Slirp!Cardinality, Cardinality
  <2> QED BY <2>4, <2>5 DEF Slirp!DriverSerial
<1> QED BY <1>9, <1>10, <1>11

-----------------------------------------------------------------------------
(* The audio blocks and the blended frames of the frontend loop.           *)

Block == [epoch : Nat, n : Nat]
Shown == [epoch : Nat, n : Nat, direct : BOOLEAN]

PlayType ==
  /\ session \in Sessions
  /\ pc \in {"top", "events", "emulate", "present", "drain", "turn", "done"}
  /\ queue \in Seq(Block) /\ samples \in Seq(Block) /\ last \in Block
  /\ started \in BOOLEAN /\ playing \in BOOLEAN /\ turbo \in BOOLEAN
  /\ tab \in BOOLEAN /\ debug \in BOOLEAN /\ cut \in BOOLEAN /\ direct \in BOOLEAN
  /\ threshold \in {Start, Target}
  /\ epoch \in Nat /\ noticed \in 0..epoch /\ n \in Nat
  /\ cache \in Shown /\ shown \in Shown

\* The SPU's output is taken every frame.
PlayRing == /\ Len(samples) <= 1
            /\ pc \notin {"present", "drain", "done"} => samples = <<>>
            /\ ~session.audio => queue = <<>> /\ samples = <<>> /\ last = P!NoBlock

\* Until playback starts the prebuffer has room for what is still to come.
PlayRoom ==
  /\ error = FALSE
  /\ pc = "done" => ~playing
  /\ pc # "done" => started = playing
  /\ turbo => queue = <<>>
  /\ ~started /\ pc # "done" =>
       /\ Len(queue) + Len(samples) <= threshold
       /\ pc \in {"top", "events", "emulate"} => Len(queue) < threshold

\* The blocks not played yet are those of the newest frames.
PlayRun(stream) ==
  /\ \A i \in 1..Len(stream) : /\ stream[i].n = n - Len(stream) + i
                               /\ noticed = epoch => stream[i].epoch = epoch
  /\ last.n <= n - Len(stream)
  /\ last # P!NoBlock /\ ~cut =>
       last.n = n - Len(stream) /\ (noticed = epoch => last.epoch = epoch)

PlayStream == PlayRun(queue \o samples)

PlayCache ==
  cache # P!None =>
    /\ cache.epoch = epoch /\ ~cache.direct
    /\ n - cache.n \in 0..(IF pc \in {"present", "done"} THEN 1 ELSE 0)

PlayInv == /\ PlayType /\ PlayRing /\ PlayRoom /\ PlayStream /\ PlayCache
           /\ P!BlendsNeighbours

LEMMA PlaySession ==
  ASSUME PlayType
  PROVE  /\ session.audio \in BOOLEAN /\ session.blend \in BOOLEAN
         /\ session.direct \in BOOLEAN
         /\ Target \in Nat /\ Start \in Nat /\ threshold \in 1..Capacity
         /\ Capacity \in Nat
PROOF
<1>1. session \in [audio : BOOLEAN, blend : BOOLEAN, direct : BOOLEAN]
  BY ThreadsAssumption DEF PlayType
<1> QED BY <1>1, ThreadsAssumption DEF PlayType

\* A stream of two parts of which the second has at most one block.
LEMMA Joined ==
  ASSUME NEW q \in Seq(Block)
  PROVE  /\ q \o <<>> = q
         /\ \A x \in Block : q \o <<x>> = Append(q, x)
PROOF
  OBVIOUS

LEMMA PlayOne ==
  ASSUME PlayType, PlayRing, samples # <<>>
  PROVE  /\ Head(samples) \in Block /\ samples = <<Head(samples)>>
         /\ Tail(samples) = <<>> /\ Len(samples) = 1
PROOF
<1>1. samples \in Seq(Block) /\ Len(samples) <= 1
  BY DEF PlayType, PlayRing
<1>2. Len(samples) = 1
  <2>1. PICK k \in Nat \ {0} : k = Len(samples)
    BY <1>1, EmptySeq
  <2>2. k <= 1
    BY <1>1, <2>1
  <2>3. k = 1
    BY <2>2
  <2> QED BY <2>1, <2>3
<1>3. /\ Head(samples) \in Block /\ Tail(samples) \in Seq(Block)
      /\ Len(Tail(samples)) = 0 /\ samples[1] = Head(samples)
  BY <1>1, <1>2
<1>4. Tail(samples) = <<>>
  BY <1>3, EmptySeq
<1>5. samples = <<Head(samples)>>
  <2>1. PICK x \in Block : x = Head(samples)
    BY <1>3
  <2>2. <<x>> \in Seq(Block) /\ Len(<<x>>) = 1 /\ <<x>>[1] = x
    OBVIOUS
  <2>3. samples = <<x>>
    BY <1>1, <1>2, <1>3, <2>1, <2>2, SeqEqual
  <2> QED BY <2>1, <2>3
<1> QED BY <1>2, <1>3, <1>4, <1>5

LEMMA PlayInit == Init => PlayInv
PROOF
<1> SUFFICES ASSUME Init PROVE PlayInv
  OBVIOUS
<1> USE DEF Init, P!Init, P!None, P!NoBlock
<1>1. PlayType
  <2>1. <<>> \in Seq(Block)
    BY EmptySeq
  <2>2. P!NoBlock \in Block /\ P!None \in Shown
    BY DEF Block, Shown
  <2>3. session \in Sessions /\ noticed \in 0..epoch /\ epoch \in Nat /\ n \in Nat
    OBVIOUS
  <2>4. queue \in Seq(Block) /\ samples \in Seq(Block) /\ threshold \in {Start, Target}
    BY <2>1
  <2>5. last \in Block /\ cache \in Shown /\ shown \in Shown
    BY <2>2
  <2> QED BY <2>3, <2>4, <2>5 DEF PlayType
<1>2. PlayRing
  BY DEF PlayRing
<1>3. PlayRoom
  <2>1. Len(queue) = 0 /\ Len(samples) = 0
    OBVIOUS
  <2>2. threshold \in Nat /\ threshold >= 1
    BY <1>1, PlaySession
  <2>3. Len(queue) + Len(samples) <= threshold /\ Len(queue) < threshold
    BY <2>1, <2>2
  <2> QED BY <2>3 DEF PlayRoom
<1>4. PlayStream
  <2>1. queue \o samples = <<>>
    OBVIOUS
  <2> QED BY <2>1 DEF PlayStream, PlayRun
<1>5. PlayCache /\ P!BlendsNeighbours
  BY DEF PlayCache, P!BlendsNeighbours
<1> QED BY <1>1, <1>2, <1>3, <1>4, <1>5 DEF PlayInv

\* A step that neither touches the blocks nor counts a frame.
LEMMA PlayQuiet ==
  ASSUME PlayStream, UNCHANGED <<queue, samples, n, noticed, epoch, last, cut>>
  PROVE  PlayStream'
PROOF
  BY DEF PlayStream, PlayRun

LEMMA PlayPull == PlayInv /\ P!Pull => PlayInv'
PROOF
<1> SUFFICES ASSUME PlayInv, P!Pull PROVE PlayInv'
  OBVIOUS
<1>1. /\ playing /\ queue # <<>> /\ last' = Head(queue) /\ queue' = Tail(queue)
      /\ cut' = FALSE
      /\ UNCHANGED <<session, pc, samples, started, playing, threshold, floor, epoch,
                     noticed, tab, debug, turbo, n, direct, cache, error, shown,
                     synthetic>>
  BY DEF P!Pull
<1>2. /\ PlayType /\ PlayRing /\ PlayRoom /\ PlayStream /\ PlayCache
      /\ P!BlendsNeighbours
  BY DEF PlayInv
<1>3. queue \in Seq(Block) /\ samples \in Seq(Block) /\ n \in Nat
  BY <1>2 DEF PlayType
<1>4. /\ Head(queue) \in Block /\ Tail(queue) \in Seq(Block)
      /\ Len(Tail(queue)) = Len(queue) - 1
  BY <1>1, <1>3
<1>5. PlayType'
  BY <1>1, <1>2, <1>4 DEF PlayType
<1>6. PlayRing' /\ PlayRoom'
  BY <1>1, <1>2, <1>3 DEF PlayRing, PlayRoom, PlayType
<1>7. PlayStream'
  <2> DEFINE s == queue \o samples
             r == Tail(queue) \o samples
  <2>1. /\ s \in Seq(Block) /\ r \in Seq(Block) /\ Len(s) = Len(r) + 1
        /\ \A i \in 1..Len(r) : r[i] = s[i + 1]
        /\ s[1] = Head(queue)
    BY <1>1, <1>3, <1>4
  <2>2. PlayRun(s)
    BY <1>2 DEF PlayStream
  <2> HIDE DEF s, r
  <2>3. Len(r) \in Nat /\ 1 \in 1..Len(s) /\ \A i \in 1..Len(r) : i + 1 \in 1..Len(s)
    BY <2>1
  <2>4. /\ s[1].n = n - Len(s) + 1 /\ (noticed = epoch => s[1].epoch = epoch)
        /\ \A i \in 1..Len(r) : /\ r[i].n = n - Len(s) + (i + 1)
                                /\ noticed = epoch => r[i].epoch = epoch
    BY <2>1, <2>2, <2>3 DEF PlayRun
  <2>5. /\ Head(queue).n = n - Len(r)
        /\ noticed = epoch => Head(queue).epoch = epoch
        /\ \A i \in 1..Len(r) : /\ r[i].n = n - Len(r) + i
                                /\ noticed = epoch => r[i].epoch = epoch
    BY <1>3, <2>1, <2>3, <2>4
  <2>6. Head(queue).n <= n - Len(r)
    BY <1>3, <2>3, <2>5
  <2>7. (queue \o samples)' = r
    BY <1>1 DEF r
  <2> QED BY <1>1, <2>5, <2>6, <2>7 DEF PlayStream, PlayRun
<1>8. PlayCache' /\ P!BlendsNeighbours'
  BY <1>1, <1>2 DEF PlayCache, P!BlendsNeighbours
<1> QED BY <1>5, <1>6, <1>7, <1>8 DEF PlayInv

\* Nothing is left of a stream that was thrown away.
LEMMA PlayCut ==
  ASSUME PlayType, PlayStream, queue' = <<>>, samples' = <<>>, cut' = TRUE,
         UNCHANGED <<n, last>>
  PROVE  PlayStream'
PROOF
<1>1. (queue \o samples)' = <<>> /\ Len(queue \o samples) \in Nat
  BY DEF PlayType
<1>2. last.n <= n
  <2>1. last.n \in Nat /\ n \in Nat
    BY DEF PlayType, Block
  <2> QED BY <1>1, <2>1 DEF PlayStream, PlayRun
<1> QED BY <1>1, <1>2 DEF PlayStream, PlayRun, PlayType

LEMMA PlayEmptied ==
  ASSUME queue' = <<>>, samples' = <<>>, threshold' = Target
  PROVE  /\ Len(queue') + Len(samples') <= threshold' /\ Len(queue') < threshold'
PROOF
<1>1. Len(<<>>) = 0
  OBVIOUS
<1>2. Target \in Nat /\ 0 + 0 <= Target /\ 0 < Target
  BY ThreadsAssumption
<1> QED BY <1>1, <1>2

LEMMA PlayTop == PlayInv /\ P!Top => PlayInv'
PROOF
<1> SUFFICES ASSUME PlayInv, P!Top PROVE PlayInv'
  OBVIOUS
<1> USE DEF PlayInv, P!Top, P!Goto
<1>1. CASE epoch # noticed
  <2>1. /\ playing' = FALSE /\ queue' = <<>> /\ started' = FALSE
        /\ threshold' = Target /\ cut' = TRUE /\ noticed' = epoch
    BY <1>1 DEF P!Resync
  <2>2. samples' = <<>> /\ samples = <<>>
    BY DEF PlayRing
  <2>3. PlayType'
    <3>1. noticed' \in 0..epoch' /\ queue' \in Seq(Block)
      BY <2>1, EmptySeq DEF PlayType
    <3> QED BY <2>1, <3>1 DEF PlayType
  <2>4. PlayRing'
    BY <2>1, <2>2 DEF PlayRing
  <2>5. PlayRoom'
    BY <2>1, <2>2, PlayEmptied DEF PlayRoom
  <2>6. PlayStream'
    BY <2>1, <2>2, PlayCut
  <2>7. PlayCache' /\ P!BlendsNeighbours'
    BY DEF PlayCache, P!BlendsNeighbours
  <2> QED BY <2>3, <2>4, <2>5, <2>6, <2>7
<1>2. CASE epoch = noticed
  <2>1. UNCHANGED <<playing, queue, started, threshold, floor, cut, noticed>>
    BY <1>2
  <2>2. PlayType' /\ PlayRing'
    BY <2>1 DEF PlayType, PlayRing
  <2>3. PlayRoom'
    BY <2>1 DEF PlayRoom
  <2>4. PlayStream'
    BY <2>1, PlayQuiet
  <2>5. PlayCache' /\ P!BlendsNeighbours'
    BY DEF PlayCache, P!BlendsNeighbours
  <2> QED BY <2>2, <2>3, <2>4, <2>5
<1> QED BY <1>1, <1>2

LEMMA PlayPolled == PlayInv /\ P!Polled => PlayInv'
PROOF
<1> SUFFICES ASSUME PlayInv, P!Polled PROVE PlayInv'
  OBVIOUS
<1> USE DEF PlayInv, P!Polled, P!Goto
<1>0. turbo' \in BOOLEAN
  BY DEF PlayType
<1>1. CASE turbo' # turbo
  <2>1. /\ playing' = FALSE /\ queue' = <<>> /\ started' = FALSE
        /\ threshold' = Target /\ cut' = TRUE
    BY <1>1 DEF P!Resync
  <2>2. samples' = <<>> /\ samples = <<>>
    BY DEF PlayRing
  <2>3. PlayType'
    <3>1. queue' \in Seq(Block)
      BY <2>1, EmptySeq
    <3> QED BY <1>0, <2>1, <3>1 DEF PlayType
  <2>4. PlayRing'
    BY <2>1, <2>2 DEF PlayRing
  <2>5. PlayRoom'
    BY <2>1, <2>2, PlayEmptied DEF PlayRoom
  <2>6. PlayStream'
    BY <2>1, <2>2, PlayCut
  <2>7. PlayCache' /\ P!BlendsNeighbours'
    BY DEF PlayCache, P!BlendsNeighbours
  <2> QED BY <2>3, <2>4, <2>5, <2>6, <2>7
<1>2. CASE turbo' = turbo
  <2>1. UNCHANGED <<playing, queue, started, threshold, floor, cut, noticed>>
    BY <1>2
  <2>2. PlayType' /\ PlayRing'
    BY <1>0, <2>1 DEF PlayType, PlayRing
  <2>3. PlayRoom'
    BY <1>2, <2>1 DEF PlayRoom
  <2>4. PlayStream'
    BY <2>1, PlayQuiet
  <2>5. PlayCache' /\ P!BlendsNeighbours'
    BY DEF PlayCache, P!BlendsNeighbours
  <2> QED BY <2>2, <2>3, <2>4, <2>5
<1> QED BY <1>1, <1>2

\* A savestate load, the turbo key, and the ways out of the loop.
LEMMA PlayEvents ==
  PlayInv /\ (P!Load \/ P!Tab \/ P!Close \/ P!PowerOff \/ P!Fail) => PlayInv'
PROOF
<1> SUFFICES ASSUME PlayInv, P!Load \/ P!Tab \/ P!Close \/ P!PowerOff \/ P!Fail
             PROVE  PlayInv'
  OBVIOUS
<1> USE DEF PlayInv
<1>1. CASE P!Load
  <2>1. /\ pc = "events" /\ epoch' = epoch + 1 /\ samples' = <<>> /\ cache' = P!None
        /\ UNCHANGED <<session, pc, tab, debug, turbo, n, direct, shown, synthetic,
                       last, queue, started, playing, threshold, floor, noticed,
                       error, cut>>
    BY <1>1 DEF P!Load
  <2>2. samples = <<>>
    BY <2>1 DEF PlayRing
  <2>3. epoch \in Nat /\ noticed \in 0..epoch
    BY DEF PlayType
  <2>4. PICK e \in Nat : e = epoch + 1
    BY <2>3
  <2>5. epoch' = e /\ noticed' # epoch' /\ noticed' \in 0..epoch'
    BY <2>1, <2>3, <2>4
  <2>6. PlayType'
    <3>1. P!None \in Shown
      BY DEF P!None, Shown
    <3> QED BY <2>1, <2>2, <2>5, <3>1 DEF PlayType
  <2>7. PlayRing'
    BY <2>1, <2>2 DEF PlayRing
  <2>8. PlayRoom'
    BY <2>1, <2>2 DEF PlayRoom
  <2>9. PlayStream'
    BY <2>1, <2>2, <2>5 DEF PlayStream, PlayRun
  <2>10. PlayCache' /\ P!BlendsNeighbours'
    BY <2>1 DEF PlayCache, P!BlendsNeighbours
  <2> QED BY <2>6, <2>7, <2>8, <2>9, <2>10
<1>2. CASE P!Tab
  <2>1. /\ tab' \in BOOLEAN
        /\ UNCHANGED <<session, pc, epoch, debug, turbo, n, direct, cache, shown,
                       synthetic, last, queue, samples, started, playing,
                       threshold, floor, noticed, error, cut>>
    BY <1>2 DEF P!Tab, P!audioVars, PlayType
  <2>2. PlayType' /\ PlayRing'
    BY <2>1 DEF PlayType, PlayRing
  <2>3. PlayRoom' /\ PlayStream'
    BY <2>1, PlayQuiet DEF PlayRoom
  <2>4. PlayCache' /\ P!BlendsNeighbours'
    BY <2>1 DEF PlayCache, P!BlendsNeighbours
  <2> QED BY <2>2, <2>3, <2>4
<1>3. CASE P!Close \/ P!PowerOff \/ P!Fail
  <2>1. /\ pc \in {"events", "emulate", "top", "present"} /\ pc' = "done"
        /\ playing' = FALSE
        /\ UNCHANGED <<session, epoch, tab, debug, turbo, n, direct, cache, shown,
                       synthetic, last, queue, samples, started, threshold, floor,
                       noticed, error, cut>>
    BY <1>3 DEF P!Close, P!PowerOff, P!Fail, P!Goto
  <2>2. PlayType' /\ PlayRing'
    BY <2>1 DEF PlayType, PlayRing
  <2>3. PlayRoom' /\ PlayStream'
    BY <2>1, PlayQuiet DEF PlayRoom
  <2>4. PlayCache'
    <3>1. 0..(IF pc \in {"present", "done"} THEN 1 ELSE 0) \subseteq 0..1
      OBVIOUS
    <3>2. CASE cache # P!None
      <4>1. cache.epoch = epoch /\ ~cache.direct /\ n - cache.n \in 0..1
        BY <3>1, <3>2 DEF PlayCache
      <4> QED BY <2>1, <4>1 DEF PlayCache
    <3> QED BY <2>1, <3>2 DEF PlayCache
  <2>5. P!BlendsNeighbours'
    BY <2>1 DEF P!BlendsNeighbours
  <2> QED BY <2>2, <2>3, <2>4, <2>5
<1> QED BY <1>1, <1>2, <1>3

\* A frame adds its block behind those of the frames before it.
LEMMA PlayEmulate ==
  ASSUME PlayInv, NEW halted \in BOOLEAN, P!Emulate(halted)
  PROVE  PlayInv'
PROOF
<1> USE DEF PlayInv
<1>1. /\ pc = "emulate" /\ pc' = "present" /\ samples = <<>>
      /\ UNCHANGED <<session, epoch, tab, debug, turbo, cache, shown, synthetic,
                     last, queue, started, playing, threshold, floor, noticed,
                     error, cut>>
  BY DEF P!Emulate, P!Goto, PlayRing
<1>2. direct' \in BOOLEAN
  BY DEF P!Emulate
<1>3. /\ queue \in Seq(Block) /\ n \in Nat /\ epoch \in Nat /\ last \in Block
      /\ Len(queue) \in Nat
  BY DEF PlayType
<1>4. P!BlendsNeighbours'
  BY <1>1 DEF P!BlendsNeighbours
<1>5. cache # P!None => cache.epoch = epoch /\ ~cache.direct /\ n - cache.n \in {0}
  BY <1>1 DEF PlayCache
<1>6. CASE UNCHANGED <<n, samples>>
  <2>1. PlayType' /\ PlayRing'
    BY <1>1, <1>2, <1>6 DEF PlayType, PlayRing
  <2>2. PlayRoom' /\ PlayStream'
    BY <1>1, <1>6, PlayQuiet DEF PlayRoom
  <2>3. PlayCache'
    <3>1. n' - cache'.n \in {0} => n' - cache'.n \in 0..1
      OBVIOUS
    <3> QED BY <1>1, <1>5, <1>6, <3>1 DEF PlayCache
  <2> QED BY <1>4, <2>1, <2>2, <2>3
<1>7. ASSUME n' = n + 1,
             samples' = IF session.audio
                        THEN Append(samples, [epoch |-> epoch, n |-> n + 1])
                        ELSE samples
      PROVE  PlayInv'
  <2>1. PICK m \in Nat : m = n + 1
    BY <1>3
  <2>2. PICK x \in Block : x = [epoch |-> epoch, n |-> m]
    BY <1>3 DEF Block
  <2>3. /\ n' = m /\ samples' = IF session.audio THEN <<x>> ELSE <<>>
        /\ x.n = m /\ x.epoch = epoch
    BY <1>1, <1>7, <2>1, <2>2
  <2>4. samples' \in Seq(Block) /\ Len(samples') \in {0, 1}
    BY <2>3
  <2>5. PlayType'
    BY <1>1, <1>2, <2>3, <2>4 DEF PlayType
  <2>6. PlayRing'
    BY <1>1, <2>3, <2>4 DEF PlayRing
  <2>7. PlayRoom'
    <3>1. ~started => Len(queue) < threshold
      BY <1>1 DEF PlayRoom
    <3>2. threshold \in Nat
      BY PlaySession
    <3>3. ~started => Len(queue) + Len(samples') <= threshold
      <4>1. PICK k \in {0, 1} : k = Len(samples')
        BY <2>4
      <4>2. ~started => Len(queue) + k <= threshold
        BY <1>3, <3>1, <3>2
      <4> QED BY <4>1, <4>2
    <3> QED BY <1>1, <3>3 DEF PlayRoom
  <2>8. PlayStream'
    <3>1. PlayRun(queue)
      BY <1>1, <1>3, Joined DEF PlayStream
    <3>2. CASE session.audio
      <4> DEFINE s == Append(queue, x)
      <4>1. (queue \o samples)' = s
        BY <1>1, <1>3, <2>3, <3>2, Joined
      <4>2. /\ Len(s) = Len(queue) + 1 /\ s[Len(queue) + 1] = x
            /\ \A i \in 1..Len(queue) : s[i] = queue[i]
            /\ \A i \in 1..Len(s) : i \in 1..Len(queue) \/ i = Len(queue) + 1
        BY <1>3
      <4> HIDE DEF s
      <4>3. m - Len(s) = n - Len(queue)
        BY <1>3, <2>1, <4>2
      <4>4. ASSUME NEW i \in 1..Len(s)
            PROVE  /\ s[i].n = m - Len(s) + i
                   /\ noticed = epoch => s[i].epoch = epoch
        <5>1. CASE i \in 1..Len(queue)
          BY <3>1, <4>2, <4>3, <5>1 DEF PlayRun
        <5>2. CASE i = Len(queue) + 1
          <6>1. s[i] = x
            BY <4>2, <5>2
          <6>2. m = m - Len(s) + i
            BY <1>3, <4>2, <5>2
          <6> QED BY <2>3, <6>1, <6>2
        <5> QED BY <4>2, <5>1, <5>2
      <4> QED BY <1>1, <2>3, <3>1, <4>1, <4>3, <4>4 DEF PlayStream, PlayRun
    <3>3. CASE ~session.audio
      <4>1. queue = <<>> /\ last = P!NoBlock /\ samples' = <<>>
        BY <2>3, <3>3 DEF PlayRing
      <4>2. (queue \o samples)' = <<>>
        BY <1>1, <4>1
      <4>3. last.n = 0 /\ 0 <= m
        BY <4>1 DEF P!NoBlock
      <4> QED BY <1>1, <2>3, <4>1, <4>2, <4>3 DEF PlayStream, PlayRun
    <3> QED BY <3>2, <3>3, PlaySession
  <2>9. PlayCache'
    <3>1. CASE cache # P!None
      <4>1. cache.n \in Nat
        BY DEF PlayType, Shown
      <4>2. m - cache.n \in 0..1
        BY <1>3, <1>5, <2>1, <3>1, <4>1
      <4> QED BY <1>1, <1>5, <2>3, <3>1, <4>2 DEF PlayCache
    <3> QED BY <1>1, <3>1 DEF PlayCache
  <2> QED BY <1>4, <2>5, <2>6, <2>7, <2>8, <2>9
<1> QED BY <1>6, <1>7 DEF P!Emulate

\* The synthetic frame is made of the two neighbours it is shown between.
LEMMA PlayPresent == PlayInv /\ P!Present => PlayInv'
PROOF
<1> SUFFICES ASSUME PlayInv, P!Present PROVE PlayInv'
  OBVIOUS
<1> USE DEF PlayInv
<1>1. /\ pc = "present" /\ pc' = "drain"
      /\ synthetic' = (IF P!Blends THEN <<cache, P!Current>> ELSE <<>>)
      /\ shown' = P!Current /\ cache' = P!Cached
      /\ UNCHANGED <<session, epoch, tab, debug, turbo, n, direct, last, queue,
                     samples, started, playing, threshold, noticed, error, cut>>
  BY DEF P!Present, P!Goto
<1>2. P!Current \in Shown /\ P!None \in Shown
  BY DEF P!Current, P!None, Shown, PlayType
<1>3. P!Cached \in {P!Current, P!None} /\ (P!Cached # P!None => ~direct)
  BY DEF P!Cached
<1>4. P!Current.n = n /\ P!Current.epoch = epoch /\ P!Current.direct = direct
  BY DEF P!Current
<1>5. PlayType'
  BY <1>1, <1>2, <1>3 DEF PlayType
<1>6. PlayRing' /\ PlayRoom'
  BY <1>1 DEF PlayRing, PlayRoom
<1>7. PlayStream'
  BY <1>1, PlayQuiet
<1>8. PlayCache'
  <2>1. n - n \in 0..0
    BY DEF PlayType
  <2>2. CASE cache' # P!None
    <3>1. cache'.n = n /\ cache'.epoch = epoch /\ cache'.direct = direct /\ ~direct
      BY <1>1, <1>3, <1>4, <2>2
    <3> QED BY <1>1, <2>1, <3>1 DEF PlayCache
  <2> QED BY <2>2 DEF PlayCache
<1>9. P!BlendsNeighbours'
  <2>1. CASE P!Blends
    <3>1. /\ cache.epoch = epoch /\ ~cache.direct /\ n - cache.n \in 0..1 /\ ~direct
      BY <1>1, <2>1 DEF PlayCache, P!Blends
    <3>2. synthetic' = <<cache, P!Current>>
      BY <1>1, <2>1
    <3>3. synthetic'[1] = cache /\ synthetic'[2] = P!Current
      BY <3>2
    <3> QED BY <1>1, <1>4, <3>1, <3>3 DEF P!BlendsNeighbours
  <2>2. CASE ~P!Blends
    BY <1>1, <2>2 DEF P!BlendsNeighbours
  <2> QED BY <2>1, <2>2
<1> QED BY <1>5, <1>6, <1>7, <1>8, <1>9

LEMMA PlayDiscard == PlayInv /\ P!Discard => PlayInv'
PROOF
<1> SUFFICES ASSUME PlayInv, P!Discard PROVE PlayInv'
  OBVIOUS
<1> USE DEF PlayInv
<1>1. /\ turbo /\ pc = "drain" /\ pc' = "turn" /\ samples' = <<>>
      /\ cut' = (cut \/ samples # <<>>)
      /\ UNCHANGED <<session, epoch, tab, debug, turbo, n, direct, cache, shown,
                     synthetic, last, queue, started, playing, threshold, floor,
                     noticed, error>>
  BY DEF P!Discard, P!Goto
<1>2. queue = <<>> /\ Len(queue) \in Nat
  BY <1>1 DEF PlayRoom
<1>3. PlayType'
  BY <1>1, EmptySeq DEF PlayType
<1>4. PlayRing'
  BY <1>1, EmptySeq DEF PlayRing
<1>5. PlayRoom'
  <2>1. threshold \in Nat /\ Len(<<>>) + Len(<<>>) = 0
    BY PlaySession
  <2> QED BY <1>1, <1>2, <2>1 DEF PlayRoom
<1>6. PlayStream'
  <2>1. CASE samples = <<>>
    <3>1. cut' = cut /\ UNCHANGED samples
      BY <1>1, <2>1 DEF PlayType
    <3> QED BY <1>1, <3>1, PlayQuiet
  <2>2. CASE samples # <<>>
    BY <1>1, <1>2, <2>2, PlayCut
  <2> QED BY <2>1, <2>2
<1>7. PlayCache' /\ P!BlendsNeighbours'
  BY <1>1 DEF PlayCache, P!BlendsNeighbours
<1> QED BY <1>3, <1>4, <1>5, <1>6, <1>7

\* The block always finds room: until playback starts the prebuffer is shorter
\* than the stream, and from then on the loop waits for the device.
LEMMA PlayDrain == PlayInv /\ P!Drain => PlayInv'
PROOF
<1> SUFFICES ASSUME PlayInv, P!Drain PROVE PlayInv'
  OBVIOUS
<1> USE DEF PlayInv
<1>1. /\ ~turbo /\ pc = "drain" /\ samples # <<>> /\ samples' = Tail(samples)
      /\ Len(queue) < Capacity \/ ~started
      /\ UNCHANGED <<session, epoch, tab, debug, turbo, n, direct, cache, shown,
                     synthetic, last, started, playing, threshold, floor, noticed, cut>>
  BY DEF P!Drain
<1>2. PICK x \in Block : x = Head(samples)
  BY <1>1, PlayOne
<1>3. samples = <<x>> /\ samples' = <<>> /\ Len(samples) = 1
  BY <1>1, <1>2, PlayOne
<1>4. queue \in Seq(Block) /\ Len(queue) \in Nat
  BY DEF PlayType
<1>5. Len(queue) < Capacity
  <2>1. CASE ~started
    <3>1. Len(queue) + 1 <= threshold
      BY <1>1, <1>3, <2>1 DEF PlayRoom
    <3>2. threshold \in Nat /\ Capacity \in Nat /\ threshold <= Capacity
      BY PlaySession
    <3> QED BY <1>4, <3>1, <3>2
  <2> QED BY <1>1, <2>1
<1>6. queue' = Append(queue, x) /\ UNCHANGED <<pc, error>>
  BY <1>2, <1>5 DEF P!Drain
<1>7. queue' \in Seq(Block) /\ Len(queue') = Len(queue) + 1
  BY <1>4, <1>6
<1>8. PlayType'
  BY <1>1, <1>3, <1>6, <1>7, EmptySeq DEF PlayType
<1>9. PlayRing'
  <2>1. session.audio
    BY <1>1 DEF PlayRing
  <2> QED BY <1>1, <1>3, <1>6, <2>1, EmptySeq DEF PlayRing
<1>10. PlayRoom'
  <2>1. ~started => Len(queue) + 1 <= threshold
    BY <1>1, <1>3 DEF PlayRoom
  <2>2. PICK k \in Nat : k = Len(queue') /\ k = Len(queue) + 1
    BY <1>4, <1>7
  <2>3. ~started => k + 0 <= threshold
    BY <2>1, <2>2
  <2>4. ~started => Len(queue') + Len(samples') <= threshold
    BY <1>3, <2>2, <2>3, EmptySeq
  <2> QED BY <1>1, <1>6, <2>4 DEF PlayRoom
<1>11. PlayStream'
  <2>1. queue' \o samples' = queue \o samples
    BY <1>3, <1>4, <1>6, <1>7, Joined
  <2> QED BY <1>1, <2>1 DEF PlayStream, PlayRun
<1>12. PlayCache' /\ P!BlendsNeighbours'
  BY <1>1, <1>6 DEF PlayCache, P!BlendsNeighbours
<1> QED BY <1>8, <1>9, <1>10, <1>11, <1>12

LEMMA PlayPace == PlayInv /\ P!Pace => PlayInv'
PROOF
<1> SUFFICES ASSUME PlayInv, P!Pace PROVE PlayInv'
  OBVIOUS
<1> USE DEF PlayInv
<1>1. /\ samples = <<>> /\ pc = "drain" /\ pc' = "turn"
      /\ UNCHANGED <<session, epoch, tab, debug, turbo, n, direct, cache, shown,
                     synthetic, last, queue, samples, started, playing, threshold,
                     floor, noticed, error, cut>>
  BY DEF P!Pace, P!Goto, P!audioVars
<1>2. PlayType' /\ PlayRing'
  BY <1>1 DEF PlayType, PlayRing
<1>3. PlayRoom' /\ PlayStream'
  BY <1>1, PlayQuiet DEF PlayRoom
<1>4. PlayCache' /\ P!BlendsNeighbours'
  BY <1>1 DEF PlayCache, P!BlendsNeighbours
<1> QED BY <1>2, <1>3, <1>4

LEMMA PlayTurn == PlayInv /\ P!Turn => PlayInv'
PROOF
<1> SUFFICES ASSUME PlayInv, P!Turn PROVE PlayInv'
  OBVIOUS
<1> USE DEF PlayInv
<1>1. /\ pc = "turn" /\ pc' = "top"
      /\ IF P!Starts THEN started' = TRUE /\ playing' = TRUE
         ELSE UNCHANGED <<started, playing>>
      /\ UNCHANGED <<session, epoch, tab, debug, turbo, n, direct, cache, shown,
                     synthetic, last, queue, samples, threshold, noticed, error, cut>>
  BY DEF P!Turn, P!Goto
<1>2. PlayType'
  BY <1>1 DEF PlayType
<1>3. PlayRing'
  BY <1>1 DEF PlayRing
<1>4. PlayRoom'
  <2>1. CASE P!Starts
    BY <1>1, <2>1 DEF PlayRoom, P!Starts
  <2>2. CASE ~P!Starts
    <3>1. Len(queue) \in Nat /\ threshold \in Nat /\ threshold >= 1
      BY PlaySession DEF PlayType
    <3>2. session.audio \in BOOLEAN
      BY PlaySession
    <3>3. queue = <<>> => Len(queue) < threshold
      <4>1. queue = <<>> => Len(queue) = 0
        OBVIOUS
      <4> QED BY <3>1, <4>1
    <3>4. ~started => Len(queue) < threshold
      BY <2>2, <3>1, <3>2, <3>3 DEF P!Starts, PlayRoom, PlayRing
    <3> QED BY <1>1, <2>2, <3>4 DEF PlayRoom
  <2> QED BY <2>1, <2>2
<1>5. PlayStream'
  BY <1>1, PlayQuiet
<1>6. PlayCache' /\ P!BlendsNeighbours'
  BY <1>1 DEF PlayCache, P!BlendsNeighbours
<1> QED BY <1>2, <1>3, <1>4, <1>5, <1>6

LEMMA PlayNext == PlayInv /\ [Next]_vars => PlayInv'
PROOF
<1> SUFFICES ASSUME PlayInv, [Next]_vars PROVE PlayInv'
  OBVIOUS
<1>1. CASE UNCHANGED pVars
  <2>1. UNCHANGED <<session, pc, queue, samples, started, playing, threshold, floor,
                    epoch, noticed, tab, debug, turbo, n, direct, cache, error,
                    shown, synthetic, last, cut>>
    BY <1>1 DEF pVars
  <2>2. PlayType' /\ PlayRing'
    BY <2>1 DEF PlayInv, PlayType, PlayRing
  <2>3. PlayRoom' /\ PlayStream'
    BY <2>1, PlayQuiet DEF PlayInv, PlayRoom
  <2>4. PlayCache' /\ P!BlendsNeighbours'
    BY <2>1 DEF PlayInv, PlayCache, P!BlendsNeighbours
  <2> QED BY <2>2, <2>3, <2>4 DEF PlayInv
<1>2. CASE P!Next
  BY <1>2, PlayPull, PlayTop, PlayPolled, PlayEvents, PlayEmulate, PlayPresent,
     PlayDiscard, PlayDrain, PlayPace, PlayTurn DEF P!Next, P!Loop
<1> QED BY <1>1, <1>2 DEF Next, vars

LEMMA PlayHandoffs == PlayInv => P!StreamContinuous /\ P!BlendsNeighbours
PROOF
<1> SUFFICES ASSUME PlayInv PROVE P!StreamContinuous
  BY DEF PlayInv
<1> DEFINE s == queue \o samples
<1>1. PlayRun(s) /\ PlayType /\ PlayRoom
  BY DEF PlayInv, PlayStream
<1>2. s \in Seq(Block) /\ Len(s) \in Nat /\ n \in Nat /\ last.n \in Nat
  BY <1>1 DEF PlayType, Block
<1>3. s # <<>> => Head(s) = s[1] /\ 1 \in 1..Len(s)
  BY <1>2
<1> HIDE DEF s
<1>4. ASSUME NEW i \in 1..(Len(s) - 1) PROVE P!Follows(s[i], s[i + 1])
  <2>1. i \in 1..Len(s) /\ i + 1 \in 1..Len(s)
    BY <1>2
  <2>2. /\ s[i].n = n - Len(s) + i /\ s[i + 1].n = n - Len(s) + (i + 1)
        /\ noticed = epoch => s[i].epoch = epoch /\ s[i + 1].epoch = epoch
    BY <1>1, <2>1 DEF PlayRun
  <2>3. n - Len(s) + (i + 1) = (n - Len(s) + i) + 1
    BY <1>2
  <2> QED BY <2>2, <2>3 DEF P!Follows
<1>5. ASSUME last # P!NoBlock, s # <<>>
      PROVE  Head(s).n > last.n /\ (cut \/ P!Follows(last, Head(s)))
  <2>1. /\ Head(s).n = n - Len(s) + 1 /\ last.n <= n - Len(s)
        /\ noticed = epoch => Head(s).epoch = epoch
        /\ ~cut => last.n = n - Len(s) /\ (noticed = epoch => last.epoch = epoch)
    BY <1>1, <1>3, <1>5 DEF PlayRun
  <2>2. Head(s).n > last.n
    BY <1>2, <2>1
  <2>3. ~cut => P!Follows(last, Head(s))
    BY <2>1 DEF P!Follows
  <2> QED BY <2>2, <2>3
<1>6. /\ ~error /\ (started = playing \/ pc = "done")
      /\ turbo /\ pc # "events" => queue = <<>>
  BY <1>1 DEF PlayRoom
<1> QED BY <1>4, <1>5, <1>6 DEF P!StreamContinuous, s

-----------------------------------------------------------------------------
\* For every capacity of the queues, size of the prebuffer and number of debug
\* requests, and any number of packets and frames: what one thread hands another
\* arrives once, in order, or is on record as dropped; the user-mode driver has
\* one caller at a time; a debug request runs at most once and its caller gets
\* its own answer, "busy", or the late answer to an earlier request it was told
\* "busy" about; the audio stream has no gap that was not cut on purpose and a
\* blend lies between its neighbours
\* (WifiWorkerThreadMain, Net_RecvPacket, debug_pump, pump_io_thread, drain_audio,
\* FrameBlendCache).
THEOREM HandoffsAreExact == Spec => []HandoffsExact
PROOF
<1>1. Spec => []PumpInv
  BY PumpInit, PumpNext, PTL DEF Spec
<1>2. Spec => []WifiInv
  BY WifiInit, WifiNext, PTL DEF Spec
<1>3. Spec => []PlayInv
  BY PlayInit, PlayNext, PTL DEF Spec
<1>4. PumpInv /\ WifiInv /\ PlayInv => HandoffsExact
  BY WifiHandoffs, PlayHandoffs DEF PumpInv, HandoffsExact
<1> QED BY <1>1, <1>2, <1>3, <1>4, PTL
=============================================================================
