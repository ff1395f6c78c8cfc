------------------------------ MODULE BandPool ------------------------------
(***************************************************************************)
(* The helper pool of the adaptive presentation compositor                 *)
(* (runner/src/gpu2d.cpp, struct BandPool).  The presenting thread         *)
(* publishes a frame in five separate atomic stores, helps to composite    *)
(* its lines and returns once `completed` says all are done; the context   *)
(* it published lives in its caller's stack frame.  Helpers poll the       *)
(* generation counter, so a lost notification is only a delay and the      *)
(* condition variables are not modelled.  Frames are numbered from 1; a    *)
(* context is named by its frame, NoCtx is the null pointer.               *)
(***************************************************************************)
EXTENDS Naturals, FiniteSets

CONSTANTS Helpers,     \* the pool's threads
          Lines,       \* lines of a frame (192 in the code)
          MaxFrames    \* bound: frames presented

VARIABLES
  generation, ctx, y_end, next_y, completed,  \* the pool's atomics
  frame,    \* number of the frame the presenter is in, or was last in
  mpc, my,  \* the presenter: program point, and the line in its hands
  wpc,      \* each helper: "wait", "ctx", "y_end", "claim", "line" or "count"
  seen,     \* each helper: the last generation it woke for
  wctx, wend, wy   \* each helper: the locals ctx, y_end and y

pool == <<generation, ctx, y_end, next_y, completed>>
helper == <<wpc, seen, wctx, wend, wy>>
vars == <<pool, frame, mpc, my, helper>>

NoCtx == 0

Init ==
  /\ generation = 0 /\ ctx = NoCtx /\ y_end = 0 /\ next_y = 0 /\ completed = 0
  /\ frame = 0 /\ mpc = "idle" /\ my = 0
  /\ wpc = [h \in Helpers |-> "wait"]
  /\ seen = [h \in Helpers |-> 0]
  /\ wctx = [h \in Helpers |-> NoCtx]
  /\ wend = [h \in Helpers |-> 0]
  /\ wy = [h \in Helpers |-> 0]

-----------------------------------------------------------------------------
(* composite_adaptive_frame.  One action per atomic store. *)

StoreCtx ==
  /\ mpc = "idle" /\ frame < MaxFrames
  /\ frame' = frame + 1
  /\ ctx' = frame + 1
  /\ mpc' = "y_end"
  /\ UNCHANGED <<generation, y_end, next_y, completed, my, helper>>

StoreYEnd ==
  /\ mpc = "y_end"
  /\ y_end' = Lines
  /\ mpc' = "next_y"
  /\ UNCHANGED <<generation, ctx, next_y, completed, frame, my, helper>>

StoreNextY ==
  /\ mpc = "next_y"
  /\ next_y' = 0
  /\ mpc' = "completed"
  /\ UNCHANGED <<generation, ctx, y_end, completed, frame, my, helper>>

StoreCompleted ==
  /\ mpc = "completed"
  /\ completed' = 0
  /\ mpc' = "bump"
  /\ UNCHANGED <<generation, ctx, y_end, next_y, frame, my, helper>>

\* The fetch_add under the mutex.
BumpGeneration ==
  /\ mpc = "bump"
  /\ generation' = generation + 1
  /\ mpc' = "claim"
  /\ UNCHANGED <<ctx, y_end, next_y, completed, frame, my, helper>>

\* A mutant of AfterClaim: the claim is a plain load.
AfterClaimLoad(n) == n
\* What fetch_add(1) leaves in next_y.
AfterClaim(n) == n + 1

MainClaim ==
  /\ mpc = "claim"
  /\ next_y' = AfterClaim(next_y)
  /\ my' = next_y
  /\ mpc' = IF next_y >= Lines THEN "await" ELSE "line"
  /\ UNCHANGED <<generation, ctx, y_end, completed, frame, helper>>

\* composite_adaptive_line writes row my of the frame's surface, then counts it:
\* one step, the presenter alone reads the count.
MainLine ==
  /\ mpc = "line"
  /\ completed' = completed + 1
  /\ mpc' = "claim"
  /\ UNCHANGED <<generation, ctx, y_end, next_y, frame, my, helper>>

\* The wait polls every 200us; the context dies when the caller returns.
MainReturn ==
  /\ mpc = "await" /\ completed >= Lines
  /\ ctx' = NoCtx
  /\ mpc' = "idle"
  /\ UNCHANGED <<generation, y_end, next_y, completed, frame, my, helper>>

Main ==
  \/ StoreCtx \/ StoreYEnd \/ StoreNextY \/ StoreCompleted \/ BumpGeneration
  \/ MainClaim \/ MainLine \/ MainReturn

-----------------------------------------------------------------------------
(* band_worker_main.  `seen` is set under the mutex, everything after it is *)
(* read with the mutex released.                                            *)

Wake(h) ==
  /\ wpc[h] = "wait" /\ generation # seen[h]
  /\ seen' = [seen EXCEPT ![h] = generation]
  /\ wpc' = [wpc EXCEPT ![h] = "ctx"]
  /\ UNCHANGED <<pool, frame, mpc, my, wctx, wend, wy>>

LoadCtx(h) ==
  /\ wpc[h] = "ctx"
  /\ wctx' = [wctx EXCEPT ![h] = ctx]
  /\ wpc' = [wpc EXCEPT ![h] = "y_end"]
  /\ UNCHANGED <<pool, frame, mpc, my, seen, wend, wy>>

LoadYEnd(h) ==
  /\ wpc[h] = "y_end"
  /\ wend' = [wend EXCEPT ![h] = y_end]
  /\ wpc' = [wpc EXCEPT ![h] = IF wctx[h] = NoCtx THEN "wait" ELSE "claim"]
  /\ UNCHANGED <<pool, frame, mpc, my, seen, wctx, wy>>

HelperClaim(h) ==
  /\ wpc[h] = "claim"
  /\ next_y' = AfterClaim(next_y)
  /\ wy' = [wy EXCEPT ![h] = next_y]
  /\ wpc' = [wpc EXCEPT ![h] = IF next_y >= wend[h] THEN "wait" ELSE "line"]
  /\ UNCHANGED <<generation, ctx, y_end, completed, frame, mpc, my,
                 seen, wctx, wend>>

\* composite_adaptive_line dereferences the context and writes row wy[h].
HelperLine(h) ==
  /\ wpc[h] = "line"
  /\ wpc' = [wpc EXCEPT ![h] = "count"]
  /\ UNCHANGED <<pool, frame, mpc, my, seen, wctx, wend, wy>>

HelperCount(h) ==
  /\ wpc[h] = "count"
  /\ completed' = completed + 1
  /\ wpc' = [wpc EXCEPT ![h] = "claim"]
  /\ UNCHANGED <<generation, ctx, y_end, next_y, frame, mpc, my,
                 seen, wctx, wend, wy>>

Helper(h) ==
  \/ Wake(h) \/ LoadCtx(h) \/ LoadYEnd(h)
  \/ HelperClaim(h) \/ HelperLine(h) \/ HelperCount(h)

Next == Main \/ \E h \in Helpers : Helper(h)

\* Every thread that is not waiting runs: the host schedules them all.
Fairness == WF_vars(Main) /\ \A h \in Helpers : WF_vars(Helper(h))

Spec == Init /\ [][Next]_vars /\ Fairness

-----------------------------------------------------------------------------
(* Properties *)

\* A helper that woke for generation g uses no context older than frame g: the
\* claim that a worker "can never see a new generation with a stale context"
\* (gpu2d.cpp:2825) holds although the loads are outside the mutex, because the
\* context is stored before the generation is bumped.
NoOlderContext ==
  \A h \in Helpers : wpc[h] \in {"y_end", "claim", "line", "count"} =>
                       wctx[h] = NoCtx \/ wctx[h] >= seen[h]

\* No two threads are ever compositing the same line, so no row of the surface
\* is written by two threads at once; what a laggard of the previous frame
\* claims, the current frame's threads do not get.
RowsDisjoint ==
  /\ \A h \in Helpers : wpc[h] = "line" /\ mpc = "line" => wy[h] # my
  /\ \A g, h \in Helpers :
       g # h /\ wpc[g] = "line" /\ wpc[h] = "line" => wy[g] # wy[h]
=============================================================================
