----------------------------- MODULE FrameReadback -----------------------------
(* Which 3D frame the 2D compositor sees (runner/src/gpu3d.cpp with the frame *)
(* latches of gpu2d.cpp).  The compute renderer rasterises at VCount 215, and  *)
(* its pixels come back to the CPU through a readback that is submitted and    *)
(* finished at different points of the frame, or not at all when the frame is  *)
(* presented from the GPU; the governor may defer it by a frame, rebuild the   *)
(* renderer, and a savestate may be loaded, all at the frame boundary.         *)
(* Frames are numbered by rasterisation; 0 is none.                            *)
EXTENDS Integers

CONSTANTS
    Overlap,     \* compute_readback_overlap()
    Scales,      \* internal resolutions the governor chooses from
    MaxFrames    \* bound on rasterised frames

VARIABLES
    phase,       \* "start": line 0 before its HBlank; "drawn", "vblank", "raster"
    renderer,    \* "soft" or "compute"
    scale,       \* GetScaleFactor of the compute renderer
    latency,     \* g_display_readback_latency
    raster,      \* the frame rasterised last
    rb,          \* g_compute_rendered_frame, _readback_pending, _frame_ready,
                 \*   _frame, _runtime_failed, and the terminal halt
    scene,       \* direct_scene_class() is SUPPORTED but for a capture
    direct,      \* g_direct_frame_active
    force,       \* g_direct_force_cpu_frames
    capture,     \* DISPCAPCNT bit 31, capture_latch, g_frame_capture_active
    since,       \* rasterisations since a discontinuity, at most 3
    seen         \* what line 0 of the last frame was drawn from

frameVars == <<phase, renderer, scale, latency, raster, rb, scene, direct, force,
          capture, since, seen>>

NoFrame == [fetched |-> FALSE, blank |-> FALSE, age |-> 0, capture |-> FALSE,
            known |-> FALSE, settled |-> 0, latency |-> FALSE]

Idle == [rendered |-> FALSE, pending |-> {}, ready |-> FALSE, frame |-> 0,
         failed |-> FALSE, halted |-> FALSE]

FrameInit ==
    /\ phase = "start" /\ renderer = "soft" /\ scale = 1
    /\ latency = FALSE /\ raster = 0 /\ rb = Idle
    /\ scene = FALSE /\ direct = FALSE /\ force = 0
    /\ capture = [bit |-> FALSE, latch |-> FALSE, frame |-> FALSE]
    /\ since = 0 /\ seen = NoFrame

(***************************************************************************)
(* The readback.  Each operator is the set of outcomes, a GL failure among *)
(* them.                                                                   *)
(***************************************************************************)

\* compute_readback_failed.
Failed(r) == [rendered |-> FALSE, pending |-> {}, ready |-> FALSE,
              frame |-> r.frame, failed |-> TRUE, halted |-> TRUE]

\* compute_submit_readback of the frame n.
Submitted(r, n) ==
    IF ~r.rendered \/ r.pending # {} THEN {r}
    ELSE {[r EXCEPT !.rendered = FALSE, !.pending = {n}], Failed(r)}

\* compute_finish_readback.
Finished(r) ==
    IF r.pending = {} THEN {r}
    ELSE {[r EXCEPT !.pending = {}, !.ready = TRUE,
                    !.frame = CHOOSE n \in r.pending : TRUE],
          Failed(r)}

AllFinished(s) == UNION {Finished(r) : r \in s}
AllSubmitted(s, n) == UNION {Submitted(r, n) : r \in s}

\* A mutant: a capture does not ask for the readback.
RequiresUncaptured(d, c) == ~d /\ ~latency

\* nds_gpu2d_requires_3d_readback, for a frame whose direct flag is d.
Requires(d, c) == c.bit \/ c.latch \/ c.frame \/ (~d /\ ~latency)

(***************************************************************************)
(* The frame, as nds_tick_display drives it.                               *)
(***************************************************************************)

Running == ~rb.halted

\* nds_gpu3d_vcount215.
Rasterise ==
    /\ Running /\ phase = "vblank" /\ raster < MaxFrames
    /\ LET n == raster + 1
           old == IF latency THEN Finished(rb) ELSE {rb}
           new == {[r EXCEPT !.rendered = TRUE] : r \in old}
           submits == (Overlap \/ latency) /\ (Requires(direct, capture) \/ latency)
       IN  /\ raster' = n
           /\ IF renderer = "soft" THEN UNCHANGED rb
              ELSE rb' \in IF submits THEN AllSubmitted(new, n) ELSE new
    /\ phase' = "raster"
    /\ since' = IF since = 3 THEN 3 ELSE since + 1
    /\ UNCHANGED <<renderer, scale, latency, scene, direct, force, capture, seen>>

\* nds_gpu3d_start_frame: which pending readbacks the boundary waits for.
DrainsPending(same) == same \/ ~latency

\* nds_gpu3d_start_frame with the direct flag and capture of the new frame.
Boundary(d, c) ==
    LET same == Requires(d, c)
        drain == DrainsPending(same)
        first == IF drain THEN Finished(rb) ELSE {rb}
        submit == IF same \/ latency THEN AllSubmitted(first, raster)
                  ELSE {[r EXCEPT !.rendered = FALSE] : r \in first}
    IN  IF renderer = "soft" THEN {rb}
        ELSE IF drain THEN AllFinished(submit) ELSE submit

\* nds_gpu2d_start_frame, then nds_gpu3d_start_frame.
StartFrame ==
    /\ Running /\ phase = "raster"
    /\ direct' = (force = 0 /\ scene /\ ~capture.bit /\ ~capture.latch)
    /\ force' = IF force = 0 THEN 0 ELSE force - 1
    /\ capture' = [capture EXCEPT !.frame = capture.bit \/ capture.latch]
    /\ rb' \in Boundary(direct', capture')
    /\ phase' = "start"
    /\ UNCHANGED <<renderer, scale, latency, raster, scene, since, seen>>

\* latch_line for line 0 at its HBlank, and nds_gpu3d_line: engine A renders
\* nothing in a direct frame.
DrawLine0 ==
    LET latched == capture.latch \/ capture.bit IN
    /\ Running /\ phase = "start"
    /\ capture' = [capture EXCEPT !.latch = latched]
    /\ seen' = [fetched |-> ~direct,
                blank |-> renderer = "compute" /\ ~rb.ready,
                age |-> IF renderer = "soft" THEN 0 ELSE raster - rb.frame,
                capture |-> latched, known |-> capture.frame,
                settled |-> since, latency |-> latency]
    /\ phase' = "drawn"
    /\ UNCHANGED <<renderer, scale, latency, raster, rb, scene, direct, force, since>>

\* nds_gpu2d_vblank: a capture that latched has ended.
VBlank ==
    /\ Running /\ phase = "drawn"
    /\ capture' = IF capture.latch
                  THEN [capture EXCEPT !.bit = FALSE, !.latch = FALSE] ELSE capture
    /\ phase' = "vblank"
    /\ UNCHANGED <<renderer, scale, latency, raster, rb, scene, direct, force,
                   since, seen>>

\* The guest writes DISPCAPCNT, or changes the scene.
WriteCapture(b) ==
    /\ Running /\ capture.bit # b
    /\ capture' = [capture EXCEPT !.bit = b]
    /\ UNCHANGED <<phase, renderer, scale, latency, raster, rb, scene, direct,
                   force, since, seen>>

ChangeScene ==
    /\ Running
    /\ scene' = ~scene
    /\ UNCHANGED <<phase, renderer, scale, latency, raster, rb, direct, force,
                   capture, since, seen>>

(***************************************************************************)
(* The host, which runs between the frame boundary and line 0.             *)
(***************************************************************************)

AtBoundary == phase = "start" /\ raster < MaxFrames

\* nds_gpu3d_use_compute_renderer: the failure flag is cleared first; a
\* shader that does not build leaves the installed renderer.
Rebuilt(r) == [r EXCEPT !.failed = FALSE, !.rendered = FALSE,
                        !.pending = {}, !.ready = FALSE]

\* apply_performance_governor_stage through
\* nds_gpu3d_set_runtime_internal_scale.
Govern(on, s) ==
    /\ AtBoundary
    /\ <<on, s>> # <<latency, scale>>
    /\ IF renderer = "soft" \/ s = scale
       THEN /\ scale' = s /\ latency' = on
            /\ UNCHANGED rb
       ELSE /\ ~rb.failed
            /\ \E r \in Finished(rb) :
                 \/ /\ rb' = Rebuilt(r)
                    /\ scale' = s /\ latency' = on
                 \/ /\ rb' = [r EXCEPT !.failed = FALSE]
                    /\ UNCHANGED <<scale, latency>>
    /\ since' = 0
    /\ UNCHANGED <<phase, renderer, raster, scene, direct, force, capture, seen>>

\* gpu3d_savestate_export.
Save ==
    /\ AtBoundary /\ renderer = "compute" /\ rb.pending # {}
    /\ rb' \in Finished(rb)
    /\ UNCHANGED <<phase, renderer, scale, latency, raster, scene, direct, force,
                   capture, since, seen>>

\* gpu2d_savestate_import and gpu3d_savestate_import: the restored geometry is
\* rasterised and read back at once, the deferral ends, and the next frame is
\* not presented directly.
Load(c) ==
    /\ AtBoundary
    /\ raster' = raster + 1
    /\ IF renderer = "soft" THEN UNCHANGED rb
       ELSE LET cleared == {[r EXCEPT !.rendered = TRUE, !.pending = {},
                                      !.ready = FALSE] : r \in Finished(rb)}
            IN  rb' \in AllFinished(AllSubmitted(cleared, raster'))
    /\ latency' = FALSE
    /\ capture' = c
    /\ direct' = FALSE /\ force' = IF force < 1 THEN 1 ELSE force
    /\ since' = 0
    /\ UNCHANGED <<phase, renderer, scale, scene, seen>>

\* nds_gpu3d_use_soft_renderer when the compute host shuts down, and
\* nds_gpu3d_use_compute_renderer when it starts.
UseSoft ==
    /\ AtBoundary /\ renderer = "compute"
    /\ renderer' = "soft"
    /\ rb' = [rb EXCEPT !.rendered = FALSE, !.pending = {}, !.ready = FALSE]
    /\ since' = 0
    /\ UNCHANGED <<phase, scale, latency, raster, scene, direct, force, capture, seen>>

UseCompute ==
    /\ AtBoundary /\ renderer = "soft" /\ raster = 0
    /\ renderer' = "compute"
    /\ rb' = Rebuilt(rb)
    /\ since' = 0
    /\ UNCHANGED <<phase, scale, latency, raster, scene, direct, force, capture, seen>>

\* nds_gpu3d_reset.
Gpu3dReset ==
    /\ AtBoundary
    /\ rb' = [rb EXCEPT !.rendered = FALSE, !.pending = {}, !.ready = FALSE]
    /\ since' = 0
    /\ UNCHANGED <<phase, renderer, scale, latency, raster, scene, direct, force,
                   capture, seen>>

FrameNext ==
    \/ Rasterise \/ StartFrame \/ DrawLine0 \/ VBlank
    \/ \E b \in BOOLEAN : WriteCapture(b)
    \/ ChangeScene
    \/ \E on \in BOOLEAN, s \in Scales : Govern(on, s)
    \/ Save
    \/ \E b \in BOOLEAN : Load([bit |-> b, latch |-> FALSE, frame |-> FALSE])
    \/ UseSoft \/ UseCompute \/ Gpu3dReset

FrameSpec == FrameInit /\ [][FrameNext]_frameVars

(* However the scene moves between direct and composited presentation, a      *)
(* composited frame is drawn from the frame rasterised last: the one before    *)
(* it only while the readback is deferred and no capture was known at the      *)
(* boundary.  A rebuilt renderer is blank until its readback returns, at most  *)
(* the frame in flight and one more.                                           *)
LinesFresh ==
    seen.fetched /\ seen.settled >= (IF seen.latency THEN 2 ELSE 1) =>
        /\ ~seen.blank
        /\ seen.age <= (IF seen.latency /\ ~seen.known THEN 1 ELSE 0)

================================================================================
