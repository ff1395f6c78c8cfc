------------------------------- MODULE LineLatch -------------------------------
(***************************************************************************)
(* The frame of the main 2D engine (runner/src/gpu2d.cpp): each line is    *)
(* latched on the scheduler's thread, which fetches the 3D line, advances  *)
(* the affine accumulators and arms display capture, and is rendered from  *)
(* that latch, perhaps later and elsewhere.  The latch decides on its own  *)
(* what the renderer is going to decode.  Frames that the presenter can    *)
(* compose on the GPU are not rendered at all; what the frontend presents  *)
(* trails rasterisation by one frame boundary.                             *)
(***************************************************************************)
EXTENDS Integers, FiniteSets

CONSTANTS Displays,   \* DISPCNT: [mode, to3d, layers, wins, blank]
          Rows,       \* visible lines
          CapHeight,  \* lines that display capture covers
          MaxFrames   \* bound on frames

VARIABLES d,            \* DISPCNT
          cap,          \* DISPCAPCNT: [enable, from3d]
          latch,        \* Unit::capture_latch
          acc,          \* steps taken by the accumulators of BG2 and BG3
          y,            \* next line to latch; Rows + 1 after VBlank
          frame,        \* number of the frame being rasterised
          front,        \* g_front
          fb,           \* per buffer and line, the frame that drew it
          direct,       \* g_direct_frame_active and the current descriptor
          present,      \* the same, latched for presentation
          force,        \* g_direct_force_cpu_frames
          job,          \* the line latched last: {} or a singleton
          decoded,      \* lines the renderer decoded of BG2, BG3 since a reload
          staged,       \* lines of this frame that display capture stored
          armed,        \* DISPCAPCNT was enabled when line 0 was latched
          blanked,      \* a line of this frame was force-blanked
          reloaded      \* a savestate was loaded during this frame

vars == <<d, cap, latch, acc, y, frame, front, fb, direct, present, force, job,
          decoded, staged, armed, blanked, reloaded>>
frameVars == <<y, frame, front, fb, direct, present, force, job, staged, armed,
               blanked, reloaded>>

Zero == [b \in {2, 3} |-> 0]

Init ==
  /\ d \in Displays
  /\ cap = [enable |-> FALSE, from3d |-> FALSE]
  /\ latch = FALSE /\ acc = Zero /\ decoded = Zero
  /\ y = 0 /\ frame = 1 /\ front = 0
  /\ fb = [b \in {0, 1} |-> [l \in 0..(Rows - 1) |-> 0]]
  /\ direct = {} /\ present = {} /\ force = 0 /\ job = {}
  /\ staged = {} /\ armed = FALSE /\ blanked = FALSE /\ reloaded = TRUE

-----------------------------------------------------------------------------
\* Guest writes.
WriteDispcnt(v) ==
  /\ d' = v
  /\ UNCHANGED <<cap, latch, acc, decoded, frameVars>>

WriteCapture(c) ==
  /\ cap' = c
  /\ UNCHANGED <<d, latch, acc, decoded, frameVars>>

\* Writing a reference point restarts its accumulator.
WriteReference(b) ==
  /\ acc' = [acc EXCEPT ![b] = 0]
  /\ decoded' = [decoded EXCEPT ![b] = 0]
  /\ UNCHANGED <<d, cap, latch, frameVars>>

-----------------------------------------------------------------------------
\* Decisions shared by the latch and the renderer.
Bg0Is3d(v) == v.to3d /\ 0 \in v.layers
Active(v) == {b \in v.layers \cap (0..3) : ~(b = 0 /\ Bg0Is3d(v))}
GeneralPath(v, capturing) == Bg0Is3d(v) \/ capturing \/ v.mode # 1 \/ v.wins
NeedsComposite(v, capturing, from3d) == v.mode = 1 \/ (capturing /\ ~from3d)

\* What the renderer does with a latched line (render_engine_line).
Decodes(j) ==
  IF ~j.active \/ j.d.blank THEN {}
  ELSE IF GeneralPath(j.d, j.cap) /\ ~NeedsComposite(j.d, j.cap, j.from3d) THEN {}
  ELSE Active(j.d)

Reads3d(j) ==
  /\ j.active /\ ~j.d.blank
  /\ \/ Bg0Is3d(j.d) /\ NeedsComposite(j.d, j.cap, j.from3d)
     \/ j.cap /\ j.from3d

Stages(j) == j.active /\ ~j.d.blank /\ j.cap

\* Mutant: the accumulators of an enabled layer advance on every drawn line.
AdvancesAlways(v, active, capturing) ==
  IF ~active \/ v.blank THEN {} ELSE Active(v)

\* latch_line: the layers whose accumulators advance, and whether the 3D line
\* is fetched.
Advances(v, active, capturing) ==
  IF ~active \/ v.blank THEN {}
  ELSE IF /\ GeneralPath(v, capturing)
          /\ ~(v.mode = 1 \/ (capturing /\ ~cap.from3d)) THEN {}
  ELSE Active(v)

Fetches3d(v, active, capturing) ==
  active /\ ~v.blank /\ GeneralPath(v, capturing)

Line ==
  /\ y < Rows
  /\ LET latched == latch \/ (y = 0 /\ cap.enable)
         capturing == latched /\ y < CapHeight
         active == direct = {}
         j == [d |-> d, y |-> y, active |-> active, cap |-> capturing,
               from3d |-> cap.from3d, line3d |-> Fetches3d(d, active, capturing)]
         steps == Advances(d, active, capturing)
     IN /\ latch' = latched
        /\ job' = {j}
        /\ acc' = [b \in {2, 3} |-> acc[b] + (IF b \in steps THEN 1 ELSE 0)]
        /\ decoded' = [b \in {2, 3} |->
                         decoded[b] + (IF b \in Decodes(j) THEN 1 ELSE 0)]
        /\ staged' = IF Stages(j) THEN staged \union {y} ELSE staged
        /\ armed' = IF y = 0 THEN cap.enable ELSE armed
        /\ blanked' = (blanked \/ d.blank)
        /\ fb' = IF active THEN [fb EXCEPT ![1 - front][y] = frame] ELSE fb
  /\ y' = y + 1
  /\ UNCHANGED <<d, cap, frame, front, direct, present, force, reloaded>>

\* VBlank: DISPCAPCNT's enable clears itself, but only if it was latched.
VBlank ==
  /\ y = Rows
  /\ y' = Rows + 1
  /\ cap' = [cap EXCEPT !.enable = @ /\ ~latch]
  /\ latch' = FALSE
  /\ UNCHANGED <<d, acc, decoded, frame, front, fb, direct, present, force, job,
                 staged, armed, blanked, reloaded>>

\* direct_scene_class: only 3D, OBJ and backdrop, no window, no capture.
DirectScene ==
  /\ ~cap.enable /\ ~latch
  /\ ~d.blank /\ d.mode = 1 /\ Bg0Is3d(d) /\ ~d.wins
  /\ d.layers \cap 1..3 = {}

\* start_frame keeps the finished frame's decision for presentation.
PresentLast(next) == direct

\* Line 0 of the next frame: start_frame, then finish_frame flips the buffers.
EndFrame ==
  /\ y = Rows + 1
  /\ frame < MaxFrames
  /\ LET next == IF force = 0 /\ DirectScene THEN {frame + 1} ELSE {}
     IN /\ present' = PresentLast(next)
        /\ direct' = next
  /\ force' = IF force > 0 THEN force - 1 ELSE 0
  /\ acc' = Zero /\ decoded' = Zero
  /\ front' = 1 - front
  /\ y' = 0 /\ frame' = frame + 1
  /\ staged' = {} /\ armed' = FALSE /\ blanked' = FALSE /\ reloaded' = FALSE
  /\ UNCHANGED <<d, cap, latch, fb, job>>

\* Screenshots of a live session ask for frames drawn by the CPU.
ForceCpu ==
  /\ force < 2
  /\ force' = 2
  /\ UNCHANGED <<d, cap, latch, acc, decoded, y, frame, front, fb, direct, present,
                 job, staged, armed, blanked, reloaded>>

\* A savestate written and read back at a frame boundary: the GPU's frames are
\* not part of it, and the next frame is drawn by the CPU.
Reload ==
  /\ y = 0
  /\ direct' = {} /\ present' = {}
  /\ force' = IF force = 0 THEN 1 ELSE force
  /\ job' = {} /\ reloaded' = TRUE
  /\ UNCHANGED <<d, cap, latch, acc, decoded, y, frame, front, fb, staged, armed,
                 blanked>>

Next ==
  \/ \E v \in Displays : WriteDispcnt(v)
  \/ \E e \in BOOLEAN, f \in BOOLEAN : WriteCapture([enable |-> e, from3d |-> f])
  \/ \E b \in {2, 3} : WriteReference(b)
  \/ Line \/ VBlank \/ EndFrame \/ ForceCpu \/ Reload

Spec == Init /\ [][Next]_vars

-----------------------------------------------------------------------------
(* The latch foresees the renderer (F4 and F5 of the parallelisation notes): *)
(* the accumulators have taken one step for every line on which the layer    *)
(* was decoded since its reference point was loaded, and a line that reads   *)
(* the 3D layer, for the screen or for capture, was given it.                *)
LatchMatchesRender ==
  /\ acc = decoded
  /\ \A j \in job : Reads3d(j) => j.line3d

(* What is presented is one whole frame, the one just finished: either all   *)
(* its lines in the front buffer or its own GPU descriptor.                  *)
PresentsOneFrame ==
  ~reloaded =>
    IF present # {} THEN present = {frame - 1}
    ELSE \A l \in 0..(Rows - 1) : fb[front][l] = frame - 1

(* Display capture is all or nothing: enabling it after line 0 stores        *)
(* nothing before the next frame and is not lost to VBlank's auto-clear, and *)
(* a capture that started stores every line even if the guest clears the     *)
(* enable bit meanwhile.                                                     *)
CaptureWholeFrame ==
  /\ staged # {} => armed
  /\ y = Rows /\ armed /\ ~blanked /\ direct = {} => staged = 0..(CapHeight - 1)
  /\ latch => armed \/ y = 0
=============================================================================
