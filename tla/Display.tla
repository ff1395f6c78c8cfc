------------------------------- MODULE Display ---------------------------------
(***************************************************************************)
(* The raster of src/runner/src/io.cpp.  The scheduler puts a deadline on  *)
(* every HBlank and every line start, so each nds_tick_display that finds  *)
(* work crosses one of them.  VCOUNT follows the physical line, but it is  *)
(* writable: a write takes effect at the next line.                        *)
(***************************************************************************)
EXTENDS Naturals

CONSTANTS Lines,     \* physical lines of a frame (263)
          Visible,   \* lines that are rendered; VBlank starts after them (192)
          Sync, Raster, \* VCOUNT of the 3D frame's sync and raster (144, 215)
          Settings   \* values the guest gives VCOUNT and the match setting

VARIABLES line,      \* the physical line, g_display_last / 2130
          hblank,    \* the line's HBlank has been crossed
          vcount, pending, \* pending: {g_next_vcount}, or {} if not valid
          vblank,    \* g_in_vblank
          dispstat,  \* one CPU's match setting and interrupt enables
          match,     \* g_vcount_match
          requests,  \* its display bits of IF
          frame3d,   \* 3D frame: "idle", "latched" at VBlank, then "drawn"
          rendered,  \* lines rendered since a frame was last finished
          shifted,   \* a VCOUNT write has taken effect in this frame
          clean      \* ... and none did in the whole frame before

vars == <<line, hblank, vcount, pending, vblank, dispstat, match, requests,
          frame3d, rendered, shifted, clean>>

Ends == Lines - 1   \* VCOUNT at which the VBlank flag falls (262)

Init ==
  /\ line = 0 /\ hblank = FALSE /\ vcount = 0 /\ pending = {}
  /\ vblank = FALSE /\ match = FALSE /\ requests = {} /\ frame3d = "idle"
  /\ dispstat = [match |-> 0, vcount |-> FALSE, vblank |-> FALSE]
  /\ rendered = 0 /\ shifted = FALSE /\ clean = TRUE

-----------------------------------------------------------------------------
(* nds_tick_display.                                                       *)

\* An HBlank renders its line.
HBlank ==
  /\ ~hblank
  /\ hblank' = TRUE
  /\ rendered' = IF line < Visible THEN rendered + 1 ELSE rendered
  /\ UNCHANGED <<line, vcount, pending, vblank, dispstat, match, requests,
                 frame3d, shifted, clean>>

\* The counter at the start of physical line n: zero at the frame's start,
\* else the pending write, else one more.  A pending write is consumed either
\* way.
VcountFree(n) ==
  IF pending # {} THEN CHOOSE v \in pending : TRUE ELSE (vcount + 1) % Lines
VcountAt(n) ==
  IF n = 0 THEN 0
  ELSE IF pending # {} THEN CHOOSE v \in pending : TRUE
  ELSE vcount + 1

\* The flag falls on 262 and rises on 192; every other line leaves it.
FlagAt(v) ==
  IF v = Ends THEN FALSE ELSE IF v = Visible THEN TRUE ELSE vblank

Frame3dAt(v) ==
  IF v = Visible THEN "latched"
  ELSE IF v = Raster /\ frame3d = "latched" THEN "drawn"
  ELSE IF v = Sync /\ frame3d = "drawn" THEN "idle"
  ELSE frame3d

\* The frame boundary starts the new frame and then publishes the old one.
LineStart ==
  /\ hblank
  /\ LET n == (line + 1) % Lines
         v == VcountAt(n)
     IN  /\ line' = n /\ hblank' = FALSE
         /\ vcount' = v /\ pending' = {}
         /\ match' = (v = dispstat.match)
         /\ vblank' = FlagAt(v)
         /\ requests' = requests
              \cup {i \in {"vcount"} : v = dispstat.match /\ dispstat.vcount}
              \cup {i \in {"vblank"} : v = Visible /\ dispstat.vblank}
         /\ frame3d' = Frame3dAt(v)
         /\ rendered' = IF n = 0 THEN 0 ELSE rendered
         /\ shifted' = (n # 0 /\ (shifted \/ pending # {}))
         /\ clean' = IF n = 0 THEN ~shifted ELSE clean
  /\ UNCHANGED dispstat

\* nds_io_write: DISPSTAT, and VCOUNT by itself or as the upper half.
WriteDispstat ==
  /\ \E m \in Settings, c \in BOOLEAN, b \in BOOLEAN :
       dispstat' = [match |-> m, vcount |-> c, vblank |-> b]
  /\ UNCHANGED <<line, hblank, vcount, pending, vblank, match, requests,
                 frame3d, rendered, shifted, clean>>
WriteVcount ==
  /\ \E v \in Settings : pending' = {v}
  /\ UNCHANGED <<line, hblank, vcount, vblank, dispstat, match, requests,
                 frame3d, rendered, shifted, clean>>

\* The handler acknowledges.
Acknowledge ==
  /\ requests # {}
  /\ requests' = {}
  /\ UNCHANGED <<line, hblank, vcount, pending, vblank, dispstat, match,
                 frame3d, rendered, shifted, clean>>

Next == HBlank \/ LineStart \/ WriteDispstat \/ WriteVcount \/ Acknowledge

-----------------------------------------------------------------------------
\* Whatever the guest writes to VCOUNT, and however often, the damage ends
\* with the frame: the counter is the physical line until the next write takes
\* effect, and after one frame without a write the VBlank flag is exactly the
\* 192..261 window again and every 3D frame latched at VBlank is rasterised
\* before the next latch.  Each finished frame has all its lines, whatever
\* VCOUNT said (nds_tick_display).
RasterRecovers ==
  /\ ~shifted => vcount = line
  /\ clean /\ ~shifted =>
       /\ vblank = (Visible <= vcount /\ vcount < Ends)
       /\ vcount = Visible - 1 => frame3d # "latched"
  /\ line = Ends /\ hblank => rendered = Visible
=============================================================================
