------------------------------ MODULE Compositor ------------------------------
(***************************************************************************)
(* How one engine of the 2D unit turns its layers into a pixel             *)
(* (runner/src/gpu2d.cpp, gpu2d_window.h) and how the presenters repeat    *)
(* that work at other resolutions (melonds_compute/ComputeHost.cpp).  The  *)
(* same pixel has five implementations: the general path, three fast paths *)
(* a line takes when its registers allow it, the widened compositor that   *)
(* inserts the 3D layer last, and two shaders.  Colours are symbolic: a    *)
(* term names the layers and the arithmetic that was applied, so two paths *)
(* agree exactly when they apply the same operation to the same layers.    *)
(***************************************************************************)
EXTENDS Integers, Sequences, FiniteSets, SequencesExt

CONSTANTS Low,        \* bytes 0 of DISPCNT: [bgMode, to3d, blank]
          Mid,        \* bytes 1: [layers, wins]
          Modes,      \* display modes written to byte 2
          Priorities, \* BGCNT priorities, functions on 0..3
          Blends,     \* BLDCNT: [mode, first, second]
          Masters,    \* MASTER_BRIGHT modes
          Windows,    \* [w0, w1, in0, in1, out, objwin]
          Native,     \* columns of the native line
          Wide,       \* columns of the widened line
          Rows        \* lines of the screen

VARIABLES engine,     \* 0 or 1
          powered,    \* POWCNT1 lets the engine's registers be written
          u           \* the engine's registers

vars == <<engine, powered, u>>

OBJ == 4
Backdrop == 5         \* also the colour-effect bit of a window mask
Layers == 0..3

-----------------------------------------------------------------------------
\* Registers.  DISPCNT is written in bytes; engine B has no 3D layer and one
\* bit of display mode.
Masked(r) == IF engine = 0 THEN r
             ELSE [r EXCEPT !.to3d = FALSE, !.mode = @ % 2]

WriteLow(b) ==
  /\ u' = Masked([u EXCEPT !.bgMode = b.bgMode, !.to3d = b.to3d, !.blank = b.blank])
  /\ UNCHANGED <<engine, powered>>

WriteMid(b) ==
  /\ u' = Masked([u EXCEPT !.layers = b.layers, !.wins = b.wins])
  /\ UNCHANGED <<engine, powered>>

WriteMode(m) ==
  /\ u' = Masked([u EXCEPT !.mode = m])
  /\ UNCHANGED <<engine, powered>>

WriteMaster(m) ==
  /\ u' = [u EXCEPT !.master = m]
  /\ UNCHANGED <<engine, powered>>

\* An engine without power ignores every other register.
WriteBgcnt(p) ==
  /\ powered
  /\ u' = [u EXCEPT !.prio = p]
  /\ UNCHANGED <<engine, powered>>

WriteBlend(b) ==
  /\ powered
  /\ u' = [u EXCEPT !.bld = b]
  /\ UNCHANGED <<engine, powered>>

WriteWindow(w) ==
  /\ powered
  /\ u' = [u EXCEPT !.win = w]
  /\ UNCHANGED <<engine, powered>>

WritePower ==
  /\ powered' = ~powered
  /\ UNCHANGED <<engine, u>>

NoWindow == [left |-> 0, right |-> 0, top |-> 0, bottom |-> 0]

Init ==
  /\ engine \in {0, 1}
  /\ powered = TRUE
  /\ u = [bgMode |-> 0, to3d |-> FALSE, blank |-> FALSE, layers |-> {},
          wins |-> {}, mode |-> 0, master |-> 0,
          prio |-> [b \in Layers |-> 0],
          bld |-> [mode |-> 0, first |-> {}, second |-> {}],
          win |-> [w0 |-> NoWindow, w1 |-> NoWindow, in0 |-> {}, in1 |-> {},
                   out |-> {}, objwin |-> {}]]

Next ==
  \/ \E b \in Low : WriteLow(b)
  \/ \E b \in Mid : WriteMid(b)
  \/ \E m \in Modes : WriteMode(m)
  \/ \E m \in Masters : WriteMaster(m)
  \/ \E p \in Priorities : WriteBgcnt(p)
  \/ \E b \in Blends : WriteBlend(b)
  \/ \E w \in Windows : WriteWindow(w)
  \/ WritePower

Spec == Init /\ [][Next]_vars

-----------------------------------------------------------------------------
\* Windows (gpu2d_window.h).
SpanContains(p, start, end) ==
  \/ start < end /\ start <= p /\ p < end
  \/ start > end /\ (start <= p \/ p < end)

InRect(x, y, r) == SpanContains(x, r.left, r.right) /\ SpanContains(y, r.top, r.bottom)

WindowMask(x, y, objWindow) ==
  IF u.wins = {} THEN 0..5
  ELSE IF "w0" \in u.wins /\ InRect(x, y, u.win.w0) THEN u.win.in0
  ELSE IF "w1" \in u.wins /\ InRect(x, y, u.win.w1) THEN u.win.in1
  ELSE IF "obj" \in u.wins /\ objWindow THEN u.win.objwin
  ELSE u.win.out

RectReachable(r) == r.left # r.right /\ r.top # r.bottom

\* The presenter can put the 3D layer back only where no window removes it.
WindowsSupportHd ==
  \/ u.wins = {}
  \/ /\ 0 \in u.win.out
     /\ "w0" \in u.wins /\ RectReachable(u.win.w0) => 0 \in u.win.in0
     /\ "w1" \in u.wins /\ RectReachable(u.win.w1) => 0 \in u.win.in1
     /\ "obj" \in u.wins => 0 \in u.win.objwin

-----------------------------------------------------------------------------
\* Layers.
BgKind(b) ==
  IF b < 2 THEN (IF u.bgMode = 6 THEN "none" ELSE "text")
  ELSE IF b = 2 THEN CASE u.bgMode \in {0, 1, 3} -> "text"
                       [] u.bgMode \in {2, 4} -> "affine"
                       [] u.bgMode = 5 -> "extended"
                       [] OTHER -> "none"
  ELSE CASE u.bgMode = 0 -> "text"
         [] u.bgMode \in {1, 2} -> "affine"
         [] u.bgMode \in {3, 4, 5} -> "extended"
         [] OTHER -> "none"

Bg0Is3d == engine = 0 /\ u.to3d /\ 0 \in u.layers

ActiveBgs(bg0Is3d) ==
  {b \in Layers : b \in u.layers /\ ~(b = 0 /\ bg0Is3d) /\ BgKind(b) # "none"}

\* What one column holds: the opaque backgrounds, at most one OBJ pixel, and
\* the alpha of the 3D pixel (0 is transparent).
Pixel(color, target, alpha, prio, order, alpha5) ==
  [color |-> <<color>>, target |-> target, alpha |-> alpha, prio |-> prio,
   order |-> order, alpha5 |-> alpha5]
BackdropPixel == Pixel("backdrop", Backdrop, 0, 4, 5, 0)
BgPixel(b) == Pixel(b, b, 0, u.prio[b], b + 1, 0)
ObjPixel(prio, alpha) == Pixel("obj", OBJ, alpha, prio, 0, 0)
Pixel3d(alpha5) == Pixel("3d", 0, 0, u.prio[0], 1, alpha5)

Ahead(a, b) == a.prio < b.prio \/ (a.prio = b.prio /\ a.order < b.order)

Push(pair, p) ==
  IF Ahead(p, pair[1]) THEN <<p, pair[1]>>
  ELSE IF Ahead(p, pair[2]) THEN <<pair[1], p>>
  ELSE pair

\* Pushing candidates of a column in the order given.
TopTwo(pixels) == FoldLeft(Push, <<BackdropPixel, BackdropPixel>>, pixels)

InOrder(bgs) == SelectSeq(<<0, 1, 2, 3>>, LAMBDA b : b \in bgs)
BgPixels(bgs) == [i \in 1..Cardinality(bgs) |-> BgPixel(InOrder(bgs)[i])]
Optional(pixel, present) == IF present THEN <<pixel>> ELSE <<>>

-----------------------------------------------------------------------------
\* Colour effects (compose).  A semi-transparent OBJ uses its own factor, or
\* the BLDALPHA pair when its alpha is 255.
Blend(a, b, alpha) == <<"blend", alpha, a, b>>
Fade(mode, c) == <<IF mode = 2 THEN "brighten" ELSE "darken", c>>

Compose(top, below, effects) ==
  LET second == below.target \in u.bld.second
      first == effects /\ top.target \in u.bld.first
  IN IF top.alpha5 # 0
     THEN IF second THEN <<"blend5", top.alpha5, top.color, below.color>>
          ELSE IF first /\ u.bld.mode \in {2, 3} THEN Fade(u.bld.mode, top.color)
          ELSE top.color
     ELSE IF top.alpha # 0 /\ second THEN Blend(top.color, below.color, top.alpha)
     ELSE IF first /\ u.bld.mode = 1 /\ second
     THEN Blend(top.color, below.color, 255)
     ELSE IF first /\ u.bld.mode \in {2, 3} THEN Fade(u.bld.mode, top.color)
     ELSE top.color

Master(c) == IF u.master = 0 THEN c
             ELSE <<IF u.master = 1 THEN "up" ELSE "down", c>>

-----------------------------------------------------------------------------
\* The general path (compose_line6): backgrounds by number, then the 3D
\* layer, then the OBJ pixel, each only where the window lets it show.
GeneralPath(bg0Is3d, capturing) ==
  bg0Is3d \/ capturing \/ u.mode # 1 \/ u.wins # {}

General(bg0Is3d, mask, bgs, obj, alpha3d) ==
  LET pair == TopTwo(BgPixels(bgs \cap ActiveBgs(bg0Is3d) \cap mask)
                     \o Optional(Pixel3d(alpha3d),
                                 bg0Is3d /\ 0 \in mask /\ alpha3d # 0)
                     \o SetToSeq(IF OBJ \in mask THEN obj ELSE {}))
  IN Master(Compose(pair[1], pair[2], Backdrop \in mask))

\* The fast paths of render_engine_line.  Backgrounds are sorted front first
\* by an insertion that keeps equal priorities in order of number.
Before(a, b) == u.prio[a] < u.prio[b] \/ (u.prio[a] = u.prio[b] /\ a < b)

FrontFirst(bgs) ==
  FoldLeft(LAMBDA sorted, b :
             InsertAt(sorted, 1 + Cardinality({i \in DOMAIN sorted :
                                                 ~Before(b, sorted[i])}), b),
           <<>>, InOrder(bgs))

NoBgPath == ActiveBgs(FALSE) = {} /\ u.bld = [mode |-> 0, first |-> {}, second |-> {}]
            /\ u.master = 0
NoEffectPath == u.bld.mode = 0 /\ u.bld.second = {} /\ u.master = 0

FrontOnly(opaque, obj) ==
  LET front == IF opaque = <<>> THEN BackdropPixel ELSE BgPixel(opaque[1])
  IN IF \E o \in obj : o.prio <= front.prio
     THEN (CHOOSE o \in obj : TRUE).color ELSE front.color

\* The sorted order replaces the comparison: the first opaque background is
\* the top candidate, the second the one below.
TwoLayers(opaque, obj) ==
  LET top == IF opaque = <<>> THEN BackdropPixel ELSE BgPixel(opaque[1])
      below == IF Len(opaque) < 2 THEN BackdropPixel ELSE BgPixel(opaque[2])
      pair == FoldLeft(Push, <<top, below>>, SetToSeq(obj))
  IN Master(Compose(pair[1], pair[2], TRUE))

Fast(bgs, obj) ==
  LET opaque == SelectSeq(FrontFirst(ActiveBgs(FALSE)), LAMBDA b : b \in bgs)
  IN IF NoBgPath THEN (IF obj = {} THEN BackdropPixel.color
                       ELSE (CHOOSE o \in obj : TRUE).color)
     ELSE IF NoEffectPath THEN FrontOnly(opaque, obj)
     ELSE TwoLayers(opaque, obj)

-----------------------------------------------------------------------------
\* The widened compositor: native columns sit in the middle of the wide line,
\* or, with an anchored HUD, are split into a left, a centre and a right band.
Extra == (Wide - Native) \div 2

HudX(anchored, centre, x) ==
  LET left == (Native - centre) \div 2
      right == left + centre
  IN IF anchored
     THEN IF x < left THEN {x}
          ELSE IF x >= Extra + left /\ x < Extra + right THEN {x - Extra}
          ELSE IF x >= Wide - (Native - right) THEN {x - (Wide - Native)}
          ELSE {}
     ELSE IF x >= Extra /\ x < Extra + Native THEN {x - Extra} ELSE {}

\* A margin column has the window status of the nearest native column.
AdaptiveWindowX(anchored, centre, x) ==
  LET hud == HudX(anchored, centre, x)
  IN IF hud # {} THEN CHOOSE h \in hud : TRUE
     ELSE IF x < Extra THEN 0
     ELSE IF x - Extra > Native - 1 THEN Native - 1 ELSE x - Extra

AdaptiveScene ==
  /\ engine = 0 /\ ~u.blank /\ u.mode = 1 /\ Bg0Is3d
  /\ \A b \in 1..3 : b \in u.layers => BgKind(b) = "text"

\* The stack without the 3D layer, which the high-resolution presenter gets.
Without3d(mask, bgs, obj) ==
  TopTwo(BgPixels((bgs \cap u.layers \cap mask) \ {0})
         \o SetToSeq(IF OBJ \in mask THEN obj ELSE {}))

Adaptive(mask, bgs, obj, alpha3d) ==
  LET stack == Without3d(mask, bgs, obj)
      pair == IF alpha3d # 0 /\ 0 \in mask THEN Push(stack, Pixel3d(alpha3d))
              ELSE stack
  IN Master(Compose(pair[1], pair[2], Backdrop \in mask))

\* The shaders.  The high-resolution one inserts the 3D layer into the two
\* pixels it was given, whatever the window says.
HdShader(mask, bgs, obj, alpha3d) ==
  LET stack == Without3d(mask, bgs, obj)
      pair == IF alpha3d # 0 THEN Push(stack, Pixel3d(alpha3d)) ELSE stack
  IN Master(Compose(pair[1], pair[2], Backdrop \in mask))

\* The direct one has the OBJ surface, the 3D surface and the backdrop.
DirectScene == AdaptiveScene /\ u.wins = {} /\ u.layers \cap 1..3 = {}

DirectShader(obj, alpha3d) ==
  LET o == CHOOSE p \in obj : TRUE
      wins == obj # {} /\ (alpha3d = 0 \/ o.prio <= u.prio[0])
  IN Master(IF wins THEN Compose(o, IF alpha3d # 0 THEN Pixel3d(alpha3d)
                                    ELSE BackdropPixel, TRUE)
            ELSE IF alpha3d # 0 THEN Compose(Pixel3d(alpha3d), BackdropPixel, TRUE)
            ELSE Compose(BackdropPixel, BackdropPixel, TRUE))

-----------------------------------------------------------------------------
\* Column contents the checks range over.
ObjPixels == {{}} \union {{ObjPixel(p, a)} : p \in {0, 2}, a \in {0, 8, 255}}
Alphas == {0, 16}
Masks == {WindowMask(x, y, o) : x \in 0..(Native - 1), y \in 0..(Rows - 1),
                                o \in BOOLEAN}

(* A line that takes one of the fast paths of render_engine_line shows what *)
(* the general path would have shown, for every content of a column: the    *)
(* sorted scan with its two candidates, the front-only scan and the no-     *)
(* background shortcut drop nothing a blend or a priority tie needed.       *)
FastPathsExact ==
  ~GeneralPath(Bg0Is3d, FALSE) =>
    \A bgs \in SUBSET ActiveBgs(FALSE), obj \in ObjPixels :
      Fast(bgs, obj) = General(FALSE, 0..5, bgs, obj, 0)

\* On a widened frame every native column keeps its native pixel: inserting
\* the 3D layer after the others picks the pair that the interleaved pass
\* picks, the high-resolution shader agrees whenever its surfaces are
\* emitted (a window that hides the 3D layer anywhere stands it down), and
\* each native column is shown in exactly one place.
WidenedExact ==
  AdaptiveScene =>
    /\ \A mask \in Masks, bgs \in SUBSET ActiveBgs(TRUE), obj \in ObjPixels,
          alpha3d \in Alphas :
         LET native == General(TRUE, mask, bgs, obj, alpha3d)
         IN /\ Adaptive(mask, bgs, obj, alpha3d) = native
            /\ WindowsSupportHd => HdShader(mask, bgs, obj, alpha3d) = native
    /\ \A anchored \in BOOLEAN, centre \in {2, Native} :
         /\ \A n \in 0..(Native - 1) :
              Cardinality({x \in 0..(Wide - 1) :
                             HudX(anchored, centre, x) = {n}}) = 1
         /\ \A x \in 0..(Wide - 1) :
              AdaptiveWindowX(anchored, centre, x) \in 0..(Native - 1)

\* Where no OBJ pixel lies behind the 3D layer, the direct presenter shows
\* what the compositor shows.
DirectExact ==
  DirectScene =>
    \A obj \in ObjPixels, alpha3d \in Alphas :
      (alpha3d = 0 \/ \A o \in obj : o.prio <= u.prio[0]) =>
        DirectShader(obj, alpha3d) = General(TRUE, 0..5, {}, obj, alpha3d)

(* Every presenter of a frame shows the pixels the compositor would, the    *)
(* widened one with its shader and the direct one.                          *)
PresentersExact == WidenedExact /\ DirectExact
=============================================================================
