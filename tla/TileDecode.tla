------------------------------- MODULE TileDecode ------------------------------
(***************************************************************************)
(* Decoding one line of a background or of the OBJ layer                   *)
(* (runner/src/gpu2d.cpp).  Text backgrounds and regular OBJ are decoded a *)
(* tile row at a time; mosaic, affine, bitmap and window OBJ go pixel by   *)
(* pixel.  The loops run here as steps, over tiles of Tile pixels and a    *)
(* line of Width, and a pixel is the texel it was read from.               *)
(***************************************************************************)
EXTENDS Integers, Sequences, FiniteSets, FiniteSetsExt

CONSTANTS Tile,       \* pixels of a tile row
          Width,      \* pixels of the native line, half the scroll range
          Flipped,    \* map columns whose tiles are flipped horizontally
          Texts,      \* text lines: [scroll, wide, mosaic]
          Affines,    \* affine lines: [dx, mosaic, my, pb, row, wrap]
          Sprites,    \* OBJ: [x, w, mode, prio, hflip, affine, double, pa, parity]
          Outputs     \* OBJ lines: [width, anchored, centre]

VARIABLES kind,       \* "text", "affine" or "obj"
          in,         \* the line's registers
          oam,        \* the OBJ entries, first is entry 0
          n,          \* OAM entry being drawn, counted down
          x,          \* next pixel of the line, or of the OBJ
          line,       \* decoded pixels: {} or the set of one texel
          window      \* OBJ-window coverage

vars == <<kind, in, oam, n, x, line, window>>

OutWidth == IF kind = "obj" THEN in.width ELSE Width
Lesser(a, b) == IF a < b THEN a ELSE b
Greater(a, b) == IF a > b THEN a ELSE b

Init ==
  /\ \/ kind = "text" /\ in \in Texts /\ oam = <<>>
     \/ kind = "affine" /\ in \in Affines /\ oam = <<>>
     \/ kind = "obj" /\ in \in Outputs /\ oam \in Sprites \X Sprites
  /\ n = Len(oam)
  /\ x = 0
  /\ line = [i \in 0..(OutWidth - 1) |-> {}]
  /\ window = {}

-----------------------------------------------------------------------------
\* Text backgrounds.  The map wraps at Width, or at twice that; a texel is
\* its map column and its place in the tile.
MapWidth(t) == IF t.wide THEN 2 * Width ELSE Width
Texel(sx, place) ==
  LET column == sx \div Tile
  IN [column |-> column,
      place |-> IF column \in Flipped THEN Tile - 1 - place ELSE place]

\* text_pixel: horizontal mosaic resamples the first pixel of its block.
TextPixel(t, i) ==
  LET sx == ((t.scroll + i) % MapWidth(t)) - (i % (t.mosaic + 1))
      wrapped == sx % MapWidth(t)
  IN {Texel(wrapped, wrapped % Tile)}

TextMosaic ==
  /\ kind = "text" /\ in.mosaic # 0 /\ x < Width
  /\ line' = [i \in DOMAIN line |-> TextPixel(in, i)]
  /\ x' = Width
  /\ UNCHANGED <<kind, in, oam, n, window>>

\* Pixels left in the tile that holds texel tx, cut at the end of the line.
TextRun(tx) == Lesser(Tile - tx, Width - x)

\* One turn of decode_text_line's loop: a single row fetch.
TextTile ==
  /\ kind = "text" /\ in.mosaic = 0 /\ x < Width
  /\ LET sx == (in.scroll + x) % MapWidth(in)
         tx == sx % Tile
         run == TextRun(tx)
     IN /\ line' = [i \in DOMAIN line |->
                      IF i \in x..(x + run - 1) THEN {Texel(sx, tx + (i - x))}
                      ELSE line[i]]
        /\ x' = x + run
  /\ UNCHANGED <<kind, in, oam, n, window>>

-----------------------------------------------------------------------------
\* Affine and extended backgrounds: the accumulator of line `row' has taken a
\* step of pb for each line; vertical mosaic goes back to its block's first.
AffineStart(a) == (a.row * a.pb) - ((a.row % (a.my + 1)) * a.pb)

AffinePixel(a, i) ==
  LET sample == i - (i % (a.mosaic + 1))
      fx == AffineStart(a) + (sample * a.dx)
  IN IF ~a.wrap /\ fx \notin 0..(Width - 1) THEN {} ELSE {fx % Width}

AffineLine ==
  /\ kind = "affine" /\ x < Width
  /\ line' = [i \in DOMAIN line |-> AffinePixel(in, i)]
  /\ x' = Width
  /\ UNCHANGED <<kind, in, oam, n, window>>

-----------------------------------------------------------------------------
\* OBJ.  The coordinate is signed; on a widened line an OBJ moves with the
\* band its centre lies in.
Box(s) == IF s.affine /\ s.double THEN 2 * s.w ELSE s.w

SignedX(s) == IF s.x >= Width THEN s.x - (2 * Width) ELSE s.x

OutputX(s) ==
  LET extra == (in.width - Width) \div 2
      centre == SignedX(s) + (Box(s) \div 2)
      left == (Width - in.centre) \div 2
  IN IF in.width <= Width THEN SignedX(s)
     ELSE IF ~in.anchored THEN SignedX(s) + extra
     ELSE IF centre < left THEN SignedX(s)
     ELSE IF centre >= left + in.centre THEN SignedX(s) + (2 * extra)
     ELSE SignedX(s) + extra

\* Disabled or off the line.
Skipped(s) ==
  \/ ~s.affine /\ s.double
  \/ OutputX(s) <= -Box(s) \/ OutputX(s) >= in.width

Opaque(s, px) == px % 2 = s.parity \/ s.parity = 2

\* put_obj: entries come last to first, so an equal priority replaces.
Put(l, at, p) ==
  IF at \notin DOMAIN l \/ (\E q \in l[at] : p.prio > q.prio) THEN l
  ELSE [l EXCEPT ![at] = {p}]

ObjPixel(s, k, px) ==
  [entry |-> k, px |-> px, prio |-> s.prio,
   alpha |-> IF s.mode = 1 THEN 255 ELSE IF s.mode = 3 THEN 8 ELSE 0]

\* The per-tile path draws the visible part of a regular tile OBJ.
FastObj(s) == ~s.affine /\ s.mode \in {0, 1}

FirstDx(s) == Greater(0, -OutputX(s))
EndDx(s) == Lesser(Box(s), in.width - OutputX(s))

NextEntry == n' = n - 1 /\ x' = 0

ObjSkip ==
  /\ kind = "obj" /\ n > 0 /\ Skipped(oam[n])
  /\ NextEntry
  /\ UNCHANGED <<kind, in, oam, line, window>>

DrawRun(s, dx, run) ==
  LET px(i) == IF s.hflip THEN s.w - 1 - (dx + i) ELSE dx + i
      At(i) == OutputX(s) + dx + i
  IN [p \in DOMAIN line |->
        LET i == p - At(0)
        IN IF i \in 0..(run - 1) /\ Opaque(s, px(i))
           THEN Put(line, p, ObjPixel(s, n, px(i)))[p]
           ELSE line[p]]

ObjTile ==
  /\ kind = "obj" /\ n > 0 /\ ~Skipped(oam[n]) /\ FastObj(oam[n])
  /\ LET s == oam[n]
         dx == Greater(x, FirstDx(s))
         px == IF s.hflip THEN s.w - 1 - dx ELSE dx
         left == IF s.hflip THEN (px % Tile) + 1 ELSE Tile - (px % Tile)
         run == Lesser(left, EndDx(s) - dx)
     IN /\ line' = DrawRun(s, dx, run)
        /\ IF dx + run < EndDx(s) THEN x' = dx + run /\ n' = n ELSE NextEntry
  /\ UNCHANGED <<kind, in, oam, window>>

\* The generic loop, one pixel of the bounding box at a time.
SourceX(s, dx) ==
  IF s.affine THEN (((dx - (Box(s) \div 2)) * s.pa) + (s.w * 128)) \div 256
  ELSE IF s.hflip THEN s.w - 1 - dx ELSE dx

Covers(s, dx) == SourceX(s, dx) \in 0..(s.w - 1) /\ Opaque(s, SourceX(s, dx))

ObjPixelStep ==
  /\ kind = "obj" /\ n > 0 /\ ~Skipped(oam[n]) /\ ~FastObj(oam[n])
  /\ LET s == oam[n]
         at == OutputX(s) + x
         drawn == Covers(s, x) /\ at \in 0..(in.width - 1)
     IN /\ line' = IF drawn /\ s.mode # 2
                   THEN Put(line, at, ObjPixel(s, n, SourceX(s, x))) ELSE line
        /\ window' = IF drawn /\ s.mode = 2 THEN window \union {at} ELSE window
        /\ IF x + 1 < Box(s) THEN x' = x + 1 /\ n' = n ELSE NextEntry
  /\ UNCHANGED <<kind, in, oam>>

Next == TextMosaic \/ TextTile \/ AffineLine \/ ObjSkip \/ ObjTile \/ ObjPixelStep

Spec == Init /\ [][Next]_vars

-----------------------------------------------------------------------------
\* What a sprite puts at a pixel of the line, read off the generic loop.
Shows(k, p) ==
  LET s == oam[k]
      dx == p - OutputX(s)
  IN ~(~s.affine /\ s.double) /\ dx \in 0..(Box(s) - 1) /\ Covers(s, dx)

Winner(p) ==
  LET shown == {k \in DOMAIN oam : oam[k].mode # 2 /\ Shows(k, p)}
      best == {k \in shown : \A j \in shown :
                 oam[k].prio < oam[j].prio
                 \/ (oam[k].prio = oam[j].prio /\ k <= j)}
  IN {ObjPixel(oam[k], k, SourceX(oam[k], p - OutputX(oam[k]))) : k \in best}

(* A line decoded a tile row at a time, with its scroll, flips, clipping and *)
(* wrap, holds the pixels that the per-pixel definition gives; an affine     *)
(* line leaves the outside of its map transparent unless it wraps, and a     *)
(* mosaic block is one sample.                                               *)
BackgroundExact ==
  /\ kind = "text" /\ x = Width => \A i \in DOMAIN line : line[i] = TextPixel(in, i)
  /\ kind = "affine" /\ x = Width =>
       /\ in.wrap => \A i \in DOMAIN line : line[i] # {}
       /\ \A i \in DOMAIN line : line[i] = line[i - (i % (in.mosaic + 1))]
       /\ \A i \in DOMAIN line :
            line[i] = AffinePixel([in EXCEPT !.row = @ - (@ % (in.my + 1))], i)

(* The OBJ line, whichever loops drew it, shows at each pixel the opaque OBJ *)
(* of the best priority and, among equals, the lowest OAM entry; OBJ-window  *)
(* sprites only add coverage.                                                *)
ObjExact ==
  kind = "obj" /\ n = 0 =>
    /\ \A p \in DOMAIN line : line[p] = Winner(p)
    /\ window = {p \in DOMAIN line :
                   \E k \in DOMAIN oam : oam[k].mode = 2 /\ Shows(k, p)}
=============================================================================
