------------------------------ MODULE MCDevices -------------------------------
(***************************************************************************)
(* The peripherals of io.cpp, model checked side by side: `part' names the *)
(* one that runs in a behaviour, the others keep their initial state.      *)
(***************************************************************************)
EXTENDS Integers, Sequences, WellFoundedInduction, TLAPS

CONSTANTS DivBits, RootBits,                      \* widths of the math unit's words
          Lines, Visible, Raster, Sync, Settings, \* the raster
          FlashCells, MaxPhase,                   \* the SPI bus
          Kind, Infrared, ChipCells, MaxBytes,    \* the cartridge's backup chip
          Top, LastTimer, Reloads, Prescalers,    \* the timers
          IrqBits, MaxGap, MaxTimerWrites,
          StartDates, DateBytes, AlarmBytes,      \* the clock
          MaxRtcBytes, MaxSeconds

\* The words of the root unit split into pairs of bits; the 3D frame is synced
\* within the picture and rasterised within VBlank (io.cpp: 144, 192, 215, 262).
ASSUME DevicesAssumption ==
  /\ DivBits \in Nat \ {0}
  /\ RootBits \in Nat \ {0} /\ RootBits % 2 = 0
  /\ Lines \in Nat /\ Visible \in Nat /\ Raster \in Nat /\ Sync \in Nat
  /\ 0 < Sync /\ Sync < Visible /\ Visible < Raster /\ Raster < Lines - 1
  /\ Settings \subseteq Nat
  /\ 0 \in FlashCells /\ 0 \in ChipCells /\ Infrared \in BOOLEAN
  /\ Top \in Nat \ {0} /\ LastTimer \in Nat /\ Reloads \subseteq 0 .. Top - 1
  /\ Prescalers \subseteq Nat \ {0} /\ IrqBits \subseteq BOOLEAN

VARIABLES part,
  bank, gap, irq, hw, hwIrq, wrapped, stale, writes,
  div, root,
  line, hblank, vcount, pending, vblank, dispstat, match, requests,
  frame3d, rendered, shifted, clean,
  card, slot, dma, moved, plain, cardWrites,
  spi, fw, fwFile, fwFailed, fwDetached, fwTouched, pm, tsc,
  code, area, dump, sched, keyMode, answer,
  aux, chip, ircmd, file, detached, failed, cut,
  dt, h24, mode, alarms, tick, flags, port, rtcLine, used,
  exmem, wait, power, transfer, channel, run, level, stall, charged, dmaWrites,
  given, units, due, requested

tVars == <<bank, gap, irq, hw, hwIrq, wrapped, stale, writes>>
mVars == <<div, root>>
dVars == <<line, hblank, vcount, pending, vblank, dispstat, match, requests,
           frame3d, rendered, shifted, clean>>
cVars == <<card, slot, dma, moved, plain, cardWrites>>
sVars == <<spi, fw, fwFile, fwFailed, fwDetached, fwTouched, pm, tsc>>
kVars == <<code, area, dump, sched, keyMode, answer>>
bVars == <<aux, chip, ircmd, file, detached, failed, cut>>
rVars == <<dt, h24, mode, alarms, tick, flags, port, rtcLine, used>>
uVars == <<exmem, wait, power, transfer, channel, run, level, stall, charged,
           dmaWrites, given, units, due, requested>>
vars == <<part, tVars, mVars, dVars, cVars, sVars, kVars, bVars, rVars, uVars>>

-----------------------------------------------------------------------------
(* The instances and their bounds.                                         *)

T == INSTANCE Timers WITH
       TimerIds <- 0 .. LastTimer, MaxWrites <- MaxTimerWrites,
       Controls <- [enable : BOOLEAN, cascade : BOOLEAN, irq : IrqBits,
                    pre : Prescalers]
M == INSTANCE MathUnit
D == INSTANCE Display
C == INSTANCE Gamecard WITH
       Channels <- {0, 1}, Lengths <- {0, 1, 3}, Counts <- {1, 3},
       Budgets <- {1, 4}, MaxWrites <- 4, writes <- cardWrites,
       Rounds <- 2, Base <- [i \in 0 .. 7 |-> ((7 * i + 3) \div 2) % 4],
       GameCodes <- 1 .. 3, Pages <- 8, Secure <- 2, mode <- keyMode,
       Dumps <- {<<<<2, 2>>, b, c>> : b \in (0 .. 3) \X (0 .. 3),
                                      c \in {<<0, 1>>, <<2, 2>>}}
S == INSTANCE Spi WITH
       Cells <- FlashCells, file <- fwFile, failed <- fwFailed,
       detached <- fwDetached, touched <- fwTouched
B == INSTANCE CartBackup WITH Cells <- ChipCells
R == INSTANCE Rtc WITH MaxBytes <- MaxRtcBytes, line <- rtcLine

\* Dates around the ends of a day, a leap February, a year and the century;
\* bytes in and out of the BCD ranges.
ClockDates == {<<36, 1, 1, 1, 82, 0, 0>>, <<153, 18, 49, 4, 99, 89, 88>>,
               <<36, 2, 40, 3, 99, 89, 89>>}
ClockBytes == <<{0, 1}, {2, 18}, {40, 49, 63}, {6}, {10, 17, 35, 114},
                {89}, {89, 90}>>

\* The registers a savestate accepts, in a 24-hour or a 12-hour notation; the
\* host's date is one of them (rtc_sync_host), and the guest writes any byte.
Registers == [1 .. 7 -> Nat]
Accepted(d, full) ==
  /\ d \in Registers /\ \A i \in {1, 2, 3, 6, 7} : R!Digits(d[i])
  /\ d[2] \in 1 .. 18 /\ d[3] \in 1 .. 49 /\ d[4] \in 0 .. 6
  /\ R!Digits(R!Hour(d[5])) /\ R!Hour(d[5]) <= (IF full THEN 35 ELSE 17)
  /\ d[6] <= 89 /\ d[7] <= 89
ASSUME ClockAssumption ==
  /\ \A d \in StartDates : Accepted(d, TRUE)
  /\ DateBytes \in [1 .. 7 -> SUBSET Nat]

\* A transfer: CPU, channel, unit width, the two regions and their steps, units.
X(cpu, ch, width, src, dst, si, di, n) ==
  [cpu |-> cpu, ch |-> ch, width |-> width, src |-> src, dst |-> dst,
   srcInc |-> si, dstInc |-> di, count |-> n, gx |-> dst = "Io"]
Exmem(a, b, c, s, k) == [ramN |-> a, romN |-> b, romS |-> c, slot |-> s, card |-> k]
Waits == {[n0 |-> 1, s0 |-> TRUE, n1 |-> 3, s1 |-> FALSE]}
U == INSTANCE DmaBurst WITH
       Transfers <- {X(0, 0, 4, "Main", "Io", 1, 0, 12),
                     X(0, 1, 4, "Main", "Io", 1, 0, 18),
                     X(0, 3, 4, "Main", "Vram", 1, 1, 85),
                     X(1, 3, 2, "GbaRom", "Main", 1, 1, 12),
                     X(1, 3, 4, "Wifi0", "Main", 1, 1, 12),
                     X(1, 3, 2, "Main", "Wifi1", 1, 1, 12),
                     X(0, 3, 2, "GbaRam", "Wram", 1, 1, 12),
                     X(0, 3, 4, "Main", "Vram", -1, 1, 12),
                     X(1, 0, 4, "Main", "GbaRom", 1, 1, 12),
                     X(0, 0, 2, "Oam", "Main", 1, -1, 12),
                     X(0, 0, 2, "Vram", "Vram", 1, -1, 12)},
       ExmemValues <- {Exmem(1, 2, TRUE, TRUE, FALSE),
                       Exmem(3, 1, FALSE, FALSE, TRUE)},
       WaitValues <- Waits, Slices <- {12, 64}, kChunk <- 5, Half <- 6,
       Depth <- 10, Drains <- {3, 9}, MaxWrites <- 2, IndexTop <- 65536,
       t <- transfer, d <- channel, w <- dmaWrites, k <- units
\* The geometry FIFO and the request cap at their real sizes.
G == INSTANCE DmaBurst WITH
       Transfers <- {X(0, 0, 4, "Main", "Io", 1, 0, 240)},
       ExmemValues <- {Exmem(1, 2, TRUE, TRUE, FALSE)}, WaitValues <- Waits,
       Slices <- {64}, kChunk <- 112, Half <- 128, Depth <- 256,
       Drains <- {20, 100}, MaxWrites <- 0, IndexTop <- 65536,
       t <- transfer, d <- channel, w <- dmaWrites, k <- units

-----------------------------------------------------------------------------
Init ==
  /\ part \in {"timers", "div", "root", "display", "card", "key", "spi", "backup",
              "rtc", "burst", "gx"}
  /\ T!Init /\ M!Init /\ D!Init /\ C!DmaInit /\ C!KeyInit /\ S!Init /\ B!Init /\ R!Init
  /\ IF part = "gx" THEN G!Init ELSE U!Init
  /\ part \notin {"burst", "gx"} => transfer.width = 4 /\ transfer.count = 18
  /\ part # "rtc" => dt[1] = 153
  /\ part # "spi" => fwFile = S!StartImage
  /\ part # "key" => code = 1 /\ dump = <<<<2, 2>>, <<0, 0>>, <<0, 1>>>>

Next ==
  \/ /\ part = "timers" /\ T!Next
     /\ UNCHANGED <<part, mVars, dVars, cVars, kVars, sVars, bVars, rVars, uVars>>
  \/ /\ part = "div" /\ M!DivNext
     /\ UNCHANGED <<part, tVars, dVars, cVars, kVars, sVars, bVars, rVars, uVars>>
  \/ /\ part = "root" /\ M!RootNext
     /\ UNCHANGED <<part, tVars, dVars, cVars, kVars, sVars, bVars, rVars, uVars>>
  \/ /\ part = "display" /\ D!Next
     /\ UNCHANGED <<part, tVars, mVars, cVars, kVars, sVars, bVars, rVars, uVars>>
  \/ /\ part = "card" /\ C!DmaNext
     /\ UNCHANGED <<part, tVars, mVars, dVars, kVars, sVars, bVars, rVars, uVars>>
  \/ /\ part = "key" /\ C!KeyNext
     /\ UNCHANGED <<part, tVars, mVars, dVars, cVars, sVars, bVars, rVars, uVars>>
  \/ /\ part = "spi" /\ S!Next
     /\ UNCHANGED <<part, tVars, mVars, dVars, cVars, kVars, bVars, rVars, uVars>>
  \/ /\ part = "backup" /\ B!Next
     /\ UNCHANGED <<part, tVars, mVars, dVars, cVars, kVars, sVars, rVars, uVars>>
  \/ /\ part = "rtc" /\ R!Next
     /\ UNCHANGED <<part, tVars, mVars, dVars, cVars, kVars, sVars, bVars, uVars>>

  \/ /\ part = "burst" /\ U!Next
     /\ UNCHANGED <<part, tVars, mVars, dVars, cVars, kVars, sVars, bVars, rVars>>

\* Every device but the chunked geometry transfer, which GxSpec is about.
DevicesInit == Init /\ part # "gx"
Spec == DevicesInit /\ [][Next]_vars

GxNext ==
  /\ G!Next
  /\ UNCHANGED <<part, tVars, mVars, dVars, cVars, kVars, sVars, bVars, rVars>>
GxInit == Init /\ part = "gx"
GxSpec == GxInit /\ [][GxNext]_vars

-----------------------------------------------------------------------------
\* A timer bank caught up in one go is the bank stepped every cycle, with the
\* same interrupts, and the overflow deadline an idle jump plans on is neither
\* late nor early (nds_tick_timers, nds_next_timer_overflow).
TimersExact == part = "timers" => T!CatchUpExact /\ T!OverflowDeadlineExact

\* A result shown by a divider or root unit that is not busy belongs to the
\* operands it shows (finish_div, finish_sqrt).
MathExact == part \in {"div", "root"} => M!DivisionExact /\ M!RootExact

\* VCOUNT writes do no lasting damage to the raster (nds_tick_display).
RasterRecovers == part = "display" => D!RasterRecovers

\* A gamecard block read by DMA arrives complete, in order and unwedged, the
\* card's cipher and modes give the guest what the dump held, and a burst cut
\* into slices costs what the uncut burst does (nds_dma_run, the card's events,
\* card_prepare_response, dma_start).
TransfersExact == /\ part = "card" => C!CardDmaExact
                  /\ part = "key" => C!CardKeyExact
                  /\ part = "burst" => U!BurstCostExact

\* Between transfers the battery file holds what the guest stored, and the
\* firmware file the image since the boot changed it, or a flush is still owed;
\* a reset keeps the battery chip and puts the start-up firmware back
\* (cart_sram_spi_write, fw_release, nds_io_load_firmware).
StorageDurable == /\ part = "backup" => B!BackupDurable
                  /\ part = "spi" => S!FirmwareDurable

\* The clock counts real seconds through every carry in both notations and
\* never leaves the range a savestate accepts (rtc_count_second).
RtcExact == []R!RtcAccepted /\ R!RtcExact

\* Violated.  One request of the geometry FIFO moves "at most 112 units per
\* FIFO-level request" (io.cpp:2993).
GxRequestBounded == G!GxRequestBounded
-----------------------------------------------------------------------------
(***************************************************************************)
(* Induction over data.  A predicate is the set of the numbers it holds    *)
(* of, and a recursive function the iteration of a function.               *)
(***************************************************************************)

LEMMA LeastElement ==
  ASSUME NEW Some, Some \subseteq Nat, Some # {}
  PROVE  \E i \in Some : \A j \in Some : i <= j
PROOF
<1>1. PICK i \in Some : \A j \in Some : <<j, i>> \notin OpToRel(<, Nat)
  BY WFMin, NatLessThanWellFounded, Zenon
<1>2. ASSUME NEW j \in Some PROVE i <= j
  <2>1. <<j, i>> \notin OpToRel(<, Nat)
    BY <1>1
  <2>2. ~(j < i)
    BY <2>1 DEF OpToRel
  <2> QED BY <2>2
<1> QED BY <1>2

LEMMA Induction ==
  ASSUME NEW Some, 0 \in Some, \A i \in Nat : i \in Some => i + 1 \in Some
  PROVE  Nat \subseteq Some
PROOF
<1> SUFFICES ASSUME Nat \ Some # {} PROVE FALSE
  OBVIOUS
<1>1. PICK i \in Nat \ Some : \A j \in Nat \ Some : i <= j
  BY LeastElement
<1>2. i # 0
  BY <1>1
<1>3. i - 1 \in Nat /\ i - 1 \in Some
  BY <1>1, <1>2
<1> QED BY <1>1, <1>3

\* f begins with a and goes on with G[k] at k, up to n.
Iterates(f, A, a, step, m) ==
  /\ f \in [0 .. m -> A]
  /\ f = [k \in 0 .. m |-> IF k = 0 THEN a ELSE step[k][f[k - 1]]]

LEMMA IterationExists ==
  ASSUME NEW A, NEW a \in A, NEW m \in Nat, NEW step \in [1 .. m -> [A -> A]]
  PROVE  \E f : Iterates(f, A, a, step, m)
PROOF
<1> DEFINE Some == {i \in Nat : i <= m => \E f : Iterates(f, A, a, step, i)}
<1>1. 0 \in Some
  <2>1. Iterates([k \in 0 .. 0 |-> a], A, a, step, 0)
    BY DEF Iterates
  <2> QED BY <2>1
<1>2. ASSUME NEW i \in Nat, i \in Some PROVE i + 1 \in Some
  <2> SUFFICES ASSUME i + 1 <= m PROVE \E f : Iterates(f, A, a, step, i + 1)
    OBVIOUS
  <2>1. PICK f : Iterates(f, A, a, step, i)
    BY <1>2
  <2> DEFINE g == [k \in 0 .. i + 1 |-> IF k = i + 1 THEN step[i + 1][f[i]] ELSE f[k]]
  <2>2. f \in [0 .. i -> A]
    BY <2>1 DEF Iterates
  <2>3. step[i + 1] \in [A -> A] /\ f[i] \in A
    BY <2>2
  <2>4. g \in [0 .. i + 1 -> A]
    BY <2>2, <2>3
  <2>5. ASSUME NEW k \in 0 .. i + 1
        PROVE  g[k] = IF k = 0 THEN a ELSE step[k][g[k - 1]]
    <3>1. CASE k = i + 1
      <4>1. k - 1 = i /\ k # 0 /\ i \in 0 .. i + 1 /\ i # i + 1
        BY <3>1
      <4>2. g[i] = f[i] /\ g[k] = step[i + 1][f[i]]
        BY <3>1, <4>1
      <4> QED BY <3>1, <4>1, <4>2
    <3>2. CASE k # i + 1
      <4>1. k \in 0 .. i
        BY <3>2
      <4>2. f[k] = IF k = 0 THEN a ELSE step[k][f[k - 1]]
        BY <2>1, <4>1 DEF Iterates
      <4>3. k # 0 => k - 1 \in 0 .. i + 1 /\ k - 1 # i + 1
        BY <4>1
      <4> HIDE DEF g
      <4>4. g[k] = f[k] /\ (k # 0 => g[k - 1] = f[k - 1])
        BY <3>2, <4>3 DEF g
      <4> QED BY <4>2, <4>4
    <3> QED BY <3>1, <3>2
  <2> HIDE DEF g
  <2>6. g = [k \in 0 .. i + 1 |-> IF k = 0 THEN a ELSE step[k][g[k - 1]]]
    BY <2>4, <2>5
  <2> QED BY <2>4, <2>6 DEF Iterates
<1> HIDE DEF Some
<1>3. m \in Some
  BY <1>1, <1>2, Induction
<1> QED BY <1>3 DEF Some

\* Two iterations that agree on their functions agree as far as both go.
LEMMA IterationUnique ==
  ASSUME NEW A, NEW a, NEW m \in Nat, NEW l \in Nat, l <= m, NEW step, NEW other,
         \A k \in 1 .. l : step[k] = other[k],
         NEW f, Iterates(f, A, a, step, m), NEW g, Iterates(g, A, a, other, l)
  PROVE  f[l] = g[l]
PROOF
<1> DEFINE Some == {i \in Nat : i <= l => f[i] = g[i]}
<1>1. 0 \in Some
  <2>1. f[0] = a /\ g[0] = a
    BY DEF Iterates
  <2> QED BY <2>1
<1>2. ASSUME NEW i \in Nat, i \in Some PROVE i + 1 \in Some
  <2> SUFFICES ASSUME i + 1 <= l PROVE f[i + 1] = g[i + 1]
    OBVIOUS
  <2>1. i + 1 \in 0 .. m /\ i + 1 \in 0 .. l /\ i + 1 \in 1 .. l /\ i + 1 # 0
        /\ (i + 1) - 1 = i
    OBVIOUS
  <2>2. f[i + 1] = step[i + 1][f[i]]
    BY <2>1 DEF Iterates
  <2>3. g[i + 1] = other[i + 1][g[i]]
    BY <2>1 DEF Iterates
  <2>4. f[i] = g[i]
    BY <1>2
  <2> QED BY <2>1, <2>2, <2>3, <2>4
<1> HIDE DEF Some
<1>3. l \in Some
  BY <1>1, <1>2, Induction
<1> QED BY <1>3 DEF Some

-----------------------------------------------------------------------------
(***************************************************************************)
(* Powers of two.                                                          *)
(***************************************************************************)

Doubling(w) == [k \in 1 .. w |-> [i \in Nat |-> 2 * i]]

LEMMA TwoIterates ==
  ASSUME NEW w \in Nat
  PROVE  \E p : Iterates(p, Nat, 1, Doubling(w), w) /\ M!Two(w) = p[w]
PROOF
<1> DEFINE Law(p) == p = [k \in 0 .. w |-> IF k = 0 THEN 1 ELSE 2 * p[k - 1]]
           q == CHOOSE p : Law(p)
<1>1. Doubling(w) \in [1 .. w -> [Nat -> Nat]]
  BY DEF Doubling
<1>2. PICK p : Iterates(p, Nat, 1, Doubling(w), w)
  BY <1>1, IterationExists
<1>3. Law(p)
  <2>1. ASSUME NEW k \in 0 .. w
        PROVE  (IF k = 0 THEN 1 ELSE Doubling(w)[k][p[k - 1]])
                 = (IF k = 0 THEN 1 ELSE 2 * p[k - 1])
    <3>1. CASE k # 0
      <4>1. k \in 1 .. w /\ k - 1 \in 0 .. w
        BY <3>1
      <4>2. p[k - 1] \in Nat
        BY <1>2, <4>1 DEF Iterates
      <4> QED BY <3>1, <4>1, <4>2 DEF Doubling
    <3> QED BY <3>1
  <2>2. p = [k \in 0 .. w |-> IF k = 0 THEN 1 ELSE Doubling(w)[k][p[k - 1]]]
    BY <1>2 DEF Iterates
  <2> QED BY <2>1, <2>2
<1>4. Law(q)
  BY <1>3
<1>5. M!Two(w) = q[w]
  BY DEF M!Two
<1> HIDE DEF q
<1>6. q \in [0 .. w -> Nat]
  <2> DEFINE Good == {k \in Nat : k <= w => q[k] \in Nat}
  <2>1. 0 \in Good
    BY <1>4
  <2>2. ASSUME NEW k \in Nat, k \in Good PROVE k + 1 \in Good
    <3> SUFFICES ASSUME k + 1 <= w PROVE q[k + 1] \in Nat
      OBVIOUS
    <3>1. k + 1 \in 0 .. w /\ k + 1 # 0 /\ (k + 1) - 1 = k
      OBVIOUS
    <3>2. q[k + 1] = 2 * q[k]
      BY <1>4, <3>1
    <3> QED BY <2>2, <3>2
  <2> HIDE DEF Good
  <2>3. Nat \subseteq Good
    BY <2>1, <2>2, Induction
  <2>4. \A k \in 0 .. w : q[k] \in Nat
    BY <2>3 DEF Good
  <2>5. q = [k \in 0 .. w |-> IF k = 0 THEN 1 ELSE 2 * q[k - 1]]
    BY <1>4
  <2> QED BY <2>4, <2>5
<1>7. ASSUME NEW k \in 0 .. w
      PROVE  (IF k = 0 THEN 1 ELSE 2 * q[k - 1])
               = (IF k = 0 THEN 1 ELSE Doubling(w)[k][q[k - 1]])
  <2>1. CASE k # 0
    <3>1. k \in 1 .. w /\ k - 1 \in 0 .. w
      BY <2>1
    <3> QED BY <1>6, <2>1, <3>1 DEF Doubling
  <2> QED BY <2>1
<1>8. q = [k \in 0 .. w |-> IF k = 0 THEN 1 ELSE Doubling(w)[k][q[k - 1]]]
  BY <1>4, <1>7
<1>9. Iterates(q, Nat, 1, Doubling(w), w)
  BY <1>6, <1>8 DEF Iterates
<1> QED BY <1>5, <1>9

LEMMA TwoZero == M!Two(0) = 1
PROOF
<1>1. PICK p : Iterates(p, Nat, 1, Doubling(0), 0) /\ M!Two(0) = p[0]
  BY TwoIterates
<1> QED BY <1>1 DEF Iterates

LEMMA TwoStep ==
  ASSUME NEW w \in Nat PROVE M!Two(w) \in Nat /\ M!Two(w + 1) = 2 * M!Two(w)
PROOF
<1>1. PICK p : Iterates(p, Nat, 1, Doubling(w + 1), w + 1) /\ M!Two(w + 1) = p[w + 1]
  BY TwoIterates
<1>2. PICK q : Iterates(q, Nat, 1, Doubling(w), w) /\ M!Two(w) = q[w]
  BY TwoIterates
<1>3. \A k \in 1 .. w : Doubling(w + 1)[k] = Doubling(w)[k]
  BY DEF Doubling
<1>4. p[w] = q[w]
  BY <1>1, <1>2, <1>3, IterationUnique
<1>5. p[w + 1] = Doubling(w + 1)[w + 1][p[w]]
  <2>1. w + 1 \in 0 .. w + 1 /\ w + 1 # 0 /\ (w + 1) - 1 = w
    OBVIOUS
  <2> QED BY <1>1, <2>1 DEF Iterates
<1>6. q[w] \in Nat
  BY <1>2 DEF Iterates
<1> QED BY <1>1, <1>2, <1>4, <1>5, <1>6 DEF Doubling

LEMMA TwoPositive == \A w \in Nat : M!Two(w) \in Nat /\ M!Two(w) >= 1
PROOF
<1> DEFINE Good == {w \in Nat : M!Two(w) \in Nat /\ M!Two(w) >= 1}
<1>1. 0 \in Good
  BY TwoZero
<1>2. ASSUME NEW w \in Nat, w \in Good PROVE w + 1 \in Good
  BY <1>2, TwoStep
<1> HIDE DEF Good
<1>3. Nat \subseteq Good
  BY <1>1, <1>2, Induction
<1> QED BY <1>3 DEF Good

LEMMA TwoTwice == \A w \in Nat : M!Two(2 * w) = M!Two(w) * M!Two(w)
PROOF
<1> DEFINE Good == {w \in Nat : M!Two(2 * w) = M!Two(w) * M!Two(w)}
<1>1. 0 \in Good
  BY TwoZero
<1>2. ASSUME NEW w \in Nat, w \in Good PROVE w + 1 \in Good
  <2>1. /\ M!Two(2 * w + 1) = 2 * M!Two(2 * w)
        /\ M!Two((2 * w + 1) + 1) = 2 * M!Two(2 * w + 1)
    BY TwoStep
  <2>2. 2 * (w + 1) = (2 * w + 1) + 1
    OBVIOUS
  <2>3. M!Two(w + 1) = 2 * M!Two(w) /\ M!Two(w) \in Nat /\ M!Two(2 * w) \in Nat
    BY TwoStep
  <2>4. M!Two(w + 1) * M!Two(w + 1) = 4 * (M!Two(w) * M!Two(w))
    BY <2>3
  <2> QED BY <1>2, <2>1, <2>2, <2>3, <2>4
<1> HIDE DEF Good
<1>3. Nat \subseteq Good
  BY <1>1, <1>2, Induction
<1> QED BY <1>3 DEF Good

-----------------------------------------------------------------------------
(***************************************************************************)
(* Proof of MathExact, the divider, for every width.                       *)
(***************************************************************************)

LEMMA DivUnique ==
  ASSUME NEW v \in Int, NEW m \in Nat \ {0}, NEW q \in Int, NEW r \in Int,
         v = m * q + r, 0 <= r, r < m
  PROVE  v \div m = q /\ v % m = r
PROOF
<1>1. PICK d \in Int : d = v \div m
  OBVIOUS
<1>2. PICK e \in Int : e = v % m
  OBVIOUS
<1>3. v = m * d + e /\ 0 <= e /\ e < m
  BY <1>1, <1>2
<1>4. ~(d >= q + 1)
  <2> SUFFICES ASSUME d >= q + 1 PROVE FALSE
    OBVIOUS
  <2>1. PICK k \in Nat : d = q + 1 + k
    <3>1. d - q - 1 \in Nat /\ d = q + 1 + (d - q - 1)
      OBVIOUS
    <3> QED BY <3>1
  <2>2. m * d = m * q + m + m * k
    BY <2>1
  <2>3. m * k >= 0 /\ m * k \in Int /\ m * q \in Int
    OBVIOUS
  <2> QED BY <1>3, <2>2, <2>3
<1>5. ~(q >= d + 1)
  <2> SUFFICES ASSUME q >= d + 1 PROVE FALSE
    OBVIOUS
  <2>1. PICK k \in Nat : q = d + 1 + k
    <3>1. q - d - 1 \in Nat /\ q = d + 1 + (q - d - 1)
      OBVIOUS
    <3> QED BY <3>1
  <2>2. m * q = m * d + m + m * k
    BY <2>1
  <2>3. m * k >= 0 /\ m * k \in Int /\ m * d \in Int
    OBVIOUS
  <2> QED BY <1>3, <2>2, <2>3
<1>6. d = q
  BY <1>4, <1>5
<1>7. e = r
  BY <1>3, <1>6
<1> QED BY <1>1, <1>2, <1>6, <1>7

LEMMA DivFacts ==
  ASSUME NEW v \in Int, NEW m \in Int, m >= 1
  PROVE  /\ v \div m \in Int /\ v % m \in Int
         /\ v = m * (v \div m) + (v % m) /\ 0 <= v % m /\ v % m < m
OBVIOUS

\* The widths of the divider: half a word, a word, half a double word.
LEMMA DivWidths ==
  /\ M!Two(DivBits - 1) \in Nat /\ M!Two(DivBits - 1) >= 1
  /\ M!Two(DivBits) = 2 * M!Two(DivBits - 1)
  /\ M!Two(2 * DivBits - 1) \in Nat
  /\ M!Two(2 * DivBits) = 2 * M!Two(2 * DivBits - 1)
  /\ M!Two(2 * DivBits) = M!Two(DivBits) * M!Two(DivBits)
  /\ M!Two(2 * DivBits - 1) >= 2 * M!Two(DivBits - 1)
PROOF
<1>1. DivBits - 1 \in Nat /\ 2 * DivBits - 1 \in Nat /\ DivBits \in Nat
  BY DevicesAssumption
<1>2. (DivBits - 1) + 1 = DivBits /\ (2 * DivBits - 1) + 1 = 2 * DivBits
  BY <1>1
<1>3. /\ M!Two(DivBits - 1) \in Nat /\ M!Two(DivBits - 1) >= 1
      /\ M!Two(2 * DivBits - 1) \in Nat /\ M!Two(DivBits) \in Nat
  BY <1>1, TwoPositive
<1>4. M!Two(DivBits) = 2 * M!Two(DivBits - 1)
  BY <1>1, <1>2, TwoStep
<1>5. M!Two(2 * DivBits) = 2 * M!Two(2 * DivBits - 1)
  BY <1>1, <1>2, TwoStep
<1>6. M!Two(2 * DivBits) = M!Two(DivBits) * M!Two(DivBits)
  BY <1>1, TwoTwice
<1>7. ASSUME NEW h \in Nat, h >= 1 PROVE (2 * h) * (2 * h) >= 4 * h
  BY <1>7
<1>8. M!Two(2 * DivBits) >= 4 * M!Two(DivBits - 1)
  BY <1>3, <1>4, <1>6, <1>7
<1> QED BY <1>3, <1>4, <1>5, <1>6, <1>8

Pair(w) == M!Words(w) \X M!Words(w)

\* A stored number is read back unchanged when it fits.
LEMMA StoreExact ==
  ASSUME NEW n \in Int, -M!Two(2 * DivBits - 1) <= n, n < M!Two(2 * DivBits - 1)
  PROVE  M!AsS64(M!Store(n)) = n /\ M!Store(n) \in Pair(DivBits)
PROOF
<1>1. PICK h \in Nat : h = M!Two(2 * DivBits - 1)
  BY DivWidths
<1>2. PICK m \in Nat : m = M!Two(2 * DivBits) /\ m = 2 * h
  BY <1>1, DivWidths
<1>3. PICK w \in Nat : w = M!Two(DivBits) /\ m = w * w /\ w >= 2
  BY <1>2, DivWidths
<1>4. PICK u \in Nat : u = n % m /\ u < m /\ u = IF n < 0 THEN n + m ELSE n
  <2>1. CASE n < 0
    <3>1. n = m * (-1) + (n + m) /\ 0 <= n + m /\ n + m < m
      BY <1>1, <1>2, <2>1
    <3>2. m \in Nat \ {0}
      BY <3>1
    <3>3. n % m = n + m
      BY <3>1, <3>2, DivUnique
    <3> QED BY <2>1, <3>1, <3>3
  <2>2. CASE n >= 0
    <3>1. n = m * 0 + n /\ 0 <= n /\ n < m
      BY <1>1, <1>2, <2>2
    <3>2. m \in Nat \ {0}
      BY <3>1
    <3>3. n % m = n
      BY <3>1, <3>2, DivUnique
    <3> QED BY <2>2, <3>1, <3>3
  <2> QED BY <2>1, <2>2
<1>5. PICK a \in Int, b \in Int : /\ a = u % w /\ b = u \div w
                                 /\ u = w * b + a /\ 0 <= a /\ a < w
  <2>1. w >= 1 /\ u \in Int
    BY <1>3, <1>4
  <2>2. /\ u \div w \in Int /\ u % w \in Int
        /\ u = w * (u \div w) + (u % w) /\ 0 <= u % w /\ u % w < w
    BY <2>1, DivFacts
  <2> QED BY <2>2, Zenon
<1>6. 0 <= b /\ b < w
  <2>1. ASSUME b >= w PROVE FALSE
    <3>1. PICK k \in Nat : b = w + k
      <4>1. b - w \in Nat /\ b = w + (b - w)
        BY <2>1
      <4> QED BY <4>1
    <3>2. w * b = w * w + w * k
      BY <3>1
    <3>3. w * k >= 0 /\ w * k \in Int
      OBVIOUS
    <3> QED BY <1>3, <1>4, <1>5, <3>2, <3>3
  <2>2. ASSUME b < 0 PROVE FALSE
    <3>1. PICK k \in Nat : b = -1 - k
      <4>1. -1 - b \in Nat /\ b = -1 - (-1 - b)
        BY <2>2
      <4> QED BY <4>1
    <3>2. w * b = -w - w * k
      BY <3>1
    <3>3. w * k >= 0 /\ w * k \in Int
      OBVIOUS
    <3> QED BY <1>4, <1>5, <3>2, <3>3
  <2> QED BY <2>1, <2>2
<1>7. M!Store(n) = <<a, b>>
  BY <1>2, <1>3, <1>4, <1>5 DEF M!Store
<1>8. M!Store(n) \in Pair(DivBits)
  <2>1. a \in M!Words(DivBits) /\ b \in M!Words(DivBits)
    <3>1. M!Words(DivBits) = 0 .. w - 1
      BY <1>3 DEF M!Words
    <3>2. 0 <= a /\ a < w
      BY <1>5
    <3> QED BY <1>6, <3>1, <3>2
  <2> QED BY <1>7, <2>1 DEF Pair
<1>9. M!Unsigned(DivBits, M!Store(n)) = u
  BY <1>3, <1>5, <1>7 DEF M!Unsigned
<1>10. M!AsS64(M!Store(n)) = IF u >= h THEN u - m ELSE u
  BY <1>1, <1>2, <1>9 DEF M!AsS64, M!Signed
<1> QED BY <1>1, <1>2, <1>4, <1>8, <1>10

\* Division toward zero.
LEMMA QuotientExact ==
  ASSUME NEW a \in Int, NEW b \in Int, b # 0
  PROVE  /\ M!Quotient(a, b) \in Int /\ M!Remainder(a, b) \in Int
         /\ M!Quotient(a, b) * b + M!Remainder(a, b) = a
         /\ M!Abs(M!Remainder(a, b)) < M!Abs(b)
         /\ M!Abs(M!Remainder(a, b)) <= M!Abs(a)
         /\ M!Remainder(a, b) # 0 => (M!Remainder(a, b) < 0 <=> a < 0)
         /\ M!Abs(M!Quotient(a, b)) <= M!Abs(a)
         /\ a # 0 /\ M!Quotient(a, b) = -a => b = -1
PROOF
<1>1. PICK x \in Nat : x = M!Abs(a) /\ a = IF a < 0 THEN -x ELSE x
  BY DEF M!Abs
<1>2. PICK y \in Nat : y = M!Abs(b) /\ (b = IF b < 0 THEN -y ELSE y) /\ y >= 1
  BY DEF M!Abs
<1>3. PICK d \in Int, e \in Int : /\ d = x \div y /\ e = x % y
                                 /\ x = y * d + e /\ 0 <= e /\ e < y
  <2>1. y >= 1 /\ x \in Int
    BY <1>2
  <2>2. /\ x \div y \in Int /\ x % y \in Int
        /\ x = y * (x \div y) + (x % y) /\ 0 <= x % y /\ x % y < y
    BY <2>1, DivFacts
  <2> QED BY <2>2, Zenon
<1>4. d >= 0
  <2>1. ASSUME d < 0 PROVE FALSE
    <3>1. PICK k \in Nat : d = -1 - k
      <4>1. -1 - d \in Nat /\ d = -1 - (-1 - d)
        BY <2>1
      <4> QED BY <4>1
    <3>2. y * d = -y - y * k
      BY <3>1
    <3>3. y * k >= 0 /\ y * k \in Int
      OBVIOUS
    <3> QED BY <1>3, <3>2, <3>3
  <2> QED BY <2>1
<1>5. PICK z \in Nat : y = 1 + z
  <2>1. y - 1 \in Nat /\ y = 1 + (y - 1)
    BY <1>2
  <2> QED BY <2>1
<1>6. y * d = d + z * d /\ z * d \in Int /\ z * d >= 0
  BY <1>4, <1>5
<1>7. d <= x /\ e <= x
  BY <1>3, <1>4, <1>6
<1>8. x # 0 /\ d = x => y = 1
  <2>1. ASSUME x # 0, d = x, y # 1 PROVE FALSE
    <3>1. z >= 1 /\ d >= 1
      BY <1>5, <2>1
    <3>2. z * d >= 1
      BY <1>4, <3>1
    <3> QED BY <1>3, <1>6, <2>1, <3>2
  <2> QED BY <2>1
<1>9. M!Quotient(a, b) = IF (a < 0) = (b < 0) THEN d ELSE -d
  BY <1>1, <1>2, <1>3 DEF M!Quotient
<1>10. b * M!Quotient(a, b) = IF a < 0 THEN -(y * d) ELSE y * d
  <2>1. CASE a < 0 /\ b < 0
    BY <1>2, <1>9, <2>1
  <2>2. CASE a < 0 /\ ~(b < 0)
    BY <1>2, <1>9, <2>2
  <2>3. CASE ~(a < 0) /\ b < 0
    BY <1>2, <1>9, <2>3
  <2>4. CASE ~(a < 0) /\ ~(b < 0)
    BY <1>2, <1>9, <2>4
  <2> QED BY <2>1, <2>2, <2>3, <2>4
<1>11. M!Remainder(a, b) = IF a < 0 THEN -e ELSE e
  <2>1. y * d \in Int
    BY <1>6
  <2>2. M!Remainder(a, b) = IF a < 0 THEN a + y * d ELSE a - y * d
    BY <1>10, <2>1 DEF M!Remainder
  <2>3. a = IF a < 0 THEN -x ELSE x
    BY <1>1
  <2> QED BY <1>3, <2>1, <2>2, <2>3
<1>12. M!Quotient(a, b) \in Int /\ M!Quotient(a, b) * b = b * M!Quotient(a, b)
  BY <1>9
<1>13. M!Abs(M!Remainder(a, b)) = e /\ M!Abs(M!Quotient(a, b)) = d
  BY <1>3, <1>4, <1>9, <1>11 DEF M!Abs
<1>14. a # 0 /\ M!Quotient(a, b) = -a => b = -1
  BY <1>1, <1>2, <1>4, <1>8, <1>9
<1>15. M!Remainder(a, b) \in Int
  BY <1>3, <1>11
<1>16. M!Quotient(a, b) * b + M!Remainder(a, b) = a
  BY <1>12, <1>15 DEF M!Remainder
<1>17. M!Abs(M!Remainder(a, b)) < M!Abs(b) /\ M!Abs(M!Remainder(a, b)) <= M!Abs(a)
       /\ M!Abs(M!Quotient(a, b)) <= M!Abs(a)
  BY <1>1, <1>2, <1>3, <1>7, <1>13
<1>18. M!Remainder(a, b) # 0 => (M!Remainder(a, b) < 0 <=> a < 0)
  BY <1>3, <1>11
<1> QED BY <1>12, <1>14, <1>15, <1>16, <1>17, <1>18

LEMMA NumberRanges ==
  ASSUME NEW p \in Pair(DivBits)
  PROVE  /\ M!AsS32(p) \in Int /\ M!AsS64(p) \in Int
         /\ -M!Two(DivBits - 1) <= M!AsS32(p) /\ M!AsS32(p) < M!Two(DivBits - 1)
         /\ -M!Two(2 * DivBits - 1) <= M!AsS64(p) /\ M!AsS64(p) < M!Two(2 * DivBits - 1)
PROOF
<1>1. PICK h \in Nat : h = M!Two(DivBits - 1) /\ h >= 1
  BY DivWidths
<1>2. PICK w \in Nat : w = M!Two(DivBits) /\ w = 2 * h
  BY <1>1, DivWidths
<1>3. PICK H \in Nat : H = M!Two(2 * DivBits - 1)
  BY DivWidths
<1>4. PICK m \in Nat : m = M!Two(2 * DivBits) /\ m = 2 * H /\ m = w * w
  BY <1>2, <1>3, DivWidths
<1>5. PICK a \in 0 .. w - 1, b \in 0 .. w - 1 : p[1] = a /\ p[2] = b
  <2>1. M!Words(DivBits) = 0 .. w - 1
    BY <1>2 DEF M!Words
  <2> QED BY <2>1 DEF Pair
<1>6. M!AsS32(p) = IF a >= h THEN a - w ELSE a
  BY <1>1, <1>2, <1>5 DEF M!AsS32, M!Signed
<1>7. PICK u \in Nat : u = M!Unsigned(DivBits, p) /\ u < m
  <2>1. PICK k \in Nat : w = b + 1 + k
    <3>1. w - b - 1 \in Nat /\ w = b + 1 + (w - b - 1)
      OBVIOUS
    <3> QED BY <3>1
  <2>2. m = w * b + w + w * k
    BY <1>4, <2>1
  <2>3. w * b \in Nat /\ w * k \in Nat
    OBVIOUS
  <2>4. M!Unsigned(DivBits, p) = a + w * b
    BY <1>2, <1>5 DEF M!Unsigned
  <2>5. a + w * b \in Nat /\ a + w * b < m
    BY <2>2, <2>3
  <2> QED BY <2>4, <2>5
<1>8. M!AsS64(p) = IF u >= H THEN u - m ELSE u
  BY <1>3, <1>4, <1>7 DEF M!AsS64, M!Signed
<1>9. M!AsS32(p) \in Int /\ -h <= M!AsS32(p) /\ M!AsS32(p) < h
  BY <1>2, <1>6
<1>10. M!AsS64(p) \in Int /\ -H <= M!AsS64(p) /\ M!AsS64(p) < H
  BY <1>4, <1>7, <1>8
<1> QED BY <1>1, <1>3, <1>9, <1>10

Dividers == [mode : 0 .. 3, num : Pair(DivBits), den : Pair(DivBits),
             quot : Pair(DivBits), rem : Pair(DivBits),
             busy : BOOLEAN, zero : BOOLEAN, used : BOOLEAN]

\* The results of d belong to its operands.
Answers(d) ==
  LET n == M!Numerator(d)  z == M!Denominator(d)
      q == M!AsS64(d.quot)  r == M!AsS64(d.rem)
  IN  /\ d.zero <=> d.den = <<0, 0>>
      /\ z # 0 /\ ~M!Overflows(d) => /\ q * z + r = n
                                     /\ M!Abs(r) < M!Abs(z)
                                     /\ r # 0 => (r < 0) = (n < 0)
      /\ M!Overflows(d) /\ d.mode = 0 => q * z = n
      /\ z = 0 => r = n

\* Whatever was written, a division is owed or its results are the operands'.
DivInv == div \in Dividers /\ (div.used /\ ~div.busy => Answers(div))

LEMMA DivGives == ASSUME DivInv PROVE M!DivisionExact
BY DEF DivInv, Answers, M!DivisionExact

LEMMA PairWritten ==
  ASSUME NEW w \in Nat, NEW p \in Pair(w), NEW i \in 1 .. 2, NEW v \in M!Words(w)
  PROVE  [p EXCEPT ![i] = v] \in Pair(w)
PROOF
<1>1. PICK a \in M!Words(w), b \in M!Words(w) : p = <<a, b>>
  BY DEF Pair
<1>2. CASE i = 1
  <2>1. [p EXCEPT ![i] = v] = <<v, b>>
    BY <1>1, <1>2
  <2> QED BY <2>1 DEF Pair
<1>3. CASE i = 2
  <2>1. [p EXCEPT ![i] = v] = <<a, v>>
    BY <1>1, <1>3
  <2> QED BY <2>1 DEF Pair
<1> QED BY <1>2, <1>3

LEMMA DivStarts == ASSUME M!Init PROVE DivInv
PROOF
<1>1. 0 \in M!Words(DivBits)
  BY DivWidths DEF M!Words
<1>2. <<0, 0>> \in Pair(DivBits)
  BY <1>1 DEF Pair
<1>3. div \in Dividers /\ ~div.used
  BY <1>2 DEF M!Init, Dividers
<1> QED BY <1>3 DEF DivInv

LEMMA DivWritten == ASSUME DivInv, M!WriteDiv PROVE DivInv'
PROOF
<1>1. div \in Dividers /\ DivBits \in Nat
  BY DevicesAssumption DEF DivInv
<1>2. ASSUME NEW d \in Dividers, div' = M!Restarted(div, d)
      PROVE  div' \in Dividers /\ div'.busy
  BY <1>2 DEF M!Restarted, Dividers
<1>3. ASSUME NEW m \in 0 .. 3, NEW flag \in BOOLEAN
      PROVE  [div EXCEPT !.mode = m, !.zero = flag] \in Dividers
  BY <1>1 DEF Dividers
<1>4. ASSUME NEW v \in M!Words(DivBits), NEW i \in 1 .. 2
      PROVE  /\ [div EXCEPT !.num[i] = v] \in Dividers
             /\ [div EXCEPT !.den[i] = v] \in Dividers
  <2>1. div.num \in Pair(DivBits) /\ div.den \in Pair(DivBits)
    BY <1>1 DEF Dividers
  <2>2. /\ [div.num EXCEPT ![i] = v] \in Pair(DivBits)
        /\ [div.den EXCEPT ![i] = v] \in Pair(DivBits)
    BY <1>1, <2>1, PairWritten
  <2> QED BY <1>1, <2>2 DEF Dividers
<1>5. div' \in Dividers /\ div'.busy
  BY <1>2, <1>3, <1>4 DEF M!WriteDiv
<1> QED BY <1>5 DEF DivInv

LEMMA DivFinished == ASSUME DivInv, M!FinishDiv PROVE DivInv'
PROOF
<1> DEFINE n == M!Numerator(div)
           z == M!Denominator(div)
           e == M!Divided(div)
<1>1. PICK h \in Nat : h = M!Two(DivBits - 1) /\ h >= 1
  BY DivWidths
<1>2. PICK H \in Nat : H = M!Two(2 * DivBits - 1) /\ H >= 2 * h
  BY <1>1, DivWidths
<1>3. div \in Dividers
  BY DEF DivInv
<1>4. /\ n \in Int /\ z \in Int /\ -H <= n /\ n < H
      /\ div.mode = 0 => -h <= n /\ n < h
  <2>1. div.num \in Pair(DivBits) /\ div.den \in Pair(DivBits)
    BY <1>3 DEF Dividers
  <2> QED BY <1>1, <1>2, <2>1, NumberRanges DEF M!Numerator, M!Denominator
<1>5. M!Overflows(div) <=> n = (IF div.mode = 0 THEN -h ELSE -H) /\ z = -1
  BY <1>1, <1>2 DEF M!Overflows, M!Least
<1>6. ASSUME NEW k \in Int, -H <= k, k < H
      PROVE  M!AsS64(M!Store(k)) = k /\ M!Store(k) \in Pair(DivBits)
  BY <1>2, <1>6, StoreExact
<1>7. /\ div' = [e EXCEPT !.busy = FALSE, !.zero = div.den = <<0, 0>>]
  BY DEF M!FinishDiv
<1> HIDE DEF n, z
<1>8. ASSUME NEW q \in Pair(DivBits), NEW r \in Pair(DivBits),
             e = [div EXCEPT !.quot = q, !.rem = r],
             z # 0 /\ ~M!Overflows(div) => /\ M!AsS64(q) * z + M!AsS64(r) = n
                                           /\ M!Abs(M!AsS64(r)) < M!Abs(z)
                                           /\ M!AsS64(r) # 0 => (M!AsS64(r) < 0) = (n < 0),
             M!Overflows(div) /\ div.mode = 0 => M!AsS64(q) * z = n,
             z = 0 => M!AsS64(r) = n
      PROVE  DivInv'
  <2>1. /\ div'.mode = div.mode /\ div'.num = div.num /\ div'.den = div.den
        /\ div'.quot = q /\ div'.rem = r /\ div'.zero = (div.den = <<0, 0>>)
    BY <1>3, <1>7, <1>8 DEF Dividers
  <2>2. div' \in Dividers
    BY <1>3, <1>7, <1>8 DEF Dividers
  <2>3. M!Numerator(div') = n /\ M!Denominator(div') = z
    BY <2>1 DEF n, z, M!Numerator, M!Denominator
  <2>4. M!Overflows(div') <=> M!Overflows(div)
    BY <2>1 DEF M!Overflows, M!Numerator, M!Denominator, M!Least
  <2>5. Answers(div')
    BY <1>8, <2>1, <2>3, <2>4 DEF Answers
  <2> QED BY <2>2, <2>5 DEF DivInv
<1>9. CASE z = 0
  <2> DEFINE top == M!Two(DivBits) - 1
             q == IF div.mode = 0 THEN IF n < 0 THEN <<1, top>> ELSE <<top, 0>>
                  ELSE M!Store(IF n < 0 THEN 1 ELSE -1)
  <2>1. e = [div EXCEPT !.quot = q, !.rem = M!Store(n)]
    BY <1>9 DEF M!Divided, n, z
  <2>2. q \in Pair(DivBits)
    <3>1. 0 \in M!Words(DivBits) /\ 1 \in M!Words(DivBits) /\ top \in M!Words(DivBits)
      BY <1>1, DivWidths DEF M!Words
    <3>2. <<1, top>> \in Pair(DivBits) /\ <<top, 0>> \in Pair(DivBits)
      BY <3>1 DEF Pair
    <3>3. M!Store(IF n < 0 THEN 1 ELSE -1) \in Pair(DivBits)
      BY <1>1, <1>2, <1>6
    <3> QED BY <3>2, <3>3
  <2> HIDE DEF q, e
  <2>3. M!AsS64(M!Store(n)) = n /\ M!Store(n) \in Pair(DivBits)
    BY <1>4, <1>6
  <2>4. ~M!Overflows(div)
    BY <1>5, <1>9
  <2> QED BY <1>8, <1>9, <2>1, <2>2, <2>3, <2>4
<1>10. CASE z # 0 /\ M!Overflows(div) /\ div.mode = 0
  <2>1. e = [div EXCEPT !.quot = M!Store(-n), !.rem = div.rem]
    BY <1>3, <1>10 DEF M!Divided, n, z, Dividers
  <2>2. n = -h /\ z = -1 /\ -n \in Int /\ -H <= -n /\ -n < H
    BY <1>1, <1>2, <1>5, <1>10
  <2>3. M!AsS64(M!Store(-n)) = -n /\ M!Store(-n) \in Pair(DivBits)
    BY <1>6, <2>2
  <2>4. div.rem \in Pair(DivBits)
    BY <1>3 DEF Dividers
  <2>5. M!AsS64(M!Store(-n)) * z = n
    BY <1>4, <2>2, <2>3
  <2> HIDE DEF e
  <2> QED BY <1>8, <1>10, <2>1, <2>3, <2>4, <2>5
<1>11. CASE z # 0 /\ M!Overflows(div) /\ div.mode # 0
  <2>1. e = [div EXCEPT !.quot = M!Store(n), !.rem = M!Store(0)]
    BY <1>3, <1>11 DEF M!Divided, n, z, Dividers
  <2>2. M!Store(n) \in Pair(DivBits) /\ M!Store(0) \in Pair(DivBits)
    BY <1>1, <1>2, <1>4, <1>6
  <2> HIDE DEF e
  <2> QED BY <1>8, <1>11, <2>1, <2>2
<1>12. CASE z # 0 /\ ~M!Overflows(div)
  <2> DEFINE q == M!Quotient(n, z)
             r == M!Remainder(n, z)
  <2>1. e = [div EXCEPT !.quot = M!Store(q), !.rem = M!Store(r)]
    BY <1>12 DEF M!Divided, n, z
  <2>2. /\ q \in Int /\ r \in Int /\ q * z + r = n /\ M!Abs(r) < M!Abs(z)
        /\ M!Abs(r) <= M!Abs(n) /\ (r # 0 => (r < 0 <=> n < 0)) /\ M!Abs(q) <= M!Abs(n)
        /\ n # 0 /\ q = -n => z = -1
    BY <1>4, <1>12, QuotientExact
  <2> HIDE DEF q, r, e
  <2>3. -H <= q /\ q < H
    <3>1. M!Abs(n) <= H /\ (M!Abs(n) = H => n = -H)
      BY <1>4 DEF M!Abs
    <3>2. -H <= q /\ q <= H
      BY <1>4, <2>2, <3>1 DEF M!Abs
    <3>3. ASSUME q = H PROVE FALSE
      <4>1. M!Abs(n) = H
        BY <1>2, <1>4, <2>2, <3>1, <3>3 DEF M!Abs
      <4>2. n = -H /\ n # 0 /\ q = -n
        BY <1>1, <1>2, <3>1, <3>3, <4>1
      <4>3. z = -1 /\ div.mode # 0
        BY <1>1, <1>2, <1>4, <2>2, <4>2
      <4> QED BY <1>5, <1>12, <4>2, <4>3
    <3> QED BY <2>2, <3>2, <3>3
  <2>4. -H <= r /\ r < H
    <3>1. M!Abs(n) <= H /\ (M!Abs(n) = H => n = -H)
      BY <1>4 DEF M!Abs
    <3> QED BY <1>1, <1>2, <1>4, <2>2, <3>1 DEF M!Abs
  <2>5. /\ M!AsS64(M!Store(q)) = q /\ M!Store(q) \in Pair(DivBits)
        /\ M!AsS64(M!Store(r)) = r /\ M!Store(r) \in Pair(DivBits)
    BY <1>6, <2>2, <2>3, <2>4
  <2>6. /\ M!AsS64(M!Store(q)) * z + M!AsS64(M!Store(r)) = n
        /\ M!Abs(M!AsS64(M!Store(r))) < M!Abs(z)
        /\ M!AsS64(M!Store(r)) # 0 => (M!AsS64(M!Store(r)) < 0) = (n < 0)
    BY <2>2, <2>5
  <2> QED BY <1>8, <1>12, <2>1, <2>5, <2>6
<1> QED BY <1>9, <1>10, <1>11, <1>12

LEMMA DivKept == ASSUME DivInv, M!DivNext \/ UNCHANGED div PROVE DivInv'
PROOF
<1>1. CASE UNCHANGED div
  BY <1>1 DEF DivInv, Answers, M!Numerator, M!Denominator, M!Overflows, M!Least
<1> QED BY <1>1, DivFinished, DivWritten DEF M!DivNext
-----------------------------------------------------------------------------
(***************************************************************************)
(* Proof of MathExact, the square root.                                    *)
(***************************************************************************)

Partials(w) == [rem : Nat, res : M!Words(w)]
Pairs(n, v, k) == (v \div M!Two(2 * (n - k))) % 4

LEMMA ShiftedIn ==
  ASSUME NEW w \in Nat, NEW s \in Partials(w), NEW bits \in 0 .. 3
  PROVE  M!ShiftIn(w, s, bits) \in Partials(w)
PROOF
<1>1. PICK m \in Nat : m = M!Two(w) /\ m >= 1
  BY TwoPositive
<1>2. PICK a \in Nat, b \in Nat : a = s.rem /\ b = s.res
  BY <1>1 DEF Partials, M!Words
<1>3. PICK c \in Nat : c = (b * 2) % m /\ c < m
  <2>1. (b * 2) % m \in Int /\ 0 <= (b * 2) % m /\ (b * 2) % m < m
    BY <1>1, DivFacts
  <2> QED BY <2>1
<1>4. PICK p \in Nat : p = (c * 2 + 1) % m
  <2>1. (c * 2 + 1) % m \in Int /\ 0 <= (c * 2 + 1) % m
    BY <1>1, DivFacts
  <2> QED BY <2>1
<1>5. PICK x \in Nat : x = (c + 1) % m /\ x < m
  <2>1. (c + 1) % m \in Int /\ 0 <= (c + 1) % m /\ (c + 1) % m < m
    BY <1>1, DivFacts
  <2> QED BY <2>1
<1>6. c \in M!Words(w) /\ x \in M!Words(w)
  BY <1>1, <1>3, <1>5 DEF M!Words
<1>7. M!ShiftIn(w, s, bits) = IF a * 4 + bits >= p THEN [rem |-> a * 4 + bits - p, res |-> x]
                              ELSE [rem |-> a * 4 + bits, res |-> c]
  BY <1>1, <1>2, <1>3, <1>4, <1>5 DEF M!ShiftIn
<1>8. a * 4 + bits \in Nat /\ (a * 4 + bits >= p => a * 4 + bits - p \in Nat)
  OBVIOUS
<1> QED BY <1>6, <1>7, <1>8 DEF Partials

LEMMA PairBits ==
  ASSUME NEW n \in Nat, NEW v \in Nat, NEW k \in 0 .. n
  PROVE  Pairs(n, v, k) \in 0 .. 3
PROOF
<1>1. 2 * (n - k) \in Nat
  OBVIOUS
<1>2. PICK m \in Nat : m = M!Two(2 * (n - k)) /\ m >= 1
  BY <1>1, TwoPositive
<1>3. PICK d \in Int : d = v \div m
  BY <1>2, DivFacts
<1>4. d % 4 \in 0 .. 3
  BY <1>3
<1> QED BY <1>2, <1>3, <1>4 DEF Pairs

\* The loop of finish_sqrt as a sequence of partial results.
LoopRun(w, n, v, q) ==
  /\ M!SquareRoot(w, n, v) = q[n].res
  /\ q[0] = [rem |-> 0, res |-> 0]
  /\ \A k \in 1 .. n : q[k] = M!ShiftIn(w, q[k - 1], Pairs(n, v, k))
  /\ \A k \in 0 .. n : q[k] \in Partials(w)

LEMMA RootLoop ==
  ASSUME NEW w \in Nat, NEW n \in Nat, NEW v \in Nat
  PROVE  \E q : LoopRun(w, n, v, q)
PROOF
<1> DEFINE zero == [rem |-> 0, res |-> 0]
           Law(p) == p = [k \in 0 .. n |->
                            IF k = 0 THEN [rem |-> 0, res |-> 0]
                            ELSE M!ShiftIn(w, p[k - 1], (v \div M!Two(2 * (n - k))) % 4)]
           step == [k \in 1 .. n |-> [s \in Partials(w) |-> M!ShiftIn(w, s, Pairs(n, v, k))]]
           q == CHOOSE p : Law(p)
<1>1. zero \in Partials(w)
  BY TwoPositive DEF Partials, M!Words
<1>2. step \in [1 .. n -> [Partials(w) -> Partials(w)]]
  <2>1. ASSUME NEW k \in 1 .. n, NEW s \in Partials(w)
        PROVE  M!ShiftIn(w, s, Pairs(n, v, k)) \in Partials(w)
    BY ShiftedIn, PairBits
  <2> QED BY <2>1
<1>3. PICK p : Iterates(p, Partials(w), zero, step, n)
  <2> HIDE DEF zero, step
  <2> QED BY <1>1, <1>2, IterationExists
<1>4. Law(p)
  <2>1. ASSUME NEW k \in 0 .. n
        PROVE  (IF k = 0 THEN zero ELSE step[k][p[k - 1]])
                 = (IF k = 0 THEN zero
                    ELSE M!ShiftIn(w, p[k - 1], (v \div M!Two(2 * (n - k))) % 4))
    <3>1. CASE k # 0
      <4>1. k \in 1 .. n /\ k - 1 \in 0 .. n
        BY <3>1
      <4>2. p[k - 1] \in Partials(w)
        BY <1>3, <4>1 DEF Iterates
      <4> QED BY <3>1, <4>1, <4>2 DEF Pairs
    <3> QED BY <3>1
  <2>2. p = [k \in 0 .. n |-> IF k = 0 THEN zero ELSE step[k][p[k - 1]]]
    BY <1>3 DEF Iterates
  <2> HIDE DEF step
  <2> QED BY <2>1, <2>2
<1>5. Law(q)
  BY <1>4
<1>6. M!SquareRoot(w, n, v) = q[n].res
  BY DEF M!SquareRoot
<1> HIDE DEF q, step
<1>7. q[0] = zero
  BY <1>5
<1>8. \A k \in 1 .. n : q[k] = M!ShiftIn(w, q[k - 1], Pairs(n, v, k))
  BY <1>5 DEF Pairs
<1> DEFINE Good == {k \in Nat : k <= n => q[k] \in Partials(w)}
<1>9. 0 \in Good
  BY <1>1, <1>7
<1>10. ASSUME NEW k \in Nat, k \in Good PROVE k + 1 \in Good
  <2> SUFFICES ASSUME k + 1 <= n PROVE q[k + 1] \in Partials(w)
    OBVIOUS
  <2>1. k + 1 \in 1 .. n /\ k + 1 \in 0 .. n /\ (k + 1) - 1 = k
    OBVIOUS
  <2>2. q[k + 1] = M!ShiftIn(w, q[k], Pairs(n, v, k + 1)) /\ Pairs(n, v, k + 1) \in 0 .. 3
    BY <1>8, <2>1, PairBits
  <2>3. q[k] \in Partials(w)
    BY <1>10
  <2> QED BY <2>2, <2>3, ShiftedIn
<1> HIDE DEF Good
<1>11. Nat \subseteq Good
  BY <1>9, <1>10, Induction
<1>12. \A k \in 0 .. n : q[k] \in Partials(w)
  BY <1>11 DEF Good
<1> QED BY <1>6, <1>7, <1>8, <1>12 DEF LoopRun

\* s is the root of u: a partial result without a wrap.
RootOf(s, u) == u = s.res * s.res + s.rem /\ s.rem <= 2 * s.res

LEMMA RootStep ==
  ASSUME NEW w \in Nat, NEW t \in Nat, M!Two(w) = 4 * t,
         NEW s \in Partials(w), NEW bits \in 0 .. 3, NEW u \in Nat, RootOf(s, u),
         4 * (4 * u + bits) < M!Two(w) * M!Two(w)
  PROVE  RootOf(M!ShiftIn(w, s, bits), 4 * u + bits)
PROOF
<1>1. PICK a \in Nat, b \in Nat : a = s.rem /\ b = s.res
  BY DEF Partials, M!Words
<1>2. u = b * b + a /\ a <= 2 * b
  BY <1>1 DEF RootOf
<1>3. b < t
  <2> SUFFICES ASSUME b >= t PROVE FALSE
    OBVIOUS
  <2>1. PICK k \in Nat : b = t + k
    <3>1. b - t \in Nat /\ b = t + (b - t)
      OBVIOUS
    <3> QED BY <3>1
  <2>2. b * b = t * t + 2 * (t * k) + k * k
    BY <2>1
  <2>3. t * k \in Nat /\ k * k \in Nat /\ t * t \in Nat
    OBVIOUS
  <2>4. M!Two(w) * M!Two(w) = 16 * (t * t)
    OBVIOUS
  <2> QED BY <1>2, <2>2, <2>3, <2>4
<1>4. PICK m \in Nat : m = M!Two(w) /\ m = 4 * t
  OBVIOUS
<1>5. ASSUME NEW x \in Nat, x < m PROVE x % m = x
  <2>1. m \in Nat \ {0} /\ x = m * 0 + x
    BY <1>5
  <2> QED BY <1>5, <2>1, DivUnique
<1>6. (b * 2) % m = b * 2
  BY <1>3, <1>4, <1>5
<1>7. ((b * 2) * 2 + 1) % m = 4 * b + 1
  BY <1>3, <1>4, <1>5
<1>8. (b * 2 + 1) % m = 2 * b + 1
  BY <1>3, <1>4, <1>5
<1>9. M!ShiftIn(w, s, bits) = IF a * 4 + bits >= 4 * b + 1
                              THEN [rem |-> a * 4 + bits - (4 * b + 1), res |-> 2 * b + 1]
                              ELSE [rem |-> a * 4 + bits, res |-> b * 2]
  BY <1>1, <1>4, <1>6, <1>7, <1>8 DEF M!ShiftIn
<1>10. (2 * b + 1) * (2 * b + 1) = 4 * (b * b) + 4 * b + 1 /\ (b * 2) * (b * 2) = 4 * (b * b)
  OBVIOUS
<1>11. b * b \in Nat
  OBVIOUS
<1>12. CASE a * 4 + bits >= 4 * b + 1
  <2>1. 4 * u + bits = (2 * b + 1) * (2 * b + 1) + (a * 4 + bits - (4 * b + 1))
    BY <1>2, <1>10, <1>11
  <2>2. a * 4 + bits - (4 * b + 1) <= 2 * (2 * b + 1)
    BY <1>2
  <2> QED BY <1>9, <1>12, <2>1, <2>2 DEF RootOf
<1>13. CASE ~(a * 4 + bits >= 4 * b + 1)
  <2>1. 4 * u + bits = (b * 2) * (b * 2) + (a * 4 + bits)
    BY <1>2, <1>10, <1>11
  <2>2. a * 4 + bits <= 2 * (b * 2)
    BY <1>13
  <2> QED BY <1>9, <1>13, <2>1, <2>2 DEF RootOf
<1> QED BY <1>12, <1>13

\* Two more bits of the operand.
LEMMA NextPair ==
  ASSUME NEW n \in Nat, NEW v \in Nat, NEW k \in Nat, k + 1 <= n
  PROVE  /\ v \div M!Two(2 * (n - k)) \in Nat
         /\ v \div M!Two(2 * (n - (k + 1)))
              = 4 * (v \div M!Two(2 * (n - k))) + Pairs(n, v, k + 1)
         /\ v \div M!Two(2 * (n - (k + 1))) <= v
PROOF
<1>1. 2 * (n - (k + 1)) \in Nat /\ 2 * (n - (k + 1)) + 1 \in Nat
      /\ (2 * (n - (k + 1)) + 1) + 1 = 2 * (n - k)
  OBVIOUS
<1>2. PICK m \in Nat : m = M!Two(2 * (n - (k + 1))) /\ m >= 1 /\ M!Two(2 * (n - k)) = 4 * m
  BY <1>1, TwoPositive, TwoStep
<1>3. PICK d \in Int : d = v \div m
  BY <1>2, DivFacts
<1>4. PICK e \in Int : v = m * d + e /\ 0 <= e /\ e < m
  <2>1. v = m * d + (v % m) /\ v % m \in Int /\ 0 <= v % m /\ v % m < m
    <3>1. /\ v = m * (v \div m) + (v % m) /\ v % m \in Int
          /\ 0 <= v % m /\ v % m < m
      <4>1. m >= 1 /\ m \in Int /\ v \in Int
        BY <1>2
      <4> QED BY <4>1, DivFacts
    <3> QED BY <1>3, <3>1
  <2> QED BY <2>1
<1>5. PICK c \in Int, b \in 0 .. 3 : d = 4 * c + b /\ b = d % 4
  <2>1. d = 4 * (d \div 4) + (d % 4) /\ d % 4 \in 0 .. 3 /\ d \div 4 \in Int
    OBVIOUS
  <2> QED BY <2>1
<1>6. v = (4 * m) * c + (m * b + e)
  BY <1>4, <1>5
<1>7. m * b \in Nat /\ m * b <= 3 * m
  <2>1. b = 0 \/ b = 1 \/ b = 2 \/ b = 3
    OBVIOUS
  <2> QED BY <2>1
<1>8. v \div (4 * m) = c
  <2>1. 4 * m \in Nat \ {0} /\ m * b + e \in Int /\ 0 <= m * b + e /\ m * b + e < 4 * m
    BY <1>2, <1>4, <1>7
  <2> QED BY <1>6, <2>1, DivUnique
<1>9. c >= 0
  <2> SUFFICES ASSUME c < 0 PROVE FALSE
    OBVIOUS
  <2>1. PICK i \in Nat : c = -1 - i
    <3>1. -1 - c \in Nat /\ c = -1 - (-1 - c)
      OBVIOUS
    <3> QED BY <3>1
  <2>2. m * c = -m - m * i
    BY <2>1
  <2>3. m * i \in Nat /\ m * c \in Int
    OBVIOUS
  <2>4. v = 4 * (m * c) + (m * b + e)
    BY <1>6
  <2> QED BY <1>4, <1>7, <2>2, <2>3, <2>4
<1>10. d <= v
  <2>1. PICK i \in Nat : m = 1 + i
    <3>1. m - 1 \in Nat /\ m = 1 + (m - 1)
      BY <1>2
    <3> QED BY <3>1
  <2>2. d \in Nat
    BY <1>5, <1>9
  <2>3. m * d = d + i * d /\ i * d \in Nat
    BY <2>1, <2>2
  <2> QED BY <1>4, <2>3
<1> QED BY <1>2, <1>3, <1>5, <1>8, <1>9, <1>10 DEF Pairs

\* The loop finds the root of every operand that leaves the trial product in
\* its word.
LEMMA SquareRootExact ==
  ASSUME NEW w \in Nat, NEW t \in Nat, M!Two(w) = 4 * t, NEW n \in Nat, NEW v \in Nat,
         v < M!Two(2 * n), 4 * v < M!Two(w) * M!Two(w)
  PROVE  LET r == M!SquareRoot(w, n, v)
         IN  r \in M!Words(w) /\ r * r <= v /\ v < (r + 1) * (r + 1)
PROOF
<1>0. PICK q : LoopRun(w, n, v, q)
  BY RootLoop
<1>1. /\ M!SquareRoot(w, n, v) = q[n].res
      /\ q[0] = [rem |-> 0, res |-> 0]
      /\ \A k \in 1 .. n : q[k] = M!ShiftIn(w, q[k - 1], Pairs(n, v, k))
      /\ \A k \in 0 .. n : q[k] \in Partials(w)
  BY <1>0 DEF LoopRun
<1> DEFINE Good == {k \in Nat : k <= n => RootOf(q[k], v \div M!Two(2 * (n - k)))}
<1>2. 0 \in Good
  <2>1. PICK m \in Nat : m = M!Two(2 * n) /\ m >= 1
    BY TwoPositive
  <2>2. v = m * 0 + v /\ v < m
    BY <2>1
  <2>3. v \div m = 0
    BY <2>1, <2>2, DivUnique
  <2>4. v \div M!Two(2 * (n - 0)) = 0
    BY <2>1, <2>3
  <2> QED BY <1>1, <2>4 DEF RootOf
<1>3. ASSUME NEW k \in Nat, k \in Good PROVE k + 1 \in Good
  <2> SUFFICES ASSUME k + 1 <= n
               PROVE  RootOf(q[k + 1], v \div M!Two(2 * (n - (k + 1))))
    OBVIOUS
  <2>1. k + 1 \in 1 .. n /\ (k + 1) - 1 = k /\ k \in 0 .. n /\ k + 1 \in 0 .. n
    OBVIOUS
  <2>2. PICK u \in Nat : u = v \div M!Two(2 * (n - k))
    BY NextPair
  <2>3. PICK b \in 0 .. 3 : b = Pairs(n, v, k + 1)
    BY <2>1, PairBits
  <2>4. v \div M!Two(2 * (n - (k + 1))) = 4 * u + b /\ 4 * u + b <= v
    BY <2>2, <2>3, NextPair
  <2>5. q[k] \in Partials(w) /\ RootOf(q[k], u) /\ q[k + 1] = M!ShiftIn(w, q[k], b)
    BY <1>1, <1>3, <2>1, <2>2, <2>3
  <2>6. 4 * (4 * u + b) < M!Two(w) * M!Two(w)
    <3>1. PICK total \in Int : total = M!Two(w) * M!Two(w)
      BY TwoPositive
    <3> QED BY <2>4, <3>1
  <2>7. RootOf(M!ShiftIn(w, q[k], b), 4 * u + b)
    BY <2>5, <2>6, RootStep
  <2> QED BY <2>4, <2>5, <2>7
<1> HIDE DEF Good
<1>4. Nat \subseteq Good
  BY <1>2, <1>3, Induction
<1>5. RootOf(q[n], v \div M!Two(2 * (n - n)))
  BY <1>4 DEF Good
<1>6. v \div M!Two(2 * (n - n)) = v
  <2>1. M!Two(2 * (n - n)) = 1
    BY TwoZero
  <2> QED BY <2>1
<1>7. PICK a \in Nat, b \in Nat : a = q[n].rem /\ b = q[n].res /\ b \in M!Words(w)
  BY <1>1 DEF Partials, M!Words
<1>8. v = b * b + a /\ a <= 2 * b
  BY <1>5, <1>6, <1>7 DEF RootOf
<1>9. (b + 1) * (b + 1) = b * b + 2 * b + 1 /\ b * b \in Nat
  OBVIOUS
<1>10. b * b <= v /\ v < (b + 1) * (b + 1)
  BY <1>8, <1>9
<1> QED BY <1>1, <1>7, <1>10
Roots == [mode : 0 .. 1, val : Pair(RootBits), res : M!Words(RootBits),
          busy : BOOLEAN, used : BOOLEAN]
Floor(r) ==
  LET v == M!Operand(r)
  IN  (r.mode = 1 => v < M!Two(2 * RootBits - 2))
        => r.res * r.res <= v /\ v < (r.res + 1) * (r.res + 1)

\* Whatever was written, a root is owed or the result is the operand's.
RootInv == root \in Roots /\ (root.used /\ ~root.busy => Floor(root))

LEMMA RootGives == ASSUME RootInv PROVE M!RootExact
BY DEF RootInv, Floor, M!RootExact

\* The width of the root unit is even: two bits a step.
LEMMA RootWidths ==
  \E h \in Nat, t \in Nat :
    /\ RootBits = 2 * h /\ h >= 1 /\ RootBits \div 2 = h
    /\ t >= 1 /\ M!Two(RootBits) = 4 * t
    /\ 4 * M!Two(2 * RootBits - 2) = M!Two(RootBits) * M!Two(RootBits)
    /\ M!Two(2 * RootBits) = M!Two(RootBits) * M!Two(RootBits)
PROOF
<1>1. PICK h \in Nat : RootBits = 2 * h /\ h >= 1
  BY DevicesAssumption
<1>2. RootBits \div 2 = h
  BY <1>1
<1>3. RootBits - 2 \in Nat /\ RootBits - 1 \in Nat /\ (RootBits - 2) + 1 = RootBits - 1
      /\ (RootBits - 1) + 1 = RootBits /\ RootBits \in Nat
  BY <1>1
<1>4. PICK t \in Nat : t = M!Two(RootBits - 2) /\ t >= 1
  BY <1>3, TwoPositive
<1>5. M!Two(RootBits) = 4 * t
  BY <1>3, <1>4, TwoStep
<1>6. 2 * RootBits - 2 \in Nat /\ (2 * RootBits - 2) + 1 = 2 * RootBits - 1
      /\ 2 * RootBits - 1 \in Nat /\ (2 * RootBits - 1) + 1 = 2 * RootBits
  BY <1>1
<1>7. M!Two(2 * RootBits) = 4 * M!Two(2 * RootBits - 2)
  BY <1>6, TwoStep
<1>8. M!Two(2 * RootBits) = M!Two(RootBits) * M!Two(RootBits)
  BY <1>3, TwoTwice
<1> QED BY <1>1, <1>2, <1>4, <1>5, <1>7, <1>8

LEMMA OperandRange ==
  ASSUME NEW r \in Roots
  PROVE  /\ M!Operand(r) \in Nat
         /\ r.mode # 1 => M!Operand(r) < M!Two(RootBits)
PROOF
<1>1. PICK m \in Nat : m = M!Two(RootBits) /\ m >= 1
  BY RootWidths
<1>2. PICK a \in 0 .. m - 1, b \in 0 .. m - 1 : r.val[1] = a /\ r.val[2] = b
  <2>1. M!Words(RootBits) = 0 .. m - 1
    BY <1>1 DEF M!Words
  <2> QED BY <2>1 DEF Roots, Pair
<1>3. m * b \in Nat
  OBVIOUS
<1>4. M!Operand(r) = IF r.mode = 1 THEN a + m * b ELSE a
  BY <1>1, <1>2 DEF M!Operand, M!Unsigned
<1> QED BY <1>1, <1>3, <1>4

LEMMA RootStarts == ASSUME M!Init PROVE RootInv
PROOF
<1>1. 0 \in M!Words(RootBits)
  BY RootWidths DEF M!Words
<1>2. <<0, 0>> \in Pair(RootBits)
  BY <1>1 DEF Pair
<1>3. root \in Roots /\ ~root.used
  BY <1>1, <1>2 DEF M!Init, Roots
<1> QED BY <1>3 DEF RootInv

LEMMA RootWritten == ASSUME RootInv, M!WriteSqrt PROVE RootInv'
PROOF
<1>1. root \in Roots /\ RootBits \in Nat
  BY RootWidths DEF RootInv
<1>2. ASSUME NEW d \in Roots, root' = M!Restarted(root, d)
      PROVE  root' \in Roots /\ root'.busy
  BY <1>2 DEF M!Restarted, Roots
<1>3. ASSUME NEW m \in 0 .. 1 PROVE [root EXCEPT !.mode = m] \in Roots
  BY <1>1 DEF Roots
<1>4. ASSUME NEW v \in M!Words(RootBits), NEW i \in 1 .. 2
      PROVE  [root EXCEPT !.val[i] = v] \in Roots
  <2>1. root.val \in Pair(RootBits)
    BY <1>1 DEF Roots
  <2>2. [root.val EXCEPT ![i] = v] \in Pair(RootBits)
    BY <1>1, <2>1, PairWritten
  <2> QED BY <1>1, <2>2 DEF Roots
<1>5. root' \in Roots /\ root'.busy
  BY <1>2, <1>3, <1>4 DEF M!WriteSqrt
<1> QED BY <1>5 DEF RootInv

LEMMA RootFinished == ASSUME RootInv, M!FinishSqrt PROVE RootInv'
PROOF
<1>1. root \in Roots
  BY DEF RootInv
<1>2. PICK h \in Nat, t \in Nat :
        /\ RootBits = 2 * h /\ h >= 1 /\ RootBits \div 2 = h
        /\ t >= 1 /\ M!Two(RootBits) = 4 * t
        /\ 4 * M!Two(2 * RootBits - 2) = M!Two(RootBits) * M!Two(RootBits)
        /\ M!Two(2 * RootBits) = M!Two(RootBits) * M!Two(RootBits)
  BY RootWidths
<1>3. PICK v \in Nat : v = M!Operand(root) /\ (root.mode # 1 => v < M!Two(RootBits))
  BY <1>1, OperandRange
<1>4. PICK n \in Nat : n = M!Steps(root) /\ n = IF root.mode = 1 THEN RootBits ELSE h
  BY <1>2 DEF M!Steps
<1> DEFINE x == M!SquareRoot(RootBits, n, v)
<1>5. root' = [root EXCEPT !.busy = FALSE, !.res = x]
  BY <1>3, <1>4 DEF M!FinishSqrt
<1>6. x \in M!Words(RootBits)
  <2>1. PICK q : LoopRun(RootBits, n, v, q)
    BY <1>2, RootLoop
  <2>2. x = q[n].res /\ q[n] \in Partials(RootBits)
    BY <2>1 DEF LoopRun
  <2> HIDE DEF x
  <2> QED BY <2>2 DEF Partials
<1>7. ASSUME root.mode = 1 => v < M!Two(2 * RootBits - 2)
      PROVE  x * x <= v /\ v < (x + 1) * (x + 1)
  <2>1. v < M!Two(2 * n) /\ 4 * v < M!Two(RootBits) * M!Two(RootBits)
    <3>1. PICK total \in Nat : total = M!Two(RootBits) * M!Two(RootBits) /\ total = 16 * (t * t)
      BY <1>2
    <3>2. t * t >= t /\ t * t \in Nat
      <4>1. PICK k \in Nat : t = 1 + k
        <5>1. t - 1 \in Nat /\ t = 1 + (t - 1)
          BY <1>2
        <5> QED BY <5>1
      <4>2. t * t = t + k * t /\ k * t \in Nat
        BY <4>1
      <4> QED BY <4>2
    <3>3. CASE root.mode = 1
      <4>1. PICK d \in Nat : d = M!Two(2 * RootBits - 2) /\ v < d /\ 4 * d = total
        <5>1. 2 * RootBits - 2 \in Nat
          BY <1>2
        <5>2. M!Two(2 * RootBits - 2) \in Nat
          BY <5>1, TwoPositive
        <5> QED BY <1>2, <1>7, <3>1, <3>3, <5>2
      <4>2. n = RootBits /\ M!Two(2 * n) = total
        BY <1>2, <1>4, <3>1, <3>3
      <4> QED BY <3>1, <4>1, <4>2
    <3>4. CASE root.mode # 1
      <4>1. n = h /\ M!Two(2 * n) = 4 * t
        BY <1>2, <1>4, <3>4
      <4>2. v < 4 * t
        BY <1>2, <1>3, <3>4
      <4> QED BY <3>1, <3>2, <4>1, <4>2
    <3> QED BY <3>3, <3>4
  <2> HIDE DEF x
  <2>2. RootBits \in Nat
    BY <1>2
  <2> QED BY <1>2, <2>1, <2>2, SquareRootExact DEF x
<1> HIDE DEF x
<1>8. root' \in Roots
  BY <1>1, <1>5, <1>6 DEF Roots
<1>9. root'.mode = root.mode /\ root'.val = root.val /\ root'.res = x
  BY <1>1, <1>5 DEF Roots
<1>10. M!Operand(root') = v
  BY <1>3, <1>9 DEF M!Operand
<1>11. Floor(root')
  BY <1>7, <1>9, <1>10 DEF Floor
<1> QED BY <1>8, <1>11 DEF RootInv

LEMMA RootKept == ASSUME RootInv, M!RootNext \/ UNCHANGED root PROVE RootInv'
PROOF
<1>1. CASE UNCHANGED root
  BY <1>1 DEF RootInv, Floor, M!Operand
<1> QED BY <1>1, RootFinished, RootWritten DEF M!RootNext

-----------------------------------------------------------------------------
(***************************************************************************)
(* Proof of RasterRecovers for every number of lines, and every VCOUNT the *)
(* guest may write.  Nothing is claimed of a frame with a write in it but  *)
(* its length: the flag and the 3D frame are what the line makes them once *)
(* the counter follows it, from VBlank on at once and before it from the   *)
(* frame before.                                                           *)
(***************************************************************************)

RasterShape ==
  /\ line \in 0 .. Lines - 1 /\ hblank \in BOOLEAN /\ vcount \in Nat
  /\ pending = {} \/ \E v \in Nat : pending = {v}
  /\ vblank \in BOOLEAN /\ shifted \in BOOLEAN /\ clean \in BOOLEAN
  /\ rendered = IF line >= Visible THEN Visible
                ELSE IF hblank THEN line + 1 ELSE line

RasterFollows ==
  ~shifted =>
    /\ vcount = line
    /\ line >= Visible => (vblank <=> line < D!Ends)
    /\ line >= Raster => frame3d # "latched"
    /\ clean /\ line < Visible => ~vblank /\ frame3d # "latched"

RasterInv == RasterShape /\ RasterFollows

LEMMA RasterStarts == D!Init => RasterInv
PROOF
<1> SUFFICES ASSUME D!Init PROVE RasterInv
  OBVIOUS
<1>1. pending = {} \/ \E v \in Nat : pending = {v}
  BY DEF D!Init
<1>2. RasterShape
  <2>1. line \in 0 .. Lines - 1 /\ ~(line >= Visible) /\ rendered = line
    BY DevicesAssumption DEF D!Init
  <2>2. /\ hblank = FALSE /\ vcount \in Nat /\ vblank \in BOOLEAN
        /\ shifted \in BOOLEAN /\ clean \in BOOLEAN
    BY DEF D!Init
  <2> QED BY <1>1, <2>1, <2>2 DEF RasterShape
<1>3. RasterFollows
  BY DevicesAssumption DEF D!Init, RasterFollows
<1> QED BY <1>2, <1>3 DEF RasterInv

LEMMA RasterKept == RasterInv /\ (D!Next \/ UNCHANGED dVars) => RasterInv'
PROOF
<1> SUFFICES ASSUME RasterInv, D!Next \/ UNCHANGED dVars PROVE RasterInv'
  OBVIOUS
<1> USE DevicesAssumption DEF RasterInv
<1>1. CASE D!HBlank
  BY <1>1 DEF D!HBlank, RasterShape, RasterFollows
<1>2. CASE D!LineStart
  <2> DEFINE n == (line + 1) % Lines
             v == D!VcountAt(n)
  <2>1. n = (IF line = Lines - 1 THEN 0 ELSE line + 1)
    BY DEF RasterShape
  <2> HIDE DEF n
  <2>2. /\ hblank /\ line' = n /\ hblank' = FALSE /\ vcount' = v /\ pending' = {}
        /\ vblank' = D!FlagAt(v) /\ frame3d' = D!Frame3dAt(v)
        /\ rendered' = (IF n = 0 THEN 0 ELSE rendered)
        /\ shifted' = (n # 0 /\ (shifted \/ pending # {}))
        /\ clean' = (IF n = 0 THEN ~shifted ELSE clean)
    BY <1>2 DEF D!LineStart, n
  <2>3. v \in Nat
    BY <2>1 DEF D!VcountAt, RasterShape
  <2>4. ~shifted' => v = n
    BY <2>1, <2>2 DEF D!VcountAt, RasterShape, RasterFollows
  <2>5. D!FlagAt(v) \in BOOLEAN
    BY DEF D!FlagAt, RasterShape
  <2>6. RasterShape'
    <3>1. shifted' \in BOOLEAN /\ clean' \in BOOLEAN
      BY <2>2 DEF RasterShape
    <3>2. line' \in 0 .. Lines - 1
      BY <2>1, <2>2 DEF RasterShape
    <3>3. rendered' = IF line' >= Visible THEN Visible ELSE line'
      BY <2>1, <2>2 DEF RasterShape
    <3>4. pending' = {} /\ hblank' = FALSE /\ vblank' \in BOOLEAN /\ vcount' \in Nat
      BY <2>2, <2>3, <2>5
    <3> QED BY <3>1, <3>2, <3>3, <3>4 DEF RasterShape
  <2>7. ASSUME ~shifted' PROVE RasterFollows'
    <3>1. CASE n = 0
      BY <2>1, <2>2, <2>4, <2>7, <3>1
         DEF RasterShape, RasterFollows, D!FlagAt, D!Frame3dAt, D!Ends
    <3>2. CASE n # 0
      BY <2>1, <2>2, <2>4, <2>7, <3>2
         DEF RasterShape, RasterFollows, D!FlagAt, D!Frame3dAt, D!Ends
    <3> QED BY <3>1, <3>2
  <2> QED BY <2>6, <2>7 DEF RasterFollows
<1>3. CASE D!WriteDispstat \/ D!Acknowledge \/ UNCHANGED dVars
  BY <1>3 DEF D!WriteDispstat, D!Acknowledge, dVars, RasterShape, RasterFollows, D!Ends
<1>4. CASE D!WriteVcount
  BY <1>4 DEF D!WriteVcount, RasterShape, RasterFollows, D!Ends
<1> QED BY <1>1, <1>2, <1>3, <1>4 DEF D!Next

LEMMA RasterGives == RasterInv => D!RasterRecovers
PROOF BY DevicesAssumption
      DEF RasterInv, RasterShape, RasterFollows, D!RasterRecovers, D!Ends

-----------------------------------------------------------------------------
(***************************************************************************)
(* Proof of StorageDurable, the firmware's half, for every size of flash.  *)
(* Selecting another device leaves a held flash as it is, so only its own  *)
(* phase says whether a changed byte is still on its way: outside a write  *)
(* nothing is dirty unless the last flush failed.  A reset puts an image   *)
(* back that nothing has changed.                                          *)
(***************************************************************************)

FlashCommands == {"READ", "WRITE", "RDSR"}
FlashData == FlashCells \cup {0, 1}
Flash == [hold : BOOLEAN, cmd : FlashCommands \cup {"none"}, pos : Nat, addr : FlashCells,
          data : [FlashCells -> FlashData], dirty : BOOLEAN]

FlashInv ==
  /\ fw \in Flash /\ fwFailed \in BOOLEAN /\ fwDetached \in BOOLEAN /\ fwTouched \in BOOLEAN
  /\ ~fwDetached =>
       /\ fwTouched /\ fwFile # fw.data => fw.dirty
       /\ ~fwFailed /\ fw.dirty => fw.hold /\ fw.cmd = "WRITE"
       /\ ~fwTouched => fw.data = S!StartImage /\ ~fw.dirty

LEMMA FlashLoaded ==
  S!Loaded \in Flash /\ S!Loaded.data = S!StartImage /\ S!Loaded.dirty = FALSE
PROOF
<1>1. S!StartImage \in [FlashCells -> FlashData]
  BY DEF S!StartImage, FlashData
<1>2. S!Loaded.data = S!StartImage /\ S!Loaded.dirty = FALSE
  BY DEF S!Loaded
<1> QED BY <1>1, <1>2, DevicesAssumption DEF S!Loaded, Flash, FlashCommands

LEMMA FlashStarts == S!Init => FlashInv
PROOF BY FlashLoaded DEF S!Init, FlashInv

\* A byte changes contents only in a write, and marks them.
LEMMA FlashByte ==
  ASSUME NEW f \in Flash, NEW v, f.hold => v \in FlashCells, ~f.hold => v \in FlashCommands
  PROVE  /\ S!FwByte(f, v) \in Flash /\ S!FwByte(f, v).hold
         /\ S!FwByte(f, v).data # f.data => S!FwByte(f, v).dirty
         /\ f.dirty => S!FwByte(f, v).dirty
         /\ S!FwByte(f, v).dirty /\ ~f.dirty
              => S!FwByte(f, v).cmd = "WRITE" /\ S!FwByte(f, v).data # f.data
         /\ f.hold => S!FwByte(f, v).cmd = f.cmd
PROOF
<1> DEFINE g == S!FwByte(f, v)
<1>1. CASE ~f.hold
  BY <1>1, DevicesAssumption DEF S!FwByte, Flash, FlashCommands
<1>2. CASE f.hold /\ f.cmd \notin {"READ", "WRITE"}
  BY <1>2 DEF S!FwByte, Flash
<1>3. CASE f.hold /\ f.cmd \in {"READ", "WRITE"} /\ f.pos = 1
  BY <1>3 DEF S!FwByte, Flash
<1>4. CASE f.hold /\ f.cmd = "READ" /\ f.pos # 1
  BY <1>4, DevicesAssumption DEF S!FwByte, Flash, S!NextCell
<1>5. CASE f.hold /\ f.cmd = "WRITE" /\ f.pos # 1
  <2> DEFINE changed == f.dirty \/ f.data[f.addr] # v
             data == [f.data EXCEPT ![f.addr] = v]
             next == S!NextCell(f.addr)
  <2>1. g = [f EXCEPT !.addr = next, !.data = data, !.dirty = changed]
    BY <1>5 DEF S!FwByte, Flash
  <2>2. next \in FlashCells /\ data \in [FlashCells -> FlashData] /\ changed \in BOOLEAN
    BY <1>5, DevicesAssumption DEF S!NextCell, Flash, FlashData
  <2>3. (data # f.data => changed) /\ (changed /\ ~f.dirty => data # f.data)
    BY <1>5 DEF Flash
  <2> HIDE DEF changed, data, next
  <2>4. g \in Flash /\ g.hold /\ g.cmd = "WRITE" /\ g.data = data /\ g.dirty = changed
    BY <1>5, <2>1, <2>2 DEF Flash
  <2> QED BY <1>5, <2>3, <2>4 DEF changed
<1> QED BY <1>1, <1>2, <1>3, <1>4, <1>5

\* The end of the select saves and clears the mark, or leaves both as they were;
\* it leaves nothing dirty unless the flush fails.
LEMMA FlashReleased ==
  ASSUME NEW f \in Flash, NEW ok \in BOOLEAN, fwFailed \in BOOLEAN,
         ~fwDetached,
         ~fwFailed /\ f.dirty => f.hold /\ f.cmd = "WRITE"
  PROVE  /\ S!FwReleased(f, ok).fw.data = f.data
         /\ \/ /\ f.dirty /\ ~S!FwReleased(f, ok).fw.dirty
               /\ S!FwReleased(f, ok).file = f.data
            \/ /\ S!FwReleased(f, ok).fw.dirty = f.dirty
               /\ S!FwReleased(f, ok).file = fwFile
         /\ ~S!FwReleased(f, ok).failed => ~S!FwReleased(f, ok).fw.dirty
PROOF
<1>1. CASE S!Saves(f)
  BY <1>1 DEF S!FwReleased, Flash, S!Saves
<1>2. CASE ~S!Saves(f)
  BY <1>2 DEF S!FwReleased, Flash, S!Saves
<1> QED BY <1>1, <1>2

LEMMA FlashReleasedType ==
  ASSUME NEW f \in Flash, NEW ok \in BOOLEAN, fwFailed \in BOOLEAN
  PROVE  S!FwReleased(f, ok).fw \in Flash /\ S!FwReleased(f, ok).failed \in BOOLEAN
PROOF BY DEF S!FwReleased, Flash, S!Saves

LEMMA FlashKept == FlashInv /\ (S!Next \/ UNCHANGED sVars) => FlashInv'
PROOF
<1> SUFFICES ASSUME FlashInv, S!Next \/ UNCHANGED sVars PROVE FlashInv'
  OBVIOUS
<1> USE DEF FlashInv
<1>1. CASE S!WriteCnt
  <2>1. PICK ok \in BOOLEAN :
          \/ fw' = S!FwReleased(fw, ok).fw /\ fwFile' = S!FwReleased(fw, ok).file
             /\ fwFailed' = S!FwReleased(fw, ok).failed
          \/ fw' = fw /\ fwFile' = fwFile /\ fwFailed' = fwFailed
    <3>1. ASSUME NEW on \in BOOLEAN, NEW ok \in IF S!Saves(fw) THEN BOOLEAN ELSE {TRUE},
                 LET f == IF spi.on /\ ~on /\ spi.dev = "fw" THEN S!FwReleased(fw, ok)
                          ELSE S!FwKept(fw)
                 IN  fw' = f.fw /\ fwFile' = f.file /\ fwFailed' = f.failed
          PROVE  \E o \in BOOLEAN :
                   \/ fw' = S!FwReleased(fw, o).fw /\ fwFile' = S!FwReleased(fw, o).file
                      /\ fwFailed' = S!FwReleased(fw, o).failed
                   \/ fw' = fw /\ fwFile' = fwFile /\ fwFailed' = fwFailed
      <4>1. ok \in BOOLEAN
        OBVIOUS
      <4>2. CASE spi.on /\ ~on /\ spi.dev = "fw"
        BY <3>1, <4>1, <4>2
      <4>3. CASE ~(spi.on /\ ~on /\ spi.dev = "fw")
        BY <3>1, <4>1, <4>3 DEF S!FwKept
      <4> QED BY <4>2, <4>3
    <3>2. PICK on \in BOOLEAN, dev \in {"pm", "fw", "tsc"}, keep \in BOOLEAN,
               any \in IF S!Saves(fw) THEN BOOLEAN ELSE {TRUE} :
            LET drops(d) == spi.on /\ ~on /\ spi.dev = d
                f == IF drops("fw") THEN S!FwReleased(fw, any) ELSE S!FwKept(fw)
            IN  /\ spi' = [spi EXCEPT !.on = on, !.dev = dev, !.keep = keep]
                /\ fw' = f.fw /\ fwFile' = f.file /\ fwFailed' = f.failed
                /\ pm' = IF drops("pm") THEN [pm EXCEPT !.hold = FALSE] ELSE pm
                /\ tsc' = IF drops("tsc") THEN 0 ELSE tsc
      BY <1>1, Zenon DEF S!WriteCnt
    <3> QED BY <3>1, <3>2
  <2>2. fwDetached' = fwDetached /\ fwTouched' = fwTouched
    BY <1>1 DEF S!WriteCnt
  <2>3. S!FwReleased(fw, ok).fw \in Flash /\ S!FwReleased(fw, ok).failed \in BOOLEAN
    BY FlashReleasedType
  <2>4. ~fwDetached => /\ S!FwReleased(fw, ok).fw.data = fw.data
                       /\ \/ /\ fw.dirty /\ ~S!FwReleased(fw, ok).fw.dirty
                             /\ S!FwReleased(fw, ok).file = fw.data
                          \/ /\ S!FwReleased(fw, ok).fw.dirty = fw.dirty
                             /\ S!FwReleased(fw, ok).file = fwFile
                       /\ ~S!FwReleased(fw, ok).failed => ~S!FwReleased(fw, ok).fw.dirty
    BY FlashReleased
  <2> QED BY <2>1, <2>2, <2>3, <2>4
<1>2. CASE S!TransferFirmware
  <2>1. PICK v \in IF fw.hold THEN FlashCells ELSE FlashCommands, ok \in BOOLEAN :
          LET f == S!FwByte(fw, v)
              r == IF spi.keep THEN S!FwKept(f) ELSE S!FwReleased(f, ok)
          IN  /\ fw' = r.fw /\ fwFile' = r.file /\ fwFailed' = r.failed
              /\ fwTouched' = (fwTouched \/ f.data # fw.data)
    BY <1>2 DEF S!TransferFirmware, FlashCommands
  <2>2. fwDetached' = fwDetached
    BY <1>2 DEF S!TransferFirmware
  <2> DEFINE f == S!FwByte(fw, v)
  <2>3. /\ f \in Flash /\ f.hold
        /\ f.data # fw.data => f.dirty
        /\ fw.dirty => f.dirty
        /\ f.dirty /\ ~fw.dirty => f.cmd = "WRITE" /\ f.data # fw.data
        /\ fw.hold => f.cmd = fw.cmd
    BY <2>1, FlashByte
  <2>4. \/ fw' = f /\ fwFile' = fwFile /\ fwFailed' = fwFailed
        \/ fw' = S!FwReleased(f, ok).fw /\ fwFile' = S!FwReleased(f, ok).file
           /\ fwFailed' = S!FwReleased(f, ok).failed
    BY <2>1 DEF S!FwKept
  <2>8. fwTouched' = (fwTouched \/ f.data # fw.data)
    BY <2>1
  <2> HIDE DEF f
  <2>5. ~fwDetached => /\ fwTouched' /\ fwFile # f.data => f.dirty
                       /\ ~fwFailed /\ f.dirty => f.hold /\ f.cmd = "WRITE"
                       /\ ~fwTouched' => f.data = S!StartImage /\ ~f.dirty
    BY <2>3, <2>8
  <2>6. S!FwReleased(f, ok).fw \in Flash /\ S!FwReleased(f, ok).failed \in BOOLEAN
    BY <2>3, FlashReleasedType
  <2>7. ~fwDetached => /\ S!FwReleased(f, ok).fw.data = f.data
                       /\ \/ /\ f.dirty /\ ~S!FwReleased(f, ok).fw.dirty
                             /\ S!FwReleased(f, ok).file = f.data
                          \/ /\ S!FwReleased(f, ok).fw.dirty = f.dirty
                             /\ S!FwReleased(f, ok).file = fwFile
                       /\ ~S!FwReleased(f, ok).failed => ~S!FwReleased(f, ok).fw.dirty
    BY <2>3, <2>5, FlashReleased
  <2> QED BY <2>2, <2>3, <2>4, <2>5, <2>6, <2>7, <2>8
<1>3. CASE S!Flush
  BY <1>3 DEF S!Flush, Flash
<1>4. CASE S!LoadState
  BY <1>4 DEF S!LoadState, Flash, S!Contents, FlashData
<1>6. CASE S!ReplaceFirmware
  <2>1. PICK d \in S!Contents, ok \in BOOLEAN :
          /\ fw' = [fw EXCEPT !.data = d, !.dirty = ~(ok /\ ~fwDetached)]
          /\ fwFile' = IF ok /\ ~fwDetached THEN d ELSE fwFile
          /\ fwFailed' = IF fwDetached THEN fwFailed ELSE ~ok
    BY <1>6, Zenon DEF S!ReplaceFirmware
  <2>2. fwTouched' = TRUE /\ fwDetached' = fwDetached
    BY <1>6 DEF S!ReplaceFirmware
  <2>3. d \in [FlashCells -> FlashData]
    BY DEF S!Contents, FlashData
  <2>4. PICK owed \in BOOLEAN : owed = ~(ok /\ ~fwDetached)
    OBVIOUS
  <2>5. fw' = [fw EXCEPT !.data = d, !.dirty = owed]
    BY <2>1, <2>4
  <2>6. fw' \in Flash /\ fw'.data = d /\ fw'.dirty = owed
    BY <2>3, <2>5 DEF Flash
  <2>7. fwFailed' \in BOOLEAN
    BY <2>1
  <2>8. ~fwDetached /\ fwFile' # d => owed
    BY <2>1, <2>4
  <2>9. ~fwDetached /\ ~fwFailed' => ~owed
    BY <2>1, <2>4
  <2> HIDE DEF FlashInv
  <2> QED BY <2>2, <2>6, <2>7, <2>8, <2>9 DEF FlashInv
<1>7. CASE S!Reset
  BY <1>7, FlashLoaded DEF S!Reset
<1>5. CASE S!TransferPower \/ S!TransferTouch \/ S!Done \/ UNCHANGED sVars
  BY <1>5 DEF S!TransferPower, S!TransferTouch, S!Done, sVars
<1> QED BY <1>1, <1>2, <1>3, <1>4, <1>5, <1>6, <1>7 DEF S!Next

LEMMA FlashGives == FlashInv => S!FirmwareDurable
PROOF BY DEF FlashInv, S!FirmwareDurable, Flash

-----------------------------------------------------------------------------
(***************************************************************************)
(* Proof of StorageDurable, the backup chip's half, for every kind and     *)
(* size of chip, with and without the infrared front end.  Outside a       *)
(* transfer nothing is dirty, unless a flush failed or the select was      *)
(* withdrawn; within one, only a transfer that passes to the chip dirties, *)
(* and the infrared command of a transfer does not change after its first  *)
(* byte, so that its last byte passes too.                                 *)
(***************************************************************************)

ChipBytes == ChipCells \cup {0, 1}
Chip == [cmd : B!Commands \cup {"none"}, addr : ChipCells, wel : BOOLEAN,
         sram : [ChipCells -> ChipBytes], dirty : BOOLEAN]
Controller == [on : BOOLEAN, spi : BOOLEAN, keep : BOOLEAN, busy : BOOLEAN,
               due : BOOLEAN, hold : BOOLEAN, pos : Nat]

BackupShape ==
  /\ chip \in Chip /\ aux \in Controller
  /\ failed \in BOOLEAN /\ detached \in BOOLEAN /\ cut \in BOOLEAN

\* Changed contents are marked, and a mark is on its way to the file.
BackupMarked ==
  ~detached =>
    /\ file # chip.sram => chip.dirty
    /\ chip.dirty /\ ~failed /\ ~cut => aux.hold /\ (Infrared => ircmd = 0)

BackupInv == BackupShape /\ BackupMarked

LEMMA BackupStarts == B!Init => BackupInv
PROOF
<1> SUFFICES ASSUME B!Init PROVE BackupInv
  OBVIOUS
<1>1. B!Blank \in [ChipCells -> ChipBytes]
  BY DEF B!Blank, ChipBytes
<1>2. chip \in Chip /\ aux \in Controller
  BY <1>1, DevicesAssumption DEF B!Init, Chip, Controller
<1> QED BY <1>2 DEF B!Init, BackupInv, BackupShape, BackupMarked

\* What a byte may do to the chip.
Marks(c, d) == d \in Chip /\ (c.dirty => d.dirty) /\ (d.sram # c.sram => d.dirty)

LEMMA MarksAgain ==
  ASSUME NEW c, NEW d, NEW e, Marks(c, d), Marks(d, e) PROVE Marks(c, e)
PROOF BY DEF Marks

LEMMA MarksField ==
  ASSUME NEW c \in Chip
  PROVE  /\ Marks(c, c)
         /\ Marks(c, [c EXCEPT !.wel = TRUE]) /\ Marks(c, [c EXCEPT !.wel = FALSE])
         /\ \A a \in ChipCells : /\ Marks(c, [c EXCEPT !.addr = a])
                            /\ \A m \in B!Commands :
                                 Marks(c, [c EXCEPT !.cmd = m, !.addr = a])
PROOF BY DEF Marks, Chip

LEMMA PutMarks ==
  ASSUME NEW c \in Chip, NEW a \in ChipCells, NEW v \in ChipBytes
  PROVE  Marks(c, B!Put(c, a, v))
PROOF
<1> DEFINE cells == [c.sram EXCEPT ![a] = v]
<1>1. cells \in [ChipCells -> ChipBytes]
  BY DEF Chip
<1>2. CASE c.wel /\ c.sram[a] # v
  <2>1. B!Put(c, a, v) = [c EXCEPT !.sram = cells, !.dirty = TRUE]
    BY <1>2 DEF B!Put, Chip
  <2> HIDE DEF cells
  <2> QED BY <1>1, <2>1 DEF Marks, Chip
<1>3. CASE ~(c.wel /\ c.sram[a] # v)
  BY <1>3 DEF B!Put, Marks
<1> QED BY <1>2, <1>3

LEMMA NextCellType == ASSUME NEW a \in ChipCells PROVE B!NextCell(a) \in ChipCells
PROOF BY DevicesAssumption DEF B!NextCell

LEMMA ErasedMarks == ASSUME NEW c \in Chip PROVE Marks(c, B!Erased(c))
PROOF
<1> DEFINE blank == [a \in ChipCells |-> 0]
           mark == c.dirty \/ \E a \in ChipCells : c.sram[a] # 0
<1>1. blank \in [ChipCells -> ChipBytes] /\ mark \in BOOLEAN
  BY DEF ChipBytes
<1>2. blank # c.sram => mark
  BY DEF Chip
<1>3. CASE c.wel
  <2>1. B!Erased(c) = [c EXCEPT !.sram = blank, !.dirty = mark]
    BY <1>3 DEF B!Erased, Chip
  <2>2. c.dirty => mark
    OBVIOUS
  <2> HIDE DEF blank, mark
  <2> QED BY <1>1, <1>2, <2>1, <2>2 DEF Marks, Chip
<1>4. CASE ~c.wel
  BY <1>4 DEF B!Erased, Marks
<1> QED BY <1>3, <1>4

LEMMA ArgumentMarks ==
  ASSUME NEW c \in Chip, NEW v \in ChipCells, NEW pos, NEW last \in BOOLEAN
  PROVE  Marks(c, B!Argument(c, v, pos, last))
PROOF
<1>1. ASSUME NEW d, Marks(c, d) PROVE Marks(c, B!Unlatched(d, last))
  <2>1. d \in Chip
    BY <1>1 DEF Marks
  <2>2. Marks(d, B!Unlatched(d, last))
    BY <2>1, MarksField DEF B!Unlatched
  <2> QED BY <1>1, <2>2, MarksAgain
<1>2. Marks(c, B!Program(c, v, pos))
  <2>1. CASE pos = 1
    BY <2>1, MarksField DEF B!Program
  <2>2. CASE pos # 1
    <3> DEFINE w == IF Kind = "flash" /\ c.cmd = "WRITE" THEN 0 ELSE v
               d == B!Put(c, c.addr, w)
    <3>1. w \in ChipBytes /\ c.addr \in ChipCells
      BY DEF ChipBytes, Chip
    <3>2. Marks(c, d)
      BY <3>1, PutMarks
    <3>3. d \in Chip
      BY <3>2 DEF Marks
    <3>4. B!Program(c, v, pos) = [d EXCEPT !.addr = B!NextCell(d.addr)]
      BY <2>2 DEF B!Program
    <3>5. B!NextCell(d.addr) \in ChipCells
      BY <3>3, NextCellType DEF Chip
    <3> HIDE DEF d
    <3>6. Marks(d, [d EXCEPT !.addr = B!NextCell(d.addr)])
      BY <3>3, <3>5, MarksField
    <3> QED BY <3>2, <3>4, <3>6, MarksAgain
  <2> QED BY <2>1, <2>2
<1>3. Marks(c, IF pos = 1 THEN B!Erased([c EXCEPT !.addr = v]) ELSE c)
  <2>1. Marks(c, [c EXCEPT !.addr = v]) /\ Marks(c, c)
    BY MarksField
  <2>2. [c EXCEPT !.addr = v] \in Chip
    BY <2>1 DEF Marks
  <2>3. Marks([c EXCEPT !.addr = v], B!Erased([c EXCEPT !.addr = v]))
    BY <2>2, ErasedMarks
  <2> QED BY <2>1, <2>3, MarksAgain
<1>4. Marks(c, IF pos = 1 THEN [c EXCEPT !.wel = FALSE] ELSE c)
  BY MarksField
<1>5. Marks(c, [c EXCEPT !.addr = IF pos = 1 THEN v ELSE B!NextCell(c.addr)])
  <2>1. (IF pos = 1 THEN v ELSE B!NextCell(c.addr)) \in ChipCells
    BY NextCellType DEF Chip
  <2> QED BY <2>1, MarksField
<1>6. /\ Marks(c, B!Unlatched(B!Program(c, v, pos), last))
      /\ Marks(c, B!Unlatched(IF pos = 1 THEN B!Erased([c EXCEPT !.addr = v]) ELSE c, last))
      /\ Marks(c, c)
  BY <1>1, <1>2, <1>3, MarksField
<1>7. \/ B!Argument(c, v, pos, last) = IF pos = 1 THEN [c EXCEPT !.wel = FALSE] ELSE c
      \/ B!Argument(c, v, pos, last) = B!Unlatched(B!Program(c, v, pos), last)
      \/ B!Argument(c, v, pos, last)
           = [c EXCEPT !.addr = IF pos = 1 THEN v ELSE B!NextCell(c.addr)]
      \/ B!Argument(c, v, pos, last)
           = B!Unlatched(IF pos = 1 THEN B!Erased([c EXCEPT !.addr = v]) ELSE c, last)
      \/ B!Argument(c, v, pos, last) = c
  BY DEF B!Argument
<1> QED BY <1>4, <1>5, <1>6, <1>7

LEMMA ChipByteMarks ==
  ASSUME NEW c \in Chip, NEW pos \in Nat, NEW last \in BOOLEAN, NEW v,
         v \in IF pos = 0 THEN B!Commands ELSE ChipCells
  PROVE  Marks(c, B!ChipByte(c, v, pos, last))
PROOF
<1>1. CASE pos > 0
  BY <1>1, ArgumentMarks DEF B!ChipByte
<1>2. CASE pos = 0
  <2>1. \/ B!ChipByte(c, v, pos, last) = [c EXCEPT !.wel = TRUE]
        \/ B!ChipByte(c, v, pos, last) = [c EXCEPT !.wel = FALSE]
        \/ B!ChipByte(c, v, pos, last) = [c EXCEPT !.cmd = v, !.addr = 0]
    BY <1>2 DEF B!ChipByte
  <2>2. v \in B!Commands
    BY <1>2
  <2>3. Marks(c, [c EXCEPT !.cmd = v, !.addr = 0])
    BY <2>2, MarksField, DevicesAssumption
  <2> QED BY <2>1, <2>3, MarksField
<1> QED BY <1>1, <1>2

\* A flush leaves nothing dirty unless it fails.
LEMMA FlushedGives ==
  ASSUME NEW c \in Chip, NEW ok \in BOOLEAN, failed \in BOOLEAN, detached \in BOOLEAN
  PROVE  /\ B!Flushed(c, ok).chip \in Chip /\ B!Flushed(c, ok).failed \in BOOLEAN
         /\ B!Flushed(c, ok).chip.sram = c.sram
         /\ ~detached => /\ B!Flushed(c, ok).chip.dirty => c.dirty /\ B!Flushed(c, ok).failed
                         /\ file = c.sram \/ c.dirty =>
                              B!Flushed(c, ok).file = c.sram \/ B!Flushed(c, ok).chip.dirty
PROOF
<1>1. CASE ~c.dirty \/ detached
  BY <1>1 DEF B!Flushed
<1>2. CASE c.dirty /\ ~detached /\ ok
  BY <1>2 DEF B!Flushed, Chip
<1>3. CASE c.dirty /\ ~detached /\ ~ok
  BY <1>3 DEF B!Flushed
<1> QED BY <1>1, <1>2, <1>3

LEMMA BackupWriteData == BackupInv /\ B!WriteData => BackupInv'
PROOF
<1> SUFFICES ASSUME BackupInv, B!WriteData PROVE BackupInv'
  OBVIOUS
<1> USE DEF BackupInv
<1> DEFINE pos == IF aux.hold THEN aux.pos + 1 ELSE 0
           last == ~aux.keep
           shift == IF Infrared THEN 1 ELSE 0
           passes == pos >= shift /\ (Infrared => ircmd = 0)
<1>1. pos \in Nat /\ shift \in {0, 1} /\ last \in BOOLEAN
  BY DEF BackupShape, Controller
<1>2. PICK v \in B!Inputs(pos), ok \in BOOLEAN :
        LET c == IF passes THEN B!ChipByte(chip, v, pos - shift, last) ELSE chip
            f == IF passes /\ last THEN B!Flushed(c, ok)
                 ELSE [chip |-> c, file |-> file, failed |-> failed]
        IN  /\ chip' = f.chip /\ file' = f.file /\ failed' = f.failed
            /\ cut' = (cut /\ f.chip.dirty)
            /\ ircmd' = IF Infrared /\ pos = 0 THEN v ELSE ircmd
  BY DEF B!WriteData
<1> DEFINE c == IF passes THEN B!ChipByte(chip, v, pos - shift, last) ELSE chip
<1>3. /\ aux' = [aux EXCEPT !.busy = TRUE, !.due = TRUE, !.pos = pos, !.hold = aux.keep]
      /\ UNCHANGED detached
  BY DEF B!WriteData
<1>4. aux' \in Controller /\ aux'.hold = aux.keep
  BY <1>1, <1>3 DEF BackupShape, Controller
<1>5. Marks(chip, c) /\ (~passes => c = chip)
  <2>1. CASE passes
    <3>1. pos - shift \in Nat
      BY <1>1, <2>1
    <3>2. v \in IF pos - shift = 0 THEN B!Commands ELSE ChipCells
      BY <1>1, <1>2, <2>1, DevicesAssumption DEF B!Inputs
    <3>3. Marks(chip, B!ChipByte(chip, v, pos - shift, last))
      BY <1>1, <3>1, <3>2, ChipByteMarks DEF BackupShape
    <3> QED BY <2>1, <3>3
  <2>2. CASE ~passes
    BY <2>2, MarksField DEF BackupShape, Marks
  <2> QED BY <2>1, <2>2
<1>6. \/ ~(passes /\ last) /\ chip' = c /\ file' = file /\ failed' = failed
      \/ passes /\ last /\ chip' = B!Flushed(c, ok).chip /\ file' = B!Flushed(c, ok).file
         /\ failed' = B!Flushed(c, ok).failed
  BY <1>2
<1>7. cut' = (cut /\ chip'.dirty) /\ ircmd' = IF Infrared /\ pos = 0 THEN v ELSE ircmd
  BY <1>2
<1>8. pos = 0 => ~aux.hold
  BY DEF BackupShape, Controller
<1>9. passes => (Infrared => ircmd = 0 /\ pos # 0)
  BY DevicesAssumption
<1>10. ~passes => \/ Infrared /\ pos = 0
                  \/ Infrared /\ ircmd # 0
  BY <1>1, DevicesAssumption
<1> HIDE DEF c, passes, pos, last
<1>11. c \in Chip /\ (chip.dirty => c.dirty) /\ (c.sram # chip.sram => c.dirty)
  BY <1>5 DEF Marks
<1>12. /\ B!Flushed(c, ok).chip \in Chip /\ B!Flushed(c, ok).failed \in BOOLEAN
       /\ B!Flushed(c, ok).chip.sram = c.sram
       /\ ~detached => /\ B!Flushed(c, ok).chip.dirty => c.dirty /\ B!Flushed(c, ok).failed
                       /\ file = c.sram \/ c.dirty =>
                            B!Flushed(c, ok).file = c.sram \/ B!Flushed(c, ok).chip.dirty
  BY <1>11, FlushedGives DEF BackupShape
<1>13. BackupShape'
  <2>1. chip' \in Chip /\ failed' \in BOOLEAN
    BY <1>6, <1>11, <1>12 DEF BackupShape
  <2>2. cut' \in BOOLEAN
    BY <1>7 DEF BackupShape
  <2> QED BY <1>3, <1>4, <2>1, <2>2 DEF BackupShape
<1>14. ASSUME ~detached PROVE file' # chip'.sram => chip'.dirty
  BY <1>6, <1>11, <1>12, <1>14 DEF BackupMarked
<1>15. ASSUME ~detached, chip'.dirty, ~failed', ~cut'
       PROVE  aux'.hold /\ (Infrared => ircmd' = 0)
  <2>1. ~cut
    BY <1>7, <1>15
  <2>2. ~(passes /\ last) /\ chip' = c /\ failed' = failed
    BY <1>6, <1>12, <1>15
  <2>3. CASE passes
    BY <1>4, <1>7, <1>9, <2>2, <2>3 DEF last
  <2>4. CASE ~passes
    <3>1. chip.dirty /\ ~failed
      BY <1>5, <1>15, <2>2, <2>4
    <3>2. aux.hold /\ (Infrared => ircmd = 0)
      BY <1>15, <2>1, <3>1 DEF BackupMarked
    <3> QED BY <1>8, <1>10, <2>4, <3>2
  <2> QED BY <2>3, <2>4
<1> QED BY <1>3, <1>13, <1>14, <1>15 DEF BackupMarked

LEMMA BackupKept == BackupInv /\ (B!Next \/ UNCHANGED bVars) => BackupInv'
PROOF
<1> SUFFICES ASSUME BackupInv, B!Next \/ UNCHANGED bVars PROVE BackupInv'
  OBVIOUS
<1> USE DEF BackupInv
<1>1. CASE B!WriteCnt
  <2>1. PICK on \in BOOLEAN, serial \in BOOLEAN, keep \in BOOLEAN :
          /\ aux' = [aux EXCEPT !.on = on, !.spi = serial, !.keep = keep,
                                !.hold = aux.hold /\ ~B!Dropped(on, serial)]
          /\ cut' = (cut \/ (aux.hold /\ B!Dropped(on, serial) /\ chip.dirty))
    BY <1>1 DEF B!WriteCnt
  <2>2. UNCHANGED <<chip, ircmd, file, detached, failed>>
    BY <1>1 DEF B!WriteCnt
  <2> DEFINE held == aux.hold /\ ~B!Dropped(on, serial)
  <2>3. held \in BOOLEAN
    BY DEF BackupShape
  <2> HIDE DEF held
  <2>4. aux' \in Controller /\ aux'.hold = held
    <3>1. aux' = [aux EXCEPT !.on = on, !.spi = serial, !.keep = keep, !.hold = held]
      BY <2>1 DEF held
    <3>2. aux \in Controller
      BY DEF BackupShape
    <3> QED BY <2>3, <3>1, <3>2 DEF Controller
  <2> USE DEF held
  <2>5. cut' \in BOOLEAN
    BY <2>1 DEF BackupShape
  <2> QED BY <2>1, <2>2, <2>4, <2>5 DEF BackupShape, BackupMarked
<1>2. CASE B!WriteData
  BY <1>2, BackupWriteData
<1>3. CASE B!Done
  <2>1. aux' = [aux EXCEPT !.due = FALSE, !.busy = FALSE]
        /\ UNCHANGED <<chip, ircmd, file, detached, failed, cut>>
    BY <1>3 DEF B!Done
  <2>2. aux' \in Controller /\ aux'.hold = aux.hold
    BY <2>1 DEF BackupShape, Controller
  <2> QED BY <2>1, <2>2 DEF BackupShape, BackupMarked
<1>4. CASE B!Flush
  <2>1. PICK ok \in BOOLEAN :
          /\ chip' = B!Flushed(chip, ok).chip /\ file' = B!Flushed(chip, ok).file
          /\ failed' = B!Flushed(chip, ok).failed
          /\ cut' = (cut /\ B!Flushed(chip, ok).chip.dirty)
    BY <1>4 DEF B!Flush
  <2>2. UNCHANGED <<aux, ircmd, detached>>
    BY <1>4 DEF B!Flush
  <2>3. /\ B!Flushed(chip, ok).chip \in Chip /\ B!Flushed(chip, ok).failed \in BOOLEAN
        /\ B!Flushed(chip, ok).chip.sram = chip.sram
        /\ ~detached => /\ B!Flushed(chip, ok).chip.dirty
                             => chip.dirty /\ B!Flushed(chip, ok).failed
                        /\ file = chip.sram \/ chip.dirty =>
                             B!Flushed(chip, ok).file = chip.sram
                             \/ B!Flushed(chip, ok).chip.dirty
    BY FlushedGives DEF BackupShape
  <2>4. cut' \in BOOLEAN
    BY <2>1 DEF BackupShape
  <2> QED BY <2>1, <2>2, <2>3, <2>4 DEF BackupShape, BackupMarked
<1>5. CASE B!LoadState
  <2>1. PICK s \in [ChipCells -> {0, 1}], d \in BOOLEAN :
          chip' = [chip EXCEPT !.sram = s, !.dirty = d]
    BY <1>5 DEF B!LoadState
  <2>2. detached' = TRUE /\ UNCHANGED <<aux, ircmd, file, failed, cut>>
    BY <1>5 DEF B!LoadState
  <2>3. s \in [ChipCells -> ChipBytes]
    BY DEF ChipBytes
  <2>4. chip' \in Chip
    BY <2>1, <2>3 DEF BackupShape, Chip
  <2> QED BY <2>2, <2>4 DEF BackupShape, BackupMarked
<1>6. CASE B!Reset
  <2>1. /\ aux' \in Controller /\ ~aux'.hold
        /\ cut' = (cut \/ (aux.hold /\ chip.dirty))
    BY <1>6 DEF B!Reset, Controller
  <2>2. chip' = [chip EXCEPT !.cmd = "none", !.addr = 0, !.wel = FALSE]
        /\ UNCHANGED <<file, detached, failed>>
    BY <1>6 DEF B!Reset
  <2>3. chip' \in Chip /\ chip'.sram = chip.sram /\ chip'.dirty = chip.dirty
    BY <2>2, DevicesAssumption DEF BackupShape, Chip
  <2>4. cut' \in BOOLEAN
    BY <2>1 DEF BackupShape
  <2> QED BY <2>1, <2>2, <2>3, <2>4 DEF BackupShape, BackupMarked
<1>7. CASE UNCHANGED bVars
  BY <1>7 DEF bVars, BackupShape, BackupMarked
<1> QED BY <1>1, <1>2, <1>3, <1>4, <1>5, <1>6, <1>7 DEF B!Next

LEMMA BackupGives == BackupInv => B!BackupDurable
PROOF BY DEF BackupInv, BackupShape, BackupMarked, B!BackupDurable

-----------------------------------------------------------------------------
(***************************************************************************)
(* Proof of TimersExact for every width of counter, number of timers,      *)
(* prescaler, reload value and gap: a catch-up over d cycles and one more  *)
(* cycle are a catch-up over d + 1.                                        *)
(***************************************************************************)

ControlWords == [enable : BOOLEAN, cascade : BOOLEAN, irq : BOOLEAN, pre : Nat \ {0}]
Timer == [reload : 0 .. Top - 1, counter : 0 .. Top - 1, accum : Nat,
          ctrl : ControlWords]
Banks == [0 .. LastTimer -> Timer]

\* Where n ticks leave a counter.
Landing(tm, n) ==
  IF n < Top - tm.counter THEN tm.counter + n
  ELSE tm.reload + ((n - (Top - tm.counter)) % (Top - tm.reload))

LEMMA Counted ==
  ASSUME NEW tm \in Timer, NEW n \in Nat, tm.ctrl.enable, n >= Top - tm.counter
  PROVE  \E k \in Nat :
           /\ T!Overflows(tm, n) = k + 1
           /\ Landing(tm, n) \in tm.reload .. Top - 1
           /\ n - (Top - tm.counter) = (Top - tm.reload) * k + (Landing(tm, n) - tm.reload)
PROOF
<1>1. PICK r \in Nat, c \in Nat : r = tm.reload /\ c = tm.counter /\ r < Top /\ c < Top
  BY DevicesAssumption DEF Timer
<1>2. PICK s \in Nat : s = Top - r /\ s >= 1
  BY <1>1, DevicesAssumption
<1>3. PICK v \in Nat : v = n - (Top - c)
  BY <1>1, DevicesAssumption
<1>4. PICK e \in Int : e = v % s /\ 0 <= e /\ e < s
  <2>1. v % s \in Int /\ 0 <= v % s /\ v % s < s
    BY <1>2, DivFacts
  <2> QED BY <2>1
<1>5. PICK k \in Int : k = v \div s
  BY <1>2, DivFacts
<1>6. v = s * k + e
  <2>1. v = s * (v \div s) + (v % s)
    <3>1. v \in Int /\ s \in Int /\ s >= 1
      BY <1>2
    <3> QED BY <3>1, DivFacts
  <2> QED BY <1>4, <1>5, <2>1
<1>7. k >= 0
  <2> SUFFICES ASSUME k < 0 PROVE FALSE
    OBVIOUS
  <2>1. PICK i \in Nat : k = -1 - i
    <3>1. -1 - k \in Nat /\ k = -1 - (-1 - k)
      OBVIOUS
    <3> QED BY <3>1
  <2>2. s * k = -s - s * i
    BY <2>1
  <2>3. s * i \in Nat
    OBVIOUS
  <2> QED BY <1>4, <1>6, <2>2, <2>3
<1>11. ~(n < Top - tm.counter) /\ n - (Top - tm.counter) = v /\ Top - tm.reload = s
  BY <1>1, <1>2, <1>3, DevicesAssumption
<1>8. T!Overflows(tm, n) = 1 + k
  <2>1. T!Overflows(tm, n) = 1 + (v \div s)
    BY <1>11, Zenon DEF T!Overflows
  <2> QED BY <1>5, <2>1
<1>9. Landing(tm, n) = r + e
  <2>1. Landing(tm, n) = tm.reload + (v % s)
    BY <1>11, Zenon DEF Landing
  <2> QED BY <1>1, <1>4, <2>1
<1>10. k \in Nat /\ 1 + k = k + 1 /\ r + e \in r .. Top - 1 /\ (r + e) - r = e
  BY <1>1, <1>2, <1>4, <1>7, DevicesAssumption
<1> QED BY <1>1, <1>2, <1>3, <1>6, <1>8, <1>9, <1>10

LEMMA CountUnique ==
  ASSUME NEW tm \in Timer, NEW n \in Nat, tm.ctrl.enable, n >= Top - tm.counter,
         NEW k \in Nat, NEW c \in tm.reload .. Top - 1,
         n - (Top - tm.counter) = (Top - tm.reload) * k + (c - tm.reload)
  PROVE  T!Overflows(tm, n) = k + 1 /\ Landing(tm, n) = c
PROOF
<1>1. PICK r \in Nat, z \in Nat : r = tm.reload /\ z = tm.counter /\ r < Top /\ z < Top
  BY DevicesAssumption DEF Timer
<1>2. PICK s \in Nat \ {0} : s = Top - r
  <2>1. Top - r \in Nat \ {0}
    BY <1>1, DevicesAssumption
  <2> QED BY <2>1
<1>3. PICK v \in Int : v = n - (Top - z)
  BY DevicesAssumption
<1>4. c - r \in Int /\ 0 <= c - r /\ c - r < s
  BY <1>1, <1>2, DevicesAssumption
<1>5. v = s * k + (c - r)
  BY <1>1, <1>2, <1>3
<1>6. v \div s = k /\ v % s = c - r
  <2>1. PICK e \in Int : e = c - r
    BY <1>4
  <2>2. v = s * k + e /\ 0 <= e /\ e < s /\ k \in Int
    BY <1>4, <1>5, <2>1
  <2>3. v \div s = k /\ v % s = e
    BY <2>2, DivUnique
  <2> QED BY <2>1, <2>3
<1>9. ~(n < Top - tm.counter) /\ n - (Top - tm.counter) = v /\ Top - tm.reload = s
  BY <1>1, <1>2, <1>3, DevicesAssumption
<1>7. T!Overflows(tm, n) = 1 + k
  <2>1. T!Overflows(tm, n) = 1 + (v \div s)
    BY <1>9, Zenon DEF T!Overflows
  <2> QED BY <1>6, <2>1
<1>8. Landing(tm, n) = r + (c - r)
  <2>1. Landing(tm, n) = tm.reload + (v % s)
    BY <1>9, Zenon DEF Landing
  <2> QED BY <1>1, <1>6, <2>1
<1> QED BY <1>1, <1>7, <1>8

LEMMA LandingType ==
  ASSUME NEW tm \in Timer, NEW n \in Nat, tm.ctrl.enable
  PROVE  Landing(tm, n) \in 0 .. Top - 1
PROOF
<1>1. CASE n < Top - tm.counter
  BY <1>1, DevicesAssumption DEF Landing, Timer
<1>2. CASE ~(n < Top - tm.counter)
  <2>1. n >= Top - tm.counter /\ tm.reload \in Nat
    BY <1>2, DevicesAssumption DEF Timer
  <2>2. Landing(tm, n) \in tm.reload .. Top - 1
    BY <2>1, Counted
  <2> QED BY <2>1, <2>2, DevicesAssumption
<1> QED BY <1>1, <1>2

LEMMA OverflowsType ==
  ASSUME NEW tm \in Timer, NEW n \in Nat
  PROVE  /\ T!Overflows(tm, n) \in Nat
         /\ T!Overflows(tm, n) > 0 <=> tm.ctrl.enable /\ n >= Top - tm.counter
PROOF
<1>1. tm.counter \in Nat /\ Top \in Nat
  BY DevicesAssumption DEF Timer
<1>2. CASE ~tm.ctrl.enable \/ n < Top - tm.counter
  BY <1>1, <1>2 DEF T!Overflows
<1>3. CASE tm.ctrl.enable /\ n >= Top - tm.counter
  <2>1. PICK k \in Nat : T!Overflows(tm, n) = k + 1
    BY <1>3, Counted
  <2> QED BY <1>3, <2>1
<1>4. n < Top - tm.counter \/ n >= Top - tm.counter
  BY <1>1
<1>5. tm.ctrl.enable \in BOOLEAN
  BY DEF Timer, ControlWords
<1> QED BY <1>2, <1>3, <1>4, <1>5

\* Ticks taken in two parts.
LEMMA CountTwice ==
  ASSUME NEW tm \in Timer, NEW n \in Nat, NEW i \in Nat, tm.ctrl.enable,
         NEW un \in Timer, un.ctrl.enable, un.reload = tm.reload,
         un.counter = Landing(tm, n)
  PROVE  /\ Landing(un, i) = Landing(tm, n + i)
         /\ T!Overflows(tm, n) + T!Overflows(un, i) = T!Overflows(tm, n + i)
PROOF
<1>1. PICK r \in Nat, z \in Nat : r = tm.reload /\ z = tm.counter /\ r < Top /\ z < Top
  BY DevicesAssumption DEF Timer
<1>2. PICK s \in Nat : s = Top - r /\ s >= 1
  BY <1>1, DevicesAssumption
<1>3. PICK c \in Nat : c = un.counter /\ c < Top
  BY DevicesAssumption DEF Timer
<1>4. Top \in Nat
  BY DevicesAssumption
<1>5. CASE n < Top - z
  <2>1. c = z + n /\ T!Overflows(tm, n) = 0
    BY <1>1, <1>3, <1>5 DEF Landing, T!Overflows
  <2>2. (i < Top - c <=> n + i < Top - z) /\ i - (Top - c) = (n + i) - (Top - z)
    BY <1>1, <1>3, <1>4, <2>1
  <2>3. Landing(un, i) = Landing(tm, n + i)
    <3>1. CASE i < Top - c
      BY <1>1, <1>3, <2>1, <2>2, <3>1 DEF Landing
    <3>2. CASE ~(i < Top - c)
      BY <1>1, <1>3, <2>2, <3>2 DEF Landing
    <3> QED BY <3>1, <3>2
  <2>4. T!Overflows(un, i) = T!Overflows(tm, n + i)
    BY <1>1, <1>3, <2>2 DEF T!Overflows
  <2>5. T!Overflows(un, i) \in Nat
    BY OverflowsType
  <2> QED BY <2>1, <2>3, <2>4, <2>5
<1>6. CASE n >= Top - z
  <2>1. PICK k \in Nat : /\ T!Overflows(tm, n) = k + 1 /\ c \in r .. Top - 1
                         /\ n - (Top - z) = s * k + (c - r)
    BY <1>1, <1>2, <1>3, <1>6, Counted
  <2>2. n + i >= Top - z /\ n + i \in Nat
    BY <1>1, <1>4, <1>6
  <2>3. s * k \in Nat
    BY <1>2
  <2>4. CASE i < Top - c
    <3>1. Landing(un, i) = c + i /\ T!Overflows(un, i) = 0
      BY <1>3, <2>4 DEF Landing, T!Overflows
    <3>2. (n + i) - (Top - z) = s * k + ((c + i) - r) /\ c + i \in r .. Top - 1
      <4>1. PICK sk \in Nat : sk = s * k
        BY <2>3
      <4>2. n - (Top - z) = sk + (c - r) /\ r <= c /\ i < Top - c
        BY <2>1, <2>4, <4>1
      <4>3. c + i \in r .. Top - 1
        BY <1>3, <1>4, <4>2
      <4>4. (n + i) - (Top - z) = sk + ((c + i) - r)
        BY <1>4, <4>2
      <4> QED BY <4>1, <4>3, <4>4
    <3>3. T!Overflows(tm, n + i) = k + 1 /\ Landing(tm, n + i) = c + i
      BY <1>1, <1>2, <2>2, <3>2, CountUnique
    <3> QED BY <2>1, <3>1, <3>3
  <2>5. CASE i >= Top - c
    <3>1. PICK j \in Nat, e \in r .. Top - 1 :
            /\ T!Overflows(un, i) = j + 1 /\ e = Landing(un, i)
            /\ i - (Top - c) = s * j + (e - r)
      BY <1>1, <1>2, <1>3, <2>5, Counted
    <3>2. s * (k + j + 1) = s * k + s * j + s /\ s * j \in Nat /\ k + j + 1 \in Nat
      BY <1>2
    <3>3. (n + i) - (Top - z) = s * (k + j + 1) + (e - r)
      <4>1. PICK sk \in Nat : sk = s * k
        BY <2>3
      <4>2. PICK sj \in Nat : sj = s * j
        BY <3>2
      <4>3. n - (Top - z) = sk + (c - r) /\ i - (Top - c) = sj + (e - r)
        BY <2>1, <3>1, <4>1, <4>2
      <4>4. (n + i) - (Top - z) = sk + sj + s + (e - r)
        <5>1. s = Top - r /\ e \in Int
          BY <1>2, <3>1
        <5> QED BY <1>4, <4>3, <5>1
      <4> QED BY <3>2, <4>1, <4>2, <4>4
    <3>4. T!Overflows(tm, n + i) = (k + j + 1) + 1 /\ Landing(tm, n + i) = e
      BY <1>1, <1>2, <2>2, <3>1, <3>2, <3>3, CountUnique
    <3> QED BY <2>1, <3>1, <3>4
  <2> QED BY <1>3, <1>4, <2>4, <2>5
<1> QED BY <1>1, <1>4, <1>5, <1>6

\* What one timer does in d cycles when the timer below carries x times.
Over(tm, d, x) == T!Overflows(tm, T!Ticks(tm, d, x))
After(tm, d, x) == T!Ticked(tm, d, T!Ticks(tm, d, x))

LEMMA TicksType ==
  ASSUME NEW tm \in Timer, NEW d \in Nat, NEW x \in Nat
  PROVE  /\ T!Ticks(tm, d, x) \in Nat
         /\ ~tm.ctrl.cascade /\ d # 0 =>
              /\ (tm.accum + d) % tm.ctrl.pre \in Nat
              /\ tm.accum + d = tm.ctrl.pre * T!Ticks(tm, d, x)
                                  + ((tm.accum + d) % tm.ctrl.pre)
              /\ (tm.accum + d) % tm.ctrl.pre < tm.ctrl.pre
PROOF
<1>1. PICK a \in Nat, p \in Nat : a = tm.accum + d /\ p = tm.ctrl.pre /\ p >= 1
  BY DEF Timer, ControlWords
<1>2. PICK q \in Int, e \in Nat : q = a \div p /\ e = a % p /\ a = p * q + e /\ e < p
  <2>1. a \in Int /\ p \in Int /\ p >= 1
    BY <1>1
  <2>2. /\ a \div p \in Int /\ a % p \in Int
        /\ a = p * (a \div p) + (a % p) /\ 0 <= a % p /\ a % p < p
    BY <2>1, DivFacts
  <2>3. a % p \in Nat
    BY <2>2
  <2> QED BY <2>2, <2>3, Zenon
<1>3. q >= 0
  <2> SUFFICES ASSUME q < 0 PROVE FALSE
    OBVIOUS
  <2>1. PICK i \in Nat : q = -1 - i
    <3>1. -1 - q \in Nat /\ q = -1 - (-1 - q)
      OBVIOUS
    <3> QED BY <3>1
  <2>2. p * q = -p - p * i
    BY <2>1
  <2>3. p * i \in Nat
    OBVIOUS
  <2> QED BY <1>2, <2>2, <2>3
<1>4. T!Ticks(tm, d, x) = IF d = 0 THEN 0 ELSE IF tm.ctrl.cascade THEN x ELSE q
  BY <1>1, <1>2, Zenon DEF T!Ticks
<1>5. tm.ctrl.cascade \in BOOLEAN
  BY DEF Timer, ControlWords
<1>6. T!Ticks(tm, d, x) \in Nat
  BY <1>3, <1>4, <1>5
<1>7. ~tm.ctrl.cascade /\ d # 0 => T!Ticks(tm, d, x) = q
  BY <1>4, <1>5
<1> QED BY <1>1, <1>2, <1>6, <1>7

\* A timer after some cycles, field by field.
LEMMA TimerAfter ==
  ASSUME NEW tm \in Timer, NEW d \in Nat, NEW x \in Nat
  PROVE  /\ After(tm, d, x) \in Timer
         /\ After(tm, d, x).ctrl = tm.ctrl /\ After(tm, d, x).reload = tm.reload
         /\ ~tm.ctrl.enable \/ d = 0 => After(tm, d, x) = tm /\ Over(tm, d, x) = 0
         /\ tm.ctrl.enable /\ d # 0 =>
              /\ After(tm, d, x).counter = Landing(tm, T!Ticks(tm, d, x))
              /\ After(tm, d, x).accum = IF tm.ctrl.cascade THEN tm.accum
                                         ELSE (tm.accum + d) % tm.ctrl.pre
PROOF
<1> DEFINE n == T!Ticks(tm, d, x)
<1>1. n \in Nat /\ (~tm.ctrl.cascade /\ d # 0 => (tm.accum + d) % tm.ctrl.pre \in Nat)
  BY TicksType
<1>2. CASE ~tm.ctrl.enable \/ d = 0
  <2>1. After(tm, d, x) = tm
    BY <1>2 DEF After, T!Ticked
  <2>2. Over(tm, d, x) = 0
    <3>1. CASE ~tm.ctrl.enable
      BY <3>1 DEF Over, T!Overflows
    <3>2. CASE d = 0
      <4>1. n = 0 /\ 0 < Top - tm.counter
        BY <3>2, DevicesAssumption DEF T!Ticks, Timer
      <4> QED BY <4>1 DEF Over, T!Overflows
    <3> QED BY <1>2, <3>1, <3>2
  <2> QED BY <1>2, <2>1, <2>2
<1>3. CASE tm.ctrl.enable /\ d # 0
  <2> HIDE DEF n
  <2> DEFINE c == Landing(tm, n)
             a == IF tm.ctrl.cascade THEN tm.accum ELSE (tm.accum + d) % tm.ctrl.pre
  <2>1. After(tm, d, x) = [tm EXCEPT !.accum = a, !.counter = c]
    BY <1>3 DEF After, T!Ticked, Landing, n, Timer
  <2>2. c \in 0 .. Top - 1
    BY <1>1, <1>3, LandingType
  <2>3. a \in Nat
    BY <1>1, <1>3 DEF Timer, ControlWords
  <2> HIDE DEF c, a
  <2>4. /\ After(tm, d, x) \in Timer
        /\ After(tm, d, x).ctrl = tm.ctrl /\ After(tm, d, x).reload = tm.reload
        /\ After(tm, d, x).counter = c /\ After(tm, d, x).accum = a
    BY <2>1, <2>2, <2>3 DEF Timer
  <2> QED BY <1>3, <2>4 DEF c, a, n
<1>4. tm.ctrl.enable \in BOOLEAN
  BY DEF Timer, ControlWords
<1> QED BY <1>2, <1>3, <1>4

\* Enabled, and over at least one cycle.
Advanced(tm, new, d, x) ==
  /\ new \in Timer /\ new.ctrl = tm.ctrl /\ new.reload = tm.reload
  /\ new.counter = Landing(tm, T!Ticks(tm, d, x))
  /\ new.accum = IF tm.ctrl.cascade THEN tm.accum ELSE (tm.accum + d) % tm.ctrl.pre

LEMMA TimerAdvanced ==
  ASSUME NEW tm \in Timer, NEW d \in Nat, NEW x \in Nat, tm.ctrl.enable, d # 0
  PROVE  Advanced(tm, After(tm, d, x), d, x)
BY TimerAfter DEF Advanced

LEMMA OverType ==
  ASSUME NEW tm \in Timer, NEW d \in Nat, NEW x \in Nat
  PROVE  Over(tm, d, x) \in Nat
BY TicksType, OverflowsType DEF Over

\* Two timers with the same fields are the same.
LEMMA TimerEqual ==
  ASSUME NEW tm \in Timer, NEW un \in Timer, tm.reload = un.reload,
         tm.counter = un.counter, tm.accum = un.accum, tm.ctrl = un.ctrl
  PROVE  tm = un
BY DEF Timer

\* One more cycle.
LEMMA TimerTwice ==
  ASSUME NEW tm \in Timer, NEW d \in Nat, NEW x \in Nat, NEW y \in Nat, d = 0 => x = 0
  PROVE  /\ After(After(tm, d, x), 1, y) = After(tm, d + 1, x + y)
         /\ Over(tm, d, x) + Over(After(tm, d, x), 1, y) = Over(tm, d + 1, x + y)
PROOF
<1>0. PICK un : un = After(tm, d, x)
  OBVIOUS
<1> DEFINE n == T!Ticks(tm, d, x)
           i == T!Ticks(un, 1, y)
           all == T!Ticks(tm, d + 1, x + y)
<1>1. un \in Timer /\ un.ctrl = tm.ctrl /\ un.reload = tm.reload /\ x + y \in Nat
      /\ d + 1 \in Nat /\ d + 1 # 0
  <2>1. /\ After(tm, d, x) \in Timer
        /\ After(tm, d, x).ctrl = tm.ctrl /\ After(tm, d, x).reload = tm.reload
    BY TimerAfter
  <2>2. x + y \in Nat /\ d + 1 \in Nat /\ d + 1 # 0
    OBVIOUS
  <2> QED BY <1>0, <2>1, <2>2
<1>2. n \in Nat /\ i \in Nat /\ all \in Nat
  BY <1>1, TicksType
<1>3. tm.ctrl.enable \in BOOLEAN /\ tm.ctrl.cascade \in BOOLEAN
  BY DEF Timer, ControlWords
<1>4. CASE ~tm.ctrl.enable
  <2>1. un = tm /\ Over(tm, d, x) = 0
    BY <1>0, <1>4, TimerAfter
  <2>2. After(un, 1, y) = un /\ Over(un, 1, y) = 0
    <3>1. 1 \in Nat /\ ~un.ctrl.enable
      BY <1>1, <1>4
    <3> QED BY <1>1, <3>1, TimerAfter
  <2>3. After(tm, d + 1, x + y) = tm /\ Over(tm, d + 1, x + y) = 0
    BY <1>1, <1>4, TimerAfter
  <2> QED BY <1>0, <2>1, <2>2, <2>3
<1>5. CASE tm.ctrl.enable
  <2>1. /\ n + i = all
        /\ (IF tm.ctrl.cascade THEN un.accum ELSE (un.accum + 1) % tm.ctrl.pre)
             = (IF tm.ctrl.cascade THEN tm.accum ELSE (tm.accum + (d + 1)) % tm.ctrl.pre)
    <3>1. CASE tm.ctrl.cascade
      <4>1. un.accum = tm.accum
        <5>1. CASE d = 0
          BY <1>0, <5>1, TimerAfter
        <5>2. CASE d # 0
          BY <1>0, <1>5, <3>1, <5>2, TimerAfter
        <5> QED BY <5>1, <5>2
      <4>2. i = y /\ all = x + y /\ n = x
        BY <1>1, <3>1 DEF T!Ticks
      <4> QED BY <3>1, <4>1, <4>2
    <3>2. CASE ~tm.ctrl.cascade
      <4>1. PICK p \in Nat \ {0}, a \in Nat, b \in Nat :
              p = tm.ctrl.pre /\ a = tm.accum /\ b = un.accum
        BY <1>1 DEF Timer, ControlWords
      <4>2. a + d = p * n + b
        <5>1. CASE d = 0
          <6>1. b = a /\ n = 0
            BY <1>0, <4>1, <5>1, TimerAfter DEF T!Ticks
          <6> QED BY <4>1, <5>1, <6>1
        <5>2. CASE d # 0
          <6>1. b = (a + d) % p
            <7>1. un.accum = IF tm.ctrl.cascade THEN tm.accum
                             ELSE (tm.accum + d) % tm.ctrl.pre
              BY <1>0, <1>5, <5>2, TimerAfter
            <7> QED BY <3>2, <4>1, <7>1
          <6>2. a + d = p * n + ((a + d) % p)
            BY <3>2, <4>1, <5>2, TicksType
          <6> QED BY <6>1, <6>2
        <5> QED BY <5>1, <5>2
      <4>3. PICK e \in Nat : e = (b + 1) % p /\ b + 1 = p * i + e /\ e < p
        <5>1. un.accum + 1 = p * i + ((un.accum + 1) % p)
              /\ (un.accum + 1) % p < p /\ (un.accum + 1) % p \in Nat
          <6>1. 1 \in Nat /\ 1 # 0 /\ ~un.ctrl.cascade /\ un.ctrl.pre = p
            BY <1>1, <3>2, <4>1
          <6>2. /\ (un.accum + 1) % un.ctrl.pre \in Nat
                /\ un.accum + 1 = un.ctrl.pre * T!Ticks(un, 1, y)
                                    + ((un.accum + 1) % un.ctrl.pre)
                /\ (un.accum + 1) % un.ctrl.pre < un.ctrl.pre
            BY <1>1, <6>1, TicksType, Zenon
          <6> QED BY <6>1, <6>2, Zenon
        <5> QED BY <4>1, <5>1
      <4>4. PICK g \in Nat : g = (a + (d + 1)) % p /\ a + (d + 1) = p * all + g /\ g < p
        <5>1. tm.accum + (d + 1) = p * all + ((tm.accum + (d + 1)) % p)
              /\ (tm.accum + (d + 1)) % p < p /\ (tm.accum + (d + 1)) % p \in Nat
          BY <1>1, <3>2, <4>1, TicksType
        <5> QED BY <4>1, <5>1
      <4> HIDE DEF n, i, all
      <4>5. p * (n + i) = p * n + p * i
        BY <1>2
      <4>6. a + (d + 1) = p * (n + i) + e
        <5>1. PICK pn \in Int, pi \in Int : pn = p * n /\ pi = p * i
          BY <1>2
        <5> QED BY <4>2, <4>3, <4>5, <5>1
      <4>7. (a + (d + 1)) \div p = n + i /\ (a + (d + 1)) % p = e
        <5>1. n + i \in Int /\ e \in Int /\ a + (d + 1) \in Int /\ 0 <= e
          BY <1>2
        <5> QED BY <4>3, <4>6, <5>1, DivUnique
      <4>8. (a + (d + 1)) \div p = all
        <5>1. all \in Int /\ g \in Int /\ a + (d + 1) \in Int /\ 0 <= g
          BY <1>2
        <5> QED BY <4>4, <5>1, DivUnique
      <4> QED BY <3>2, <4>1, <4>3, <4>7, <4>8
    <3> QED BY <1>3, <3>1, <3>2
  <2>2. un.counter = Landing(tm, n)
    <3>1. CASE d = 0
      <4>1. un = tm /\ n = 0
        BY <1>0, <3>1, TimerAfter DEF T!Ticks
      <4>2. Landing(tm, 0) = tm.counter
        BY DevicesAssumption DEF Landing, Timer
      <4> QED BY <4>1, <4>2
    <3>2. CASE d # 0
      BY <1>0, <1>5, <3>2, TimerAfter
    <3> QED BY <3>1, <3>2
  <2>3. /\ Landing(un, i) = Landing(tm, n + i)
        /\ T!Overflows(tm, n) + T!Overflows(un, i) = T!Overflows(tm, n + i)
    <3> HIDE DEF n, i
    <3> QED BY <1>1, <1>2, <1>5, <2>2, CountTwice
  <2>4. Over(tm, d, x) + Over(un, 1, y) = Over(tm, d + 1, x + y)
    BY <2>1, <2>3 DEF Over
  <2>5. /\ After(un, 1, y) \in Timer /\ After(un, 1, y).ctrl = tm.ctrl
        /\ After(un, 1, y).reload = tm.reload
        /\ After(un, 1, y).counter = Landing(un, i)
        /\ After(un, 1, y).accum = IF tm.ctrl.cascade THEN un.accum
                                   ELSE (un.accum + 1) % tm.ctrl.pre
    <3>1. 1 # 0 /\ 1 \in Nat /\ un.ctrl.enable
      BY <1>1, <1>5
    <3>2. PICK one \in Nat : one = 1
      OBVIOUS
    <3>3. /\ After(un, one, y) \in Timer /\ After(un, one, y).ctrl = un.ctrl
          /\ After(un, one, y).reload = un.reload
          /\ After(un, one, y).counter = Landing(un, T!Ticks(un, one, y))
          /\ After(un, one, y).accum = IF un.ctrl.cascade THEN un.accum
                                       ELSE (un.accum + one) % un.ctrl.pre
      <4>1. un \in Timer /\ un.ctrl.enable /\ one # 0
        BY <1>1, <3>1, <3>2
      <4>2. Advanced(un, After(un, one, y), one, y)
        BY <4>1, TimerAdvanced, Zenon
      <4> QED BY <4>2 DEF Advanced
    <3> QED BY <1>1, <3>2, <3>3
  <2>6. /\ After(tm, d + 1, x + y) \in Timer /\ After(tm, d + 1, x + y).ctrl = tm.ctrl
        /\ After(tm, d + 1, x + y).reload = tm.reload
        /\ After(tm, d + 1, x + y).counter = Landing(tm, all)
        /\ After(tm, d + 1, x + y).accum = IF tm.ctrl.cascade THEN tm.accum
                                           ELSE (tm.accum + (d + 1)) % tm.ctrl.pre
    <3>1. Advanced(tm, After(tm, d + 1, x + y), d + 1, x + y)
      BY <1>1, <1>5, TimerAdvanced
    <3> QED BY <3>1 DEF Advanced
  <2> HIDE DEF n, i, all
  <2>7. /\ After(un, 1, y).accum = After(tm, d + 1, x + y).accum
        /\ After(un, 1, y).counter = After(tm, d + 1, x + y).counter
    BY <2>1, <2>3, <2>5, <2>6
  <2>8. After(un, 1, y) = After(tm, d + 1, x + y)
    BY <2>5, <2>6, <2>7, TimerEqual
  <2> QED BY <1>0, <2>4, <2>8
<1> QED BY <1>3, <1>4, <1>5
Below(c, t) == IF t = 0 THEN 0 ELSE c[t - 1]

\* The chain of carries, as a recursion up the bank.
LEMMA CarryLaw ==
  ASSUME NEW b \in Banks, NEW d \in Nat
  PROVE  /\ T!Carries(b, d) \in [0 .. LastTimer -> Nat]
         /\ \A t \in 0 .. LastTimer :
              /\ Below(T!Carries(b, d), t) \in Nat
              /\ T!Carries(b, d)[t] = Over(b[t], d, Below(T!Carries(b, d), t))
PROOF
<1> DEFINE Law(c) == c = [t \in 0 .. LastTimer |->
                            T!Overflows(b[t], T!Ticks(b[t], d, IF t = 0 THEN 0
                                                               ELSE c[t - 1]))]
           g == [t \in 1 .. LastTimer |-> [x \in Nat |-> Over(b[t], d, x)]]
           c == CHOOSE c : Law(c)
<1>1. LastTimer \in Nat /\ \A t \in 0 .. LastTimer : b[t] \in Timer
  BY DevicesAssumption DEF Banks
<1>2. \A t \in 0 .. LastTimer, x \in Nat : Over(b[t], d, x) \in Nat
  BY <1>1, OverType
<1>3. g \in [1 .. LastTimer -> [Nat -> Nat]]
  <2>1. \A t \in 1 .. LastTimer : t \in 0 .. LastTimer
    BY <1>1
  <2> QED BY <1>2, <2>1
<1>4. Over(b[0], d, 0) \in Nat
  BY <1>1, <1>2
<1>5. PICK f : Iterates(f, Nat, Over(b[0], d, 0), g, LastTimer)
  <2> HIDE DEF g
  <2> QED BY <1>1, <1>3, <1>4, IterationExists
<1>6. Law(f)
  <2>1. ASSUME NEW t \in 0 .. LastTimer
        PROVE  (IF t = 0 THEN Over(b[0], d, 0) ELSE g[t][f[t - 1]])
                 = T!Overflows(b[t], T!Ticks(b[t], d, IF t = 0 THEN 0 ELSE f[t - 1]))
    <3>1. CASE t = 0
      BY <3>1 DEF Over
    <3>2. CASE t # 0
      <4>1. t \in 1 .. LastTimer /\ t - 1 \in 0 .. LastTimer
        BY <1>1, <3>2
      <4>2. f[t - 1] \in Nat
        BY <1>5, <4>1 DEF Iterates
      <4> QED BY <3>2, <4>1, <4>2 DEF Over
    <3> QED BY <3>1, <3>2
  <2>2. f = [t \in 0 .. LastTimer |-> IF t = 0 THEN Over(b[0], d, 0) ELSE g[t][f[t - 1]]]
    BY <1>5 DEF Iterates
  <2> HIDE DEF g
  <2> QED BY <2>1, <2>2
<1>7. Law(c)
  BY <1>6
<1>8. T!Carries(b, d) = c
  BY DEF T!Carries
<1> HIDE DEF c, g
<1>9. \A t \in 0 .. LastTimer : c[t] = Over(b[t], d, Below(c, t))
  BY <1>7 DEF Over, Below
<1> DEFINE Typed == {t \in Nat : t <= LastTimer => c[t] \in Nat}
<1>10. 0 \in Typed
  BY <1>1, <1>4, <1>9 DEF Below
<1>11. ASSUME NEW t \in Nat, t \in Typed PROVE t + 1 \in Typed
  <2> SUFFICES ASSUME t + 1 <= LastTimer PROVE c[t + 1] \in Nat
    OBVIOUS
  <2>1. t + 1 \in 0 .. LastTimer /\ (t + 1) - 1 = t /\ t + 1 # 0
    BY <1>1
  <2>2. c[t] \in Nat
    BY <1>1, <1>11
  <2>3. c[t + 1] = Over(b[t + 1], d, c[t])
    BY <1>9, <2>1 DEF Below
  <2> QED BY <1>2, <2>1, <2>2, <2>3
<1> HIDE DEF Typed
<1>12. Nat \subseteq Typed
  BY <1>10, <1>11, Induction
<1>13. \A t \in 0 .. LastTimer : c[t] \in Nat
  BY <1>12 DEF Typed
<1>14. c \in [0 .. LastTimer -> Nat]
  BY <1>7, <1>13
<1>15. \A t \in 0 .. LastTimer : Below(c, t) \in Nat
  <2>1. ASSUME NEW t \in 0 .. LastTimer, t # 0 PROVE c[t - 1] \in Nat
    <3>1. t - 1 \in 0 .. LastTimer
      BY <1>1, <2>1
    <3> QED BY <1>13, <3>1
  <2> QED BY <2>1 DEF Below
<1> QED BY <1>8, <1>9, <1>14, <1>15

LEMMA CaughtLaw ==
  ASSUME NEW b \in Banks, NEW d \in Nat
  PROVE  /\ T!Caught(b, d) \in Banks
         /\ \A t \in 0 .. LastTimer :
              /\ T!Caught(b, d)[t] = After(b[t], d, Below(T!Carries(b, d), t))
              /\ T!Caught(b, d)[t].ctrl = b[t].ctrl
PROOF
<1>1. \A t \in 0 .. LastTimer :
        T!Caught(b, d)[t] = After(b[t], d, Below(T!Carries(b, d), t))
  BY DEF T!Caught, After, Below
<1>2. T!Caught(b, d) = [t \in 0 .. LastTimer |-> T!Caught(b, d)[t]]
  BY DEF T!Caught
<1>3. ASSUME NEW t \in 0 .. LastTimer
      PROVE  T!Caught(b, d)[t] \in Timer /\ T!Caught(b, d)[t].ctrl = b[t].ctrl
  <2>1. Below(T!Carries(b, d), t) \in Nat /\ b[t] \in Timer
    BY CarryLaw DEF Banks
  <2>2. /\ After(b[t], d, Below(T!Carries(b, d), t)) \in Timer
        /\ After(b[t], d, Below(T!Carries(b, d), t)).ctrl = b[t].ctrl
    BY <2>1, TimerAfter
  <2> QED BY <1>1, <2>2
<1>4. T!Caught(b, d) \in Banks
  BY <1>2, <1>3 DEF Banks
<1> QED BY <1>1, <1>3, <1>4

\* Two banks with the same timers are the same.
LEMMA BankEqual ==
  ASSUME NEW b \in Banks, NEW e \in Banks, \A t \in 0 .. LastTimer : b[t] = e[t]
  PROVE  b = e
PROOF
<1>1. b = [t \in 0 .. LastTimer |-> b[t]]
  BY DEF Banks
<1>2. e = [t \in 0 .. LastTimer |-> e[t]]
  BY DEF Banks
<1>3. [t \in 0 .. LastTimer |-> b[t]] = [t \in 0 .. LastTimer |-> e[t]]
  BY Zenon
<1> QED BY <1>1, <1>2, <1>3, Zenon

\* No cycle, no carry.
LEMMA NoCycle ==
  ASSUME NEW b \in Banks
  PROVE  /\ \A t \in 0 .. LastTimer : T!Carries(b, 0)[t] = 0
         /\ T!Caught(b, 0) = b
PROOF
<1>1. ASSUME NEW t \in 0 .. LastTimer, NEW x \in Nat
      PROVE  Over(b[t], 0, x) = 0 /\ After(b[t], 0, x) = b[t]
  <2>1. b[t] \in Timer /\ 0 \in Nat
    BY DEF Banks
  <2> QED BY <2>1, TimerAfter
<1>2. ASSUME NEW t \in 0 .. LastTimer PROVE T!Carries(b, 0)[t] = 0 /\ T!Caught(b, 0)[t] = b[t]
  <2>1. Below(T!Carries(b, 0), t) \in Nat
    BY CarryLaw
  <2>2. T!Carries(b, 0)[t] = Over(b[t], 0, Below(T!Carries(b, 0), t))
    BY CarryLaw
  <2>3. T!Caught(b, 0)[t] = After(b[t], 0, Below(T!Carries(b, 0), t))
    BY CaughtLaw
  <2> QED BY <1>1, <2>1, <2>2, <2>3
<1>3. T!Caught(b, 0) \in Banks
  BY CaughtLaw
<1>4. T!Caught(b, 0) = b
  <2> DEFINE e == T!Caught(b, 0)
  <2>1. \A t \in 0 .. LastTimer : e[t] = b[t]
    BY <1>2
  <2> HIDE DEF e
  <2>2. e \in Banks => e = b
    BY <2>1, BankEqual
  <2> QED BY <1>3, <2>2 DEF e
<1> QED BY <1>2, <1>4

\* Catching up is the hardware's step, repeated.
LEMMA CaughtTwice ==
  ASSUME NEW b \in Banks, NEW d \in Nat
  PROVE  /\ T!Caught(T!Caught(b, d), 1) = T!Caught(b, d + 1)
         /\ \A t \in 0 .. LastTimer :
              T!Carries(b, d)[t] + T!Carries(T!Caught(b, d), 1)[t] = T!Carries(b, d + 1)[t]
PROOF
<1>1. PICK e : e = T!Caught(b, d) /\ e \in Banks
  BY CaughtLaw
<1>2. PICK x : x = T!Carries(b, d)
  OBVIOUS
<1>3. PICK y : y = T!Carries(e, 1)
  OBVIOUS
<1>4. PICK z : z = T!Carries(b, d + 1)
  OBVIOUS
<1>5. LastTimer \in Nat
  BY DevicesAssumption
<1>6. \A t \in 0 .. LastTimer : Below(x, t) \in Nat /\ x[t] = Over(b[t], d, Below(x, t))
  BY <1>2, CarryLaw
<1>7. \A t \in 0 .. LastTimer : Below(y, t) \in Nat /\ y[t] = Over(e[t], 1, Below(y, t))
  BY <1>1, <1>3, CarryLaw
<1>8. \A t \in 0 .. LastTimer : Below(z, t) \in Nat /\ z[t] = Over(b[t], d + 1, Below(z, t))
  BY <1>4, CarryLaw
<1>9. \A t \in 0 .. LastTimer : e[t] = After(b[t], d, Below(x, t))
  BY <1>1, <1>2, CaughtLaw
<1>10. ASSUME NEW t \in 0 .. LastTimer, d = 0 PROVE Below(x, t) = 0
  <2>1. CASE t = 0
    BY <2>1 DEF Below
  <2>2. CASE t # 0
    <3>1. t - 1 \in 0 .. LastTimer
      BY <1>5, <2>2
    <3> QED BY <1>2, <1>10, <2>2, <3>1, NoCycle DEF Below
  <2> QED BY <2>1, <2>2
<1>11. ASSUME NEW t \in 0 .. LastTimer, Below(x, t) + Below(y, t) = Below(z, t)
       PROVE  x[t] + y[t] = z[t] /\ After(e[t], 1, Below(y, t)) = After(b[t], d + 1, Below(z, t))
  <2>1. b[t] \in Timer
    BY DEF Banks
  <2>2. PICK p \in Nat, q \in Nat : p = Below(x, t) /\ q = Below(y, t)
    BY <1>6, <1>7
  <2>3. d = 0 => p = 0
    BY <1>10, <2>2
  <2>4. /\ After(After(b[t], d, p), 1, q) = After(b[t], d + 1, p + q)
        /\ Over(b[t], d, p) + Over(After(b[t], d, p), 1, q) = Over(b[t], d + 1, p + q)
    BY <2>1, <2>3, TimerTwice
  <2> QED BY <1>6, <1>7, <1>8, <1>9, <1>11, <2>2, <2>4
<1> DEFINE Sums == {t \in Nat : t <= LastTimer => Below(x, t) + Below(y, t) = Below(z, t)}
<1>12. 0 \in Sums
  BY DEF Below
<1>13. ASSUME NEW t \in Nat, t \in Sums PROVE t + 1 \in Sums
  <2> SUFFICES ASSUME t + 1 <= LastTimer
               PROVE  Below(x, t + 1) + Below(y, t + 1) = Below(z, t + 1)
    OBVIOUS
  <2>1. t \in 0 .. LastTimer /\ t + 1 # 0 /\ (t + 1) - 1 = t
    BY <1>5
  <2>2. x[t] + y[t] = z[t]
    BY <1>11, <1>13, <2>1
  <2> QED BY <2>1, <2>2 DEF Below
<1> HIDE DEF Sums
<1>14. Nat \subseteq Sums
  BY <1>12, <1>13, Induction
<1>15. \A t \in 0 .. LastTimer : Below(x, t) + Below(y, t) = Below(z, t)
  BY <1>14 DEF Sums
<1>16. \A t \in 0 .. LastTimer : T!Caught(e, 1)[t] = T!Caught(b, d + 1)[t]
  <2>1. ASSUME NEW t \in 0 .. LastTimer
        PROVE  T!Caught(e, 1)[t] = T!Caught(b, d + 1)[t]
    <3>0. 1 \in Nat /\ d + 1 \in Nat
      OBVIOUS
    <3>1. T!Caught(e, 1)[t] = After(e[t], 1, Below(y, t))
      BY <1>1, <1>3, <3>0, CaughtLaw, Zenon
    <3>2. T!Caught(b, d + 1)[t] = After(b[t], d + 1, Below(z, t))
      BY <1>4, <3>0, CaughtLaw, Zenon
    <3>3. After(e[t], 1, Below(y, t)) = After(b[t], d + 1, Below(z, t))
      BY <1>11, <1>15
    <3> QED BY <3>1, <3>2, <3>3, Zenon
  <2> QED BY <2>1
<1>17. T!Caught(e, 1) \in Banks /\ T!Caught(b, d + 1) \in Banks
  BY <1>1, CaughtLaw
<1>18. T!Caught(e, 1) = T!Caught(b, d + 1)
  BY <1>16, <1>17, BankEqual
<1> QED BY <1>1, <1>2, <1>3, <1>4, <1>11, <1>15, <1>18

\* The interrupts of a gap and of one more cycle.
LEMMA RequestedTwice ==
  ASSUME NEW b \in Banks, NEW d \in Nat
  PROVE  /\ T!Requested(b, d) \cup T!Requested(T!Caught(b, d), 1) = T!Requested(b, d + 1)
         /\ T!Requested(b, 0) = {}
PROOF
<1>1. PICK e : e = T!Caught(b, d) /\ e \in Banks
  BY CaughtLaw
<1>2. ASSUME NEW t \in 0 .. LastTimer
      PROVE  T!Carries(b, d + 1)[t] > 0 <=>
               T!Carries(b, d)[t] > 0 \/ T!Carries(e, 1)[t] > 0
  <2>1. PICK x \in Nat, y \in Nat, z \in Nat :
          x = T!Carries(b, d)[t] /\ y = T!Carries(e, 1)[t] /\ z = T!Carries(b, d + 1)[t]
    <3>1. T!Carries(b, d) \in [0 .. LastTimer -> Nat]
      BY CarryLaw
    <3>2. T!Carries(e, 1) \in [0 .. LastTimer -> Nat]
      BY <1>1, CarryLaw
    <3>3. T!Carries(b, d + 1) \in [0 .. LastTimer -> Nat]
      <4>1. d + 1 \in Nat
        OBVIOUS
      <4> QED BY <4>1, CarryLaw, Zenon
    <3> QED BY <3>1, <3>2, <3>3
  <2>2. x + y = z
    BY <1>1, <2>1, CaughtTwice
  <2>3. z > 0 <=> x > 0 \/ y > 0
    BY <2>2
  <2> QED BY <2>1, <2>3
<1>3. \A t \in 0 .. LastTimer : e[t].ctrl = b[t].ctrl
  BY <1>1, CaughtLaw
<1>4. T!Requested(b, d) \cup T!Requested(e, 1) = T!Requested(b, d + 1)
  BY <1>2, <1>3, Zenon DEF T!Requested
<1>5. T!Requested(b, 0) = {}
  <2>1. \A t \in 0 .. LastTimer : ~(T!Carries(b, 0)[t] > 0)
    BY NoCycle
  <2> QED BY <2>1 DEF T!Requested
<1> QED BY <1>1, <1>4, <1>5

\* A count-up timer overflows only at an overflow of a timer below: if no
\* clocked timer carries, none does.
LEMMA NoCarries ==
  ASSUME NEW b \in Banks, NEW d \in Nat,
         \A t \in 0 .. LastTimer : ~b[t].ctrl.cascade => ~(T!Carries(b, d)[t] > 0)
  PROVE  \A t \in 0 .. LastTimer : T!Carries(b, d)[t] = 0 /\ Below(T!Carries(b, d), t) = 0
PROOF
<1>1. PICK c : c = T!Carries(b, d)
  OBVIOUS
<1>2. LastTimer \in Nat
  BY DevicesAssumption
<1>3. \A t \in 0 .. LastTimer : c[t] \in Nat /\ c[t] = Over(b[t], d, Below(c, t))
  BY <1>1, CarryLaw
<1>4. ASSUME NEW t \in 0 .. LastTimer, Below(c, t) = 0 PROVE c[t] = 0
  <2>1. b[t] \in Timer /\ b[t].ctrl.cascade \in BOOLEAN
    BY DEF Banks, Timer, ControlWords
  <2>2. CASE ~b[t].ctrl.cascade
    BY <1>1, <1>3, <2>2
  <2>3. CASE b[t].ctrl.cascade
    <3>1. T!Ticks(b[t], d, 0) = 0
      BY <2>3 DEF T!Ticks
    <3>2. T!Overflows(b[t], 0) = 0
      <4>1. 0 < Top - b[t].counter
        BY <2>1, DevicesAssumption DEF Timer
      <4> QED BY <4>1 DEF T!Overflows
    <3> QED BY <1>3, <1>4, <3>1, <3>2 DEF Over
  <2> QED BY <2>1, <2>2, <2>3
<1> DEFINE Still == {t \in Nat : t <= LastTimer => Below(c, t) = 0}
<1>5. 0 \in Still
  BY DEF Below
<1>6. ASSUME NEW t \in Nat, t \in Still PROVE t + 1 \in Still
  <2> SUFFICES ASSUME t + 1 <= LastTimer PROVE Below(c, t + 1) = 0
    OBVIOUS
  <2>1. t \in 0 .. LastTimer /\ t + 1 # 0 /\ (t + 1) - 1 = t
    BY <1>2
  <2>2. c[t] = 0
    BY <1>4, <1>6, <2>1
  <2> QED BY <2>1, <2>2 DEF Below
<1> HIDE DEF Still
<1>7. Nat \subseteq Still
  BY <1>5, <1>6, Induction
<1>8. \A t \in 0 .. LastTimer : Below(c, t) = 0
  BY <1>7 DEF Still
<1> QED BY <1>1, <1>4, <1>8

Reloaded(b, t, r) == [b EXCEPT ![t].reload = r]

\* Where nothing overflows, the reload value does not matter.
LEMMA ReloadLate ==
  ASSUME NEW b \in Banks, NEW d \in Nat, NEW t \in 0 .. LastTimer, NEW r \in 0 .. Top - 1,
         \A i \in 0 .. LastTimer : ~b[i].ctrl.cascade => ~(T!Carries(b, d)[i] > 0)
  PROVE  /\ \A i \in 0 .. LastTimer : T!Carries(Reloaded(b, t, r), d)[i] = 0
         /\ T!Caught(Reloaded(b, t, r), d) = Reloaded(T!Caught(b, d), t, r)
PROOF
<1>1. PICK e : e = Reloaded(b, t, r)
  OBVIOUS
<1>2. b[t] \in Timer /\ LastTimer \in Nat
  BY DevicesAssumption DEF Banks
<1>3. [b[t] EXCEPT !.reload = r] \in Timer
  BY <1>2 DEF Timer
<1>4. /\ e \in Banks /\ e[t] = [b[t] EXCEPT !.reload = r]
      /\ \A i \in 0 .. LastTimer : i # t => e[i] = b[i]
  BY <1>1, <1>3 DEF Banks, Reloaded
<1>5. \A i \in 0 .. LastTimer : T!Carries(b, d)[i] = 0 /\ Below(T!Carries(b, d), i) = 0
  BY NoCarries
<1>6. \A i \in 0 .. LastTimer : Over(b[i], d, 0) = 0
  BY <1>5, CarryLaw
<1>7. /\ Over([b[t] EXCEPT !.reload = r], d, 0) = 0
      /\ After([b[t] EXCEPT !.reload = r], d, 0) = [After(b[t], d, 0) EXCEPT !.reload = r]
  <2>1. PICK tm, un : tm = b[t] /\ un = [tm EXCEPT !.reload = r] /\ tm \in Timer /\ un \in Timer
    BY <1>2, <1>3
  <2>2. /\ un.ctrl = tm.ctrl /\ un.counter = tm.counter /\ un.accum = tm.accum
        /\ un.reload = r
    BY <2>1 DEF Timer
  <2>3. PICK n \in Nat : n = T!Ticks(tm, d, 0)
    BY <2>1, TicksType
  <2>4. T!Ticks(un, d, 0) = n
    BY <2>2, <2>3 DEF T!Ticks
  <2>5. tm.ctrl.enable => n < Top - tm.counter
    <3>1. ~(T!Overflows(tm, n) > 0)
      BY <1>6, <2>1, <2>3 DEF Over
    <3>2. T!Overflows(tm, n) > 0 <=> tm.ctrl.enable /\ n >= Top - tm.counter
      BY <2>1, OverflowsType
    <3>3. tm.counter \in Nat /\ Top \in Nat
      BY <2>1, DevicesAssumption DEF Timer
    <3> QED BY <3>1, <3>2, <3>3
  <2>6. T!Overflows(un, n) = 0
    BY <2>2, <2>5 DEF T!Overflows
  <2>7. T!Ticked(un, d, n) = [T!Ticked(tm, d, n) EXCEPT !.reload = r]
    <3>1. CASE ~tm.ctrl.enable \/ d = 0
      BY <2>1, <2>2, <3>1 DEF T!Ticked
    <3>2. CASE tm.ctrl.enable /\ d # 0
      <4>1. PICK a : a = IF tm.ctrl.cascade THEN tm.accum ELSE (tm.accum + d) % tm.ctrl.pre
        OBVIOUS
      <4>2. T!Ticked(tm, d, n) = [tm EXCEPT !.accum = a, !.counter = tm.counter + n]
        BY <2>1, <2>5, <3>2, <4>1 DEF T!Ticked, Timer
      <4>3. T!Ticked(un, d, n) = [un EXCEPT !.accum = a, !.counter = tm.counter + n]
        BY <2>1, <2>2, <2>5, <3>2, <4>1 DEF T!Ticked, Timer
      <4> QED BY <2>1, <4>2, <4>3 DEF Timer
    <3>3. tm.ctrl.enable \in BOOLEAN
      BY <2>1 DEF Timer, ControlWords
    <3> QED BY <3>1, <3>2, <3>3
  <2> QED BY <2>1, <2>3, <2>4, <2>6, <2>7 DEF Over, After
<1>8. \A i \in 0 .. LastTimer : Over(e[i], d, 0) = 0
  <2>1. ASSUME NEW i \in 0 .. LastTimer PROVE Over(e[i], d, 0) = 0
    <3>1. CASE i = t
      BY <1>4, <1>7, <3>1, Zenon
    <3>2. CASE i # t
      BY <1>4, <1>6, <3>2, Zenon
    <3> QED BY <3>1, <3>2
  <2> QED BY <2>1
<1>9. PICK c : c = T!Carries(e, d)
  OBVIOUS
<1>10. \A i \in 0 .. LastTimer : c[i] = Over(e[i], d, Below(c, i))
  BY <1>4, <1>9, CarryLaw
<1> DEFINE Still == {i \in Nat : i <= LastTimer => Below(c, i) = 0}
<1>11. 0 \in Still
  BY DEF Below
<1>12. ASSUME NEW i \in Nat, i \in Still PROVE i + 1 \in Still
  <2> SUFFICES ASSUME i + 1 <= LastTimer PROVE Below(c, i + 1) = 0
    OBVIOUS
  <2>1. i \in 0 .. LastTimer /\ i + 1 # 0 /\ (i + 1) - 1 = i
    BY <1>2
  <2>2. c[i] = 0
    BY <1>8, <1>10, <1>12, <2>1
  <2> QED BY <2>1, <2>2 DEF Below
<1> HIDE DEF Still
<1>13. Nat \subseteq Still
  BY <1>11, <1>12, Induction
<1>14. \A i \in 0 .. LastTimer : Below(c, i) = 0
  BY <1>13 DEF Still
<1>15. \A i \in 0 .. LastTimer : c[i] = 0
  BY <1>8, <1>10, <1>14
<1>16. T!Caught(b, d) \in Banks /\ \A i \in 0 .. LastTimer : T!Caught(b, d)[i] = After(b[i], d, 0)
  BY <1>5, CaughtLaw
<1>17. T!Caught(e, d) \in Banks /\ \A i \in 0 .. LastTimer : T!Caught(e, d)[i] = After(e[i], d, 0)
  <2>1. /\ T!Caught(e, d) \in Banks
        /\ \A i \in 0 .. LastTimer : T!Caught(e, d)[i] = After(e[i], d, Below(c, i))
    BY <1>4, <1>9, CaughtLaw
  <2> QED BY <1>14, <2>1
<1>18. PICK f : f = Reloaded(T!Caught(b, d), t, r)
  OBVIOUS
<1>19. /\ f \in Banks /\ f[t] = [T!Caught(b, d)[t] EXCEPT !.reload = r]
       /\ \A i \in 0 .. LastTimer : i # t => f[i] = T!Caught(b, d)[i]
  <2>1. PICK u : u = T!Caught(b, d) /\ u \in Banks
    BY <1>16
  <2>2. u[t] \in Timer
    BY <2>1 DEF Banks
  <2>3. [u[t] EXCEPT !.reload = r] \in Timer
    BY <2>2 DEF Timer
  <2>4. f = [u EXCEPT ![t].reload = r]
    BY <1>18, <2>1 DEF Reloaded
  <2> QED BY <2>1, <2>3, <2>4 DEF Banks
<1>20. \A i \in 0 .. LastTimer : T!Caught(e, d)[i] = f[i]
  BY <1>4, <1>7, <1>16, <1>17, <1>19
<1>21. T!Caught(e, d) = f
  BY <1>17, <1>19, <1>20, BankEqual
<1> QED BY <1>1, <1>9, <1>15, <1>18, <1>21

\* Whether a clocked timer of a bank overflows within d cycles.
Overflowing(b, d) == \E t \in 0 .. LastTimer : ~b[t].ctrl.cascade /\ T!Carries(b, d)[t] > 0

\* Unless a reload was written past an overflow, the hardware is where catching
\* up would bring the code's bank.
TimersInv ==
  /\ bank \in Banks /\ hw \in Banks /\ gap \in Nat
  /\ wrapped \in BOOLEAN /\ stale \in BOOLEAN
  /\ ~stale => /\ hw = T!Caught(bank, gap)
               /\ hwIrq = irq \cup T!Requested(bank, gap)
               /\ wrapped <=> Overflowing(bank, gap)

LEMMA TimersStart == T!Init => TimersInv
PROOF
<1> SUFFICES ASSUME T!Init PROVE TimersInv
  OBVIOUS
<1>1. /\ bank = [t \in 0 .. LastTimer |->
                   [reload |-> 0, counter |-> 0, accum |-> 0, ctrl |-> T!Off]]
      /\ hw = bank /\ gap = 0 /\ irq = {} /\ hwIrq = {} /\ wrapped = FALSE /\ stale = FALSE
  BY DEF T!Init
<1>2. T!Off \in ControlWords
  BY DEF T!Off, ControlWords
<1>3. [reload |-> 0, counter |-> 0, accum |-> 0, ctrl |-> T!Off] \in Timer
  BY <1>2, DevicesAssumption DEF Timer
<1>4. bank \in Banks
  BY <1>1, <1>3 DEF Banks
<1>5. T!Caught(bank, 0) = bank /\ T!Requested(bank, 0) = {} /\ ~Overflowing(bank, 0)
  <2>1. T!Caught(bank, 0) = bank /\ T!Requested(bank, 0) = {}
    BY <1>4, NoCycle, RequestedTwice
  <2>2. \A t \in 0 .. LastTimer : ~(T!Carries(bank, 0)[t] > 0)
    BY <1>4, NoCycle
  <2> QED BY <2>1, <2>2 DEF Overflowing
<1> QED BY <1>1, <1>4, <1>5 DEF TimersInv

LEMMA TimersCycle ==
  ASSUME TimersInv, T!Cycle
  PROVE  TimersInv'
PROOF
<1>1. /\ bank \in Banks /\ hw \in Banks /\ gap \in Nat /\ gap + 1 \in Nat
      /\ wrapped \in BOOLEAN /\ stale \in BOOLEAN
  BY DEF TimersInv
<1>2. /\ gap' = gap + 1 /\ hw' = T!Caught(hw, 1) /\ hwIrq' = hwIrq \cup T!Requested(hw, 1)
      /\ bank' = bank /\ irq' = irq /\ stale' = stale
      /\ wrapped' = (wrapped \/ Overflowing(hw, 1))
  BY DEF T!Cycle, Overflowing
<1>3. hw' \in Banks /\ wrapped' \in BOOLEAN
  BY <1>1, <1>2, CaughtLaw DEF Overflowing
<1>4. ASSUME ~stale
      PROVE  /\ hw' = T!Caught(bank, gap + 1)
             /\ hwIrq' = irq \cup T!Requested(bank, gap + 1)
             /\ wrapped' <=> Overflowing(bank, gap + 1)
  <2>1. /\ hw = T!Caught(bank, gap) /\ hwIrq = irq \cup T!Requested(bank, gap)
        /\ wrapped <=> Overflowing(bank, gap)
    BY <1>4 DEF TimersInv
  <2>2. hw' = T!Caught(bank, gap + 1)
    BY <1>1, <1>2, <2>1, CaughtTwice
  <2>3. T!Requested(bank, gap) \cup T!Requested(hw, 1) = T!Requested(bank, gap + 1)
    BY <1>1, <2>1, RequestedTwice
  <2>4. hwIrq' = irq \cup T!Requested(bank, gap + 1)
    BY <1>2, <2>1, <2>3
  <2>5. ASSUME NEW t \in 0 .. LastTimer
        PROVE  T!Carries(bank, gap + 1)[t] > 0 <=>
                 T!Carries(bank, gap)[t] > 0 \/ T!Carries(hw, 1)[t] > 0
    <3>1. PICK x \in Nat, y \in Nat, z \in Nat :
            /\ x = T!Carries(bank, gap)[t] /\ y = T!Carries(hw, 1)[t]
            /\ z = T!Carries(bank, gap + 1)[t]
      <4>1. T!Carries(bank, gap) \in [0 .. LastTimer -> Nat]
        BY <1>1, CarryLaw
      <4>2. T!Carries(hw, 1) \in [0 .. LastTimer -> Nat]
        BY <1>1, CarryLaw
      <4>3. T!Carries(bank, gap + 1) \in [0 .. LastTimer -> Nat]
        BY <1>1, CarryLaw
      <4> QED BY <4>1, <4>2, <4>3
    <3>2. x + y = z
      BY <1>1, <2>1, <3>1, CaughtTwice
    <3>3. z > 0 <=> x > 0 \/ y > 0
      BY <3>2
    <3> QED BY <3>1, <3>3
  <2>6. \A t \in 0 .. LastTimer : hw[t].ctrl = bank[t].ctrl
    BY <1>1, <2>1, CaughtLaw
  <2>7. Overflowing(bank, gap) \/ Overflowing(hw, 1) <=> Overflowing(bank, gap + 1)
    BY <2>5, <2>6, Zenon DEF Overflowing
  <2> QED BY <1>2, <2>1, <2>2, <2>4, <2>7
<1> QED BY <1>1, <1>2, <1>3, <1>4 DEF TimersInv

\* A bank that has just been caught up.
LEMMA JustCaught ==
  ASSUME bank' \in Banks, hw' \in Banks, gap' = 0, wrapped' = FALSE, stale' \in BOOLEAN,
         ~stale' => hw' = bank' /\ hwIrq' = irq'
  PROVE  TimersInv'
PROOF
<1>1. PICK b \in Banks : b = bank'
  OBVIOUS
<1>2. T!Caught(b, 0) = b /\ T!Requested(b, 0) = {}
  BY NoCycle, RequestedTwice
<1>3. ~Overflowing(b, 0)
  <2>1. \A t \in 0 .. LastTimer : ~(T!Carries(b, 0)[t] > 0)
    BY NoCycle
  <2> QED BY <2>1 DEF Overflowing
<1>4. T!Caught(bank', gap') = bank' /\ T!Requested(bank', gap') = {}
      /\ ~Overflowing(bank', gap')
  BY <1>1, <1>2, <1>3
<1> QED BY <1>4 DEF TimersInv, Overflowing

LEMMA TimersTick ==
  ASSUME TimersInv, T!Tick
  PROVE  TimersInv'
PROOF
<1>1. /\ gap' = 0 /\ wrapped' = FALSE /\ stale' = stale /\ hw' = hw /\ hwIrq' = hwIrq
      /\ bank' = T!Caught(bank, gap) /\ irq' = irq \cup T!Requested(bank, gap)
  BY DEF T!Tick
<1>2. /\ bank \in Banks /\ hw \in Banks /\ gap \in Nat /\ stale \in BOOLEAN
      /\ ~stale => hw = T!Caught(bank, gap) /\ hwIrq = irq \cup T!Requested(bank, gap)
  BY DEF TimersInv
<1>3. bank' \in Banks
  BY <1>1, <1>2, CaughtLaw
<1> QED BY <1>1, <1>2, <1>3, JustCaught

\* Writing a timer's words keeps it a timer.
LEMMA StartedType ==
  ASSUME NEW tm \in Timer, NEW r \in 0 .. Top - 1, NEW c \in ControlWords
  PROVE  T!Started([tm EXCEPT !.reload = r], c) \in Timer
PROOF
<1>1. PICK un \in Timer : un = [tm EXCEPT !.reload = r]
  BY DEF Timer
<1>2. [un EXCEPT !.ctrl = c] \in Timer
  BY DEF Timer
<1>3. [un EXCEPT !.ctrl = c, !.counter = un.reload, !.accum = 0] \in Timer
  BY DEF Timer
<1> QED BY <1>1, <1>2, <1>3 DEF T!Started

LEMMA TimersControl ==
  ASSUME TimersInv, T!WriteControl
  PROVE  TimersInv'
PROOF
<1>1. /\ bank \in Banks /\ hw \in Banks /\ gap \in Nat /\ stale \in BOOLEAN
      /\ ~stale => hw = T!Caught(bank, gap) /\ hwIrq = irq \cup T!Requested(bank, gap)
  BY DEF TimersInv
<1>2. PICK t \in 0 .. LastTimer,
           c \in [enable : BOOLEAN, cascade : BOOLEAN, irq : IrqBits, pre : Prescalers] :
        \E r \in Reloads \cup {bank[t].reload} :
          /\ bank' = [T!Caught(bank, gap) EXCEPT ![t] = T!Started([@ EXCEPT !.reload = r], c)]
          /\ hw' = [hw EXCEPT ![t] = T!Started([@ EXCEPT !.reload = r], c)]
          /\ gap' = 0 /\ irq' = irq \cup T!Requested(bank, gap)
  BY DEF T!WriteControl, T!CatchUp
<1>3. PICK r \in Reloads \cup {bank[t].reload} :
         /\ bank' = [T!Caught(bank, gap) EXCEPT ![t] = T!Started([@ EXCEPT !.reload = r], c)]
         /\ hw' = [hw EXCEPT ![t] = T!Started([@ EXCEPT !.reload = r], c)]
         /\ gap' = 0 /\ irq' = irq \cup T!Requested(bank, gap)
  BY <1>2
<1>4. wrapped' = FALSE /\ stale' = stale /\ hwIrq' = hwIrq
  BY DEF T!WriteControl
<1>5. c \in ControlWords /\ r \in 0 .. Top - 1
  <2>1. c \in ControlWords
    BY DevicesAssumption DEF ControlWords
  <2>2. bank[t].reload \in 0 .. Top - 1
    BY <1>1 DEF Banks, Timer
  <2> QED BY <1>3, <2>1, <2>2, DevicesAssumption
<1>6. PICK e \in Banks : e = T!Caught(bank, gap)
  BY <1>1, CaughtLaw
<1>7. ASSUME NEW f \in Banks
      PROVE  [f EXCEPT ![t] = T!Started([f[t] EXCEPT !.reload = r], c)] \in Banks
  <2>1. T!Started([f[t] EXCEPT !.reload = r], c) \in Timer
    BY <1>5, StartedType DEF Banks
  <2> QED BY <2>1 DEF Banks
<1>8. bank' \in Banks
  BY <1>3, <1>6, <1>7
<1>9. hw' \in Banks
  BY <1>1, <1>3, <1>7
<1>10. ~stale' => hw' = bank' /\ hwIrq' = irq'
  BY <1>1, <1>3, <1>4
<1> QED BY <1>1, <1>3, <1>4, <1>8, <1>9, <1>10, JustCaught

LEMMA TimersReload ==
  ASSUME TimersInv, T!WriteReload
  PROVE  TimersInv'
PROOF
<1>1. /\ bank \in Banks /\ hw \in Banks /\ gap \in Nat
      /\ wrapped \in BOOLEAN /\ stale \in BOOLEAN
  BY DEF TimersInv
<1>2. PICK t \in 0 .. LastTimer, r \in 0 .. Top - 1 :
        bank' = [bank EXCEPT ![t].reload = r] /\ hw' = [hw EXCEPT ![t].reload = r]
  BY DevicesAssumption DEF T!WriteReload
<1>3. /\ stale' = (stale \/ wrapped) /\ gap' = gap /\ irq' = irq /\ hwIrq' = hwIrq
      /\ wrapped' = wrapped
  BY DEF T!WriteReload
<1>4. ASSUME NEW f \in Banks PROVE [f EXCEPT ![t].reload = r] \in Banks
  <2>1. [f[t] EXCEPT !.reload = r] \in Timer
    BY DEF Banks, Timer
  <2> QED BY <2>1 DEF Banks
<1>5. bank' \in Banks /\ hw' \in Banks
  BY <1>1, <1>2, <1>4
<1>6. ASSUME ~stale'
      PROVE  /\ hw' = T!Caught(bank', gap)
             /\ hwIrq = irq \cup T!Requested(bank', gap)
             /\ wrapped <=> Overflowing(bank', gap)
  <2>1. /\ ~wrapped /\ hw = T!Caught(bank, gap) /\ hwIrq = irq \cup T!Requested(bank, gap)
        /\ ~Overflowing(bank, gap)
    BY <1>1, <1>3, <1>6 DEF TimersInv
  <2>2. \A i \in 0 .. LastTimer : ~bank[i].ctrl.cascade => ~(T!Carries(bank, gap)[i] > 0)
    BY <2>1 DEF Overflowing
  <2>3. PICK e : e = Reloaded(bank, t, r)
    OBVIOUS
  <2>4. /\ \A i \in 0 .. LastTimer : T!Carries(e, gap)[i] = 0
        /\ T!Caught(e, gap) = Reloaded(T!Caught(bank, gap), t, r)
    BY <1>1, <2>2, <2>3, ReloadLate
  <2>5. \A i \in 0 .. LastTimer : T!Carries(bank, gap)[i] = 0
    BY <1>1, <2>2, NoCarries
  <2>6. T!Requested(bank, gap) = {}
    BY <2>5 DEF T!Requested
  <2>7. T!Requested(e, gap) = {}
    BY <2>4 DEF T!Requested
  <2>8. ~Overflowing(e, gap)
    BY <2>4 DEF Overflowing
  <2>9. hw' = T!Caught(e, gap)
    BY <1>2, <2>1, <2>4 DEF Reloaded
  <2>10. bank' = e
    BY <1>2, <2>3 DEF Reloaded
  <2> QED BY <2>10, <2>1, <2>3, <2>6, <2>7, <2>8, <2>9
<1> QED BY <1>1, <1>3, <1>5, <1>6 DEF TimersInv, Overflowing

LEMMA TimersKept == TimersInv /\ (T!Next \/ UNCHANGED tVars) => TimersInv'
PROOF
<1>1. TimersInv /\ UNCHANGED tVars => TimersInv'
  BY DEF TimersInv, tVars, Overflowing, T!Caught, T!Requested, T!Carries
<1> QED BY <1>1, TimersCycle, TimersTick, TimersControl, TimersReload DEF T!Next

\* The overflow the deadline waits for.
LEMMA TimersGives == TimersInv => T!CatchUpExact /\ T!OverflowDeadlineExact
PROOF
<1> SUFFICES ASSUME TimersInv PROVE T!CatchUpExact /\ T!OverflowDeadlineExact
  OBVIOUS
<1>1. /\ bank \in Banks /\ gap \in Nat /\ wrapped \in BOOLEAN
      /\ ~stale => /\ hw = T!Caught(bank, gap) /\ hwIrq = irq \cup T!Requested(bank, gap)
                   /\ wrapped <=> Overflowing(bank, gap)
  BY DEF TimersInv
<1>2. ASSUME NEW t \in 0 .. LastTimer, ~bank[t].ctrl.cascade
      PROVE  /\ T!Carries(bank, gap)[t] > 0 => bank[t].ctrl.enable /\ T!OverflowDue(bank[t])
             /\ bank[t].ctrl.enable /\ T!OverflowDue(bank[t]) /\ bank[t].accum < bank[t].ctrl.pre
                  => T!Carries(bank, gap)[t] > 0
  <2>1. PICK tm \in Timer : tm = bank[t]
    BY <1>1 DEF Banks
  <2>2. PICK x \in Nat : x = Below(T!Carries(bank, gap), t)
    BY <1>1, CarryLaw
  <2>3. T!Carries(bank, gap)[t] = T!Overflows(tm, T!Ticks(tm, gap, x))
    BY <1>1, <2>1, <2>2, CarryLaw DEF Over
  <2>4. PICK n \in Nat : n = T!Ticks(tm, gap, x)
    BY <1>1, TicksType
  <2>5. T!Overflows(tm, n) > 0 <=> tm.ctrl.enable /\ n >= Top - tm.counter
    BY OverflowsType
  <2>6. PICK p \in Nat, a \in Nat, s \in Nat :
          /\ p = tm.ctrl.pre /\ a = tm.accum /\ s = Top - tm.counter /\ p >= 1 /\ s >= 1
    BY DevicesAssumption DEF Timer, ControlWords
  <2>7. T!OverflowDue(tm) <=> s * p <= gap + a
    BY <2>6 DEF T!OverflowDue
  <2>8. gap = 0 => n = 0
    BY <2>4 DEF T!Ticks
  <2>9. gap # 0 => \E m \in Nat : a + gap = p * n + m /\ m < p
    <3>1. CASE gap # 0
      <4>1. ~tm.ctrl.cascade
        BY <1>2, <2>1
      <4>2. /\ (a + gap) % p \in Nat /\ a + gap = p * n + ((a + gap) % p)
        BY <1>1, <2>4, <2>6, <3>1, <4>1, TicksType
      <4>3. (a + gap) % p < p
        <5>1. a + gap \in Int /\ p \in Int /\ p >= 1
          BY <1>1, <2>6
        <5> QED BY <5>1, DivFacts
      <4> QED BY <4>2, <4>3
    <3> QED BY <3>1
  <2>10. n >= s => s * p <= gap + a
    <3> SUFFICES ASSUME n >= s PROVE s * p <= gap + a
      OBVIOUS
    <3>1. gap # 0
      BY <2>6, <2>8
    <3>2. PICK m \in Nat : a + gap = p * n + m
      BY <2>9, <3>1
    <3>3. PICK i \in Nat : n = s + i
      <4>1. n - s \in Nat /\ n = s + (n - s)
        OBVIOUS
      <4> QED BY <4>1
    <3>4. p * n = s * p + p * i
      BY <3>3
    <3>5. p * i \in Nat /\ s * p \in Nat
      OBVIOUS
    <3> QED BY <1>1, <3>2, <3>4, <3>5
  <2>11. s * p <= gap + a /\ a < p => n >= s
    <3> SUFFICES ASSUME s * p <= gap + a, a < p, n < s PROVE FALSE
      OBVIOUS
    <3>1. PICK i \in Nat : s = n + 1 + i
      <4>1. s - n - 1 \in Nat /\ s = n + 1 + (s - n - 1)
        OBVIOUS
      <4> QED BY <4>1
    <3>2. s * p = p * n + p + p * i
      BY <3>1
    <3>3. p * i \in Nat /\ p * n \in Nat
      OBVIOUS
    <3>4. gap # 0
      BY <1>1, <3>2, <3>3
    <3>5. PICK m \in Nat : a + gap = p * n + m /\ m < p
      BY <2>9, <3>4
    <3> QED BY <1>1, <3>2, <3>3, <3>5
  <2> QED BY <2>1, <2>3, <2>4, <2>5, <2>6, <2>7, <2>10, <2>11
<1>3. T!CatchUpExact
  BY <1>1 DEF T!CatchUpExact
<1>4. ASSUME ~stale, wrapped \/ irq # hwIrq PROVE T!Due
  <2>1. Overflowing(bank, gap)
    <3>1. CASE wrapped
      BY <1>1, <1>4, <3>1
    <3>2. CASE ~wrapped
      <4> SUFFICES ASSUME ~Overflowing(bank, gap) PROVE FALSE
        OBVIOUS
      <4>1. \A i \in 0 .. LastTimer : ~bank[i].ctrl.cascade => ~(T!Carries(bank, gap)[i] > 0)
        BY DEF Overflowing
      <4>2. \A i \in 0 .. LastTimer : T!Carries(bank, gap)[i] = 0
        BY <1>1, <4>1, NoCarries
      <4>3. T!Requested(bank, gap) = {}
        BY <4>2 DEF T!Requested
      <4> QED BY <1>1, <1>4, <3>2, <4>3
    <3> QED BY <3>1, <3>2
  <2> QED BY <1>2, <2>1, Zenon DEF Overflowing, T!Due
<1>5. ASSUME ~stale, T!Due, \A t \in 0 .. LastTimer : bank[t].accum < bank[t].ctrl.pre
      PROVE  wrapped
  <2>1. Overflowing(bank, gap)
    BY <1>2, <1>5, Zenon DEF Overflowing, T!Due
  <2> QED BY <1>1, <1>5, <2>1
<1>6. T!OverflowDeadlineExact
  BY <1>4, <1>5, Zenon DEF T!OverflowDeadlineExact
<1> QED BY <1>3, <1>6

-----------------------------------------------------------------------------
(***************************************************************************)
(* Proof of RtcExact for every date the clock starts from and every byte   *)
(* the guest writes.  A register that holds two decimal digits is its      *)
(* number (Num), and counting and comparing it is counting and comparing   *)
(* the number.                                                             *)
(***************************************************************************)

LEMMA DigitPair ==
  ASSUME NEW b \in Nat, R!Digits(b)
  PROVE  \E h \in 0 .. 9, l \in 0 .. 9 :
           b = 16 * h + l /\ R!Num(b) = 10 * h + l /\ b \div 16 = h /\ b % 16 = l
PROOF
<1>1. PICK h, l : h = b \div 16 /\ l = b % 16
  OBVIOUS
<1>2. b = 16 * h + l /\ h \in Int /\ 0 <= l /\ l \in Int /\ l < 16
  <2>1. b \in Int /\ 16 \in Int /\ 16 >= 1
    OBVIOUS
  <2> QED BY <1>1, <2>1, DivFacts
<1>3. h < 10 /\ l < 10
  BY <1>1 DEF R!Digits
<1>4. h \in 0 .. 9 /\ l \in 0 .. 9
  BY <1>2, <1>3
<1>5. R!Num(b) = 10 * h + l
  BY <1>1, <1>2 DEF R!Num
<1> QED BY <1>1, <1>2, <1>4, <1>5

LEMMA PairDigits ==
  ASSUME NEW h \in 0 .. 9, NEW l \in 0 .. 9
  PROVE  /\ 16 * h + l \in Nat /\ R!Digits(16 * h + l)
         /\ R!Num(16 * h + l) = 10 * h + l
PROOF
<1>1. PICK b \in Nat : b = 16 * h + l
  OBVIOUS
<1>2. b \div 16 = h /\ b % 16 = l
  <2>1. b \in Int /\ 16 \in Nat \ {0} /\ h \in Int /\ l \in Int /\ 0 <= l /\ l < 16
    OBVIOUS
  <2> QED BY <1>1, <2>1, DivUnique
<1>3. R!Digits(b) /\ R!Num(b) = 10 * h + l
  BY <1>2 DEF R!Digits, R!Num
<1> QED BY <1>1, <1>3

\* Registers compare like their numbers.
LEMMA DigitMarks ==
  ASSUME NEW b \in Nat, R!Digits(b)
  PROVE  /\ R!Num(b) \in 0 .. 99
         /\ (b >= 1 <=> R!Num(b) >= 1) /\ (b >= 18 <=> R!Num(b) >= 12)
         /\ (b > 18 <=> R!Num(b) > 12) /\ (b >= 36 <=> R!Num(b) >= 24)
         /\ (b > 40 <=> R!Num(b) > 28) /\ (b > 41 <=> R!Num(b) > 29)
         /\ (b > 48 <=> R!Num(b) > 30) /\ (b > 49 <=> R!Num(b) > 31)
         /\ (b > 89 <=> R!Num(b) >= 60) /\ (b >= 96 <=> R!Num(b) >= 60)
PROOF
<1>1. PICK h \in 0 .. 9, l \in 0 .. 9 : b = 16 * h + l /\ R!Num(b) = 10 * h + l
  BY DigitPair
<1>2. PICK n : n = R!Num(b)
  OBVIOUS
<1>3. n = 10 * h + l
  BY <1>1, <1>2
<1> QED BY <1>1, <1>2, <1>3

\* rtc_bcd_increment counts the number, and wraps after 99.
LEMMA Increment ==
  ASSUME NEW b \in Nat, R!Digits(b)
  PROVE  /\ R!BcdIncrement(b) \in Nat /\ R!Digits(R!BcdIncrement(b))
         /\ R!Num(R!BcdIncrement(b)) = IF R!Num(b) = 99 THEN 0 ELSE R!Num(b) + 1
PROOF
<1>1. PICK h \in 0 .. 9, l \in 0 .. 9 : b = 16 * h + l /\ R!Num(b) = 10 * h + l
  BY DigitPair
<1>2. (b + 1) % 16 = l + 1
  <2>1. b + 1 \in Int /\ 16 \in Nat \ {0} /\ h \in Int /\ l + 1 \in Int
        /\ b + 1 = 16 * h + (l + 1) /\ 0 <= l + 1 /\ l + 1 < 16
    BY <1>1
  <2> QED BY <2>1, DivUnique
<1>3. CASE l < 9
  <2>1. R!BcdIncrement(b) = 16 * h + (l + 1)
    BY <1>1, <1>2, <1>3 DEF R!BcdIncrement
  <2>2. h \in 0 .. 9 /\ l + 1 \in 0 .. 9 /\ 10 * h + l # 99
        /\ 10 * h + (l + 1) = (10 * h + l) + 1
    BY <1>3
  <2> QED BY <1>1, <2>1, <2>2, PairDigits
<1>4. CASE l = 9 /\ h < 9
  <2>1. R!BcdIncrement(b) = 16 * (h + 1) + 0
    BY <1>1, <1>2, <1>4 DEF R!BcdIncrement
  <2>2. h + 1 \in 0 .. 9 /\ 0 \in 0 .. 9 /\ 10 * h + l # 99
        /\ 10 * (h + 1) + 0 = (10 * h + l) + 1
    BY <1>4
  <2> QED BY <1>1, <2>1, <2>2, PairDigits
<1>5. CASE l = 9 /\ h = 9
  <2>1. R!BcdIncrement(b) = 16 * 0 + 0
    BY <1>1, <1>2, <1>5 DEF R!BcdIncrement
  <2>2. 10 * h + l = 99 /\ 0 \in 0 .. 9 /\ 10 * 0 + 0 = 0
    BY <1>5
  <2> QED BY <1>1, <2>1, <2>2, PairDigits
<1> QED BY <1>3, <1>4, <1>5

\* The digits of small numbers.
LEMMA SmallDigits ==
  ASSUME NEW l \in 0 .. 9
  PROVE  R!Digits(l) /\ R!Num(l) = l
PROOF
<1>1. 0 \in 0 .. 9 /\ 16 * 0 + l = l /\ 10 * 0 + l = l
  OBVIOUS
<1> QED BY <1>1, PairDigits

LEMMA Sanitized ==
  ASSUME NEW b \in Nat, NEW lo \in 0 .. 1, NEW hi \in Nat, lo <= hi
  PROVE  /\ R!Sanitize(b, lo, hi) \in lo .. hi /\ R!Digits(R!Sanitize(b, lo, hi))
         /\ R!Digits(b) /\ b \in lo .. hi => R!Sanitize(b, lo, hi) = b
PROOF
<1>1. R!Digits(lo)
  BY SmallDigits
<1>2. R!Digits(b) \in BOOLEAN
  BY DEF R!Digits
<1> QED BY <1>1, <1>2 DEF R!Sanitize

\* The hour and the PM flag of an hour byte.
LEMMA HourBytes ==
  ASSUME NEW h \in 0 .. 63, NEW p \in BOOLEAN
  PROVE  /\ R!HourByte(h, p) \in Nat
         /\ R!Hour(R!HourByte(h, p)) = h /\ R!Pm(R!HourByte(h, p)) = p
PROOF
<1>1. PICK q \in 0 .. 1 : (q = 1 <=> p) /\ R!HourByte(h, p) = 64 * q + h
  <2>1. CASE p
    BY <2>1 DEF R!HourByte
  <2>2. CASE ~p
    BY <2>2 DEF R!HourByte
  <2> QED BY <2>1, <2>2
<1>2. PICK b \in Nat : b = 64 * q + h
  OBVIOUS
<1>3. b \div 64 = q /\ b % 64 = h
  <2>1. b \in Int /\ 64 \in Nat \ {0} /\ q \in Int /\ h \in Int /\ 0 <= h /\ h < 64
    OBVIOUS
  <2> QED BY <1>2, <2>1, DivUnique
<1>4. q % 2 = q
  OBVIOUS
<1> QED BY <1>1, <1>2, <1>3, <1>4 DEF R!Hour, R!Pm

LEMMA HourType ==
  ASSUME NEW b \in Nat
  PROVE  R!Hour(b) \in 0 .. 63 /\ R!Pm(b) \in BOOLEAN
PROOF
<1>1. b % 64 \in Int /\ 0 <= b % 64 /\ b % 64 < 64
  <2>1. b \in Int /\ 64 \in Int /\ 64 >= 1
    OBVIOUS
  <2> QED BY <2>1, DivFacts
<1> QED BY <1>1 DEF R!Hour, R!Pm

\* The calendar in numbers: the days before a year, and within it.
MonthEnds == <<0, 31, 59, 90, 120, 151, 181, 212, 243, 273, 304, 334>>
Leap(y) == IF y % 4 = 0 THEN 1 ELSE 0
YearStart(y) == 365 * y + (y + 3) \div 4
DayOfYear(y, m, n) == MonthEnds[m] + (IF m > 2 /\ y % 4 = 0 THEN 1 ELSE 0) + n - 1
CommonYear == 365
LastStart == 36160    \* the century's last year starts on this day
MonthLength(y, m) == IF m \in {1, 3, 5, 7, 8, 10, 12} THEN 31
                     ELSE IF m # 2 THEN 30 ELSE 28 + Leap(y)

LEMMA LeapYears ==
  ASSUME NEW y \in 0 .. 99
  PROVE  /\ Leap(y) \in 0 .. 1 /\ YearStart(y) \in Nat
         /\ YearStart(y + 1) = YearStart(y) + CommonYear + Leap(y)
         /\ y < 99 => YearStart(y) + CommonYear <= LastStart
         /\ y = 99 => YearStart(y) = LastStart /\ Leap(y) = 0
         /\ y = 0 => YearStart(y) = 0
PROOF
<1>1. PICK k \in Int, j \in 0 .. 3 : y = 4 * k + j /\ j = y % 4
  <2>1. y \in Int /\ 4 \in Int /\ 4 >= 1
    OBVIOUS
  <2>2. /\ y \div 4 \in Int /\ y % 4 \in Int /\ y = 4 * (y \div 4) + (y % 4)
        /\ 0 <= y % 4 /\ y % 4 < 4
    BY <2>1, DivFacts
  <2> QED BY <2>2
<1>2. Leap(y) = IF j = 0 THEN 1 ELSE 0
  BY <1>1 DEF Leap
<1>3. (y + 3) \div 4 = k + 1 - Leap(y)
  <2>1. CASE j = 0
    <3>1. y + 3 \in Int /\ 4 \in Nat \ {0} /\ k \in Int /\ 3 \in Int /\ y + 3 = 4 * k + 3
          /\ 0 <= 3 /\ 3 < 4
      BY <1>1, <2>1
    <3>2. (y + 3) \div 4 = k
      BY <3>1, DivUnique
    <3> QED BY <1>2, <2>1, <3>2
  <2>2. CASE j # 0
    <3>1. y + 3 \in Int /\ 4 \in Nat \ {0} /\ k + 1 \in Int /\ j - 1 \in Int
          /\ y + 3 = 4 * (k + 1) + (j - 1) /\ 0 <= j - 1 /\ j - 1 < 4
      BY <1>1, <2>2
    <3>2. (y + 3) \div 4 = k + 1
      BY <3>1, DivUnique
    <3> QED BY <1>2, <2>2, <3>2
  <2> QED BY <2>1, <2>2
<1>4. ((y + 1) + 3) \div 4 = k + 1
  <2>1. (y + 1) + 3 \in Int /\ 4 \in Nat \ {0} /\ k + 1 \in Int /\ j \in Int
        /\ (y + 1) + 3 = 4 * (k + 1) + j /\ 0 <= j /\ j < 4
    BY <1>1
  <2> QED BY <2>1, DivUnique
<1>5. YearStart(y) = 365 * y + (k + 1 - Leap(y)) /\ YearStart(y + 1) = 365 * (y + 1) + (k + 1)
  BY <1>3, <1>4 DEF YearStart
<1>6. PICK g \in 0 .. 1 : g = Leap(y) /\ (g = 1 <=> j = 0)
  BY <1>2
<1>7. PICK s \in Int, z \in Int :
        /\ s = YearStart(y) /\ s = 365 * y + (k + 1 - g)
        /\ z = YearStart(y + 1) /\ z = 365 * (y + 1) + (k + 1)
  BY <1>5, <1>6
<1>8. s \in Nat /\ z = s + 365 + g
  <2>1. k >= 0
    BY <1>1
  <2>2. s >= 0
    BY <1>7, <2>1
  <2>3. z = s + 365 + g
    BY <1>7
  <2> QED BY <2>2, <2>3
<1>9. (y < 99 => s <= 35795) /\ (y = 0 => s = 0)
  <2>1. (y < 99 => k <= 24) /\ (y = 0 => k = 0 /\ j = 0)
    BY <1>1
  <2>2. y < 99 => s <= 35795
    BY <1>7, <2>1
  <2>3. y = 0 => s = 0
    BY <1>6, <1>7, <2>1
  <2> QED BY <2>2, <2>3
<1>10. y = 99 => s = 36160 /\ g = 0
  <2>1. y = 99 => k = 24 /\ j = 3
    BY <1>1
  <2> QED BY <1>6, <1>7, <2>1
<1> QED BY <1>6, <1>7, <1>8, <1>9, <1>10 DEF LastStart, CommonYear

LEMMA MonthTable ==
  /\ MonthEnds[1] = 0 /\ MonthEnds[2] = 31 /\ MonthEnds[3] = 59 /\ MonthEnds[4] = 90
  /\ MonthEnds[5] = 120 /\ MonthEnds[6] = 151 /\ MonthEnds[7] = 181 /\ MonthEnds[8] = 212
  /\ MonthEnds[9] = 243 /\ MonthEnds[10] = 273 /\ MonthEnds[11] = 304 /\ MonthEnds[12] = 334
BY DEF MonthEnds

\* The first day of a month follows the last one of the month before.
LEMMA MonthNext ==
  ASSUME NEW y \in 0 .. 99, NEW m \in 1 .. 12
  PROVE  /\ MonthEnds[m] \in 0 .. 334 /\ (m < 12 => MonthEnds[m] <= 304)
         /\ MonthLength(y, m) \in 28 .. 31
         /\ m < 12 => DayOfYear(y, m, MonthLength(y, m)) + 1 = DayOfYear(y, m + 1, 1)
         /\ DayOfYear(y, m, MonthLength(y, m)) <= 364 + Leap(y)
         /\ m = 12 => DayOfYear(y, m, MonthLength(y, m)) = 364 + Leap(y)
PROOF
<1>1. PICK g \in 0 .. 1 : g = Leap(y) /\ (g = 1 <=> y % 4 = 0)
  BY LeapYears DEF Leap
<1>2. \A i \in 1 .. 13, n \in Int :
        DayOfYear(y, i, n) = MonthEnds[i] + (IF i > 2 THEN g ELSE 0) + n - 1
  BY <1>1 DEF DayOfYear
<1>3. MonthLength(y, m) = IF m \in {1, 3, 5, 7, 8, 10, 12} THEN 31
                          ELSE IF m # 2 THEN 30 ELSE 28 + g
  BY <1>1 DEF MonthLength
<1>4. PICK n \in 28 .. 31 : n = MonthLength(y, m)
  BY <1>3
<1>5. /\ MonthEnds[m] \in 0 .. 334 /\ (m < 12 => MonthEnds[m] <= 304)
      /\ MonthEnds[m] + (IF m > 2 THEN g ELSE 0) + n - 1 <= 364 + g
      /\ m < 12 => MonthEnds[m] + (IF m > 2 THEN g ELSE 0) + n
                     = MonthEnds[m + 1] + (IF m + 1 > 2 THEN g ELSE 0)
      /\ m = 12 => MonthEnds[m] + (IF m > 2 THEN g ELSE 0) + n - 1 = 364 + g
  <2>1. CASE m \in {1, 2, 3}
    BY <1>3, <1>4, <2>1, MonthTable
  <2>2. CASE m \in {4, 5, 6}
    BY <1>3, <1>4, <2>2, MonthTable
  <2>3. CASE m \in {7, 8, 9}
    BY <1>3, <1>4, <2>3, MonthTable
  <2>4. CASE m \in {10, 11, 12}
    BY <1>3, <1>4, <2>4, MonthTable
  <2> QED BY <2>1, <2>2, <2>3, <2>4
<1>6. DayOfYear(y, m, n) = MonthEnds[m] + (IF m > 2 THEN g ELSE 0) + n - 1
  BY <1>2
<1>7. m < 12 => DayOfYear(y, m, n) + 1 = DayOfYear(y, m + 1, 1)
  <2> SUFFICES ASSUME m < 12 PROVE DayOfYear(y, m, n) + 1 = DayOfYear(y, m + 1, 1)
    OBVIOUS
  <2>1. DayOfYear(y, m + 1, 1) = MonthEnds[m + 1] + (IF m + 1 > 2 THEN g ELSE 0) + 1 - 1
    BY <1>2
  <2>2. m + 1 \in 1 .. 12
    OBVIOUS
  <2>3. MonthEnds[m + 1] \in Int
    BY <2>2 DEF MonthEnds
  <2> QED BY <1>5, <1>6, <2>1, <2>3
<1> QED BY <1>1, <1>4, <1>5, <1>6, <1>7

YearAfter(y) == IF y = 99 THEN 0 ELSE y + 1
DayNumber(y, m, n) == YearStart(y) + DayOfYear(y, m, n)

\* Tomorrow, through the end of a month, a year and the century.
LEMMA Tomorrow ==
  ASSUME NEW y \in 0 .. 99, NEW m \in 1 .. 12, NEW n \in Int,
         1 <= n, n <= MonthLength(y, m)
  PROVE  /\ DayNumber(y, m, n) \in Nat /\ DayNumber(y, m, n) < R!Century
         /\ n < MonthLength(y, m) =>
              DayNumber(y, m, n + 1) = (DayNumber(y, m, n) + 1) % R!Century
         /\ n = MonthLength(y, m) /\ m < 12 =>
              DayNumber(y, m + 1, 1) = (DayNumber(y, m, n) + 1) % R!Century
         /\ n = MonthLength(y, m) /\ m = 12 =>
              DayNumber(YearAfter(y), 1, 1) = (DayNumber(y, m, n) + 1) % R!Century
PROOF
<1>0. /\ MonthEnds[m] \in 0 .. 334 /\ (m < 12 => MonthEnds[m] <= 304)
      /\ MonthLength(y, m) \in 28 .. 31
      /\ m < 12 => DayOfYear(y, m, MonthLength(y, m)) + 1 = DayOfYear(y, m + 1, 1)
      /\ DayOfYear(y, m, MonthLength(y, m)) <= 364 + Leap(y)
      /\ m = 12 => DayOfYear(y, m, MonthLength(y, m)) = 364 + Leap(y)
  BY MonthNext, Zenon
<1>1. PICK k \in 28 .. 31, x \in 0 .. 1, a \in Nat :
        /\ k = MonthLength(y, m)
        /\ x = IF m > 2 /\ y % 4 = 0 THEN 1 ELSE 0
        /\ a = MonthEnds[m] + x
  <2>1. PICK x \in 0 .. 1 : x = IF m > 2 /\ y % 4 = 0 THEN 1 ELSE 0
    OBVIOUS
  <2>2. MonthEnds[m] + x \in Nat
    BY <1>0
  <2> QED BY <1>0, <2>1, <2>2
<1>2. \A i \in Int : DayOfYear(y, m, i) = a + i - 1
  BY <1>1 DEF DayOfYear
<1>20. PICK s \in Nat, g \in 0 .. 1 :
         /\ s = YearStart(y) /\ g = Leap(y) /\ YearStart(y + 1) = s + CommonYear + g
         /\ (y < 99 => s + CommonYear <= LastStart) /\ (y = 99 => s = LastStart /\ g = 0)
  <2>1. /\ YearStart(y) \in Nat /\ Leap(y) \in 0 .. 1
        /\ YearStart(y + 1) = YearStart(y) + CommonYear + Leap(y)
        /\ (y < 99 => YearStart(y) + CommonYear <= LastStart)
        /\ (y = 99 => YearStart(y) = LastStart /\ Leap(y) = 0)
    BY LeapYears, Zenon
  <2> QED BY <2>1, Zenon
<1>3. PICK e \in Int :
        /\ e = a + k - 1 /\ e <= 364 + g /\ (m = 12 => e = 364 + g)
        /\ (m < 12 => e + 1 = DayOfYear(y, m + 1, 1))
  <2>1. DayOfYear(y, m, k) = a + k - 1 /\ a + k - 1 \in Int
    BY <1>2
  <2> QED BY <1>0, <1>1, <1>20, <2>1
<1>4. /\ s = YearStart(y) /\ g = Leap(y) /\ YearStart(y + 1) = s + 365 + g
      /\ (y < 99 => s + 365 <= LastStart) /\ (y = 99 => s = LastStart /\ g = 0) /\ YearStart(0) = 0
  <2>1. 0 \in 0 .. 99
    OBVIOUS
  <2>2. YearStart(0) = 0
    BY <2>1, LeapYears
  <2> QED BY <1>20, <2>2 DEF CommonYear
<1>5. PICK t \in Nat : t = DayNumber(y, m, n) /\ t = s + a + n - 1
  <2>2. DayNumber(y, m, n) = s + (a + n - 1)
    BY <1>2, <1>4 DEF DayNumber
  <2>3. s + (a + n - 1) \in Nat /\ s + (a + n - 1) = s + a + n - 1
    OBVIOUS
  <2> QED BY <2>2, <2>3
<1>6. n \in Nat /\ 1 <= n /\ n <= k
  BY <1>1
<1>7. t <= 36524 /\ (t = 36524 => n = k /\ m = 12 /\ y = 99)
  <2>1. t <= s + e
    BY <1>3, <1>5, <1>6
  <2>2. CASE y < 99
    <3>1. s + e <= 36160
      BY <1>3, <1>4, <2>2 DEF LastStart
    <3>2. t <= 36160
      BY <2>1, <3>1
    <3> QED BY <3>2
  <2>3. CASE y = 99
    <3>1. s + e <= 36524
      BY <1>3, <1>4, <2>3 DEF LastStart
    <3>2. m < 12 => a + k <= 336
      BY <1>0, <1>1
    <3>3. t = 36524 => n = k /\ m = 12
      BY <1>3, <1>4, <1>5, <1>6, <2>3, <3>2 DEF LastStart
    <3>4. t <= 36524
      BY <2>1, <3>1
    <3> QED BY <2>3, <3>3, <3>4
  <2>4. y < 99 \/ y = 99
    OBVIOUS
  <2> QED BY <2>2, <2>3, <2>4
<1>8. (t + 1) % R!Century = IF t = 36524 THEN 0 ELSE t + 1
  BY <1>7 DEF R!Century
<1>9. n < k => DayNumber(y, m, n + 1) = (t + 1) % R!Century
  <2> SUFFICES ASSUME n < k PROVE DayNumber(y, m, n + 1) = (t + 1) % R!Century
    OBVIOUS
  <2>1. DayNumber(y, m, n + 1) = s + (a + (n + 1) - 1)
    BY <1>2, <1>4, <1>6 DEF DayNumber
  <2>2. t # 36524
    BY <1>6, <1>7
  <2> QED BY <1>5, <1>6, <1>8, <2>1, <2>2
<1>10. n = k /\ m < 12 => DayNumber(y, m + 1, 1) = (t + 1) % R!Century
  <2> SUFFICES ASSUME n = k, m < 12 PROVE DayNumber(y, m + 1, 1) = (t + 1) % R!Century
    OBVIOUS
  <2>1. DayNumber(y, m + 1, 1) = s + (e + 1)
    BY <1>3, <1>4 DEF DayNumber
  <2>2. t # 36524
    BY <1>7
  <2> QED BY <1>3, <1>5, <1>8, <2>1, <2>2
<1>11. n = k /\ m = 12 => DayNumber(YearAfter(y), 1, 1) = (t + 1) % R!Century
  <2> SUFFICES ASSUME n = k, m = 12
               PROVE  DayNumber(YearAfter(y), 1, 1) = (t + 1) % R!Century
    OBVIOUS
  <2>1. \A i \in Int : DayOfYear(i, 1, 1) = 0
    BY MonthTable DEF DayOfYear
  <2>2. t = s + 364 + g
    BY <1>3, <1>5
  <2>3. CASE y = 99
    <3>1. DayNumber(0, 1, 1) = 0
      BY <1>4, <2>1 DEF DayNumber
    <3>2. t = 36524
      BY <1>4, <2>2, <2>3 DEF LastStart
    <3> QED BY <1>8, <2>3, <3>1, <3>2 DEF YearAfter
  <2>4. CASE y # 99
    <3>1. DayNumber(y + 1, 1, 1) = s + 365 + g
      <4>1. y + 1 \in Int
        OBVIOUS
      <4> QED BY <1>4, <2>1, <4>1 DEF DayNumber
    <3>2. t # 36524
      BY <1>7, <2>4
    <3> QED BY <1>8, <2>2, <2>4, <3>1, <3>2 DEF YearAfter
  <2> QED BY <2>3, <2>4
<1>12. R!Century = 36525 /\ t = DayNumber(y, m, n) /\ k = MonthLength(y, m)
  BY <1>1, <1>5 DEF R!Century
<1>13. t \in Nat /\ t < R!Century
  BY <1>7, <1>12
<1> HIDE DEF R!Century
<1> QED BY <1>9, <1>10, <1>11, <1>12, <1>13

\* Accepted registers but for a day that may lie past the longest month.
Counting(d, full) ==
  /\ d \in Registers /\ \A i \in {1, 2, 3, 6, 7} : R!Digits(d[i])
  /\ d[2] \in 1 .. 18 /\ d[3] >= 1 /\ d[4] \in 0 .. 6
  /\ R!Digits(R!Hour(d[5])) /\ R!Hour(d[5]) <= (IF full THEN 35 ELSE 17)
  /\ d[6] <= 89 /\ d[7] <= 89

LEMMA DateNumbers ==
  ASSUME NEW d, NEW full, Counting(d, full)
  PROVE  /\ R!Num(d[1]) \in 0 .. 99 /\ R!Num(d[2]) \in 1 .. 12
         /\ R!Num(d[3]) \in Nat /\ R!Num(d[3]) >= 1
         /\ R!Days(d) = DayNumber(R!Num(d[1]), R!Num(d[2]), R!Num(d[3]))
         /\ R!DaysInMonth(d) \in 0 .. 49
         /\ d[3] > R!DaysInMonth(d) <=>
              R!Num(d[3]) > MonthLength(R!Num(d[1]), R!Num(d[2]))
PROOF
<1>1. /\ d \in Registers /\ R!Digits(d[1]) /\ R!Digits(d[2]) /\ R!Digits(d[3])
      /\ d[2] \in 1 .. 18 /\ d[3] >= 1
  BY DEF Counting
<1>2. d[1] \in Nat /\ d[2] \in Nat /\ d[3] \in Nat
  BY <1>1 DEF Registers
<1>3. PICK y \in 0 .. 99 : y = R!Num(d[1])
  BY <1>1, <1>2, DigitMarks
<1>4. PICK m \in 1 .. 12 : m = R!Num(d[2])
  <2>1. /\ R!Num(d[2]) \in 0 .. 99 /\ (d[2] >= 1 <=> R!Num(d[2]) >= 1)
        /\ (d[2] > 18 <=> R!Num(d[2]) > 12)
    BY <1>1, <1>2, DigitMarks
  <2> QED BY <1>1, <2>1
<1>5. PICK n \in 0 .. 99 :
        /\ n = R!Num(d[3]) /\ n >= 1
        /\ (d[3] > 40 <=> n > 28) /\ (d[3] > 41 <=> n > 29)
        /\ (d[3] > 48 <=> n > 30) /\ (d[3] > 49 <=> n > 31)
  BY <1>1, <1>2, DigitMarks
<1>6. R!Days(d) = DayNumber(y, m, n)
  BY <1>3, <1>4, <1>5 DEF R!Days, DayNumber, YearStart, DayOfYear, MonthEnds
<1>7. R!DaysInMonth(d) = IF m \in {1, 3, 5, 7, 8, 10, 12} THEN 49 ELSE IF m # 2 THEN 48
                         ELSE IF y % 4 = 0 THEN 41 ELSE 40
  BY <1>3, <1>4 DEF R!DaysInMonth
<1>8. R!DaysInMonth(d) \in 0 .. 49 /\ (d[3] > R!DaysInMonth(d) <=> n > MonthLength(y, m))
  BY <1>5, <1>7 DEF MonthLength, Leap
<1> QED BY <1>3, <1>4, <1>5, <1>6, <1>8

\* rtc_check_end_of_month: a day past the month's end is the first of the next.
LEMMA MonthEnded ==
  ASSUME NEW d, NEW full \in BOOLEAN, Counting(d, full)
  PROVE  LET e == R!CheckEndOfMonth(d) IN
         /\ Accepted(e, full) /\ e[4] = d[4] /\ e[5] = d[5] /\ e[6] = d[6] /\ e[7] = d[7]
         /\ d[3] <= R!DaysInMonth(d) => e = d
         /\ d[3] > R!DaysInMonth(d) =>
              /\ R!Num(e[3]) = 1
              /\ R!Num(d[2]) < 12 => /\ R!Num(e[1]) = R!Num(d[1])
                                     /\ R!Num(e[2]) = R!Num(d[2]) + 1
              /\ R!Num(d[2]) = 12 =>
                   /\ R!Num(e[1]) = IF R!Num(d[1]) = 99 THEN 0 ELSE R!Num(d[1]) + 1
                   /\ R!Num(e[2]) = 1
PROOF
<1> DEFINE e == R!CheckEndOfMonth(d)
<1>1. /\ d \in Registers /\ R!Digits(d[1]) /\ R!Digits(d[2]) /\ R!Digits(d[3])
      /\ R!Digits(d[6]) /\ R!Digits(d[7])
      /\ d[2] \in 1 .. 18 /\ d[3] >= 1 /\ d[4] \in 0 .. 6
      /\ R!Digits(R!Hour(d[5])) /\ R!Hour(d[5]) <= (IF full THEN 35 ELSE 17)
      /\ d[6] <= 89 /\ d[7] <= 89
  BY DEF Counting
<1>2. d[1] \in Nat /\ d[2] \in Nat /\ d[3] \in Nat
  BY <1>1 DEF Registers
<1>3. R!DaysInMonth(d) \in 0 .. 49 /\ R!Num(d[2]) \in 1 .. 12
  BY DateNumbers
<1>4. R!Digits(1) /\ R!Num(1) = 1
  <2>1. 1 \in 0 .. 9
    OBVIOUS
  <2> QED BY <2>1, SmallDigits
<1>5. CASE d[3] <= R!DaysInMonth(d)
  <2>1. e = d /\ ~(d[3] > R!DaysInMonth(d))
    BY <1>2, <1>3, <1>5 DEF R!CheckEndOfMonth
  <2>2. d[3] \in 1 .. 49
    BY <1>1, <1>2, <1>3, <1>5
  <2>3. Accepted(d, full)
    BY <1>1, <2>2, Zenon DEF Accepted, Counting
  <2> QED BY <2>1, <2>3
<1>6. CASE d[3] > R!DaysInMonth(d)
  <2>1. e = R!CountMonth([d EXCEPT ![3] = 1]) /\ ~(d[3] <= R!DaysInMonth(d))
    BY <1>2, <1>3, <1>6 DEF R!CheckEndOfMonth
  <2>2. PICK u : u = [d EXCEPT ![3] = 1]
    OBVIOUS
  <2>3. /\ u \in Registers /\ u[3] = 1 /\ u[1] = d[1] /\ u[2] = d[2] /\ u[4] = d[4]
        /\ u[5] = d[5] /\ u[6] = d[6] /\ u[7] = d[7]
    BY <1>1, <2>2 DEF Registers
  <2>4. PICK i \in Nat : /\ i = R!BcdIncrement(d[2]) /\ R!Digits(i)
                         /\ R!Num(i) = R!Num(d[2]) + 1
    BY <1>1, <1>2, <1>3, Increment
  <2>5. PICK j \in Nat : /\ j = R!BcdIncrement(d[1]) /\ R!Digits(j)
                         /\ R!Num(j) = IF R!Num(d[1]) = 99 THEN 0 ELSE R!Num(d[1]) + 1
    BY <1>1, <1>2, Increment
  <2>6. /\ (i > 18 <=> R!Num(d[2]) = 12) /\ (R!Num(d[2]) < 12 => i \in 1 .. 18)
        /\ (R!Num(d[2]) < 12 \/ R!Num(d[2]) = 12)
    <3>1. (i > 18 <=> R!Num(i) > 12) /\ (i >= 1 <=> R!Num(i) >= 1)
      BY <2>4, DigitMarks
    <3> QED BY <1>3, <2>4, <3>1
  <2>7. CASE R!Num(d[2]) = 12
    <3>1. e = [u EXCEPT ![2] = 1, ![1] = j]
      BY <2>1, <2>2, <2>3, <2>4, <2>5, <2>6, <2>7 DEF R!CountMonth
    <3>2. /\ e \in Registers /\ e[3] = 1 /\ e[1] = j /\ e[2] = 1 /\ e[4] = d[4]
          /\ e[5] = d[5] /\ e[6] = d[6] /\ e[7] = d[7]
      BY <2>3, <3>1 DEF Registers
    <3> HIDE DEF e
    <3>3. Accepted(e, full)
      BY <1>1, <1>4, <2>5, <3>2 DEF Accepted
    <3> QED BY <1>4, <2>1, <2>5, <2>7, <3>2, <3>3 DEF e
  <2>8. CASE R!Num(d[2]) < 12
    <3>1. e = [u EXCEPT ![2] = i]
      BY <1>3, <2>1, <2>2, <2>3, <2>4, <2>6, <2>8 DEF R!CountMonth
    <3>2. /\ e \in Registers /\ e[3] = 1 /\ e[1] = d[1] /\ e[2] = i /\ e[4] = d[4]
          /\ e[5] = d[5] /\ e[6] = d[6] /\ e[7] = d[7]
      BY <2>3, <3>1 DEF Registers
    <3> HIDE DEF e
    <3>3. Accepted(e, full)
      BY <1>1, <1>4, <2>4, <2>6, <2>8, <3>2 DEF Accepted
    <3>4. R!Num(d[2]) # 12
      BY <1>3, <2>8
    <3> QED BY <1>4, <2>1, <2>4, <3>2, <3>3, <3>4 DEF e
  <2> QED BY <2>6, <2>7, <2>8
<1>7. d[3] <= R!DaysInMonth(d) \/ d[3] > R!DaysInMonth(d)
  BY <1>2, <1>3
<1> QED BY <1>5, <1>6, <1>7

\* The numbers of a date in its month.
LEMMA RealDate ==
  ASSUME NEW d, NEW full, Counting(d, full), d[3] <= R!DaysInMonth(d)
  PROVE  \E y \in 0 .. 99, m \in 1 .. 12, n \in Int :
           /\ y = R!Num(d[1]) /\ m = R!Num(d[2]) /\ n = R!Num(d[3])
           /\ 1 <= n /\ n <= MonthLength(y, m) /\ R!Days(d) = DayNumber(y, m, n)
           /\ R!Days(d) \in Nat /\ R!Days(d) < R!Century
PROOF
<1>1. PICK y \in 0 .. 99 : y = R!Num(d[1])
  BY DateNumbers
<1>2. PICK m \in 1 .. 12 : m = R!Num(d[2])
  BY DateNumbers
<1>3. PICK n \in Int : n = R!Num(d[3]) /\ n >= 1
  BY DateNumbers
<1>4. R!Days(d) = DayNumber(y, m, n)
  BY <1>1, <1>2, <1>3, DateNumbers, Zenon
<1>5. PICK k \in 28 .. 31 : k = MonthLength(y, m)
  BY MonthNext, Zenon
<1>6. n <= k
  <2>1. d[3] \in Nat
    BY DEF Counting, Registers
  <2>2. R!DaysInMonth(d) \in 0 .. 49
    BY DateNumbers
  <2>3. ~(d[3] > R!DaysInMonth(d))
    BY <2>1, <2>2
  <2>4. ~(n > k)
    BY <1>1, <1>2, <1>3, <1>5, <2>3, DateNumbers, Zenon
  <2> QED BY <2>4
<1>7. 1 <= n /\ n <= MonthLength(y, m)
  BY <1>3, <1>5, <1>6
<1>8. DayNumber(y, m, n) \in Nat /\ DayNumber(y, m, n) < R!Century
  BY <1>7, Tomorrow, Zenon
<1> HIDE DEF R!Century
<1> QED BY <1>1, <1>2, <1>3, <1>4, <1>7, <1>8

\* What a tick of the calendar may do to a date: nothing, or one day more.
Later(d, e, over) ==
  /\ e[4] = (d[4] + (IF over THEN 1 ELSE 0)) % 7
  /\ d[3] <= R!DaysInMonth(d) =>
       /\ R!Days(d) \in Nat
       /\ R!Days(e) = (R!Days(d) + (IF over THEN 1 ELSE 0)) % R!Century

LEMMA SameDay ==
  ASSUME NEW d, NEW full, NEW e, Counting(d, full), \A i \in 1 .. 4 : e[i] = d[i]
  PROVE  Later(d, e, FALSE)
PROOF
<1>1. R!Days(e) = R!Days(d)
  BY DEF R!Days
<1>2. ASSUME d[3] <= R!DaysInMonth(d)
      PROVE  R!Days(d) \in Nat /\ (R!Days(d) + 0) % R!Century = R!Days(d)
  <2>1. R!Days(d) \in Nat /\ R!Days(d) < R!Century
    BY <1>2, RealDate
  <2> QED BY <2>1 DEF R!Century
<1>3. d[4] % 7 = d[4] /\ e[4] = d[4]
  BY DEF Counting
<1>4. d[4] + 0 = d[4]
  BY DEF Counting
<1> HIDE DEF R!Century
<1> QED BY <1>1, <1>2, <1>3, <1>4 DEF Later

\* rtc_count_day.
LEMMA DayCounted ==
  ASSUME NEW d, NEW full \in BOOLEAN, Accepted(d, full)
  PROVE  LET e == R!CountDay(d) IN
         Accepted(e, full) /\ e[5] = d[5] /\ e[6] = d[6] /\ e[7] = d[7] /\ Later(d, e, TRUE)
PROOF
<1> DEFINE e == R!CountDay(d)
<1>1. /\ d \in Registers /\ \A i \in {1, 2, 3, 6, 7} : R!Digits(d[i])
      /\ d[2] \in 1 .. 18 /\ d[3] \in 1 .. 49 /\ d[4] \in 0 .. 6
      /\ R!Digits(R!Hour(d[5])) /\ R!Hour(d[5]) <= (IF full THEN 35 ELSE 17)
      /\ d[6] <= 89 /\ d[7] <= 89
  BY DEF Accepted
<1>2. Counting(d, full)
  BY <1>1 DEF Counting
<1>3. PICK i \in Nat : /\ i = R!BcdIncrement(d[3]) /\ R!Digits(i)
                       /\ R!Num(i) = R!Num(d[3]) + 1 /\ i >= 1
  <2>1. d[3] \in Nat /\ R!Digits(d[3]) /\ R!Num(d[3]) \in 0 .. 99 /\ ~(R!Num(d[3]) > 31)
    <3>1. R!Digits(d[3]) /\ d[3] \in Nat /\ ~(d[3] > 49)
      BY <1>1
    <3> QED BY <3>1, DigitMarks
  <2>2. PICK i : i = R!BcdIncrement(d[3])
    OBVIOUS
  <2>3. i \in Nat /\ R!Digits(i) /\ R!Num(i) = R!Num(d[3]) + 1
    BY <2>1, <2>2, Increment
  <2>4. i >= 1 <=> R!Num(i) >= 1
    BY <2>3, DigitMarks
  <2> QED BY <2>1, <2>2, <2>3, <2>4
<1>4. PICK w \in 0 .. 6 : w = (d[4] + 1) % 7
  BY <1>1
<1>5. PICK u : u = [d EXCEPT ![3] = i, ![4] = w]
  OBVIOUS
<1>6. e = R!CheckEndOfMonth(u)
  <2>1. u = [d EXCEPT ![3] = R!BcdIncrement(@), ![4] = (@ + 1) % 7]
    BY <1>1, <1>3, <1>4, <1>5 DEF Registers
  <2> QED BY <2>1 DEF R!CountDay
<1>7. /\ u \in Registers /\ u[3] = i /\ u[1] = d[1] /\ u[2] = d[2] /\ u[4] = w
      /\ u[5] = d[5] /\ u[6] = d[6] /\ u[7] = d[7]
  BY <1>1, <1>5 DEF Registers
<1>8. Counting(u, full)
  <2>1. \A k \in {1, 2, 3, 6, 7} : R!Digits(u[k])
    BY <1>1, <1>3, <1>7
  <2> QED BY <1>1, <1>3, <1>7, <2>1 DEF Counting
<1>9. Accepted(e, full) /\ e[4] = w /\ e[5] = d[5] /\ e[6] = d[6] /\ e[7] = d[7]
  BY <1>6, <1>7, <1>8, MonthEnded
<1>10. ASSUME d[3] <= R!DaysInMonth(d)
       PROVE  R!Days(d) \in Nat /\ R!Days(e) = (R!Days(d) + 1) % R!Century
  <2>1. PICK y \in 0 .. 99, m \in 1 .. 12, n \in Int :
          /\ y = R!Num(d[1]) /\ m = R!Num(d[2]) /\ n = R!Num(d[3])
          /\ 1 <= n /\ n <= MonthLength(y, m) /\ R!Days(d) = DayNumber(y, m, n)
          /\ R!Days(d) \in Nat
    BY <1>2, <1>10, RealDate
  <2>2. PICK k \in 28 .. 31 : k = MonthLength(y, m)
    BY MonthNext, Zenon
  <2>3. n <= k
    BY <2>1, <2>2
  <2>4. /\ n < k => DayNumber(y, m, n + 1) = (R!Days(d) + 1) % R!Century
        /\ n = k /\ m < 12 => DayNumber(y, m + 1, 1) = (R!Days(d) + 1) % R!Century
        /\ n = k /\ m = 12 => DayNumber(YearAfter(y), 1, 1)
                                = (R!Days(d) + 1) % R!Century
    <3> HIDE DEF R!Century
    <3>1. /\ n < MonthLength(y, m) =>
               DayNumber(y, m, n + 1) = (DayNumber(y, m, n) + 1) % R!Century
          /\ n = MonthLength(y, m) /\ m < 12 =>
               DayNumber(y, m + 1, 1) = (DayNumber(y, m, n) + 1) % R!Century
          /\ n = MonthLength(y, m) /\ m = 12 =>
               DayNumber(YearAfter(y), 1, 1)
                 = (DayNumber(y, m, n) + 1) % R!Century
      BY <2>1, Tomorrow, Zenon
    <3> QED BY <2>1, <2>2, <3>1
  <2>5. /\ R!Num(u[1]) = y /\ R!Num(u[2]) = m /\ R!Num(u[3]) = n + 1
        /\ R!DaysInMonth(u) \in Nat /\ u[3] \in Nat
        /\ (u[3] > R!DaysInMonth(u) <=> n + 1 > k)
    <3>1. R!Num(u[1]) = y /\ R!Num(u[2]) = m /\ R!Num(u[3]) = n + 1
      BY <1>3, <1>7, <2>1
    <3>2. /\ R!DaysInMonth(u) \in 0 .. 49
          /\ u[3] > R!DaysInMonth(u) <=>
              R!Num(u[3]) > MonthLength(R!Num(u[1]), R!Num(u[2]))
      BY <1>8, DateNumbers
    <3>3. u[3] \in Nat
      BY <1>7
    <3> QED BY <2>2, <3>1, <3>2, <3>3
  <2>6. Counting(e, full)
    BY <1>9 DEF Accepted, Counting
  <2>7. R!Days(e) = DayNumber(R!Num(e[1]), R!Num(e[2]), R!Num(e[3]))
    BY <2>6, DateNumbers
  <2>8. CASE n < k
    <3>1. u[3] <= R!DaysInMonth(u)
      BY <2>1, <2>5, <2>8
    <3>2. e = u
      BY <1>6, <1>8, <3>1, MonthEnded
    <3> QED BY <2>1, <2>4, <2>5, <2>7, <2>8, <3>2
  <2>9. CASE n = k
    <3>1. u[3] > R!DaysInMonth(u)
      BY <2>1, <2>5, <2>9
    <3>2. /\ R!Num(e[3]) = 1
          /\ m < 12 => R!Num(e[1]) = y /\ R!Num(e[2]) = m + 1
          /\ m = 12 => R!Num(e[1]) = (IF y = 99 THEN 0 ELSE y + 1) /\ R!Num(e[2]) = 1
      BY <1>6, <1>8, <2>5, <3>1, MonthEnded
    <3>3. m < 12 \/ m = 12
      OBVIOUS
    <3> QED BY <2>1, <2>4, <2>7, <2>9, <3>2, <3>3 DEF YearAfter
  <2>10. n < k \/ n = k
    BY <2>1, <2>2, <2>3
  <2> QED BY <2>8, <2>9, <2>10
<1> HIDE DEF e, R!Century
<1>11. Later(d, e, TRUE)
  BY <1>4, <1>9, <1>10 DEF Later
<1> QED BY <1>9, <1>11 DEF e

LEMMA LaterSame ==
  ASSUME NEW d, NEW u, NEW e, NEW over, \A i \in 1 .. 4 : u[i] = d[i], Later(u, e, over)
  PROVE  Later(d, e, over)
PROOF
<1>1. u[1] = d[1] /\ u[2] = d[2] /\ u[3] = d[3] /\ u[4] = d[4]
  OBVIOUS
<1>2. R!Days(u) = R!Days(d) /\ R!DaysInMonth(u) = R!DaysInMonth(d)
  BY <1>1 DEF R!Days, R!DaysInMonth
<1> HIDE DEF R!Century
<1> QED BY <1>1, <1>2 DEF Later

\* Another hour byte in the same date.
WithHour(d, b) == [d EXCEPT ![5] = b]
Dated(d) ==
  /\ d \in Registers /\ \A i \in {1, 2, 3, 6, 7} : R!Digits(d[i])
  /\ d[2] \in 1 .. 18 /\ d[3] \in 1 .. 49 /\ d[4] \in 0 .. 6
  /\ d[6] <= 89 /\ d[7] <= 89

LEMMA HourSet ==
  ASSUME NEW d, Dated(d), NEW b \in Nat
  PROVE  /\ Dated(WithHour(d, b)) /\ WithHour(d, b)[5] = b
         /\ \A i \in {1, 2, 3, 4, 6, 7} : WithHour(d, b)[i] = d[i]
PROOF
<1>1. /\ d \in Registers /\ \A i \in {1, 2, 3, 6, 7} : R!Digits(d[i])
      /\ d[2] \in 1 .. 18 /\ d[3] \in 1 .. 49 /\ d[4] \in 0 .. 6
      /\ d[6] <= 89 /\ d[7] <= 89
  BY DEF Dated
<1>2. PICK u : u = [d EXCEPT ![5] = b] /\ u = WithHour(d, b)
  BY DEF WithHour
<1>3. u \in Registers /\ u[5] = b /\ \A i \in {1, 2, 3, 4, 6, 7} : u[i] = d[i]
  BY <1>1, <1>2 DEF Registers
<1>4. /\ u[1] = d[1] /\ u[2] = d[2] /\ u[3] = d[3] /\ u[4] = d[4]
      /\ u[6] = d[6] /\ u[7] = d[7]
  BY <1>3
<1>5. \A i \in {1, 2, 3, 6, 7} : R!Digits(u[i])
  BY <1>1, <1>4
<1>6. Dated(u)
  BY <1>1, <1>3, <1>4, <1>5 DEF Dated
<1> QED BY <1>2, <1>3, <1>6

LEMMA HourNumber ==
  ASSUME NEW d, NEW full \in BOOLEAN, Accepted(d, full)
  PROVE  /\ R!Hour(d[5]) \in 0 .. 35 /\ R!Digits(R!Hour(d[5])) /\ R!Pm(d[5]) \in BOOLEAN
         /\ R!Num(R!Hour(d[5])) \in 0 .. (IF full THEN 23 ELSE 11)
         /\ R!HourOfDay(d, full) = R!Num(R!Hour(d[5])) + (IF ~full /\ R!Pm(d[5]) THEN 12 ELSE 0)
         /\ R!HourOfDay(d, full) \in 0 .. 23
PROOF
<1>1. d[5] \in Nat /\ R!Digits(R!Hour(d[5])) /\ R!Hour(d[5]) <= (IF full THEN 35 ELSE 17)
  BY DEF Accepted, Registers
<1>2. PICK h \in 0 .. 63 : h = R!Hour(d[5]) /\ R!Pm(d[5]) \in BOOLEAN
  BY <1>1, HourType
<1>3. R!Digits(h) /\ h <= (IF full THEN 35 ELSE 17)
  BY <1>1, <1>2
<1>4. /\ R!Num(h) \in 0 .. 99 /\ (h >= 18 <=> R!Num(h) >= 12) /\ (h >= 36 <=> R!Num(h) >= 24)
  BY <1>3, DigitMarks
<1>5. PICK n \in 0 .. (IF full THEN 23 ELSE 11) : n = R!Num(h)
  BY <1>3, <1>4
<1>6. R!HourOfDay(d, full) = n + (IF ~full /\ R!Pm(d[5]) THEN 12 ELSE 0)
  BY <1>2, <1>5 DEF R!HourOfDay
<1>7. R!HourOfDay(d, full) \in 0 .. 23
  BY <1>2, <1>5, <1>6
<1>8. h \in 0 .. 35
  BY <1>3
<1> QED BY <1>2, <1>3, <1>5, <1>6, <1>7, <1>8

\* rtc_count_hour.
HourLater(d, e, o) ==
  /\ Accepted(e, h24) /\ e[6] = d[6] /\ e[7] = d[7]
  /\ R!HourOfDay(e, h24) = IF o = 23 THEN 0 ELSE o + 1
  /\ o = 23 => Later(d, e, TRUE)
  /\ o # 23 => Later(d, e, FALSE)

LEMMA HourCounted ==
  ASSUME NEW d, h24 \in BOOLEAN, Accepted(d, h24)
  PROVE  HourLater(d, R!CountHour(d), R!HourOfDay(d, h24))
PROOF
<1> DEFINE e == R!CountHour(d)
<1>1. PICK h \in 0 .. 35, p \in BOOLEAN, o \in 0 .. 23, n \in 0 .. (IF h24 THEN 23 ELSE 11) :
        /\ h = R!Hour(d[5]) /\ p = R!Pm(d[5]) /\ o = R!HourOfDay(d, h24) /\ n = R!Num(h)
        /\ R!Digits(h) /\ o = n + (IF ~h24 /\ p THEN 12 ELSE 0)
  BY HourNumber
<1>2. PICK i \in Nat : i = R!BcdIncrement(h) /\ R!Digits(i) /\ R!Num(i) = n + 1
  <2>1. h \in Nat /\ n # 99
    BY <1>1
  <2> QED BY <1>1, <2>1, Increment
<1>3. (i >= 18 <=> n + 1 >= 12) /\ (i >= 36 <=> n + 1 >= 24)
  BY <1>2, DigitMarks
<1>4. Counting(d, h24) /\ Dated(d)
  BY DEF Accepted, Counting, Dated
<1>5. R!Digits(0) /\ R!Num(0) = 0
  <2>1. 0 \in 0 .. 9
    OBVIOUS
  <2> QED BY <2>1, SmallDigits
<1>6. CASE n = 23 \/ (n = 11 /\ ~h24 /\ p)
  <2>1. PICK u : u = [d EXCEPT ![5] = 0] /\ u = WithHour(d, 0)
    BY DEF WithHour
  <2>2. Dated(u) /\ u[5] = 0 /\ \A k \in {1, 2, 3, 4, 6, 7} : u[k] = d[k]
    <3>1. 0 \in Nat
      OBVIOUS
    <3>2. /\ Dated(WithHour(d, 0)) /\ WithHour(d, 0)[5] = 0
          /\ \A k \in {1, 2, 3, 4, 6, 7} : WithHour(d, 0)[k] = d[k]
      BY <1>4, <3>1, HourSet
    <3>3. u = WithHour(d, 0)
      BY <2>1
    <3> QED BY <3>2, <3>3, Zenon
  <2>9. R!Hour(0) = 0 /\ R!Pm(0) = FALSE
    BY DEF R!Hour, R!Pm
  <2>3. Accepted(u, h24) /\ (\A k \in 1 .. 4 : u[k] = d[k]) /\ u[6] = d[6] /\ u[7] = d[7]
    BY <1>5, <2>2, <2>9 DEF Accepted, Dated
  <2>4. e = R!CountDay(u)
    <3>1. R!CountHour(d) = R!CountDay([d EXCEPT ![5] = 0])
      BY <1>1, <1>2, <1>3, <1>6 DEF R!CountHour
    <3> QED BY <2>1, <3>1
  <2> HIDE DEF e
  <2>5. Accepted(e, h24) /\ e[5] = 0 /\ e[6] = d[6] /\ e[7] = d[7] /\ Later(u, e, TRUE)
    BY <2>2, <2>3, <2>4, DayCounted
  <2>6. Later(d, e, TRUE)
    BY <2>3, <2>5, LaterSame
  <2>7. R!HourOfDay(e, h24) = 0
    BY <1>5, <2>5, <2>9 DEF R!HourOfDay
  <2>8. o = 23
    BY <1>1, <1>6
  <2>10. HourLater(d, e, o)
    BY <2>3, <2>5, <2>6, <2>7, <2>8 DEF HourLater
  <2> QED BY <1>1, <2>10 DEF e
<1>7. CASE ~(n = 23 \/ (n = 11 /\ ~h24 /\ p))
  <2>1. PICK b \in Nat :
          /\ R!CountHour(d) = WithHour(d, b) /\ R!Digits(R!Hour(b))
          /\ R!Hour(b) <= (IF h24 THEN 35 ELSE 17)
          /\ R!Num(R!Hour(b)) + (IF ~h24 /\ R!Pm(b) THEN 12 ELSE 0) = o + 1
    <3>1. CASE h24
      <4>1. i <= 35 /\ R!CountHour(d) = WithHour(d, R!HourByte(i, i >= 18))
        BY <1>1, <1>2, <1>3, <1>7, <3>1 DEF R!CountHour, WithHour
      <4>2. PICK b : b = R!HourByte(i, i >= 18)
        OBVIOUS
      <4>3. i \in 0 .. 63 /\ (i >= 18) \in BOOLEAN
        BY <1>2, <4>1, SMT
      <4>4. b \in Nat /\ R!Hour(b) = i
        BY <4>2, <4>3, HourBytes
      <4> QED BY <1>1, <1>2, <3>1, <4>1, <4>2, <4>4
    <3>2. CASE ~h24 /\ n # 11
      <4>1. i < 18 /\ R!CountHour(d) = WithHour(d, R!HourByte(i, p))
        BY <1>1, <1>2, <1>3, <3>2 DEF R!CountHour, WithHour
      <4>2. PICK b : b = R!HourByte(i, p)
        OBVIOUS
      <4>3. i \in 0 .. 63
        BY <1>2, <4>1, SMT
      <4>4. b \in Nat /\ R!Hour(b) = i /\ R!Pm(b) = p
        BY <4>2, <4>3, HourBytes
      <4> QED BY <1>1, <1>2, <3>2, <4>1, <4>2, <4>4
    <3>3. CASE ~h24 /\ n = 11 /\ ~p
      <4>1. R!CountHour(d) = WithHour(d, 64)
        BY <1>1, <1>2, <1>3, <3>3 DEF R!CountHour, WithHour
      <4>2. R!Hour(64) = 0 /\ R!Pm(64) = TRUE
        BY DEF R!Hour, R!Pm
      <4>3. R!Num(R!Hour(64)) + (IF ~h24 /\ R!Pm(64) THEN 12 ELSE 0) = o + 1
        BY <1>1, <1>5, <3>3, <4>2
      <4>4. R!Digits(R!Hour(64)) /\ R!Hour(64) <= (IF h24 THEN 35 ELSE 17)
        BY <1>5, <4>2
      <4>5. 64 \in Nat
        OBVIOUS
      <4> QED BY <4>1, <4>3, <4>4, <4>5
    <3> QED BY <1>7, <3>1, <3>2, <3>3
  <2>2. PICK u : u = WithHour(d, b)
    OBVIOUS
  <2>3. Dated(u) /\ u[5] = b /\ \A k \in {1, 2, 3, 4, 6, 7} : u[k] = d[k]
    BY <1>4, <2>2, HourSet, Zenon
  <2>4. /\ Accepted(u, h24) /\ \A k \in 1 .. 4 : u[k] = d[k]
        /\ u[6] = d[6] /\ u[7] = d[7] /\ R!HourOfDay(u, h24) = o + 1
    <3>1. Accepted(u, h24)
      BY <2>1, <2>3 DEF Accepted, Dated
    <3>2. R!HourOfDay(u, h24) = o + 1
      BY <2>1, <2>3 DEF R!HourOfDay
    <3>3. (\A k \in 1 .. 4 : u[k] = d[k]) /\ u[6] = d[6] /\ u[7] = d[7]
      BY <2>3
    <3> QED BY <3>1, <3>2, <3>3
  <2>5. Later(d, u, FALSE)
    BY <1>4, <2>4, SameDay
  <2>6. e = u
    BY <2>1, <2>2
  <2>7. o # 23
    BY <1>1, <1>7
  <2> HIDE DEF e
  <2>8. HourLater(d, e, o)
    BY <1>1, <2>4, <2>5, <2>6, <2>7 DEF HourLater
  <2> QED BY <1>1, <2>8 DEF e
<1> QED BY <1>6, <1>7

\* Another minute or second byte in the same date.
WithField(d, k, b) == [d EXCEPT ![k] = b]

LEMMA FieldSet ==
  ASSUME NEW d, NEW full, Accepted(d, full), NEW k \in {6, 7}, NEW b \in Nat,
         R!Digits(b), b <= 89
  PROVE  /\ Accepted(WithField(d, k, b), full) /\ WithField(d, k, b)[k] = b
         /\ \A i \in 1 .. 7 : i # k => WithField(d, k, b)[i] = d[i]
PROOF
<1>1. /\ d \in Registers /\ \A i \in {1, 2, 3, 6, 7} : R!Digits(d[i])
      /\ d[2] \in 1 .. 18 /\ d[3] \in 1 .. 49 /\ d[4] \in 0 .. 6
      /\ R!Digits(R!Hour(d[5])) /\ R!Hour(d[5]) <= (IF full THEN 35 ELSE 17)
      /\ d[6] <= 89 /\ d[7] <= 89
  BY DEF Accepted
<1>2. PICK u : u = WithField(d, k, b)
  OBVIOUS
<1>3. u \in Registers /\ u[k] = b /\ \A i \in 1 .. 7 : i # k => u[i] = d[i]
  BY <1>1, <1>2 DEF Registers, WithField
<1>4. /\ u[1] = d[1] /\ u[2] = d[2] /\ u[3] = d[3] /\ u[4] = d[4] /\ u[5] = d[5]
      /\ u[6] \in {d[6], b} /\ u[7] \in {d[7], b}
  BY <1>3
<1>5. /\ \A i \in {1, 2, 3, 6, 7} : R!Digits(u[i])
      /\ u[6] <= 89 /\ u[7] <= 89
  BY <1>1, <1>4
<1>6. Accepted(u, full)
  BY <1>1, <1>3, <1>4, <1>5 DEF Accepted
<1> QED BY <1>2, <1>3, <1>6

LEMMA FieldNumber ==
  ASSUME NEW d, NEW full, Accepted(d, full), NEW k \in {6, 7}
  PROVE  \E n \in 0 .. 59, i \in Nat :
           /\ n = R!Num(d[k]) /\ i = R!BcdIncrement(d[k]) /\ R!Digits(i)
           /\ R!Num(i) = n + 1 /\ (i >= 96 <=> n = 59) /\ (i > 89 <=> n = 59)
PROOF
<1>1. d[k] \in Nat /\ R!Digits(d[k]) /\ d[k] <= 89
  BY DEF Accepted, Registers
<1>2. PICK b \in Nat : b = d[k] /\ R!Digits(b) /\ ~(b > 89)
  BY <1>1
<1>3. R!Num(b) \in 0 .. 99 /\ (b > 89 <=> R!Num(b) >= 60)
  BY <1>2, DigitMarks
<1>4. PICK n \in 0 .. 59 : n = R!Num(b) /\ n # 99
  BY <1>2, <1>3
<1>5. PICK i \in Nat : i = R!BcdIncrement(b) /\ R!Digits(i) /\ R!Num(i) = n + 1
  BY <1>2, <1>4, Increment
<1>6. (i > 89 <=> R!Num(i) >= 60) /\ (i >= 96 <=> R!Num(i) >= 60)
  BY <1>5, DigitMarks
<1>7. (i > 89 <=> n = 59) /\ (i >= 96 <=> n = 59)
  BY <1>4, <1>5, <1>6
<1> QED BY <1>2, <1>4, <1>5, <1>7

\* rtc_count_minute.
MinuteLater(d, e, o, n) ==
  /\ Accepted(e, h24) /\ e[7] = d[7]
  /\ n # 59 => /\ R!HourOfDay(e, h24) = o /\ R!Num(e[6]) = n + 1
               /\ Later(d, e, FALSE)
  /\ n = 59 => /\ R!HourOfDay(e, h24) = (IF o = 23 THEN 0 ELSE o + 1)
               /\ R!Num(e[6]) = 0
               /\ o = 23 => Later(d, e, TRUE)
               /\ o # 23 => Later(d, e, FALSE)

LEMMA MinuteCounted ==
  ASSUME NEW d, h24 \in BOOLEAN, Accepted(d, h24)
  PROVE  MinuteLater(d, R!CountMinute(d), R!HourOfDay(d, h24), R!Num(d[6]))
PROOF
<1> DEFINE e == R!CountMinute(d)
<1>1. PICK n \in 0 .. 59, i \in Nat :
        /\ n = R!Num(d[6]) /\ i = R!BcdIncrement(d[6]) /\ R!Digits(i)
        /\ R!Num(i) = n + 1 /\ (i >= 96 <=> n = 59) /\ (i > 89 <=> n = 59)
  <2>1. 6 \in {6, 7}
    OBVIOUS
  <2> QED BY <2>1, FieldNumber
<1>2. Counting(d, h24)
  BY DEF Accepted, Counting
<1>3. R!Digits(0) /\ R!Num(0) = 0
  <2>1. 0 \in 0 .. 9
    OBVIOUS
  <2> QED BY <2>1, SmallDigits
<1>4. PICK o \in 0 .. 23 : o = R!HourOfDay(d, h24)
  BY HourNumber
<1>5. CASE n # 59
  <2>1. e = WithField(d, 6, i)
    BY <1>1, <1>5 DEF R!CountMinute, WithField
  <2>2. 6 \in {6, 7} /\ i <= 89
    BY <1>1, <1>5
  <2>3. /\ Accepted(WithField(d, 6, i), h24) /\ WithField(d, 6, i)[6] = i
        /\ \A j \in 1 .. 7 : j # 6 => WithField(d, 6, i)[j] = d[j]
    BY <1>1, <2>2, FieldSet
  <2> HIDE DEF e
  <2>4. /\ Accepted(e, h24) /\ e[6] = i /\ \A j \in 1 .. 7 : j # 6 => e[j] = d[j]
    BY <2>1, <2>3
  <2>5. e[5] = d[5] /\ e[7] = d[7] /\ \A j \in 1 .. 4 : e[j] = d[j]
    BY <2>4
  <2>6. Later(d, e, FALSE)
    BY <1>2, <2>5, SameDay
  <2>7. R!HourOfDay(e, h24) = o
    BY <1>4, <2>5 DEF R!HourOfDay
  <2>8. MinuteLater(d, e, o, n)
    BY <1>1, <1>5, <2>4, <2>5, <2>6, <2>7 DEF MinuteLater
  <2> QED BY <1>1, <1>4, <2>8 DEF e
<1>6. CASE n = 59
  <2>1. PICK u : u = WithField(d, 6, 0)
    OBVIOUS
  <2>2. 6 \in {6, 7} /\ 0 <= 89 /\ 0 \in Nat
    OBVIOUS
  <2>3. /\ Accepted(WithField(d, 6, 0), h24) /\ WithField(d, 6, 0)[6] = 0
        /\ \A j \in 1 .. 7 : j # 6 => WithField(d, 6, 0)[j] = d[j]
    BY <1>3, <2>2, FieldSet
  <2>4. Accepted(u, h24) /\ u[6] = 0 /\ \A j \in 1 .. 7 : j # 6 => u[j] = d[j]
    BY <2>1, <2>3
  <2>5. u[5] = d[5] /\ u[7] = d[7] /\ \A j \in 1 .. 4 : u[j] = d[j]
    BY <2>4
  <2>6. e = R!CountHour(u)
    BY <1>1, <1>6, <2>1 DEF R!CountMinute, WithField
  <2> HIDE DEF e
  <2>7. R!HourOfDay(u, h24) = o
    BY <1>4, <2>5 DEF R!HourOfDay
  <2>10. HourLater(u, R!CountHour(u), R!HourOfDay(u, h24))
    BY <2>4, HourCounted
  <2>11. HourLater(u, e, o)
    BY <2>6, <2>7, <2>10, Zenon
  <2>8. /\ Accepted(e, h24) /\ e[6] = u[6] /\ e[7] = u[7]
        /\ R!HourOfDay(e, h24) = (IF o = 23 THEN 0 ELSE o + 1)
        /\ o = 23 => Later(u, e, TRUE)
        /\ o # 23 => Later(u, e, FALSE)
    BY <2>11 DEF HourLater
  <2>9. (o = 23 => Later(d, e, TRUE)) /\ (o # 23 => Later(d, e, FALSE))
    BY <2>5, <2>8, LaterSame, Zenon
  <2>12. MinuteLater(d, e, o, n)
    BY <1>3, <1>6, <2>4, <2>5, <2>8, <2>9 DEF MinuteLater
  <2> QED BY <1>1, <1>4, <2>12 DEF e
<1> QED BY <1>5, <1>6

\* rtc_count_second: one second more, and at midnight one day more.
Midnight(s) == s = 86399
SecondAfter(s) == (s + 1) % 86400
SecondLater(d, e, s) ==
  /\ Accepted(e, h24) /\ R!SecondOfDay(e, h24) = SecondAfter(s)
  /\ Midnight(s) => Later(d, e, TRUE)
  /\ ~Midnight(s) => Later(d, e, FALSE)

LEMMA SecondCounted ==
  ASSUME NEW d, h24 \in BOOLEAN, Accepted(d, h24)
  PROVE  SecondLater(d, R!CountSecond(d), R!SecondOfDay(d, h24))
PROOF
<1> DEFINE e == R!CountSecond(d)
<1>1. PICK n \in 0 .. 59, i \in Nat :
        /\ n = R!Num(d[7]) /\ i = R!BcdIncrement(d[7]) /\ R!Digits(i)
        /\ R!Num(i) = n + 1 /\ (i >= 96 <=> n = 59) /\ (i > 89 <=> n = 59)
  <2>1. 7 \in {6, 7}
    OBVIOUS
  <2> QED BY <2>1, FieldNumber
<1>2. PICK m \in 0 .. 59 : m = R!Num(d[6])
  <2>1. 6 \in {6, 7}
    OBVIOUS
  <2>2. R!Num(d[6]) \in 0 .. 59
    BY <2>1, FieldNumber
  <2> QED BY <2>2
<1>3. PICK o \in 0 .. 23 : o = R!HourOfDay(d, h24)
  BY HourNumber
<1>4. PICK s \in Nat : s = R!SecondOfDay(d, h24) /\ s = 3600 * o + 60 * m + n
  BY <1>1, <1>2, <1>3 DEF R!SecondOfDay
<1>5. /\ Midnight(s) <=> o = 23 /\ m = 59 /\ n = 59
      /\ Midnight(s) => SecondAfter(s) = 0
      /\ ~Midnight(s) => SecondAfter(s) = s + 1
  <2>1. s <= 86399 /\ (s = 86399 <=> o = 23 /\ m = 59 /\ n = 59)
    BY <1>4
  <2>2. (s = 86399 => SecondAfter(s) = 0) /\ (s # 86399 => SecondAfter(s) = s + 1)
    BY <2>1 DEF SecondAfter
  <2> QED BY <2>1, <2>2 DEF Midnight
<1>6. Counting(d, h24)
  BY DEF Accepted, Counting
<1>7. R!Digits(0) /\ R!Num(0) = 0
  <2>1. 0 \in 0 .. 9
    OBVIOUS
  <2> QED BY <2>1, SmallDigits
<1>8. CASE n # 59
  <2>1. e = WithField(d, 7, i)
    BY <1>1, <1>8 DEF R!CountSecond, R!Carries, WithField
  <2>2. 7 \in {6, 7} /\ i <= 89
    BY <1>1, <1>8
  <2>3. /\ Accepted(WithField(d, 7, i), h24) /\ WithField(d, 7, i)[7] = i
        /\ \A j \in 1 .. 7 : j # 7 => WithField(d, 7, i)[j] = d[j]
    BY <1>1, <2>2, FieldSet
  <2> HIDE DEF e
  <2>4. /\ Accepted(e, h24) /\ e[7] = i /\ \A j \in 1 .. 7 : j # 7 => e[j] = d[j]
    BY <2>1, <2>3
  <2>5. e[5] = d[5] /\ e[6] = d[6] /\ \A j \in 1 .. 4 : e[j] = d[j]
    BY <2>4
  <2>6. Later(d, e, FALSE)
    BY <1>6, <2>5, SameDay
  <2>7. R!HourOfDay(e, h24) = o
    BY <1>3, <2>5 DEF R!HourOfDay
  <2>8. R!SecondOfDay(e, h24) = s + 1
    BY <1>1, <1>2, <1>4, <2>4, <2>5, <2>7 DEF R!SecondOfDay
  <2>9. ~Midnight(s) /\ SecondAfter(s) = s + 1
    BY <1>5, <1>8
  <2>10. SecondLater(d, e, s)
    BY <2>4, <2>6, <2>8, <2>9 DEF SecondLater
  <2> QED BY <1>4, <2>10 DEF e
<1>9. CASE n = 59
  <2>1. PICK u : u = WithField(d, 7, 0)
    OBVIOUS
  <2>2. 7 \in {6, 7} /\ 0 <= 89 /\ 0 \in Nat
    OBVIOUS
  <2>3. /\ Accepted(WithField(d, 7, 0), h24) /\ WithField(d, 7, 0)[7] = 0
        /\ \A j \in 1 .. 7 : j # 7 => WithField(d, 7, 0)[j] = d[j]
    BY <1>7, <2>2, FieldSet
  <2>4. Accepted(u, h24) /\ u[7] = 0 /\ \A j \in 1 .. 7 : j # 7 => u[j] = d[j]
    BY <2>1, <2>3
  <2>5. u[5] = d[5] /\ u[6] = d[6] /\ \A j \in 1 .. 4 : u[j] = d[j]
    BY <2>4
  <2>6. e = R!CountMinute(u)
    BY <1>1, <1>9, <2>1 DEF R!CountSecond, R!Carries, WithField
  <2> HIDE DEF e
  <2>7. R!HourOfDay(u, h24) = o /\ R!Num(u[6]) = m
    BY <1>2, <1>3, <2>5 DEF R!HourOfDay
  <2>14. MinuteLater(u, R!CountMinute(u), R!HourOfDay(u, h24), R!Num(u[6]))
    BY <2>4, MinuteCounted
  <2>15. MinuteLater(u, e, o, m)
    BY <2>6, <2>7, <2>14, Zenon
  <2>8. /\ Accepted(e, h24) /\ e[7] = u[7]
        /\ m # 59 => /\ R!HourOfDay(e, h24) = o /\ R!Num(e[6]) = m + 1
                     /\ Later(u, e, FALSE)
        /\ m = 59 => /\ R!HourOfDay(e, h24) = (IF o = 23 THEN 0 ELSE o + 1)
                     /\ R!Num(e[6]) = 0
                     /\ o = 23 => Later(u, e, TRUE)
                     /\ o # 23 => Later(u, e, FALSE)
    BY <2>15 DEF MinuteLater
  <2>9. (Later(u, e, TRUE) => Later(d, e, TRUE)) /\ (Later(u, e, FALSE) => Later(d, e, FALSE))
    BY <2>5, LaterSame, Zenon
  <2>10. (Midnight(s) => Later(d, e, TRUE)) /\ (~Midnight(s) => Later(d, e, FALSE))
    BY <1>5, <1>9, <2>8, <2>9
  <2>11. R!Num(e[7]) = 0
    BY <1>7, <2>4, <2>8
  <2>12. PICK g \in Int, k \in Int :
           /\ g = R!HourOfDay(e, h24) /\ k = R!Num(e[6])
           /\ m # 59 => g = o /\ k = m + 1
           /\ m = 59 => g = (IF o = 23 THEN 0 ELSE o + 1) /\ k = 0
    <3>1. PICK g, k : g = R!HourOfDay(e, h24) /\ k = R!Num(e[6])
      OBVIOUS
    <3>2. /\ m # 59 => g = o /\ k = m + 1
          /\ m = 59 => g = (IF o = 23 THEN 0 ELSE o + 1) /\ k = 0
      BY <2>8, <3>1
    <3>3. g \in Int /\ k \in Int
      BY <3>2
    <3> QED BY <3>1, <3>2, <3>3
  <2>13. R!SecondOfDay(e, h24) = (g * 60 + k) * 60 + 0
    BY <2>11, <2>12 DEF R!SecondOfDay
  <2>16. R!SecondOfDay(e, h24) = SecondAfter(s)
    <3>1. CASE Midnight(s)
      <4>1. g = 0 /\ k = 0
        BY <1>5, <2>12, <3>1
      <4> QED BY <1>5, <2>13, <3>1, <4>1
    <3>2. CASE ~Midnight(s)
      <4>1. (g * 60 + k) * 60 + 0 = s + 1
        BY <1>4, <1>5, <1>9, <2>12, <3>2
      <4> QED BY <1>5, <2>13, <3>2, <4>1
    <3> QED BY <3>1, <3>2
  <2>17. SecondLater(d, e, s)
    BY <2>8, <2>10, <2>16 DEF SecondLater
  <2> QED BY <1>4, <2>17 DEF e
<1> HIDE DEF e
<1> QED BY <1>8, <1>9

\* A register of the date takes a byte in its range.
LEMMA Written ==
  ASSUME NEW d, NEW full, Accepted(d, full), NEW k \in {1, 2, 4}, NEW b \in Nat,
         k \in {1, 2} => R!Digits(b), k = 2 => b \in 1 .. 18, k = 4 => b \in 0 .. 6
  PROVE  Accepted(WithField(d, k, b), full)
PROOF
<1>1. /\ d \in Registers /\ \A i \in {1, 2, 3, 6, 7} : R!Digits(d[i])
      /\ d[2] \in 1 .. 18 /\ d[3] \in 1 .. 49 /\ d[4] \in 0 .. 6
      /\ R!Digits(R!Hour(d[5])) /\ R!Hour(d[5]) <= (IF full THEN 35 ELSE 17)
      /\ d[6] <= 89 /\ d[7] <= 89
  BY DEF Accepted
<1>2. PICK u : u = WithField(d, k, b)
  OBVIOUS
<1>3. u \in Registers /\ u[k] = b /\ \A i \in 1 .. 7 : i # k => u[i] = d[i]
  BY <1>1, <1>2 DEF Registers, WithField
<1>4. /\ u[3] = d[3] /\ u[5] = d[5] /\ u[6] = d[6] /\ u[7] = d[7]
      /\ k # 1 => u[1] = d[1]
      /\ k # 2 => u[2] = d[2]
      /\ k # 4 => u[4] = d[4]
  BY <1>3
<1>5. (\A i \in {1, 2, 3, 6, 7} : R!Digits(u[i])) /\ u[2] \in 1 .. 18 /\ u[4] \in 0 .. 6
  <2>1. CASE k = 1
    BY <1>1, <1>3, <1>4, <2>1
  <2>2. CASE k = 2
    BY <1>1, <1>3, <1>4, <2>2
  <2>3. CASE k = 4
    BY <1>1, <1>3, <1>4, <2>3
  <2> QED BY <2>1, <2>2, <2>3
<1>6. Accepted(u, full)
  BY <1>1, <1>3, <1>4, <1>5 DEF Accepted
<1> QED BY <1>2, <1>6

RtcInv == h24 \in BOOLEAN /\ Accepted(dt, h24)

\* rtc_write_datetime: whatever the guest writes, the date stays accepted.
LEMMA DateWritten ==
  ASSUME RtcInv, NEW n \in 1 .. 7, NEW b \in Nat
  PROVE  Accepted(R!WriteDate(n, b), h24)
PROOF
<1>1. h24 \in BOOLEAN /\ Accepted(dt, h24)
  BY DEF RtcInv
<1>2. \A m \in Nat \ {0} : b % m \in Nat
  OBVIOUS
<1>3. CASE n = 1
  <2>0. PICK t \in Nat : t = 153
    OBVIOUS
  <2>1. PICK v : v = R!Sanitize(b, 0, t)
    OBVIOUS
  <2>2. v \in Nat /\ R!Digits(v)
    <3>1. 0 \in 0 .. 1 /\ 0 <= t
      OBVIOUS
    <3>2. R!Sanitize(b, 0, t) \in 0 .. t /\ R!Digits(R!Sanitize(b, 0, t))
      BY <3>1, Sanitized
    <3> QED BY <2>1, <3>2
  <2>3. R!WriteDate(n, b) = WithField(dt, 1, v)
    BY <1>3, <2>0, <2>1 DEF R!WriteDate, WithField
  <2>4. 1 \in {1, 2, 4} /\ 1 # 2 /\ 1 # 4
    OBVIOUS
  <2>5. Accepted(WithField(dt, 1, v), h24)
    BY <1>1, <2>2, <2>4, Written
  <2> QED BY <2>3, <2>5
<1>4. CASE n = 2
  <2>1. PICK v : v = R!Sanitize(b % 32, 1, 18)
    OBVIOUS
  <2>2. v \in 1 .. 18 /\ R!Digits(v)
    <3>1. 1 \in 0 .. 1 /\ 18 \in Nat /\ 1 <= 18 /\ b % 32 \in Nat
      BY <1>2
    <3>2. R!Sanitize(b % 32, 1, 18) \in 1 .. 18 /\ R!Digits(R!Sanitize(b % 32, 1, 18))
      BY <3>1, Sanitized
    <3> QED BY <2>1, <3>2
  <2>3. R!WriteDate(n, b) = WithField(dt, 2, v)
    BY <1>4, <2>1 DEF R!WriteDate, WithField
  <2>4. 2 \in {1, 2, 4} /\ 2 # 4 /\ v \in Nat
    BY <2>2
  <2>5. Accepted(WithField(dt, 2, v), h24)
    BY <1>1, <2>2, <2>4, Written
  <2> QED BY <2>3, <2>5
<1>5. CASE n = 3
  <2>1. PICK v : v = R!Sanitize(b % 64, 1, 49)
    OBVIOUS
  <2>2. v \in 1 .. 49 /\ R!Digits(v)
    <3>1. 1 \in 0 .. 1 /\ 49 \in Nat /\ 1 <= 49 /\ b % 64 \in Nat
      BY <1>2
    <3>2. R!Sanitize(b % 64, 1, 49) \in 1 .. 49 /\ R!Digits(R!Sanitize(b % 64, 1, 49))
      BY <3>1, Sanitized
    <3> QED BY <2>1, <3>2
  <2>3. PICK u : u = [dt EXCEPT ![3] = v]
    OBVIOUS
  <2>4. R!WriteDate(n, b) = R!CheckEndOfMonth(u)
    BY <1>5, <2>1, <2>3 DEF R!WriteDate
  <2>5. u \in Registers /\ u[3] = v /\ \A i \in {1, 2, 4, 5, 6, 7} : u[i] = dt[i]
    BY <1>1, <2>2, <2>3 DEF Accepted, Registers
  <2>6. Counting(u, h24)
    <3>1. /\ u[1] = dt[1] /\ u[2] = dt[2] /\ u[4] = dt[4] /\ u[5] = dt[5]
          /\ u[6] = dt[6] /\ u[7] = dt[7]
      BY <2>5
    <3>2. \A i \in {1, 2, 3, 6, 7} : R!Digits(u[i])
      BY <1>1, <2>2, <2>5, <3>1 DEF Accepted
    <3> QED BY <1>1, <2>2, <2>5, <3>1, <3>2 DEF Accepted, Counting
  <2>7. Accepted(R!CheckEndOfMonth(u), h24)
    BY <1>1, <2>6, MonthEnded
  <2> QED BY <2>4, <2>7
<1>6. CASE n = 4
  <2>1. PICK v : v = R!Sanitize(b % 8, 0, 6)
    OBVIOUS
  <2>2. v \in 0 .. 6
    <3>1. 0 \in 0 .. 1 /\ 6 \in Nat /\ 0 <= 6 /\ b % 8 \in Nat
      BY <1>2
    <3>2. R!Sanitize(b % 8, 0, 6) \in 0 .. 6
      BY <3>1, Sanitized
    <3> QED BY <2>1, <3>2
  <2>3. R!WriteDate(n, b) = WithField(dt, 4, v)
    BY <1>6, <2>1 DEF R!WriteDate, WithField
  <2>4. 4 \in {1, 2, 4} /\ 4 \notin {1, 2} /\ 4 # 2 /\ v \in Nat
    BY <2>2
  <2>5. Accepted(WithField(dt, 4, v), h24)
    BY <1>1, <2>2, <2>4, Written
  <2> QED BY <2>3, <2>5
<1>7. CASE n = 5
  <2>1. PICK t \in {17, 35} : t = IF h24 THEN 35 ELSE 17
    BY <1>1
  <2>2. PICK v : v = R!Sanitize(b % 64, 0, t)
    OBVIOUS
  <2>3. v \in 0 .. t /\ R!Digits(v)
    <3>1. 0 \in 0 .. 1 /\ t \in Nat /\ 0 <= t /\ b % 64 \in Nat
      BY <1>2, <2>1
    <3>2. R!Sanitize(b % 64, 0, t) \in 0 .. t /\ R!Digits(R!Sanitize(b % 64, 0, t))
      BY <3>1, Sanitized
    <3> QED BY <2>2, <3>2
  <2>4. PICK c : c = R!HourByte(v, R!Pm(b))
    OBVIOUS
  <2>5. c \in Nat /\ R!Hour(c) = v
    <3>1. v \in 0 .. 63
      BY <2>1, <2>3
    <3>2. R!Pm(b) \in BOOLEAN
      BY HourType
    <3> QED BY <2>4, <3>1, <3>2, HourBytes
  <2>6. R!WriteDate(n, b) = WithHour(dt, c)
    BY <1>7, <2>1, <2>2, <2>4 DEF R!WriteDate, WithHour
  <2>7. Dated(dt)
    BY <1>1 DEF Accepted, Dated
  <2>8. Dated(WithHour(dt, c)) /\ WithHour(dt, c)[5] = c
    BY <2>5, <2>7, HourSet
  <2>9. Accepted(WithHour(dt, c), h24)
    BY <2>1, <2>3, <2>5, <2>8 DEF Dated, Accepted
  <2> QED BY <2>6, <2>9
<1>8. CASE n \in {6, 7}
  <2>1. PICK v : v = R!Sanitize(b % 128, 0, 89)
    OBVIOUS
  <2>2. v \in 0 .. 89 /\ R!Digits(v)
    <3>1. 0 \in 0 .. 1 /\ 89 \in Nat /\ 0 <= 89 /\ b % 128 \in Nat
      BY <1>2
    <3>2. R!Sanitize(b % 128, 0, 89) \in 0 .. 89 /\ R!Digits(R!Sanitize(b % 128, 0, 89))
      BY <3>1, Sanitized
    <3> QED BY <2>1, <3>2
  <2>3. R!WriteDate(n, b) = WithField(dt, n, v)
    BY <1>8, <2>1 DEF R!WriteDate, WithField
  <2>4. v \in Nat /\ v <= 89
    BY <2>2
  <2>5. Accepted(WithField(dt, n, v), h24)
    BY <1>1, <1>8, <2>2, <2>4, FieldSet
  <2> QED BY <2>3, <2>5
<1> QED BY <1>3, <1>4, <1>5, <1>6, <1>7, <1>8

\* The other notation of the same hour.
LEMMA NoonHour ==
  ASSUME NEW h \in Nat, R!Digits(h), R!Num(h) <= 11
  PROVE  /\ R!Noon(h) \in 0 .. 35 /\ R!Digits(R!Noon(h))
         /\ R!Num(R!Noon(h)) = R!Num(h) + 12
PROOF
<1>1. PICK a \in 0 .. 9, l \in 0 .. 9 : h = 16 * a + l /\ R!Num(h) = 10 * a + l
  BY DigitPair
<1>2. a \in 0 .. 1 /\ (a = 1 => l \in 0 .. 1)
  BY <1>1
<1>3. (h + 18) % 16 = l + 2
  <2>1. h + 18 \in Int /\ 16 \in Nat \ {0} /\ a + 1 \in Int /\ l + 2 \in Int
        /\ h + 18 = 16 * (a + 1) + (l + 2) /\ 0 <= l + 2 /\ l + 2 < 16
    BY <1>1
  <2> QED BY <2>1, DivUnique
<1>4. CASE l < 8
  <2>1. R!Noon(h) = 16 * (a + 1) + (l + 2)
    BY <1>1, <1>3, <1>4 DEF R!Noon
  <2>2. a + 1 \in 0 .. 9 /\ l + 2 \in 0 .. 9 /\ 16 * (a + 1) + (l + 2) \in 0 .. 35
        /\ 10 * (a + 1) + (l + 2) = (10 * a + l) + 12
    BY <1>2, <1>4
  <2> QED BY <1>1, <2>1, <2>2, PairDigits
<1>5. CASE l >= 8
  <2>1. R!Noon(h) = 16 * (a + 2) + (l - 8)
    BY <1>1, <1>3, <1>5 DEF R!Noon
  <2>2. a + 2 \in 0 .. 9 /\ l - 8 \in 0 .. 9 /\ 16 * (a + 2) + (l - 8) \in 0 .. 35
        /\ 10 * (a + 2) + (l - 8) = (10 * a + l) + 12
    BY <1>2, <1>5
  <2> QED BY <1>1, <2>1, <2>2, PairDigits
<1> QED BY <1>4, <1>5

LEMMA MorningHour ==
  ASSUME NEW h \in Nat, R!Digits(h), R!Num(h) >= 12, R!Num(h) <= 23
  PROVE  /\ R!Morning(h) \in 0 .. 17 /\ R!Digits(R!Morning(h))
         /\ R!Num(R!Morning(h)) = R!Num(h) - 12
PROOF
<1>1. PICK a \in 0 .. 9, l \in 0 .. 9 : h = 16 * a + l /\ R!Num(h) = 10 * a + l
  BY DigitPair
<1>2. a \in 1 .. 2 /\ (a = 1 => l >= 2) /\ (a = 2 => l <= 3)
  BY <1>1
<1>3. CASE l >= 2
  <2>0. (h - 18) % 16 = l - 2
    <3>1. h - 18 \in Int /\ 16 \in Nat \ {0} /\ a - 1 \in Int /\ l - 2 \in Int
          /\ h - 18 = 16 * (a - 1) + (l - 2) /\ 0 <= l - 2 /\ l - 2 < 16
      BY <1>1, <1>3
    <3> QED BY <3>1, DivUnique
  <2>1. R!Morning(h) = 16 * (a - 1) + (l - 2)
    BY <1>1, <1>3, <2>0 DEF R!Morning
  <2>2. a - 1 \in 0 .. 9 /\ l - 2 \in 0 .. 9 /\ 16 * (a - 1) + (l - 2) \in 0 .. 17
        /\ 10 * (a - 1) + (l - 2) = (10 * a + l) - 12
    BY <1>2, <1>3
  <2> QED BY <1>1, <2>1, <2>2, PairDigits
<1>4. CASE l < 2
  <2>3. a = 2
    BY <1>2, <1>4
  <2>0. (h - 18) % 16 = l + 14
    <3>1. h - 18 \in Int /\ 16 \in Nat \ {0} /\ a - 2 \in Int /\ l + 14 \in Int
          /\ h - 18 = 16 * (a - 2) + (l + 14) /\ 0 <= l + 14 /\ l + 14 < 16
      BY <1>1, <1>4
    <3> QED BY <3>1, DivUnique
  <2>1. R!Morning(h) = 16 * 0 + (l + 8)
    BY <1>1, <1>4, <2>0, <2>3 DEF R!Morning
  <2>2. 0 \in 0 .. 9 /\ l + 8 \in 0 .. 9 /\ 16 * 0 + (l + 8) \in 0 .. 17
        /\ 10 * 0 + (l + 8) = (10 * a + l) - 12
    BY <1>4, <2>3
  <2> QED BY <1>1, <2>1, <2>2, PairDigits
<1> QED BY <1>3, <1>4

\* status register 1: a new notation does not move the hour.
HourKept(c, full, o) ==
  /\ c \in Nat /\ R!Digits(R!Hour(c)) /\ R!Hour(c) <= (IF full THEN 35 ELSE 17)
  /\ R!Num(R!Hour(c)) + (IF ~full /\ R!Pm(c) THEN 12 ELSE 0) = o

LEMMA Renoted ==
  ASSUME NEW d, NEW full \in BOOLEAN, Accepted(d, ~full)
  PROVE  HourKept(R!HourIn(d[5], full), full, R!HourOfDay(d, ~full))
PROOF
<1>1. d[5] \in Nat
  BY DEF Accepted, Registers
<1>2. PICK g \in 0 .. 63, p \in BOOLEAN : g = R!Hour(d[5]) /\ p = R!Pm(d[5])
  BY <1>1, HourType
<1>3. R!Digits(g) /\ g <= (IF full THEN 17 ELSE 35)
  BY <1>2 DEF Accepted
<1>4. PICK n \in 0 .. 23 : n = R!Num(g) /\ (g >= 18 <=> n >= 12) /\ (g < 18 => n <= 11)
  <2>1. /\ R!Num(g) \in 0 .. 99 /\ (g >= 18 <=> R!Num(g) >= 12)
        /\ (g >= 36 <=> R!Num(g) >= 24)
    BY <1>3, DigitMarks
  <2>2. ~(g >= 36)
    BY <1>3
  <2> QED BY <2>1, <2>2
<1>5. CASE full
  <2>1. PICK x : x = IF p THEN R!Noon(g) ELSE g
    OBVIOUS
  <2>2. x \in 0 .. 35 /\ R!Digits(x) /\ R!Num(x) = n + (IF p THEN 12 ELSE 0)
    <3>1. n <= 11 /\ g \in 0 .. 35
      BY <1>3, <1>4, <1>5
    <3>2. CASE p
      <4>1. R!Noon(g) \in 0 .. 35 /\ R!Digits(R!Noon(g)) /\ R!Num(R!Noon(g)) = n + 12
        BY <1>3, <1>4, <3>1, NoonHour
      <4> QED BY <2>1, <3>2, <4>1
    <3>3. CASE ~p
      BY <1>3, <1>4, <2>1, <3>1, <3>3
    <3> QED BY <3>2, <3>3
  <2>3. R!Sanitize(x, 0, 35) = x
    <3>1. 0 \in 0 .. 1 /\ 35 \in Nat /\ 0 <= 35 /\ x \in Nat
      BY <2>2
    <3> QED BY <2>2, <3>1, Sanitized
  <2>4. PICK c : c = R!HourByte(x, p)
    OBVIOUS
  <2>5. c \in Nat /\ R!Hour(c) = x
    <3>1. x \in 0 .. 63
      BY <2>2
    <3> QED BY <2>4, <3>1, HourBytes
  <2>6. R!HourIn(d[5], full) = c
    BY <1>2, <1>5, <2>1, <2>3, <2>4 DEF R!HourIn
  <2>7. R!HourOfDay(d, ~full) = n + (IF p THEN 12 ELSE 0)
    BY <1>2, <1>4, <1>5 DEF R!HourOfDay
  <2>8. R!Num(x) + 0 = R!Num(x)
    BY <2>2
  <2>9. HourKept(c, full, n + (IF p THEN 12 ELSE 0))
    BY <1>5, <2>2, <2>5, <2>8 DEF HourKept
  <2> QED BY <2>6, <2>7, <2>9
<1>6. CASE ~full
  <2>1. PICK x : x = IF g >= 18 THEN R!Morning(g) ELSE g
    OBVIOUS
  <2>2. x \in 0 .. 17 /\ R!Digits(x) /\ R!Num(x) + (IF g >= 18 THEN 12 ELSE 0) = n
    <3>1. CASE g >= 18
      <4>1. /\ R!Morning(g) \in 0 .. 17 /\ R!Digits(R!Morning(g))
            /\ R!Num(R!Morning(g)) = n - 12
        BY <1>3, <1>4, <3>1, MorningHour
      <4> QED BY <2>1, <3>1, <4>1
    <3>2. CASE g < 18
      BY <1>3, <1>4, <2>1, <3>2
    <3> QED BY <3>1, <3>2
  <2>3. R!Sanitize(x, 0, 17) = x
    <3>1. 0 \in 0 .. 1 /\ 17 \in Nat /\ 0 <= 17 /\ x \in Nat
      BY <2>2
    <3> QED BY <2>2, <3>1, Sanitized
  <2>5. PICK c : c = R!HourByte(x, g >= 18)
    OBVIOUS
  <2>6. c \in Nat /\ R!Hour(c) = x /\ (R!Pm(c) <=> g >= 18)
    <3>1. x \in 0 .. 63 /\ (g >= 18) \in BOOLEAN
      BY <2>2
    <3> QED BY <2>5, <3>1, HourBytes
  <2>7. R!HourIn(d[5], full) = c
    BY <1>2, <1>6, <2>1, <2>3, <2>5 DEF R!HourIn
  <2>8. R!HourOfDay(d, ~full) = n
    <3>1. n + 0 = n
      OBVIOUS
    <3> QED BY <1>2, <1>4, <1>6, <3>1 DEF R!HourOfDay
  <2>9. HourKept(c, full, n)
    BY <1>6, <2>2, <2>6 DEF HourKept
  <2> QED BY <2>7, <2>8, <2>9
<1> QED BY <1>5, <1>6

LEMMA RtcStarts == R!Init => RtcInv
BY ClockAssumption DEF R!Init, RtcInv

LEMMA RtcSecond ==
  ASSUME RtcInv, R!Second
  PROVE  RtcInv' /\ SecondLater(dt, dt', R!SecondOfDay(dt, h24)) /\ h24' = h24
PROOF
<1>1. h24 \in BOOLEAN /\ Accepted(dt, h24)
  BY DEF RtcInv
<1>2. dt' = R!CountSecond(dt) /\ h24' = h24
  BY DEF R!Second
<1>3. SecondLater(dt, R!CountSecond(dt), R!SecondOfDay(dt, h24))
  BY <1>1, SecondCounted
<1>4. SecondLater(dt, dt', R!SecondOfDay(dt, h24))
  BY <1>2, <1>3, Zenon
<1>5. Accepted(dt', h24)
  BY <1>4 DEF SecondLater
<1> QED BY <1>1, <1>2, <1>4, <1>5 DEF RtcInv

LEMMA RtcNotation ==
  ASSUME RtcInv, R!Notation
  PROVE  RtcInv' /\ R!SecondOfDay(dt', h24') = R!SecondOfDay(dt, h24)
PROOF
<1>1. h24 \in BOOLEAN /\ Accepted(dt, h24)
  BY DEF RtcInv
<1>2. h24' \in BOOLEAN
  BY DEF R!Notation
<1>3. CASE h24' = h24
  <2>1. dt' = dt
    BY <1>3 DEF R!Notation
  <2> QED BY <1>1, <1>3, <2>1, Zenon DEF RtcInv
<1>4. CASE h24' # h24
  <2>1. dt' = WithHour(dt, R!HourIn(dt[5], h24'))
    BY <1>4 DEF R!Notation, WithHour
  <2>2. PICK full \in BOOLEAN : full = h24' /\ (~full) = h24
    BY <1>1, <1>2, <1>4
  <2>3. HourKept(R!HourIn(dt[5], full), full, R!HourOfDay(dt, ~full))
    <3>1. Accepted(dt, ~full)
      BY <1>1, <2>2, Zenon
    <3> QED BY <3>1, Renoted
  <2>4. PICK c : c = R!HourIn(dt[5], full)
    OBVIOUS
  <2>5. HourKept(c, full, R!HourOfDay(dt, h24))
    BY <2>2, <2>3, <2>4, Zenon
  <2>6. PICK u : u = dt' /\ u = WithHour(dt, c)
    BY <2>1, <2>2, <2>4, Zenon
  <2>7. c \in Nat /\ Dated(dt)
    BY <1>1, <2>5 DEF HourKept, Accepted, Dated
  <2>8. Dated(u) /\ u[5] = c /\ \A k \in {1, 2, 3, 4, 6, 7} : u[k] = dt[k]
    <3>1. /\ Dated(WithHour(dt, c)) /\ WithHour(dt, c)[5] = c
          /\ \A k \in {1, 2, 3, 4, 6, 7} : WithHour(dt, c)[k] = dt[k]
      BY <2>7, HourSet
    <3>2. u = WithHour(dt, c)
      BY <2>6
    <3> QED BY <3>1, <3>2, Zenon
  <2>9. Accepted(u, full)
    BY <2>5, <2>8 DEF HourKept, Dated, Accepted
  <2>10. R!HourOfDay(u, full) = R!HourOfDay(dt, h24)
    BY <2>5, <2>8 DEF HourKept, R!HourOfDay
  <2>11. u[6] = dt[6] /\ u[7] = dt[7]
    BY <2>8
  <2>12. R!SecondOfDay(u, full) = R!SecondOfDay(dt, h24)
    BY <2>10, <2>11 DEF R!SecondOfDay
  <2>13. Accepted(dt', h24') /\ R!SecondOfDay(dt', h24') = R!SecondOfDay(dt, h24)
    BY <2>2, <2>6, <2>9, <2>12, Zenon
  <2> QED BY <1>2, <2>13, Zenon DEF RtcInv
<1> QED BY <1>3, <1>4

LEMMA RtcKept == RtcInv /\ (R!Next \/ UNCHANGED rVars) => RtcInv'
PROOF
<1> SUFFICES ASSUME RtcInv, R!Next \/ UNCHANGED rVars PROVE RtcInv'
  OBVIOUS
<1>1. h24 \in BOOLEAN /\ Accepted(dt, h24)
  BY DEF RtcInv
<1>2. CASE R!Second
  BY <1>2, RtcSecond
<1>3. CASE R!DateArgument
  <2>0. PICK n \in 1 .. 7 : (\E b \in DateBytes[n] : dt' = R!WriteDate(n, b)) /\ h24' = h24
    <3>1. PICK n : /\ n = IF port.cmd = "date" THEN port.pos ELSE port.pos + 4
                   /\ \E b \in DateBytes[n] : dt' = R!WriteDate(n, b)
      BY <1>3 DEF R!DateArgument
    <3>2. n \in 1 .. 7 /\ h24' = h24
      BY <1>3, <3>1 DEF R!DateArgument
    <3> QED BY <3>1, <3>2
  <2>1. PICK b \in DateBytes[n] : dt' = R!WriteDate(n, b) /\ h24' = h24
    BY <2>0
  <2>2. b \in Nat
    BY <2>1, ClockAssumption
  <2>3. Accepted(R!WriteDate(n, b), h24)
    BY <2>2, DateWritten
  <2>4. Accepted(dt', h24')
    BY <2>1, <2>3, Zenon
  <2> QED BY <1>1, <2>1, <2>4 DEF RtcInv
<1>4. CASE R!ResetState
  <2>1. dt' = <<0, 1, 1, 0, 0, 0, 0>> /\ h24' \in BOOLEAN
    BY <1>4 DEF R!ResetState
  <2>2. \A i \in {0, 1} : R!Digits(i)
    BY SmallDigits
  <2>3. R!Hour(0) = 0
    BY DEF R!Hour
  <2>4. Accepted(dt', h24')
    BY <2>1, <2>2, <2>3 DEF Accepted, Registers
  <2> QED BY <2>1, <2>4 DEF RtcInv
<1>5. CASE R!Notation
  BY <1>5, RtcNotation
<1>6. CASE R!Tick \/ R!Command \/ R!Deselect \/ R!Select \/ R!AlarmArgument \/ UNCHANGED rVars
  <2>1. UNCHANGED <<dt, h24>>
    BY <1>6 DEF R!Tick, R!Command, R!Deselect, R!Select, R!AlarmArgument, rVars
  <2> QED BY <1>1, <2>1, Zenon DEF RtcInv
<1> QED BY <1>2, <1>3, <1>4, <1>5, <1>6 DEF R!Next

LEMMA RtcGives == RtcInv => R!RtcAccepted /\ R!RtcStep
PROOF
<1> SUFFICES ASSUME RtcInv PROVE R!RtcAccepted /\ R!RtcStep
  OBVIOUS
<1>1. R!RtcAccepted
  BY DEF RtcInv, Accepted, R!RtcAccepted
<1>2. ASSUME R!Second, dt[3] <= R!DaysInMonth(dt)
      PROVE  LET over == R!SecondOfDay(dt, h24) = 86399
             IN  /\ R!SecondOfDay(dt', h24) = (R!SecondOfDay(dt, h24) + 1) % 86400
                 /\ R!Days(dt') = (R!Days(dt) + (IF over THEN 1 ELSE 0)) % R!Century
                 /\ dt'[4] = (dt[4] + (IF over THEN 1 ELSE 0)) % 7
  <2>1. PICK s : s = R!SecondOfDay(dt, h24)
    OBVIOUS
  <2>2. SecondLater(dt, dt', s) /\ RtcInv' /\ h24' = h24
    BY <1>2, <2>1, RtcSecond
  <2>3. R!SecondOfDay(dt', h24) = SecondAfter(s)
    BY <2>2 DEF SecondLater
  <2>4. (Midnight(s) => Later(dt, dt', TRUE)) /\ (~Midnight(s) => Later(dt, dt', FALSE))
    BY <2>2 DEF SecondLater
  <2> HIDE DEF R!Century
  <2>5. /\ R!Days(dt') = (R!Days(dt) + (IF Midnight(s) THEN 1 ELSE 0)) % R!Century
        /\ dt'[4] = (dt[4] + (IF Midnight(s) THEN 1 ELSE 0)) % 7
    <3>1. CASE Midnight(s)
      BY <1>2, <2>4, <3>1 DEF Later
    <3>2. CASE ~Midnight(s)
      BY <1>2, <2>4, <3>2 DEF Later
    <3> QED BY <3>1, <3>2
  <2> QED BY <2>1, <2>3, <2>5 DEF Midnight, SecondAfter
<1>3. R!Notation => R!SecondOfDay(dt', h24') = R!SecondOfDay(dt, h24)
  BY RtcNotation
<1> QED BY <1>1, <1>2, <1>3 DEF R!RtcStep

-----------------------------------------------------------------------------
(***************************************************************************)
(* The devices side by side.                                               *)
(***************************************************************************)

\* What holds of the timers, the math unit, the raster, the two stores and the
\* clock, whichever part runs: the others keep what they have.
DevicesInv == /\ TimersInv /\ DivInv /\ RootInv /\ RasterInv /\ FlashInv /\ BackupInv
              /\ RtcInv

LEMMA DevicesStart == DevicesInit => DevicesInv
PROOF
<1> SUFFICES ASSUME DevicesInit PROVE DevicesInv
  OBVIOUS
<1>1. T!Init /\ M!Init /\ D!Init /\ S!Init /\ B!Init /\ R!Init
  BY DEF DevicesInit, Init
<1> QED BY <1>1, TimersStart, DivStarts, RootStarts, RasterStarts, FlashStarts, BackupStarts,
        RtcStarts DEF DevicesInv

\* A step of the devices is a step or a stutter of each of them.
LEMMA DevicesStep ==
  ASSUME [Next]_vars
  PROVE  /\ M!DivNext \/ UNCHANGED div
         /\ M!RootNext \/ UNCHANGED root
         /\ D!Next \/ UNCHANGED dVars
         /\ S!Next \/ UNCHANGED sVars
         /\ B!Next \/ UNCHANGED bVars
         /\ T!Next \/ UNCHANGED tVars
         /\ R!Next \/ UNCHANGED rVars
PROOF
<1>1. M!DivNext => UNCHANGED root
  BY DEF M!DivNext, M!FinishDiv, M!WriteDiv
<1>2. M!RootNext => UNCHANGED div
  BY DEF M!RootNext, M!FinishSqrt, M!WriteSqrt
<1>3. UNCHANGED mVars \/ M!DivNext \/ M!RootNext
  BY DEF Next, vars
<1>4. D!Next \/ UNCHANGED dVars
  BY DEF Next, vars
<1>5. S!Next \/ UNCHANGED sVars
  BY DEF Next, vars
<1>6. B!Next \/ UNCHANGED bVars
  BY DEF Next, vars
<1>7. (M!DivNext \/ UNCHANGED div) /\ (M!RootNext \/ UNCHANGED root)
  BY <1>1, <1>2, <1>3 DEF mVars
<1>8. T!Next \/ UNCHANGED tVars
  BY DEF Next, vars
<1>9. R!Next \/ UNCHANGED rVars
  BY DEF Next, vars
<1> QED BY <1>4, <1>5, <1>6, <1>7, <1>8, <1>9

LEMMA DevicesKept == DevicesInv /\ [Next]_vars => DevicesInv'
PROOF
<1> SUFFICES ASSUME DevicesInv, [Next]_vars PROVE DevicesInv'
  OBVIOUS
<1> USE DEF DevicesInv
<1>1. DivInv' /\ RootInv'
  BY DevicesStep, DivKept, RootKept
<1>2. RasterInv'
  BY DevicesStep, RasterKept
<1>3. FlashInv'
  BY DevicesStep, FlashKept
<1>4. BackupInv'
  BY DevicesStep, BackupKept
<1>5. TimersInv'
  BY DevicesStep, TimersKept
<1>6. RtcInv'
  BY DevicesStep, RtcKept
<1> QED BY <1>1, <1>2, <1>3, <1>4, <1>5, <1>6

LEMMA DevicesAlways == Spec => []DevicesInv
PROOF BY DevicesStart, DevicesKept, PTL DEF Spec

\* For every width of counter, number of timers, prescaler and gap, a bank caught
\* up in one go is the bank stepped every cycle, and the planned deadline is the
\* next overflow (nds_tick_timers, nds_next_timer_overflow).
THEOREM TimersAlwaysExact == Spec => []TimersExact
PROOF
<1>1. DevicesInv => TimersExact
  BY TimersGives DEF DevicesInv, TimersExact
<1> QED BY <1>1, DevicesAlways, PTL

\* For every width of word, a result shown by a divider or root unit that is
\* not busy belongs to the operands it shows (finish_div, finish_sqrt).
THEOREM MathAlwaysExact == Spec => []MathExact
PROOF
<1>1. DevicesInv => MathExact
  BY DivGives, RootGives DEF DevicesInv, MathExact
<1> QED BY <1>1, DevicesAlways, PTL

\* For every number of lines and every value written to VCOUNT, the damage ends
\* with the frame (nds_tick_display).
THEOREM RasterAlwaysRecovers == Spec => []RasterRecovers
PROOF
<1>1. DevicesInv => RasterRecovers
  BY RasterGives DEF DevicesInv, RasterRecovers
<1> QED BY <1>1, DevicesAlways, PTL

\* For every kind and size of chip and every size of firmware, a file holds
\* what the guest stored or a flush is owed (cart_sram_spi_write, fw_release).
THEOREM StorageAlwaysDurable == Spec => []StorageDurable
PROOF
<1>1. DevicesInv => StorageDurable
  BY FlashGives, BackupGives DEF DevicesInv, StorageDurable
<1> QED BY <1>1, DevicesAlways, PTL

\* From every date a savestate accepts and for every byte the guest writes, the
\* registers stay in its range, counting a second of a real date moves the
\* calendar by exactly that second, and a change of notation does not move the
\* time (rtc_count_second, rtc_write_datetime).
THEOREM RtcAlwaysExact == Spec => RtcExact
PROOF
<1>1. DevicesInv => R!RtcAccepted
  BY RtcGives DEF DevicesInv
<1>2. DevicesInv => [R!RtcStep]_(R!vars)
  BY RtcGives DEF DevicesInv
<1> QED BY <1>1, <1>2, DevicesAlways, PTL DEF RtcExact, R!RtcExact
=============================================================================
