------------------------------ MODULE DmaBurst -------------------------------
(* What a DMA unit costs, and how far one request carries a channel: the       *)
(* timing of nds_dma_run (runner/src/io.cpp), with the registers of both CPUs  *)
(* that set the wait states, cut into the slices the scheduler hands out, and  *)
(* the level of the geometry FIFO that requests the GXFIFO start mode.         *)
(*                                                                             *)
(* An address is the region it falls into and, in main RAM, its place in a     *)
(* 32-byte line.  Cycles are bus cycles: the ARM9 counts each one twice.       *)
EXTENDS Integers, FiniteSets

CONSTANTS
    Transfers,   \* [cpu, ch, width, src, dst, srcInc, dstInc, count, gx]
    ExmemValues, \* EXMEMCNT values the guest writes: records of its fields
    WaitValues,  \* WIFIWAITCNT values, likewise
    Slices,      \* bus cycles a call of nds_dma_run is given
    kChunk,      \* 112: units per GXFIFO request
    Half, Depth, \* 128 and 256: the FIFO's request level and its size
    Drains,      \* entries the geometry engine takes between two slices
    MaxWrites,   \* bound: register writes
    IndexTop     \* 2^16: burst_index is a uint16_t

VARIABLES
    exmem,     \* g_exmemcnt, per CPU: [ramN, romN, romS, slot, card]
    wait,      \* g_wifiwaitcnt: [n0, s0, n1, s1]
    power,     \* g_powercontrol7 bit 1
    t,         \* the transfer that was programmed
    d,         \* the channel: [on, running, remaining, index, first, line]
    run,       \* the call of nds_dma_run under way: {} or {[room, left]}
    level,     \* entries in the geometry FIFO
    stall,     \* entries in its overflow queue (g_gxfifo_stall when not 0)
    charged,   \* bus cycles charged for the units of this burst
    w,
    given,     \* history: what each CPU last stored, field by field
    k,         \* history: units since dma_start
    due,       \* history: what those units cost by the programmed waits
    requested  \* history: units since the FIFO last asked

registers == <<exmem, wait, power, given, w>>
burst == <<t, d, run, level, stall, charged, k, due, requested>>
vars == <<registers, burst>>

Cpus == {0, 1}
Private == {"ramN", "romN", "romS"}
Shared == {"slot", "card"}

(***************************************************************************)
(* Registers.                                                              *)
(***************************************************************************)

\* The fields a write of this width reaches.
Lanes(width) ==
    CASE width = "low" -> {"ramN", "romN", "romS", "slot"}
      [] width = "high" -> {"card"}
      [] width = "half" -> Private \union Shared

Merged(old, v, fields) ==
    [f \in DOMAIN old |-> IF f \in fields THEN v[f] ELSE old[f]]

Given(cpu, v, fields) ==
    [given EXCEPT !.own[cpu] = Merged(@, v, fields \ Shared),
                  !.shared = IF cpu = 0 THEN Merged(@, v, fields \ Private)
                             ELSE @]

\* EXMEMCNT: the ARM9's upper bits are everyone's, the ARM7 keeps its waits.
WriteExmem(cpu, width, v) ==
    LET merged == Merged(exmem[cpu], v, Lanes(width))
    IN  /\ w < MaxWrites /\ run = {}
        /\ w' = w + 1
        /\ exmem' = IF cpu = 0
                    THEN [exmem EXCEPT ![0] = merged,
                                       ![1] = Merged(@, merged, Shared)]
                    ELSE [exmem EXCEPT ![1] = Merged(@, merged, Private)]
        /\ given' = Given(cpu, v, Lanes(width))
        /\ UNCHANGED <<wait, power, burst>>

\* WIFIWAITCNT: the ARM7's, and only while Wi-Fi is powered.
WriteWait(v) ==
    /\ w < MaxWrites /\ run = {}
    /\ w' = w + 1
    /\ power
    /\ wait' = v
    /\ UNCHANGED <<exmem, power, given, burst>>

\* POWCNT2, Wi-Fi power.
WritePower ==
    /\ w < MaxWrites /\ run = {}
    /\ w' = w + 1
    /\ power' = ~power
    /\ UNCHANGED <<exmem, wait, given, burst>>

(***************************************************************************)
(* Costs.                                                                  *)
(***************************************************************************)

First(i) == <<10, 8, 6, 18>>[i + 1]

Bus(n, s, bus) == [n |-> n, s |-> s, bus |-> bus]

\* dma_timing of a 16-bit access; e is the CPU's EXMEMCNT, slot the owner
\* of the GBA slot as the ARM9's copy has it.
Timing16(cpu, region, e, slot) ==
    LET owner == slot = (cpu = 1)
        radio == cpu = 1 /\ power
    IN  CASE region = "Main" -> Bus(8, 1, 16)
          [] region \in {"Palette", "Vram"} -> Bus(1, 1, 16)
          [] region = "Wifi0" /\ radio ->
                Bus(First(wait.n0), IF wait.s0 THEN 4 ELSE 6, 16)
          [] region = "Wifi1" /\ radio ->
                Bus(First(wait.n1), IF wait.s1 THEN 4 ELSE 10, 16)
          [] region = "GbaRom" /\ owner ->
                Bus(First(e.romN), IF e.romS THEN 4 ELSE 6, 16)
          [] region = "GbaRam" /\ owner -> Bus(First(e.ramN), First(e.ramN), 32)
          [] OTHER -> Bus(1, 1, 32)

\* A word on a 16-bit bus is two accesses.
Timing(cpu, region, width, e, slot) ==
    LET b == Timing16(cpu, region, e, slot)
    IN  IF width = 4 /\ b.bus = 16 THEN Bus(b.n + b.s, b.s + b.s, 16) ELSE b

\* The region the cost depends on: an aperture that answers nobody is void,
\* unpowered radio is plain I/O.
Region(cpu, region, slot) ==
    CASE region \in {"Wifi0", "Wifi1"} ->
            IF cpu = 1 /\ power THEN "Wifi" ELSE "Io"
      [] region \in {"GbaRom", "GbaRam"} ->
            IF slot = (cpu = 1) THEN region ELSE "Void"
      [] OTHER -> region

Every(p, period, cost, next, steady) ==
    IF p % period = 0 THEN cost
    ELSE IF p = 1 \/ (p > 1 /\ (p - 1) % period = 0) THEN next ELSE steady

\* mram_read16, mram_read32, mram_write16, mram_write32: the main-RAM bursts.
Read16(table, i) ==
    LET p == i % 240
        q == i % 96
    IN  CASE table = 0 -> IF p \in {0, 119, 238} THEN 7
                          ELSE IF p \in {1, 120, 239} THEN 3 ELSE 2
          [] table = 1 -> IF q = 0 THEN 8 ELSE IF q = 1 THEN 6 ELSE 5
          [] table = 2 -> IF p = 0 THEN 10 ELSE Every(p, 34, 12, 8, 7)

Read32(table, i) ==
    CASE table = 0 -> LET p == i % 80
                      IN  IF p \in {0, 79} THEN 9 ELSE IF p = 1 THEN 4 ELSE 3
      [] table = 1 -> LET p == i % 118
                      IN  IF p = 0 THEN 9 ELSE IF p = 1 THEN 3 ELSE 2
      [] table = 2 -> LET p == i % 136
                      IN  IF p = 0 THEN 14 ELSE Every(p, 27, 13, 10, 9)
      [] table = 3 -> LET p == i % 96
                      IN  IF p = 0 THEN 18 ELSE Every(p, 19, 17, 14, 13)

Write16(table, i) ==
    IF i % (<<120, 48, 35>>[table + 1]) = 0
    THEN <<8, 10, 9>>[table + 1] ELSE <<2, 5, 7>>[table + 1]

Write32(table, i) ==
    IF i % (<<60, 80, 24, 18>>[table + 1]) = 0
    THEN <<9, 9, 15, 16>>[table + 1] ELSE <<4, 3, 10, 14>>[table + 1]

\* Which burst table the other side of the transfer selects.
Table(width, region, b) ==
    LET slow == region \in {"GbaRom", "Wifi"}
    IN  IF width = 4 THEN IF slow THEN IF b.s = 8 THEN 2 ELSE 3
                          ELSE IF b.n = 2 THEN 0 ELSE 1
        ELSE IF ~slow THEN 0 ELSE IF b.s = 4 THEN 1 ELSE 2

\* dma_unit_cycles for the i-th unit of a burst.
Cost(x, e, slot, i, first, line) ==
    LET src == Timing(x.cpu, x.src, x.width, e, slot)
        dst == Timing(x.cpu, x.dst, x.width, e, slot)
        from == Region(x.cpu, x.src, slot)
        to == Region(x.cpu, x.dst, slot)
        N(b) == IF first THEN b.n ELSE b.s
        word == x.width = 4
    IN  CASE from = "Main" /\ to = "Main" -> IF word THEN 18 ELSE 16
          [] to = "Main" /\ from # "Main" /\ x.dstInc > 0 ->
                IF word THEN Write32(Table(4, from, src), i)
                ELSE Write16(Table(2, from, src), i)
          [] from = "Main" /\ to # "Main" /\ x.srcInc > 0 ->
                IF word THEN Read32(Table(4, to, dst), i)
                ELSE Read16(Table(2, to, dst), i)
          [] from = "Main" /\ to # "Main" /\ x.srcInc <= 0 ->
                N(dst) + (IF ~word THEN IF line = 30 THEN 7 ELSE 8
                          ELSE IF line # 28 THEN 9
                          ELSE IF dst.n = 2 THEN 7 ELSE 8)
          [] to = "Main" /\ from # "Main" /\ x.dstInc <= 0 ->
                N(src) + (IF word THEN 8 ELSE 7)
          [] from # "Main" /\ to # "Main" ->
                IF from = to /\ from # "Void" THEN src.n + dst.n + 1
                ELSE N(src) + N(dst)

(***************************************************************************)
(* The channel.                                                            *)
(***************************************************************************)

Stopped == [on |-> FALSE, running |-> FALSE, progress |-> FALSE,
            remaining |-> 0, index |-> 0, first |-> FALSE, line |-> 0]

Init ==
    /\ exmem = [c \in Cpus |-> [ramN |-> 0, romN |-> 0, romS |-> FALSE,
                                slot |-> FALSE, card |-> FALSE]]
    /\ wait = [n0 |-> 0, s0 |-> FALSE, n1 |-> 0, s1 |-> FALSE]
    /\ power = FALSE
    /\ t \in Transfers
    /\ d = Stopped /\ run = {}
    /\ level = 0 /\ stall = 0 /\ charged = 0 /\ w = 0
    /\ given = [own |-> exmem, shared |-> exmem[0]]
    /\ k = 0 /\ due = 0 /\ requested = 0

\* dma_start: a request begins a burst; the transaction reloads the count.
Begun(x) ==
    IF x.running \/ ~x.on THEN x
    ELSE [x EXCEPT !.running = TRUE, !.progress = TRUE,
                   !.remaining = IF x.progress THEN @ ELSE t.count,
                   !.index = 0, !.first = TRUE]

\* What a request does to the histories when it begins a burst.
Restarts(x) ==
    LET begins == x.on /\ ~x.running
    IN  /\ charged' = IF begins THEN 0 ELSE charged
        /\ due' = IF begins THEN 0 ELSE due
        /\ k' = IF begins THEN 0 ELSE k
        /\ requested' = IF begins THEN 0 ELSE requested

\* nds_gpu3d_check_fifo_dma (external): the FIFO asks below half.
Asks(x, lv) == x.on /\ t.gx /\ lv < Half

\* dma_write_count with the enable bit.
Program ==
    /\ ~d.on /\ ~d.progress /\ charged = 0
    /\ LET x == [d EXCEPT !.on = TRUE, !.line = IF t.width = 4 THEN 24 ELSE 28]
       IN  IF ~t.gx \/ Asks(x, level)
           THEN d' = Begun(x) /\ Restarts(x)
           ELSE d' = x /\ UNCHANGED <<charged, due, k, requested>>
    /\ UNCHANGED <<t, run, level, stall, registers>>

Moved(line, inc) == (line + inc * t.width) % 32

EnterFresh(slice) ==
    /\ d.running /\ run = {}
    /\ ~(t.cpu = 0 /\ stall > 0)
    /\ run' = {[room |-> slice, left |-> IF t.gx THEN kChunk ELSE t.count + 1]}
    /\ d' = [d EXCEPT !.index = 0]
    /\ UNCHANGED <<t, level, stall, charged, k, due, requested, registers>>

\* A call of nds_dma_run.  Each call counts the units of a GXFIFO request
\* anew; a stalled ARM9 is not given a slice (scheduler.cpp).
Enter(slice) ==
    /\ d.running /\ run = {}
    /\ ~(t.cpu = 0 /\ stall > 0)
    /\ run' = {[room |-> slice, left |-> IF t.gx THEN kChunk ELSE t.count + 1]}
    /\ UNCHANGED <<t, d, level, stall, charged, k, due, requested, registers>>

\* The inner loop stops here.
Ends(x) ==
    \/ d.remaining = 0
    \/ x.room <= 0
    \/ x.left = 0
    \/ stall > 0 /\ t.cpu = 0 /\ t.ch > 0

\* One unit: charge it, move it, and for the GXFIFO put it in the FIFO or,
\* when that is full, in the overflow queue.
Unit ==
    LET c == Cost(t, exmem[t.cpu], exmem[0].slot, d.index, d.first, d.line)
        e == [given.own[t.cpu] EXCEPT !.slot = given.shared.slot]
    IN  \E x \in run :
        /\ ~Ends(x)
        /\ run' = {[room |-> x.room - c, left |-> x.left - 1]}
        /\ d' = [d EXCEPT !.index = (@ + 1) % IndexTop, !.first = FALSE,
                          !.remaining = @ - 1, !.line = Moved(@, t.srcInc)]
        /\ charged' = charged + c
        /\ due' = due + Cost(t, e, given.shared.slot, k, k = 0, d.line)
        /\ k' = k + 1
        /\ requested' = requested + 1
        /\ level' = IF t.gx /\ level < Depth THEN level + 1 ELSE level
        /\ stall' = IF t.gx /\ level >= Depth THEN stall + 1 ELSE stall
        /\ UNCHANGED <<t, registers>>

\* The call ends: the transaction is complete, or a GXFIFO chunk is and the
\* FIFO is asked for the next, or the slice is over and the channel goes on.
Leave ==
    \E x \in run :
        LET done == d.remaining = 0
            chunk == ~done /\ t.gx /\ x.left = 0
            c == [d EXCEPT !.running = ~done /\ ~chunk, !.progress = ~done,
                           !.on = ~done]
        IN  /\ Ends(x)
            /\ run' = {}
            /\ IF chunk /\ Asks(c, level)
               THEN d' = Begun(c) /\ Restarts(c)
               ELSE d' = c /\ UNCHANGED <<charged, due, k, requested>>
            /\ UNCHANGED <<t, level, stall, registers>>

\* GPU3D::Run (external): the engine takes entries, the overflow follows,
\* and the FIFO asks again when it is below half.
Drain(n) ==
    LET held == level + stall
        left == IF held > n THEN held - n ELSE 0
        lv == IF left > Depth THEN Depth ELSE left
    IN  /\ t.gx /\ held > 0 /\ run = {}
        /\ level' = lv
        /\ stall' = left - lv
        /\ IF Asks(d, lv) THEN d' = Begun(d) /\ Restarts(d)
           ELSE UNCHANGED <<d, charged, due, k, requested>>
        /\ UNCHANGED <<t, run, registers>>

Next ==
    \/ Program
    \/ \E slice \in Slices : Enter(slice)
    \/ Unit
    \/ Leave
    \/ \E n \in Drains : Drain(n)
    \/ \E cpu \in Cpus, width \in {"low", "high", "half"}, v \in ExmemValues :
          WriteExmem(cpu, width, v)
    \/ \E v \in WaitValues : WriteWait(v)
    \/ WritePower

Spec == Init /\ [][Next]_vars

(***************************************************************************)
(* Properties.                                                             *)
(***************************************************************************)

\* A burst costs what its units cost: cutting it into slices changes nothing,
\* and the waits are the ones its own CPU stored, whatever the other stores
\* into the shared register; both copies agree on the shared bits.
BurstCostExact ==
    /\ charged = due
    /\ \A f \in Shared : exmem[1][f] = exmem[0][f]

\* "GXFIFO: at most 112 units per FIFO-level request": a request carries a
\* channel no further.
GxRequestBounded == requested <= kChunk
==============================================================================
