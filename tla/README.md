# A TLA+ model of ndsrecomp

ndsrecomp recompiles Nintendo DS firmware and cartridges to native code
(`src/recompiler`) and runs the result with the machine around it
(`src/runner/src`).  This directory models the runner, and the part of the
recompiler that decides what is code: two guest CPUs on one host thread, a cycle
deadline that lets generated code skip every check, devices that are caught up
instead of stepped, derived state that is refreshed by hand, files that must
survive a crash, and host threads that work while the guest goes on.

Paths below are relative to `src/runner/src` unless they start with `src/`.
`PROJECT.json` gives, for every definition, the lines it translates; small
helpers whose lines lie inside another entry's are left out of its map.

1. [Inventory](#1-inventory) 2. [Modules and the code](#2-modules-and-the-code)
3. [Runs](#3-runs) 4. [Bounds](#4-bounds-and-why-they-are-enough)
5. [Fairness](#5-fairness) 6. [Proofs](#6-proofs)
7. [Where code and words disagree](#7-where-the-code-and-its-words-disagree)
8. [Not modelled](#8-not-modelled) 9. [Plan](#9-plan)

## 1. Inventory

| part | state | operations | interacts with |
|---|---|---|---|
| dual-CPU scheduler, `scheduler.cpp` | system time, a slot per CPU, which CPU is loaded | round, slice, context switch, idle fast-forward, savestate hooks | runtime, devices, debug server |
| runtime, `runtime_arm.cpp` | live CPU, cycle counters, fast limit, yield hint, guard stack, dispatch caches | tick, poll, interrupt entry, dispatch, code-write notification | every generated instruction |
| bus, CP15, VRAM (`bus.cpp`, `cp15.cpp`, `vram.cpp`) | maps, control registers, banks, and fast copies of them | accesses, remaps | CPUs, DMA, renderer |
| devices, `io.cpp`, `cart_backup.cpp` | registers, counters, event times, chip contents | accesses, events at rendezvous | scheduler (deadlines), CPUs (stalls, interrupts), files |
| 2D renderer, `gpu2d.cpp` | line ring, staged captures, latches, a published frame | submit, worker loop, drain, fences, composite | VRAM, worker threads, presenters |
| 3D front end, `gpu3d.cpp`, `melonds_compute/` | renderer, readback state, governor stage | rasterise, read back, switch, restore | 2D renderer, GL, governor |
| sound, `spu.cpp` | channels with FIFOs, capture units, output ring | mix, refill, capture | memory, frontend |
| live overlay, `live_overlay.cpp` | filed pages, jobs, shards, banks | poll, prepare, maintain, compile, tear down | dispatch, compiler processes, cache directory |
| persistence, `savestate*.cpp`, `battery_save.cpp`, `firmware_state.cpp` | slots, transactions, files | save, load, roll back, replace files | every owner of core state, file system |
| network, `wifi_net.cpp`, `net/`, `network_savestate_guard.cpp` | packet queues, Wi-Fi device shim, event ring, captures, guard word | send, receive, worker loop, replay, verdict | host sockets, savestates |
| frontend, `frontend.cpp`, `relative_mouse_touch.cpp`, `perf_governor.cpp` | input layers, audio stream, blend cache, governor windows | event loop, pacing, presentation | everything |
| debug server, `debug_server.cpp` | one request slot | request, pump, time out, stop | frontend thread, scheduler breaks |
| coverage store, `coverage_manifest.cpp` | page images, roots, calls | capture, rotate, flush | interpreter, live overlay |
| function finder, `src/recompiler/finder` | worklist, bodies, constant tracker | discover | build time |

What is hard in this program, and the property that would notice it, is the list
`hazards` of `PROJECT.json`, forty entries, each at its line.  In short:

* *one live context for two CPUs* and two clock domains: `ContextIntegrity`,
  `TimelinesTogether`;
* *skipped work*: idle time (`FastForwardExact`, `FastForwardPrecondition`),
  checks (`NoServiceMissed`, `NoStaleCode`), stepping (`TimersExact`,
  `MathExact`, `RtcExact`), lookups (`EntryProved`);
* *derived copies*: `MirrorsExact`, `VramExact`, `FramesFresh`;
* *edges that must not be lost*: `RecvEdgeRequested`, `DrainEdgeRequested`;
* *rendering behind the guest's back*: `AsInline`, `MemoryStill`,
  `ClaimsAccounted`, `BandsExact`, and drains that return (`DrainReturns`);
* *hand-overs between threads*: `HandoffsExact`, `NothingLost`, `OneAtATime`,
  and waits that end (`WaitsEnd`, `ShutdownReturns`, `WithheldWorkIsFiled`);
* *files and transactions*: `SavestateExact`, `BatterySafe`, `StorageDurable`,
  `CoverageExact`;
* *many implementations of one thing*: `PixelsExact`, `TransfersExact`,
  `SpuExact`, `NetworkExact`, `FinderExact`, `FrontendExact`.

## 2. Modules and the code

Every handler, step of a thread or operation is one action, with the code's
guards, early returns and trailing work; data is cut down to what the properties
tell apart.  Where several components share a run, the MC module instantiates
them side by side and `part` says which one moves in a behaviour, so that the
state spaces add up instead of multiplying.  An operator defined just before a
mapped one with the same parameters and a name that says what is wrong with it
(`TimerGridRoundedDown`, `TopIgnoringStop`) is a plausible bug, used only to see that
a property notices it.

**Scheduler.**  `Rendezvous` is the arithmetic that picks the next rendezvous.
`IdleFastForward` runs the incremental scheduler from the instant a jump would be
taken and compares (the jump's theorem is in `MCScheduler`).  `Scheduler` extends
`Rendezvous` with one variable per global of `scheduler.cpp` and follows
`scheduler_run_round` through `phase`: plan, ARM9 slice, ticks, ARM7 catch-up,
devices; `Exec*` is one action per kind of instruction the scheduler reacts to
(plain, schedules an event, arms a timer, HALT, starts a DMA, reaches a break);
`SaveAndRestore` is a savestate between rounds.  `truth` is a history variable:
what each CPU's context should be.

**Runtime.**  `CycleDeadline` executes one slice instruction by instruction
(`at`: poll, body, tick, branch) with one action per site that makes the slow
path's conditions true; levels of the host stack are guarded functions or the
Tier-3 loop.  `DispatchCache` is the entry to code: ranked rows over pages, the
direct-mapped cache, link slots, inlined leaves, under stores, remaps, epochs
that wrap, and loads; its theorem is in `Machine_proofs`.  `MemoryMap` is CP15,
TCMs, WRAMCNT and what is derived.

**Devices.**  `IpcChannel` promises two bounded queues, `IpcFifo` is the code.
`Timers` runs the caught-up bank beside the hardware's, stepped each cycle.
`MathUnit`, `Display`, `Rtc`, `Spi`, `CartBackup` follow their registers (`Spi`
with the reset and boot that put the start-up firmware back),
`Gamecard` the block transfer with its DMA and the KEY1 modes, `DmaBurst` the
unit costs and the slicing of a burst.

**Video and sound.**  `RenderPool` has the ring's atomics, the staged captures
and, for each thread, a stack of activations of `drain_pool` and
`render_line_job`, because a drain renders and rendering may drain; a bank's
content is the name of its last writer, and `ref` is what inline rendering would
have left.  `BandPool` has one action per atomic access of
`composite_adaptive_frame` and `band_worker_main`.  `LineLatch` is a frame from
latch to presentation, `Compositor` the implementations of a pixel as symbolic
terms, `TileDecode` the decoding loops, `VramMap` the nine banks,
`FrameReadback` the 3D frame's way back to the CPU, `Spu` a channel and a capture
unit, whose registers may be written while they run (`changes`, `grown`).

**Host.**  `LiveOverlay` is the poll in the pieces other threads can observe,
the two workers, the compiler children and the teardown.  `Savestate` is
transactions and slot files under crashes and power cuts, `SavestateCodec` the
two layouts of every section and the container under damage, `BatteryFile` the
two files that outlive the process.  `WifiBridge` is the emulation thread and the
worker around two queues and a dispatcher that discards (both threads take frames
from a packet driver), `WifiDevice` the shim
under the vendored device and the savestate guard, `NetTrace` capture,
sanitising, replay and the event ring.  `PlayLoop` is the frontend loop as the
audio stream and the blend cache see it, `HostInput` the five input layers and
the performance governor, `DebugPump` the request slot, `CoverageStore` the page
store, `FunctionFinder` the discovery and its tracker beside the machine, with
conditions that fail, calls and block transfers: the walk does not look at these,
and `stale` names what has thereby parted from the tracker.

`MCScheduler`, `MCRenderPool`, `MCLiveOverlay`, `MCThreads`, `MCDevices`, `MCMachine` and
`MCHost` give the instances.  `MCThreads` also holds the proofs about the
components it joins, because their claims are stated there for all of them.
`MCMachine` extends `CycleDeadline`, `DispatchCache`, `MemoryMap`, `VramMap` and
`FrameReadback`, whose properties are theorems, and instantiates `Spu` four times.
`MCScheduler`, `MCRenderPool` and `MCDevices` also hold the proofs of their
components (`MCScheduler` that of `IdleFastForward`).

## 3. Runs

| run | module | what holds |
|---|---|---|
| `scheduler` | `MCScheduler` | the idle jump lands where small rounds see the first deadline; types, contexts, timelines and the jump's precondition over all interleavings |
| `ipc_fifo` | `IpcFifo` | the rings refine two bounded queues; every interrupt edge is requested in the same step |
| `render_pool` | `MCRenderPool` | pixels and memory are those of inline rendering, drains return; with VRAM-display lines claims are still accounted for |
| `live_overlay` | `MCLiveOverlay` | nothing a worker made is lost, one compiler at a time and none survives, withheld work is filed in the end, teardown ends |
| `threads` | `MCThreads` | band pool, network bridge with each backend, debug pump, audio loop: nothing composited twice at once, nothing repeated, reordered (per thread) or lost but by the two losses of §7; waits end |
| `devices` | `MCDevices` | each device equals its unbatched, uncut or hardware counterpart |
| `machine` | `MCMachine` | no service missed, no stale code, every derived copy equals what it is derived from |
| `host` | `MCHost` | transactions, files, pixels, network, finder and its tracker (but for what is stale), input and coverage |

Four runs end in a violation, each of one sentence of the repository:

| run | property | what it shows |
|---|---|---|
| `gx_dma_chunk` | `GxRequestBounded` | `io.cpp:2993`: "at most 112 units per FIFO-level request".  The count is a local of `nds_dma_run`, so each slice counts anew and the cap never binds |
| `savestate_rollback` | `WholeMachine` | `src/docs/savestate-foundation-inventory.md:161`: a failed load cannot leave a half-loaded machine.  After a guest read of a power-management register the rollback's own snapshot is refused (`io.cpp:2605`) |
| `render_pool_self_wait` | `DrainReturns` | `src/docs/device_work_parallelization.md:88`: VRAM-display lines stay threaded.  Their reads may drain the ring from inside a render, which then waits for itself |
| `finder_stale` | `FinderResolves` | `function_finder.cpp:242`: a call "wipes the table", and a BX is resolved only when "certain".  A condition that fails, a call, an LDM, the writeback of an STM or a store under a second base leaves a constant known that the machine no longer holds, and the BX is resolved to it |

## 4. Bounds, and why they are enough

Distinct states: `scheduler` 8.8 M (6.6 M of them idle waits), `machine` 1.1 M,
`devices` 0.97 M, `host` 0.95 M, `threads` 0.82 M, `render_pool` 0.67 M,
`ipc_fifo` 0.40 M, `live_overlay` 0.37 M.

* `IdleFastForward` (in `scheduler`): the code's constants 64 and 8; gaps on both sides of a cap,
  of the margin and of two caps.
* `Scheduler`: a cap of 2 with costs 1..2 in both clock domains gives slices that
  end exactly, overshoot and defer; gaps 1 and 3 put deadlines inside and beyond
  a round; `Horizon` 2 gives rounds after an overshoot, a lag and a jump.
  `MaxDebt` bounds a chain of HALTs, each of which may defer an instruction.
* `IpcFifo`: two slots wrap, fill and empty; two words show reordering.
* `RenderPool`: a ring of exactly one frame, the tightest the code allows (192
  lines, 256 slots; `FrameLines <= kJobSlots` is an assumption), two workers and
  the helping scheduler, two banks so that a read and a capture can differ, three
  lines so that a slot is reused, one store or remap.
* `LiveOverlay`: four shards of one page, one superseding another, one shipped
  under the identity of another, one foreign; two compiler runs.  Files of one
  backend are walked in any order (the code goes by their age).
* `Threads`: each queue can be full and empty, three packets per direction reorder
  around one another; two helpers, three lines and three frames let one helper
  lag a frame behind another; eight frames fill the prebuffer, start the device
  and cut the stream once by turbo and once by a load.
* `Devices`: counters narrow enough to wrap (`Top` 3 for 0x10000, 2-bit division,
  4-bit root), transfers that stall and are cut in the middle, dates one second
  before each carry.
* `Machine`: a quantum of 3 with costs 1..2 and a host stack of two levels; two
  functions at each of two addresses with one page more than a proof records;
  protection regions of all memory, of one page and of half a page, and an address in
  each half; one mapping of each
  class; a channel of each format and loop kind through more mixes than its
  buffer holds, a looped and a one-shot channel and a capture with one register
  write while they run (`MaxChanges`), and the output ring.
* `Host`: four rounds, the nine owners of core state, two builds; bytes of base 4; lines of 4
  pixels, widened 7; routines of three kinds (pushes, moves, tables) of five
  instructions, conditional ones, calls, block transfers and aliased bases among
  them, that the tracker must follow; a store of two pages and one version, full at once.

A component stops at its bounds, and a guest may power off: deadlock is checked
only in `ipc_fifo`, which never stops.

## 5. Fairness

Weak fairness of each host thread that has a step to take (`RenderPool`,
`BandPool`, `WifiBridge`, `DebugPump`, `PlayLoop`, `LiveOverlay`), nothing of the
guest except in one place.  The code's waits are `wait_for` with a timeout around
a predicate, or polls with a sleep, so a thread whose predicate holds runs again
whether or not it is notified; this is also why condition variables are not
modelled.  The audio device is assumed to go on pulling while it plays, and the
host calls of the network worker to return (they are non-blocking or have a
timeout).  `WithheldWorkIsFiled` speaks of code the guest goes on executing in
the interpreter, so that run alone assumes strong fairness of that execution
(`Tier3Entry`): a guest that never comes back to the page has nothing to file.

## 6. Proofs

Checked by TLAPS for every value of the constants that meets the assumptions
named in the modules, which the runs evaluate on their instances.  Eight modules
hold them.

**`MCScheduler!FastForwardIsExact`.**  The strengthening says the incremental
clock is on the grid rooted at the start of the wait, or on a snapped event, and
not past the jump.  `CeilBounds` bounds the rounded quotient, `JumpValue` removes
the nested maximum, `RoundStep` shows that a round from a grid point lands on the
next one or on the jump.

**`Scheduler_proofs`.**  `TypeCorrect`, `ContextsIntact`: `IInv` adds to
`ContextIntegrity` the types and that a slice runs with a CPU loaded, without
which nothing says whose registers the live set holds when a slice ends.
`TimelinesStayTogether`, `FastForwardHasFuture`: `JInv` relates cycles, debts,
targets and deadlines in each phase: how far a slice is past its cap, where an
ARM7 that lags stopped, and that every deadline lies ahead of the time it was set
at.  It needs that the value "never" is beyond all reachable times
(`NeverAssumption`).

**`IpcFifo`.**  `TypeCorrect`, `RecvEdgeAlwaysRequested`,
`DrainEdgeAlwaysRequested`, and the refinement `FifoImplementsChannel`: a send
appends to the mapped sequence (`SendRefines`), a receive takes its head
(`ReceiveRefines`), everything else stutters or clears (`StepRefines`).

**`Machine_proofs`, the cycle deadline.**  `TypeCorrect`, `ServiceNeverMissed`, `CodeNeverStale`.
`NoServiceMissed` is not inductive: while control is back at the scheduler
nobody looks at the limit, yet the dispatch loop goes round again without
re-arming it.  `LimitIsEager` says what the limit must satisfy there, and
`TopNoticed` that the guard of the executing level knows about its bytes, which
its callers' guards need when it returns.

**`Machine_proofs`, the dispatch cache.**  `EntryAlwaysProved`: `EntryProved` speaks of one entry, the
invariant of everything the caches may still answer.  `Remembers` states a slot of
the pages that were behind its snapshot when it was taken, whatever WRAMCNT
selects now: generations only count up between two invalidations, so while none of
them has moved the row that was found is still live on those pages, or the rows
that were all rejected still are (`WriteKept`).  A store ages the snapshots of its
page; a registration moves the epoch past every slot of its processor, also where
the epoch wraps, because the cache is cleared there; a reset or a load, which puts
smaller generations back, leaves no slot and no link (`InvalidatedStep`).  An
absence is covered only because the pages of every rejected row are recorded
(`PagesRecorded`), and a row too wide to record is no live row missed because one
row at most wins (`WinnerLive`).  The link epoch is a natural number here: the
code's `link_key` holds 31 bits of it.

**`Machine_proofs`, VRAM.**  `VramNeverStale`, for every set of mappings the guest
may write: `VramInv` keeps each of the three derived copies equal to a function of
the controls and the banks (`MasksFollow`, `PointersFollow`, `CopiesFollow`), where
the first is not what the code recomputes but what one remap adds and removes.
The texture generation does not move on a guest store, and the flat copies survive
one only because a control gives a bank either texture slots or slots with an
address, never both (`SelectsExist`, `SameTextures`).  A load may put the generation
back to one seen before: the copies' own generation is forgotten with it, no
generation is ever the forgotten one, and no copy is of a generation yet to come.

**`Machine_proofs`, the memory map.**  `MirrorsEverywhere` and `MirrorsNeverStale`:
a run compares the mirrors with the decode at sample addresses, the proof at every
address, for every table of register values and saved files.  `MapInv` states what
each mirror is a function of (`DerivedCurrent`), that the class latched by the last
branch is the one the live registers give at its page (`LatchedClass`), that a
remembered page price is right while its generation is the live one
(`PageRemembered`), and when the published price may be used (`PublicationValid`).  A
cacheability bit answers for a whole page, a walk of the regions for one address:
they agree because the bitmap is used only while every enabled region starts and ends
on a page boundary (`BitmapIsWalk`).  Generations need that a new one is not one still
remembered: writes count up, a load clears the memory of pages.  That powers of two
are natural numbers is part of `MemoryMapAssumption`, because exponentiation is beyond
these provers.

**`Machine_proofs`, the 3D readback.**  `FramesAlwaysFresh`: the property speaks
only of the line composited last; `FrameInv` says for each phase of a frame what the
next line would find: which readback is on its way when a rasterised frame waits
(`Requested`), that between frames only a deferred one is (`Deferred`), and which
frame is there (`Composited`).  Every change that breaks this (a load, another
renderer, a reset, a new scale) restarts the count of settled frames
(`DiscontinuityKeeps`).

**`MCRenderPool`.**  `ClaimsCounted` needs `IInv`: claimed and uncounted
lines are in one activation each, the claim counter counts them, and only lines
of the current frame are in the ring, so that a slot is never taken from a line
that needs it.  `MemoryIsStill` adds `SInv`: without VRAM-display lines only the
scheduler drains, and nothing outstanding means everything done.
`ThreadingInvisible` adds `EInv`: video memory differs from the inline renderer's
by exactly the captures staged in the ring, so a bank's right content is that of
the last capture of it still pending, or what is there when none is.

**`LiveOverlay_proofs`.**  `CompilersOneAtATime`: the pipeline of the maintenance
worker holds one item, owed to one raised flag (`Pipeline`, `OneOwed`); a running
child is the one the poll knows or the one its unread answer names
(`Children`); after the worker was asked to stop nothing new is spawned
(`Stopped`).  `ResultsAnnounced` and `RowsNeverLost`: a registered bank and its
table entry agree through supersession, decline, quarantine and reset
(`BanksAgree`), and a row once adopted is served by a bank that is registered and
not retired (`RowsKept`).  `NothingIsLost` adds the two parts of `NothingLost` that
follow a shard between the queues: a path known as seen leads to a shard that is on
its way, recorded, resident or covered (`SeenIsAccounted`), and a requeued record is
on its way to its second look (`RequeuedIsInFlight`).  They need that only a library
that loaded becomes a bank or a record and only a refused one an error
(`Verdicts`), that what the workers exchange is made of shards (`PrepTyped`,
`MaintTyped`), and that records are dropped before the prepare worker is joined
(`Ends`).  Every step but the drain and the teardown only adds to the books
(`Keeps`); the drain is settled by what one admission does (`AdmitAccounts`).  The
dormant table is a set: the order in which one entry requeues several records is
left open, as is the age of a file, so both are proved for every order.  The only
assumption on the shard table is that it is finite and its entries well formed
(`LiveOverlayAssumption`).

**`MCThreads`.**  `BandsAreExact`: `BandInv` counts the lines a helper holds
against the claim and completion counters, across the separate stores of a
publication: a laggard may hold a line of the new frame, and then the frame it
read the context of is not older than the one it woke for.  `HandoffsAreExact`
joins three inductive invariants.  `PumpInv`: the slot's request is the one its
client waits for or one that was answered "busy".  `WifiInv`: the guest's frames
given to the driver, in the worker's hand and queued are one increasing sequence;
of the host's frames delivered, inside the dispatcher, queued and in the hands of
a callback, those one thread took are increasing and no number occurs twice, and
each number handed out is in one of these places or counted; `WifiThreads` says
where each thread is in the driver.  It is proved once for both backends by
showing that each action makes one of the moves of `SendMove` and `ReceiveMove`.
With a packet driver two threads take frames: one may take frame 1, the other take
and queue frame 2 first, so what the model promises is the order per thread.
`PlayInv`: the
blocks not yet played are exactly those of the newest frames, at most one is
outside the stream, and until playback starts the prebuffer has room for it,
which is why a block is never given up.

**`MCDevices`.**  `TimersAlwaysExact`, `MathAlwaysExact`, `RasterAlwaysRecovers`,
`StorageAlwaysDurable`, `RtcAlwaysExact`.  The invariants are small, the values are the work.  For the
timers (`TimersInv`: the hardware's bank is what catching up would make of the
code's, unless a reload was written past an overflow) the work is `CaughtTwice`: a
catch-up over d cycles and one more cycle are a catch-up over d + 1, for any number of
timers, by induction up the chain of carries (`CarryLaw`) from one counter's arithmetic
(`Counted`, `CountUnique`: overflows and remainder are a quotient and its remainder, so
two that satisfy the same equation are equal).  A late reload value does no harm
because, where no clocked timer overflows, none does (`NoCarries`, `ReloadLate`); the
same fact makes the deadline cover count-up timers.  For the divider
(`DivInv`: a division is owed or the results are the operands'), `StoreExact` says a
number that fits is read back from its two words, `QuotientExact` that truncating
division leaves a remainder of the numerator's sign, and `DivFinished` that the only
quotient that does not fit is the one the code singles out.  For the root,
`RootStep` follows one pair of bits: the partial result is the root of the bits so
far, and the trial product stays in its word while the operand is below 2^62
(`RootExact`'s precondition; beyond it the code is wrong).  Both need induction over
data.  The library's induction theorems take an operator, which the provers cannot
instantiate, but its theorem on minimal elements takes a set: `LeastElement` and
`Induction` state induction for the set of the numbers a predicate holds of, and
`IterationExists`, `IterationUnique` give recursive functions their equations.
`RasterInv` ties VCOUNT, the VBlank flag and the 3D frame to the physical line while
no write has shifted it.  `FlashInv` says that only a write command in flight leaves
the firmware flash dirty, whichever device is selected meanwhile, since a released
device forgets its command, and that until a write or a replacement changes it
(`touched`) the image is the start-up one, which a reset puts back unmarked;
`BackupInv` that only a transfer that passes the infrared
front end dirties the chip, and that what decides whether it passes does not change
after the first byte, so that its last byte passes too and writes the file.
For the clock (`RtcInv`: the registers are ones a savestate accepts in the current
notation), `Increment` and `DigitMarks` say that counting and comparing BCD bytes is
counting and comparing their numbers; `Tomorrow` gives the day number of the next day
through the ends of months, leap Februaries, years and the century, and `DayCounted`,
`HourCounted`, `MinuteCounted` and `SecondCounted` follow the carries up to it.
`ClockAssumption` asks only that the clock starts at a date a savestate accepts and
that the guest writes natural numbers.

**Only model-checked.**  Liveness (`DrainReturns`, `WithheldWorkIsFiled`,
`ShutdownReturns`, `WaitsEnd`), because the prover has no rule for `ENABLED`;
`FencedClaimsAccounted`, which is `ClaimsAccounted` of a
second pool and so an instance of `ClaimsCounted`; `TransfersExact` of
the devices, `SpuExact`, and what `host` checks: each compares an
algorithm with a reference definition by recursion or folds over data, most of them
in `RECURSIVE` operators or over tables that only instances have.

## 7. Where the code and its words disagree

Beside the four violation runs, these were met while modelling.  The models
follow the code.

Scheduler and runtime: `scheduler.cpp:385` says every wake source is a scheduled
deadline, but the geometry engine's interrupt is not, and an idle jump passes it
and delivers it at the landing; a store that starts a DMA as the first instruction
of a catch-up slice ends the ARM7's catch-up (`scheduler.cpp:486`,
`src/docs/scheduler_design.md:292`); `scheduler.h:6` says the call-return stack is
empty at slice boundaries (it is parked); a HALT after `nds_reschedule_slice`
snaps to the slice's unshortened cap (`scheduler.cpp:258`).  A link slot and the
dispatch cache can disagree for one entry, `link_key` drops the top bit of the
epoch, and live bodies of more than four pages always run in Tier 3.

Devices: 8- and 16-bit writes of IE replace all of it and `0x04000212` is not
handled; a 32-bit write at `0x04000204` drops the half for WIFIWAITCNT; the square
root is wrong from 2^62 on; the B7 address mask is only right for ROM sizes that
are powers of two; a DMA's `burst_index` loses its phase after 65,536 units;
`tsc_datapos` above 2, VCOUNT above 262 and `pm_index` with bit 7 are reachable
and refuse a savestate.  A debug reset puts the start-up firmware back with its mark
cleared (`io.cpp:1895`, `main.cpp:2039`): what the guest saved before stays in the
file, unseen by the guest, until its next write replaces the whole file with the
start-up image and that write, though `src/README.md:111` says guest writes are
persisted; `FirmwareDurable` therefore speaks of the time since the image was
loaded.  The start-up image has patches the file lacks (`main.cpp:1978`), which
reach the file with the first write; a launch with an instance index perturbs the
saved MAC once more (`firmware_user_settings.cpp:127`).  `cp15_reset` leaves regions and cache registers; the
latched fetch class is not part of a savestate.

Threads: a helper of the band pool that claims across a publication composites one
row with the context of a frame that has returned (`gpu2d.cpp:2747` against
`2843`), and a completion between two of the five stores is erased, after which
the presenter waits for good (`gpu2d.cpp:2823` against `2727`); `BandsExact` is
what remains true.  With VRAM-display lines a rendering worker may drain the ring,
so inline equivalence is claimed without them.  A debug answer later than the
30 s timeout overwrites the slot and is read as the answer to the next request
(`debug_server.cpp:2113`, `1997`), which is why `AnswersAccounted` allows an
earlier busy request's answer.  A debug reset while Wi-Fi is powered leaves its
event and socket behind (modelled with `ResetPowered` FALSE).

The packet driver is called from two threads: the emulation thread's
`Net::RecvPacket` calls `RecvCheck` (`vendor/melonds/net/Net.cpp:61`), which
dispatches a packet like the worker's own call (`wifi_net.cpp:1521`), and either
thread's callback fills `rx_queue`.  The comments that call the queues
"single-producer/single-consumer" (`wifi_net.cpp:231`) and say that live backends
are "called only from the worker thread" (`wifi_net.cpp:1337`) hold for the
user-mode stack only.  The queue has a mutex and the counters are atomic, so
nothing is lost or repeated, but two frames can arrive out of order;
`DriverSerial` is claimed for the user-mode stack, and of libpcap it is assumed
that concurrent dispatches on one handle hand each packet out once.  A frame
`ShouldAcceptPcapRxFrame` refuses is not a frame of the model.  Two losses leave no
record: a peer frame whose `sendto` fails (`wifi_net.cpp:1235`, and every peer
frame on a host without the transport) is reported as sent, the model's `unsent`;
and the dispatcher's 32 KB queue discards old packets without a count, its `lost`.

Sound: no register write looks at whether the channel or the capture runs
(`spu.cpp:431`).  A length or loop point lowered under the cursor leaves
`source_offset` past the end, which the validator refuses (`spu.cpp:627`), when
the state is loaded, not when it is saved; in manual mode the remainder then wraps
(`spu.cpp:88`) and the channel walks memory for 2^30 words.  A stopped channel and
one keyed but not yet mixed are refused in the same way.  A one-shot made longer
after its prefetch ended plays old FIFO contents.  A capture made shorter stores
one word past its new end and is refused until then (`spu.cpp:645`).
`PlayingIsAccepted` and the order of samples are claimed for sounds whose mode and
ends are not rewritten and captures that are not made shorter; that the FIFO's
cursors agree with its level, always.  A capture switched from 8 to 16 bits at an
odd fill stores a sample past the end of its FIFO's array and is left out.

Video and files: the direct presenter and the line renderer differ for the
blends of `ComputeHost.cpp` around line 425 (`src/docs/host_optimization_strategy.md:701`);
a savestate on a direct frame presents a stale buffer; a governor rebuild blanks
the 3D of the frame in flight; DISPCAPCNT enabled between `start_frame` and line 0
of a direct frame is missed; a failed directory sync reports failure although the
slot was replaced; battery and firmware writes are not synced, so they survive a
crash of the process and not one of the machine; a battery file of another size is
ignored and later overwritten.

Finder and frontend: what `finder_stale` shows makes a false root (more code) and
misses the true one, which is a miss of the dispatcher at run time and reported;
the tracker's part of `FinderExact` is what remains true.  Walks made before a table became
known are not checked again, and the budget of `src/recompiler/finder/function_finder.h:183` never
binds; holding a pad button, touching the stylus with the trigger and releasing
the button leaves it pressed; the first audio block after a load is cut.

## 8. Not modelled

Instruction semantics, sample amplitudes, pixel arithmetic beyond which operands
meet, and the bytes of wait-state tables: sequential, and tested in the repository
by golden files and against melonDS.  Configuration, reports, profilers, direct
boot, title patches, packet classification: no state that anything reads back.
Vendored melonDS, FreeBIOS, SDL, OpenGL and sockets appear as external inputs.
`PROJECT.json` lists every component with its reason.  Left out of modelled
components: the exit-time flush of the coverage store, forced Tier-3 mode, weapon
touch sequences, the HBlank, VBlank and main-memory-display DMA triggers.

## 9. Plan

Done: all modules above, their runs, and the theorems of section 6.  Next, worth
proving in the modules that hold theorems already: the abstract channel of
`WifiBridge` as a refinement.
