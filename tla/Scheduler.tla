------------------------------ MODULE Scheduler ------------------------------
(***************************************************************************)
(* The dual-CPU interleave of runner/src/scheduler.cpp.                    *)
(*                                                                         *)
(* One round: plan a rendezvous, run the ARM9 to it (it may overshoot),    *)
(* tick the ARM9's timers and the geometry engine, let the ARM7 catch up   *)
(* to the ARM9's ACTUAL time, tick the devices.  One register file         *)
(* (g_cpu), one call-return stack and one deferred-cycle counter are live; *)
(* each CPU's copy is parked in its slot while the other runs.             *)
(*                                                                         *)
(* Guest code is abstract: an instruction costs 1..MaxCost cycles, moves   *)
(* its CPU's register state on, and may have one of the side effects the   *)
(* scheduler reacts to.  Interrupt registers are reduced to wake[c], the   *)
(* value of nds_halt_wake_pending.                                         *)
(***************************************************************************)
EXTENDS Rendezvous, FiniteSets

CONSTANTS MaxCost,   \* the most cycles one instruction takes
          MaxDebt,   \* bound on the deferred cycles of a chain of HALTs
          Refill     \* pipeline refill of an interrupt entered out of HALT

ASSUME SchedulerAssumption ==
  MaxCost \in Nat \ {0} /\ MaxDebt \in Nat /\ Refill \in Nat

(* "No deadline" is later than any time a round can reach: UINT64_MAX.     *)
ASSUME NeverAssumption ==
  \A g \in Gaps :
    Horizon + g + kIterCap + 2 * (MaxCost + MaxDebt + Refill) < Never

ARM9 == 0
ARM7 == 1
CPUs == {ARM9, ARM7}
None == -1
Other(c) == 1 - c

(* kArm9ClockShift: a CPU's own cycles per system cycle. *)
Clock(c) == IF c = ARM9 THEN 2 ELSE 1

VARIABLES
  sys,      \* g_sys_timestamp
  cyc,      \* g_slot[c].cycles
  cur,      \* g_cur
  live,     \* g_cpu, the call-return stack, g_deferred_cycles
  slot,     \* the same parked per CPU: g_slot[c].state / crs / deferred_cycles
  term,     \* g_slot[c].halted: terminal
  ghalt,    \* nds_cpu_halted(c): guest HALT
  wake,     \* nds_halt_wake_pending(c)
  dma,      \* nds_dma_cpu_stalled(c)
  gxStall,  \* nds_gxfifo_stalled()
  brk,      \* nds_event_break_hit()
  off,      \* nds_powered_off()
  dev,      \* next_scheduled_event_time(), system cycles
  tov,      \* next overflow of each CPU's clocked timers, system cycles
  phase,    \* where scheduler_run_round is
  rc,       \* g_runtime_cycles
  cap,      \* run_slice's local cap
  gcap,     \* g_cycle_cap, which nds_reschedule_slice may shorten
  planned,  \* the round's target, system cycles
  rdv,      \* rendezvous, system cycles
  before,   \* ARM7 cycles when the current catch-up iteration began
  truth     \* what each CPU's register state, stack and debt should be

vars == <<sys, cyc, cur, live, slot, term, ghalt, wake, dma, gxStall, brk, off,
          dev, tov, phase, rc, cap, gcap, planned, rdv, before, truth>>

cpuVars   == <<cur, live, slot, truth>>
flagVars  == <<term, ghalt, wake, dma, gxStall, brk, off>>
sliceVars == <<rc, cap, gcap>>
roundVars == <<sys, planned, rdv, before>>

(* One CPU's execution state: whose registers these are, whether it is     *)
(* inside a call, and the cycles of its last instruction still owed.       *)
Context == [who : CPUs, calls : 0..1, debt : Nat]
Phases  == {"idle", "arm9", "slice", "tick9", "arm7", "tick7", "devices"}

TypeOK ==
  /\ sys \in Nat /\ planned \in Nat /\ rdv \in Nat /\ before \in Nat
  /\ cyc \in [CPUs -> Nat]
  /\ cur \in CPUs \cup {None}
  /\ live \in Context /\ slot \in [CPUs -> Context] /\ truth \in [CPUs -> Context]
  /\ term \in [CPUs -> BOOLEAN] /\ ghalt \in [CPUs -> BOOLEAN]
  /\ wake \in [CPUs -> BOOLEAN] /\ dma \in [CPUs -> BOOLEAN]
  /\ gxStall \in BOOLEAN /\ brk \in BOOLEAN /\ off \in BOOLEAN
  /\ dev \in Nat /\ tov \in [CPUs -> Nat]
  /\ phase \in Phases
  /\ rc \in Nat /\ cap \in Nat /\ gcap \in Nat

Deadlines(t) == {t + g : g \in Gaps}
Lesser(a, b) == IF a < b THEN a ELSE b

(* scheduler_init and scheduler_reset_cpu of both CPUs.  The ARM9 starts   *)
(* one pipeline refill into its timeline, the ARM7 likewise.               *)
FreshContext(c) == [who |-> c, calls |-> 0, debt |-> 0]

Init ==
  /\ sys = 0 /\ planned = 0 /\ rdv = 0 /\ before = 0
  /\ cyc = [c \in CPUs |-> Refill]
  /\ cur = None
  /\ live = FreshContext(ARM9)
  /\ slot = [c \in CPUs |-> FreshContext(c)]
  /\ truth = [c \in CPUs |-> FreshContext(c)]
  /\ term = [c \in CPUs |-> FALSE] /\ ghalt = [c \in CPUs |-> FALSE]
  /\ wake = [c \in CPUs |-> FALSE] /\ dma = [c \in CPUs |-> FALSE]
  /\ gxStall = FALSE /\ brk = FALSE /\ off = FALSE
  /\ dev \in Deadlines(0) /\ tov = [c \in CPUs |-> Never]
  /\ phase = "idle"
  /\ rc = 0 /\ cap = 0 /\ gcap = 0

------------------------------------------------------------------------------
(* Context switching.                                                      *)

(* save_current: the slots once the live state has been parked.            *)
SaveCurrent == IF cur = None THEN slot ELSE [slot EXCEPT ![cur] = live]

(* switch_to: nothing when c is already loaded.                            *)
SwitchTo(c) ==
  IF cur = c THEN UNCHANGED <<cur, slot>>
  ELSE slot' = SaveCurrent /\ cur' = c

(* The live state after switch_to(c).                                      *)
Loaded(c) == IF cur = c THEN live ELSE slot[c]

------------------------------------------------------------------------------
(* run_slice.                                                              *)

AfterSlice(c) == IF c = ARM9 THEN "tick9" ELSE "tick7"

(* Leaving run_slice through its last two lines: the CPU's timestamp       *)
(* becomes t and its debt d is parked beside it.  rc, cap and gcap are     *)
(* dead between slices and normalised to 0.                                *)
EndSlice(c, ctx, t, d) ==
  /\ live' = [ctx EXCEPT !.debt = d]
  /\ slot' = [slot EXCEPT ![c].debt = d]
  /\ cyc' = [cyc EXCEPT ![c] = t]
  /\ rc' = 0 /\ cap' = 0 /\ gcap' = 0
  /\ phase' = AfterSlice(c)

(* Guest HALT with no wake source: the quantum passes without a switch.    *)
Sleeps(c) == ghalt[c] /\ ~wake[c]

SliceSleep(c, quantum) ==
  /\ ~dma[c] /\ Sleeps(c)
  /\ cyc' = [cyc EXCEPT ![c] = @ + quantum]
  /\ phase' = AfterSlice(c)
  /\ UNCHANGED <<cpuVars, flagVars, sliceVars, dev, tov>>

(* DMA owns the bus: it runs to the quantum (overshooting by less than a   *)
(* unit) and stays stalled, or it finishes or is suspended before that.    *)
SliceDma(c, quantum) ==
  /\ dma[c]
  /\ SwitchTo(c) /\ live' = Loaded(c)
  /\ \E adv \in 1..(quantum + MaxCost - 1), done \in BOOLEAN, irq \in BOOLEAN :
       /\ ~done => adv >= quantum
       /\ irq => done
       /\ cyc' = [cyc EXCEPT ![c] = @ + adv]
       /\ dma' = [dma EXCEPT ![c] = ~done]
       /\ wake' = [wake EXCEPT ![c] = @ \/ irq]
  /\ phase' = AfterSlice(c)
  /\ UNCHANGED <<truth, term, ghalt, gxStall, brk, off, sliceVars, dev, tov>>

(* Mutant: the quantum is scaled by the wrong CPU's clock.                 *)
SliceCapWrongClock(c, quantum) == cyc[c] + quantum * Clock(ARM9)

(* The CPU time at which a slice must end.                                 *)
SliceCap(c, quantum) == cyc[c] + quantum

(* Enter the slice: load the CPU, arm the cap, leave HALT.  If the         *)
(* interrupt is taken, its refill joins a pending debt or is ticked now; a *)
(* sleeping CPU always owes the cycles of its HALT, so the debt absorbs it *)
(* and no slice begins with its quantum already used up.                   *)
SliceBegin(c, quantum) ==
  /\ ~dma[c] /\ ~Sleeps(c)
  /\ SwitchTo(c)
  /\ cap' = SliceCap(c, quantum) /\ gcap' = SliceCap(c, quantum)
  /\ ghalt' = [ghalt EXCEPT ![c] = FALSE]
  /\ \E irq \in BOOLEAN :
       LET ctx  == Loaded(c)
           owed == truth[c].debt
       IN  /\ irq => ghalt[c] /\ wake[c] /\ ctx.debt + Refill <= MaxDebt
           /\ rc' = cyc[c] + (IF irq /\ ctx.debt = 0 THEN Refill ELSE 0)
           /\ live' = [ctx EXCEPT !.debt = IF irq /\ @ # 0 THEN @ + Refill ELSE @]
           /\ truth' = [truth EXCEPT ![c].debt =
                          IF irq /\ owed # 0 THEN owed + Refill ELSE owed]
  /\ phase' = "slice"
  /\ UNCHANGED <<cyc, term, wake, dma, gxStall, brk, off, dev, tov>>

RunSlice(c, quantum) ==
  SliceSleep(c, quantum) \/ SliceDma(c, quantum) \/ SliceBegin(c, quantum)

(* Mutant: a return does not pop the call-return stack.                    *)
RetiredNeverPops(ctx) ==
  [who |-> ctx.who, calls |-> ctx.calls + 1, debt |-> 0]

(* The execution state after one instruction: guest code alternately calls *)
(* and returns, so a stale copy differs from the current one.              *)
Retired(ctx) == [who |-> ctx.who, calls |-> 1 - ctx.calls, debt |-> 0]

(* The dispatch loop is about to execute an instruction of the live CPU.   *)
Running == phase = "slice" /\ rc < cap /\ ~brk

(* An instruction that leaves the slice running unless it reaches the      *)
(* live cap, with the cycles it takes and the pending debt committed.      *)
Commit(c, cost, newCap) ==
  LET t == rc + cost + live.debt
  IN  /\ truth' = [truth EXCEPT ![c] = Retired(@)]
      /\ IF t >= newCap
         THEN EndSlice(c, Retired(live), t, 0)
         ELSE /\ live' = Retired(live) /\ rc' = t /\ gcap' = newCap
              /\ UNCHANGED <<slot, cyc, phase, cap>>
      /\ UNCHANGED <<roundVars, cur>>

(* An ordinary instruction: it may write the peer's FIFO or IPCSYNC (raise *)
(* the peer's interrupt), acknowledge its own, fill the geometry FIFO, or  *)
(* switch the console off.                                                 *)
ExecPlain ==
  /\ Running
  /\ \E cost \in 1..MaxCost : Commit(cur, cost, gcap)
  /\ \/ UNCHANGED <<wake, gxStall, off>>
     \/ wake' = [wake EXCEPT ![Other(cur)] = TRUE] /\ UNCHANGED <<gxStall, off>>
     \/ wake' = [wake EXCEPT ![cur] = FALSE] /\ UNCHANGED <<gxStall, off>>
     \/ cur = ARM9 /\ gxStall' = TRUE /\ UNCHANGED <<wake, off>>
     \/ cur = ARM7 /\ off' = TRUE /\ UNCHANGED <<wake, gxStall>>
  /\ UNCHANGED <<term, ghalt, dma, brk, dev, tov>>

(* A device write arms a deadline; nds_reschedule_slice shortens the live  *)
(* cap when the deadline is nearer.                                        *)
ExecSchedule ==
  /\ Running
  /\ \E cost \in 1..MaxCost, d \in Deadlines(rc \div Clock(cur)) :
       /\ Commit(cur, cost, Lesser(gcap, d * Clock(cur)))
       /\ dev' = Lesser(dev, d)
  /\ UNCHANGED <<flagVars, tov>>

(* A timer of the running CPU is programmed.                               *)
ExecTimer ==
  /\ Running
  /\ \E cost \in 1..MaxCost, d \in Deadlines(rc \div Clock(cur)) :
       /\ Commit(cur, cost, gcap)
       /\ tov' = [tov EXCEPT ![cur] = d]
  /\ UNCHANGED <<flagVars, dev>>

(* Leave the slice before the instruction's cost is committed: it becomes  *)
(* debt, and the CPU's time is t.                                          *)
Defer(c, t) ==
  \E cost \in 1..MaxCost :
    LET d == cost + live.debt
    IN  /\ d <= MaxDebt
        /\ truth' = [truth EXCEPT ![c] =
                       [Retired(@) EXCEPT !.debt = cost + truth[c].debt]]
        /\ EndSlice(c, Retired(live), t, d)

(* HALTCNT or CP15 WFI: the time snaps to run_slice's own cap, or back to  *)
(* the instruction's start when a break stops at that very instruction.    *)
ExecHalt ==
  /\ Running
  /\ \E b \in BOOLEAN : brk' = b /\ Defer(cur, IF b THEN rc ELSE cap)
  /\ ghalt' = [ghalt EXCEPT ![cur] = TRUE]
  /\ UNCHANGED <<roundVars, cur, term, wake, dma, gxStall, off, dev, tov>>

(* A store that starts a DMA: the time stays at the instruction's start.   *)
ExecDma ==
  /\ Running
  /\ Defer(cur, rc)
  /\ dma' = [dma EXCEPT ![cur] = TRUE]
  /\ UNCHANGED <<roundVars, cur, term, ghalt, wake, gxStall, brk, off, dev, tov>>

(* nds_halt (unimplemented opcode, break PC) or an armed event break: the  *)
(* slice ends at this instruction.                                         *)
ExecStop ==
  /\ Running
  /\ \E cost \in 1..MaxCost :
       LET t == rc + cost + live.debt
       IN  /\ truth' = [truth EXCEPT ![cur] = Retired(@)]
           /\ EndSlice(cur, Retired(live), t, 0)
  /\ \/ term' = [term EXCEPT ![cur] = TRUE] /\ UNCHANGED brk
     \/ brk' = TRUE /\ UNCHANGED term
  /\ UNCHANGED <<roundVars, cur, ghalt, wake, dma, gxStall, off, dev, tov>>

------------------------------------------------------------------------------
(* scheduler_run_round.                                                    *)

BothIdle == \A c \in CPUs : ~term[c] /\ Sleeps(c) /\ ~dma[c]

NextOverflow == Lesser(tov[ARM9], tov[ARM7])

(* The round's target: the cap, an event within the margin of it, or the   *)
(* fast-forward when nothing can retire an instruction.                    *)
PlanRound ==
  /\ phase = "idle" /\ ~brk /\ sys < Horizon
  /\ \E c \in CPUs : ~term[c]
  /\ planned' = IF BothIdle THEN FastForwardTarget(sys, dev, NextOverflow)
                ELSE PlannedTarget(sys, dev)
  /\ phase' = "arm9"
  /\ UNCHANGED <<sys, rdv, before, cyc, cpuVars, flagVars, sliceVars, dev, tov>>

Arm9Target == planned * Clock(ARM9)

(* The ARM9's part of the round.  While the geometry FIFO is full its time *)
(* advances by the engine's pending cycles instead of by instructions.     *)
Arm9Turn ==
  /\ phase = "arm9"
  /\ IF term[ARM9] \/ cyc[ARM9] >= Arm9Target
     THEN /\ phase' = "tick9"
          /\ UNCHANGED <<cyc, cpuVars, flagVars, sliceVars, dev, tov>>
     ELSE IF gxStall
     THEN /\ \E debt \in 0..MaxCost :
               cyc' = [cyc EXCEPT ![ARM9] = Lesser(Arm9Target, @ + debt * Clock(ARM9))]
          /\ phase' = "tick9"
          /\ UNCHANGED <<cpuVars, flagVars, sliceVars, dev, tov>>
     ELSE RunSlice(ARM9, Arm9Target - cyc[ARM9])
  /\ UNCHANGED roundVars

(* nds_tick_timers(c, t): an overflow reached by t may interrupt c, and    *)
(* the timer runs on or was a one-shot.                                    *)
TickTimers(c, t) ==
  IF tov[c] > t THEN UNCHANGED <<tov, wake>>
  ELSE /\ \E d \in Deadlines(t) \cup {Never} : tov' = [tov EXCEPT ![c] = d]
       /\ wake' \in {wake, [wake EXCEPT ![c] = TRUE]}

(* The ARM9's timers, then the geometry engine: it may drain its FIFO      *)
(* below half, which ends the stall and starts a waiting GXFIFO DMA.       *)
Tick9 ==
  /\ phase = "tick9"
  /\ TickTimers(ARM9, cyc[ARM9] \div Clock(ARM9))
  /\ \/ UNCHANGED <<gxStall, dma>>
     \/ /\ gxStall /\ gxStall' = FALSE
        /\ dma' \in {dma, [dma EXCEPT ![ARM9] = TRUE]}
  /\ rdv' = cyc[ARM9] \div Clock(ARM9)
  /\ phase' = "arm7"
  /\ UNCHANGED <<sys, planned, before, cyc, cpuVars, term, ghalt, brk, off, sliceVars, dev>>

(* The catch-up loop's exit condition.                                     *)
Arm7Done == term[ARM7] \/ brk \/ cyc[ARM7] >= rdv

Arm7Turn ==
  /\ phase = "arm7"
  /\ IF Arm7Done
     THEN /\ phase' = "devices"
          /\ UNCHANGED <<before, cyc, cpuVars, flagVars, sliceVars, dev, tov>>
     ELSE before' = cyc[ARM7] /\ RunSlice(ARM7, rdv - cyc[ARM7])
  /\ UNCHANGED <<sys, planned, rdv>>

(* The catch-up goes on while the last slice made progress.                *)
Progress == cyc[ARM7] # before

(* The ARM7's timers; the loop gives up when the slice made no progress.   *)
Tick7 ==
  /\ phase = "tick7"
  /\ TickTimers(ARM7, cyc[ARM7])
  /\ phase' = IF Progress THEN "arm7" ELSE "devices"
  /\ UNCHANGED <<roundVars, cyc, cpuVars, term, ghalt, dma, gxStall, brk, off, sliceVars, dev>>

(* Mutant: an event due exactly at the rendezvous is left for later.       *)
DueStrictly == dev < rdv

(* Events whose deadline the rendezvous has reached.                       *)
Due == dev <= rdv

(* Power off ends the round before any device tick.  Otherwise display,    *)
(* SPU, wifi, RTC and the one-shot system events are brought up to the     *)
(* rendezvous; they may interrupt either CPU, start a DMA on either bus,   *)
(* or fail fatally (scheduler_terminal_halt_all).                          *)
Devices ==
  /\ phase = "devices"
  /\ IF off
     THEN term' = [c \in CPUs |-> TRUE] /\ UNCHANGED <<wake, dma, dev>>
     ELSE IF Due
     THEN /\ dev' \in Deadlines(rdv)
          /\ \/ UNCHANGED <<wake, dma, term>>
             \/ \E c \in CPUs : /\ wake' = [wake EXCEPT ![c] = TRUE]
                                /\ UNCHANGED <<dma, term>>
             \/ \E c \in CPUs : /\ dma' = [dma EXCEPT ![c] = TRUE]
                                /\ UNCHANGED <<wake, term>>
             \/ term' = [c \in CPUs |-> TRUE] /\ UNCHANGED <<wake, dma>>
     ELSE UNCHANGED <<wake, dma, term, dev>>
  /\ sys' = rdv
  /\ phase' = "idle"
  /\ planned' = 0 /\ rdv' = 0 /\ before' = 0
  /\ UNCHANGED <<cyc, cpuVars, ghalt, gxStall, brk, off, sliceVars, tov>>

------------------------------------------------------------------------------
(* Between rounds.                                                         *)

(* Mutant: the import leaves the previously loaded CPU current.            *)
RestoredCurStale == cur

(* savestate import forgets which CPU was loaded.                          *)
RestoredCur == None

(* A savestate written and read back on the scheduler's own thread:        *)
(* export parks the live CPU first, import refills both slots, forgets the *)
(* loaded CPU and clears the live stack and debt.                          *)
SaveAndRestore ==
  /\ phase = "idle"
  /\ slot' = SaveCurrent
  /\ cur' = RestoredCur
  /\ live' = [who |-> live.who, calls |-> 0, debt |-> 0]
  /\ UNCHANGED <<sys, cyc, flagVars, dev, tov, phase, sliceVars, planned, rdv, before, truth>>

(* The debugger disarms the break it stopped at.                           *)
Disarm ==
  /\ phase = "idle" /\ brk /\ brk' = FALSE
  /\ UNCHANGED <<roundVars, cyc, cpuVars, term, ghalt, wake, dma, gxStall, off, sliceVars, dev, tov, phase>>

Instruction == ExecPlain \/ ExecSchedule \/ ExecTimer \/ ExecHalt \/ ExecDma
               \/ ExecStop
Round == PlanRound \/ Arm9Turn \/ Tick9 \/ Arm7Turn \/ Tick7 \/ Devices
Next == Instruction \/ Round \/ SaveAndRestore \/ Disarm

Spec == Init /\ [][Next]_vars

------------------------------------------------------------------------------
Current(c) == IF cur = c THEN live ELSE slot[c]

(* However slices, stalls, sleeps and savestates interleave, the state a   *)
(* CPU will next execute with (live if it is loaded, parked otherwise) is  *)
(* exactly what its own instructions made it: registers, call-return stack *)
(* and the cycles of a halting or DMA-starting instruction that are owed.  *)
ContextIntegrity == \A c \in CPUs : Current(c) = truth[c]

(* After the catch-up the ARM7 stands at or past the rendezvous; it lags   *)
(* only if it is dead, stopped by a break, or a DMA took its bus.          *)
Arm7LagsOnlyUnderDma ==
  phase = "devices" => cyc[ARM7] >= rdv \/ term[ARM7] \/ brk \/ dma[ARM7]

Overshoot == MaxCost + MaxDebt + Refill

(* Neither CPU passes its target by more than its last instruction and the *)
(* debt that instruction commits, so the two timelines cannot drift apart. *)
SkewBounded ==
  /\ phase = "tick9" => \/ cyc[ARM9] < Arm9Target + Overshoot
                        \/ cyc[ARM9] \div Clock(ARM9) = sys
  /\ phase = "devices" => cyc[ARM7] < rdv + Overshoot

(* The two timelines stay together: neither CPU runs ahead of its target,  *)
(* and the ARM7 falls behind the rendezvous only for a reason.             *)
TimelinesTogether == Arm7LagsOnlyUnderDma /\ SkewBounded

(* What the fast-forward relies on: when it plans, every deadline it reads *)
(* lies in the future (an overdue timer only while the ARM7 lags).         *)
FastForwardPrecondition ==
  phase = "idle" /\ BothIdle =>
    /\ dev > sys
    /\ \A c \in CPUs : tov[c] > sys \/ cyc[c] < sys * Clock(c)

==============================================================================
