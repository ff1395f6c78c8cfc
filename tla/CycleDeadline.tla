---------------------------- MODULE CycleDeadline ----------------------------
(***************************************************************************)
(* The cycle deadline g_nds_fast_limit of runner/src/runtime_arm.cpp.      *)
(*                                                                         *)
(* Every emitted instruction begins with runtime_should_yield and ends     *)
(* with runtime_tick.  While g_runtime_cycles < g_nds_fast_limit both are  *)
(* a compare: nothing is looked at.  That is sound only if every site that *)
(* can make a service condition true drops the limit (and, for the yield   *)
(* conditions, sets g_yield_poll_hint).  This module has one action per    *)
(* such site.  Execution is one thread: the active CPU runs a slice until  *)
(* control is back at the scheduler (at = "host").                         *)
(*                                                                         *)
(* Calls nest on the host stack.  A level is a recompiled function guarded *)
(* by the bytes it was translated from (StaticGuardScope), or the Tier-3   *)
(* interpreter, which needs no guard.                                      *)
(***************************************************************************)
EXTENDS Integers

CONSTANTS Quantum,   \* cycles of a slice
          Costs,     \* cycles of an instruction
          Refill,    \* pipeline refill of an interrupt entry
          Debts,     \* deferred cycles a CPU may resume with
          MaxDepth   \* bound on the nesting of static calls

ASSUME DeadlineAssumption ==
  /\ Quantum \in Nat \ {0} /\ Costs \subseteq Nat \ {0} /\ Refill \in Nat
  /\ Debts \subseteq Nat /\ MaxDepth \in Nat \ {0}

CPUs == {0, 1}

VARIABLES
  at,       \* host, poll (runtime_should_yield), body, tick (runtime_tick),
            \* branch (a call or return ends the instruction)
  active,   \* g_nds_active
  limit,    \* g_nds_fast_limit
  hint,     \* g_yield_poll_hint
  cap,      \* g_cycle_cap
  rc,       \* g_runtime_cycles
  debt,     \* g_deferred_cycles
  masked,   \* CPSR.I of the active CPU
  ime,      \* g_ime[c]
  source,   \* (g_ie[c] & g_if[c]) # 0
  cache,    \* g_nds_irq_pending_cache[c] # 0
  halted,   \* g_cpu_halted[c]
  dma,      \* dma_any_running(c)
  brk,      \* g_brk_hit
  term,     \* g_nds_terminal
  breakPc,  \* g_runtime_break_pc is set
  depth,    \* host call nesting
  bank,     \* bank[d]: level d is a recompiled function
  dirty,    \* dirty[d]: its bytes are no longer those it was translated from
  invalid   \* invalid[d]: its guard's invalidated flag

irqVars   == <<ime, source, cache>>
guardVars == <<depth, bank, dirty, invalid>>
flagVars  == <<halted, dma, brk, term, breakPc>>
clockVars == <<cap, rc, debt>>
vars == <<at, active, limit, hint, clockVars, masked, irqVars, flagVars, guardVars>>

Levels == 1..MaxDepth

TypeOK ==
  /\ at \in {"host", "poll", "body", "tick", "branch"} /\ active \in CPUs
  /\ limit \in Nat /\ cap \in Nat /\ rc \in Nat /\ debt \in Nat
  /\ hint \in BOOLEAN /\ masked \in BOOLEAN
  /\ ime \in [CPUs -> BOOLEAN] /\ source \in [CPUs -> BOOLEAN] /\ cache \in [CPUs -> BOOLEAN]
  /\ halted \in [CPUs -> BOOLEAN] /\ dma \in [CPUs -> BOOLEAN]
  /\ brk \in BOOLEAN /\ term \in BOOLEAN /\ breakPc \in BOOLEAN
  /\ depth \in 0..MaxDepth
  /\ bank \in [Levels -> BOOLEAN] /\ dirty \in [Levels -> BOOLEAN]
  /\ invalid \in [Levels -> BOOLEAN]

NoLevels == [d \in Levels |-> FALSE]

(* runtime_init and nds_io_reset. *)
Init ==
  /\ at = "host" /\ active = 0 /\ limit = 0 /\ hint = TRUE
  /\ cap = 0 /\ rc = 0 /\ debt = 0 /\ masked = TRUE
  /\ ime = [c \in CPUs |-> FALSE] /\ source = [c \in CPUs |-> FALSE]
  /\ cache = [c \in CPUs |-> FALSE]
  /\ halted = [c \in CPUs |-> FALSE] /\ dma = [c \in CPUs |-> FALSE]
  /\ brk = FALSE /\ term = FALSE /\ breakPc = FALSE
  /\ depth = 0 /\ bank = NoLevels /\ dirty = NoLevels /\ invalid = NoLevels

------------------------------------------------------------------------------
(* The re-arm funnels.                                                     *)

(* request_yield_poll. *)
RequestYieldPoll == hint' = TRUE /\ limit' = 0

(* runtime_clear_fast_limit. *)
ClearFastLimit == limit' = 0 /\ UNCHANGED hint

(* nds_irq_pending. *)
Pending(on, src) == on /\ src

(* Mutant: the pending cache is recomputed but the deadline stays.         *)
IrqRecomputeKeepsLimit(c) ==
  /\ cache' = [cache EXCEPT ![c] = Pending(ime'[c], source'[c])]
  /\ UNCHANGED <<limit, hint>>

(* irq_recompute, the single funnel of the pending cache.                  *)
IrqRecompute(c) ==
  /\ cache' = [cache EXCEPT ![c] = Pending(ime'[c], source'[c])]
  /\ ClearFastLimit

------------------------------------------------------------------------------
(* Polling.                                                                *)

(* active_static_code_changed: g_static_guard is the top level's.          *)
CodeChanged == depth > 0 /\ bank[depth] /\ invalid[depth]

(* publish_fast_limit: the new limit.                                      *)
PublishedLimit(c, owed) ==
  IF \/ breakPc \/ term \/ owed # 0 \/ CodeChanged \/ brk
     \/ halted[active] \/ dma[active] \/ c[active]
  THEN 0 ELSE cap

(* The full scan of runtime_should_yield_slow finds a reason to leave.     *)
MustYield(hit) ==
  brk \/ halted[active] \/ dma[active] \/ CodeChanged \/ hit \/ rc >= cap \/ term

(* Leave every static frame: the scheduler's dispatch loop is next.        *)
Unwind == /\ at' = "host" /\ depth' = 0
          /\ bank' = NoLevels /\ dirty' = NoLevels /\ invalid' = NoLevels

InBank   == depth > 0 /\ bank[depth]
InTier3  == depth > 0 /\ ~bank[depth]

(* runtime_should_yield below the limit: nothing is looked at.             *)
PollFast ==
  /\ at = "poll" /\ InBank /\ rc < limit
  /\ at' = "body"
  /\ UNCHANGED <<active, limit, hint, clockVars, masked, irqVars, flagVars, guardVars>>

(* runtime_should_yield_slow.  hit: the PC is the armed break PC.          *)
PollSlow ==
  /\ at = "poll" /\ InBank /\ rc >= limit
  /\ \E hit \in BOOLEAN :
       /\ hit => breakPc
       /\ IF ~hint /\ ~hit /\ rc < cap
          THEN /\ limit' = PublishedLimit(cache, debt) /\ at' = "body"
               /\ UNCHANGED <<hint, term, guardVars>>
          ELSE IF ~MustYield(hit)
          THEN /\ hint' = FALSE /\ limit' = PublishedLimit(cache, debt) /\ at' = "body"
               /\ UNCHANGED <<term, guardVars>>
          ELSE /\ IF hit /\ ~(brk \/ halted[active] \/ dma[active] \/ CodeChanged)
                  THEN term' = TRUE /\ RequestYieldPoll
                  ELSE UNCHANGED <<term, hint, limit>>
               /\ Unwind
  /\ UNCHANGED <<active, clockVars, masked, irqVars, halted, dma, brk, breakPc>>

(* The top of the Tier-3 loop.                                             *)
PollTier3 ==
  /\ at = "poll" /\ InTier3
  /\ IF rc >= limit /\ brk THEN Unwind ELSE at' = "body" /\ UNCHANGED guardVars
  /\ UNCHANGED <<active, limit, hint, clockVars, masked, irqVars, flagVars>>

------------------------------------------------------------------------------
(* What an instruction may do before it is ticked.                         *)

Body == at = "body" /\ at' = "tick" /\ UNCHANGED active

ExecPlain ==
  /\ Body
  /\ masked' \in BOOLEAN                        \* MSR may move CPSR.I
  /\ UNCHANGED <<limit, hint, clockVars, irqVars, flagVars, guardVars>>

(* IME, IE or IF of either CPU: the own registers, or nds_raise_irq on the *)
(* peer through the IPC devices.                                           *)
ExecIrq ==
  /\ Body
  /\ \E c \in CPUs, on \in BOOLEAN, src \in BOOLEAN :
       /\ c # active => on = ime[c]
       /\ ime' = [ime EXCEPT ![c] = on]
       /\ source' = [source EXCEPT ![c] = src]
       /\ IrqRecompute(c)
  /\ UNCHANGED <<clockVars, masked, flagVars, guardVars>>

(* HALTCNT or CP15 WFI: nds_cpu_enter_halt.                                *)
ExecHalt ==
  /\ Body /\ RequestYieldPoll
  /\ halted' = [halted EXCEPT ![active] = TRUE]
  /\ UNCHANGED <<clockVars, masked, irqVars, dma, brk, term, breakPc, guardVars>>

(* A store that starts a DMA on the own bus: dma_start.                    *)
ExecDma ==
  /\ Body /\ RequestYieldPoll
  /\ dma' = [dma EXCEPT ![active] = TRUE]
  /\ UNCHANGED <<clockVars, masked, irqVars, halted, brk, term, breakPc, guardVars>>

(* An armed event counter reaches its target: brk_check.                   *)
ExecEvent ==
  /\ Body /\ RequestYieldPoll
  /\ brk' = TRUE
  /\ UNCHANGED <<clockVars, masked, irqVars, halted, dma, term, breakPc, guardVars>>

(* Unimplemented opcode or failed dispatch: nds_halt.                      *)
ExecFail ==
  /\ Body /\ RequestYieldPoll
  /\ term' = TRUE
  /\ UNCHANGED <<clockVars, masked, irqVars, halted, dma, brk, breakPc, guardVars>>

(* A device write arms an earlier deadline: nds_reschedule_slice.          *)
ExecReschedule ==
  /\ Body
  /\ \E deadline \in 1..Quantum :
       IF deadline < cap THEN cap' = deadline /\ ClearFastLimit
       ELSE UNCHANGED <<cap, limit, hint>>
  /\ UNCHANGED <<rc, debt, masked, irqVars, flagVars, guardVars>>

(* The guard was invalidated: the poll must see it.                        *)
Noticed == RequestYieldPoll

(* A store changes (or restores) the bytes of some functions on the stack. *)
(* runtime_note_code_write checks only the function now executing.         *)
ExecCodeWrite ==
  /\ Body
  /\ \E now \in [Levels -> BOOLEAN] :
       /\ \A d \in Levels : now[d] => d <= depth /\ bank[d]
       /\ dirty' = now
       /\ IF InBank /\ ~invalid[depth] /\ now[depth]
          THEN invalid' = [invalid EXCEPT ![depth] = TRUE] /\ Noticed
          ELSE UNCHANGED <<invalid, limit, hint>>
  /\ UNCHANGED <<clockVars, masked, irqVars, flagVars, depth, bank>>

------------------------------------------------------------------------------
(* Ticking.                                                                *)

(* runtime_irq, at the end of a slow tick: vector entry, refill, dispatch. *)
TakesIrq == ~masked /\ cache[active]

TickFast(cost) ==
  /\ at = "tick" /\ InBank /\ rc + cost < limit
  /\ rc' = rc + cost /\ at' \in {"poll", "branch"}
  /\ UNCHANGED <<active, limit, hint, cap, debt, masked, irqVars, flagVars, guardVars>>

(* A new level on the host stack: its bytes have just been validated.      *)
Push(kind) ==
  /\ depth < MaxDepth
  /\ depth' = depth + 1
  /\ bank' = [bank EXCEPT ![depth + 1] = kind]
  /\ dirty' = [dirty EXCEPT ![depth + 1] = FALSE]
  /\ invalid' = [invalid EXCEPT ![depth + 1] = FALSE]

TickSlow(cost) ==
  /\ at = "tick" /\ InBank /\ rc + cost >= limit
  /\ rc' = rc + cost + debt + (IF TakesIrq THEN Refill ELSE 0)
  /\ debt' = 0
  /\ IF TakesIrq THEN masked' = TRUE /\ Push(TRUE) /\ at' = "poll"
     ELSE UNCHANGED <<masked, guardVars>> /\ at' \in {"poll", "branch"}
  /\ UNCHANGED <<active, limit, hint, cap, irqVars, flagVars>>

(* Mutant: the caller's guard becomes active again without a second look.  *)
GuardRestoredBlindly == UNCHANGED <<invalid, limit, hint>>

(* ~StaticGuardScope: a nested call may have written through an alias of   *)
(* its caller's page, so the caller's guard is validated again.            *)
GuardRestored ==
  LET caller == depth - 1
  IN  IF bank[caller] /\ (invalid[caller] \/ dirty[caller])
      THEN invalid' = [invalid EXCEPT ![caller] = TRUE] /\ RequestYieldPoll
      ELSE UNCHANGED <<invalid, limit, hint>>

Pop == /\ depth' = depth - 1 /\ GuardRestored /\ UNCHANGED <<bank, dirty>>

(* Tier 3 after an instruction: commit, then scan unless below the limit.  *)
(* A terminal halt returns to the enclosing frame at once.                 *)
TickTier3(cost) ==
  /\ at = "tick" /\ InTier3
  /\ debt' = 0
  /\ LET t    == rc + cost + debt
         poll == t >= limit
         irq  == poll /\ TakesIrq
     IN  /\ rc' = t + (IF irq THEN Refill ELSE 0)
         /\ masked' = (masked \/ irq)
         /\ IF term
            THEN IF depth > 1 THEN at' = "poll" /\ Pop
                 ELSE Unwind /\ UNCHANGED <<limit, hint>>
            ELSE IF poll /\ (halted[active] \/ dma[active] \/ brk \/ rc' >= cap)
            THEN Unwind /\ UNCHANGED <<limit, hint>>
            ELSE /\ at' \in {"poll", "branch"}
                 /\ limit' = IF poll THEN PublishedLimit(cache, 0) ELSE limit
                 /\ UNCHANGED <<hint, guardVars>>
  /\ UNCHANGED <<active, cap, irqVars, flagVars>>

(* The instruction was a call: of a static function, or a miss into Tier 3. *)
Call ==
  /\ at = "branch" /\ InBank
  /\ \E kind \in BOOLEAN : Push(kind)
  /\ at' = "poll"
  /\ UNCHANGED <<active, limit, hint, clockVars, masked, irqVars, flagVars>>

(* It was a return, or Tier 3 hands over to a static function.             *)
Return ==
  /\ at = "branch"
  /\ IF depth > 1 THEN at' = "poll" /\ Pop
     ELSE Unwind /\ UNCHANGED <<limit, hint>>
  /\ UNCHANGED <<active, clockVars, masked, irqVars, flagVars>>

------------------------------------------------------------------------------
(* The scheduler.                                                          *)

Dispatch == /\ at' = "poll" /\ depth' = 1
            /\ \E kind \in BOOLEAN : bank' = [NoLevels EXCEPT ![1] = kind]
            /\ dirty' = NoLevels /\ invalid' = NoLevels

(* nds_slice_begin's re-arm.                                               *)
SliceBegin == RequestYieldPoll

(* run_slice loads a CPU (its registers and debt), arms the cap and        *)
(* dispatches.  Times are relative to the start of the slice.              *)
StartSlice ==
  /\ at = "host"
  /\ \E c \in CPUs, m \in BOOLEAN, d \in Debts :
       /\ ~dma[c] /\ (halted[c] => source[c])
       /\ active' = c /\ masked' = m /\ debt' = d
       /\ halted' = [halted EXCEPT ![c] = FALSE]
  /\ rc' = 0 /\ cap' = Quantum /\ term' = FALSE
  /\ ~brk
  /\ SliceBegin
  /\ Dispatch
  /\ UNCHANGED <<irqVars, dma, brk, breakPc>>

(* The slice's dispatch loop goes round again.                             *)
Redispatch ==
  /\ at = "host" /\ rc < cap /\ ~term /\ ~dma[active] /\ ~halted[active] /\ ~brk
  /\ Dispatch
  /\ UNCHANGED <<active, limit, hint, clockVars, masked, irqVars, flagVars>>

(* Device ticks: interrupts on either CPU, DMA started or finished.        *)
DeviceIrq ==
  /\ at = "host"
  /\ \E c \in CPUs : /\ source' = [source EXCEPT ![c] = TRUE]
                     /\ UNCHANGED ime /\ IrqRecompute(c)
  /\ UNCHANGED <<at, active, clockVars, masked, flagVars, guardVars>>

DeviceDma ==
  /\ at = "host"
  /\ \E c \in CPUs :
       \/ dma' = [dma EXCEPT ![c] = TRUE] /\ RequestYieldPoll
       \/ dma' = [dma EXCEPT ![c] = FALSE] /\ UNCHANGED <<limit, hint>>
  /\ UNCHANGED <<at, active, clockVars, masked, irqVars, halted, brk, term, breakPc, guardVars>>

(* The debugger disarms the event break or moves the break PC.             *)
Debug ==
  /\ at = "host"
  /\ brk' = FALSE /\ breakPc' \in BOOLEAN
  /\ ClearFastLimit
  /\ UNCHANGED <<at, active, clockVars, masked, irqVars, halted, dma, term, guardVars>>

Poll   == PollFast \/ PollSlow \/ PollTier3
Effect == ExecPlain \/ ExecIrq \/ ExecHalt \/ ExecDma \/ ExecEvent \/ ExecFail
          \/ ExecReschedule \/ ExecCodeWrite
Tick   == \E cost \in Costs : TickFast(cost) \/ TickSlow(cost) \/ TickTier3(cost)
Host   == StartSlice \/ Redispatch \/ DeviceIrq \/ DeviceDma \/ Debug

Next == Poll \/ Effect \/ Tick \/ Call \/ Return \/ Host
Spec == Init /\ [][Next]_vars

------------------------------------------------------------------------------
(* Below the limit neither skipped check could have found anything: no     *)
(* reason to yield, no interrupt to take, no debt to commit, and the cap   *)
(* is not reached.  ("nothing is approximated, only skipped when it is     *)
(* provably a no-op", runtime_arm.h)                                       *)
FastPathIsNoOp ==
  at # "host" /\ rc < limit =>
    /\ limit <= cap /\ debt = 0 /\ ~Pending(ime[active], source[active])
    /\ ~(brk \/ term \/ breakPc \/ halted[active] \/ dma[active] \/ CodeChanged)

(* While the hint is clear the short poll misses nothing the full scan     *)
(* looks at.                                                               *)
HintIsEager ==
  at # "host" /\ ~hint => ~(brk \/ term \/ halted[active] \/ dma[active] \/ CodeChanged)

(* The cached pending bit always equals IME && (IE & IF), for both CPUs.   *)
PendingCacheCoherent == \A c \in CPUs : cache[c] = (ime[c] /\ source[c])

(* No service is missed between two compares with the limit: what the fast *)
(* path skips, what the short poll skips and what the interrupt check      *)
(* reads are what the full check would have found.                         *)
NoServiceMissed == FastPathIsNoOp /\ HintIsEager /\ PendingCacheCoherent

(* "Never continue stale native semantics": no recompiled instruction is   *)
(* executed once the bytes it was translated from have been overwritten,   *)
(* by its own function, a callee or an interrupt handler.                  *)
NoStaleCode == at = "body" /\ InBank => ~dirty[depth]

==============================================================================
