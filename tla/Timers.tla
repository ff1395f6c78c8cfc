-------------------------------- MODULE Timers ---------------------------------
(***************************************************************************)
(* One CPU's bank of hardware timers (src/runner/src/io.cpp).  The code    *)
(* does not step timers: it remembers when a bank was last brought up to   *)
(* date and catches it up in one go, from the scheduler at a rendezvous    *)
(* and from a guest access to a timer register.  The scheduler also asks   *)
(* for the next overflow, which bounds how far an idle system may jump.    *)
(*                                                                         *)
(* Beside the code's bank runs the hardware's: `hw' is stepped once per    *)
(* system cycle.  A counter spans Top (0x10000 in the code).               *)
(***************************************************************************)
EXTENDS Naturals

CONSTANTS Top,
          TimerIds,  \* the timers of the bank, 0..n
          Controls,  \* the control values the guest writes:
                     \* [enable, cascade, irq : BOOLEAN, pre : Nat]
          Reloads,   \* the reload values it writes
          MaxGap,    \* bound: cycles between two catch-ups
          MaxWrites  \* bound: control and reload writes

VARIABLES bank,      \* [TimerIds -> [reload, counter, accum, ctrl]]
          gap,       \* the CPU's timestamp minus g_timer_last
          irq,       \* overflow interrupts the code has requested
          hw, hwIrq, \* the same, stepped once per cycle
          wrapped,   \* a clocked hardware timer has overflowed in the gap
          stale,     \* a reload was written past an overflow in the gap
          writes

vars == <<bank, gap, irq, hw, hwIrq, wrapped, stale, writes>>

Off == [enable |-> FALSE, cascade |-> FALSE, irq |-> FALSE, pre |-> 1]

Init ==
  /\ bank = [t \in TimerIds |-> [reload |-> 0, counter |-> 0, accum |-> 0,
                                 ctrl |-> Off]]
  /\ hw = bank
  /\ gap = 0 /\ writes = 0
  /\ irq = {} /\ hwIrq = {} /\ wrapped = FALSE /\ stale = FALSE

-----------------------------------------------------------------------------
(* nds_tick_timers.                                                        *)

\* A clock-driven timer divides the elapsed cycles, keeping the remainder; a
\* count-up timer takes the overflows of the timer below.  Nothing happens
\* when no cycle has elapsed.
Ticks(T, delta, carry) ==
  IF delta = 0 THEN 0
  ELSE IF T.ctrl.cascade THEN carry
  ELSE (T.accum + delta) \div T.ctrl.pre

\* How often it overflows: once to the end of the counter, then once for
\* every span of the reload value.
OverflowsOnce(T, ticks) ==
  IF ~T.ctrl.enable \/ ticks < Top - T.counter THEN 0 ELSE 1
Overflows(T, ticks) ==
  IF ~T.ctrl.enable \/ ticks < Top - T.counter THEN 0
  ELSE 1 + (ticks - (Top - T.counter)) \div (Top - T.reload)

\* A disabled timer breaks the chain of carries.
Carries(b, delta) ==
  LET c[t \in TimerIds] ==
        Overflows(b[t], Ticks(b[t], delta, IF t = 0 THEN 0 ELSE c[t - 1]))
  IN  c

Ticked(T, delta, ticks) ==
  IF ~T.ctrl.enable \/ delta = 0 THEN T
  ELSE [T EXCEPT
          !.accum = IF T.ctrl.cascade THEN @ ELSE (@ + delta) % T.ctrl.pre,
          !.counter = IF ticks < Top - @ THEN @ + ticks
                      ELSE T.reload + ((ticks - (Top - @)) % (Top - T.reload))]

Caught(b, delta) ==
  LET c == Carries(b, delta)
  IN  [t \in TimerIds |->
         Ticked(b[t], delta, Ticks(b[t], delta, IF t = 0 THEN 0 ELSE c[t - 1]))]

Requested(b, delta) ==
  {t \in TimerIds : b[t].ctrl.irq /\ Carries(b, delta)[t] > 0}

\* nds_next_timer_overflow_time has come: only clock-driven timers own an
\* instant, count-up timers overflow at the instant of a timer below.
OverflowDue(T) == (Top - T.counter) * T.ctrl.pre <= gap + T.accum
Due == \E t \in TimerIds :
         bank[t].ctrl.enable /\ ~bank[t].ctrl.cascade /\ OverflowDue(bank[t])

-----------------------------------------------------------------------------
\* A cycle of guest time.  The hardware takes it at once.
Cycle ==
  /\ gap < MaxGap
  /\ gap' = gap + 1
  /\ hw' = Caught(hw, 1)
  /\ hwIrq' = hwIrq \cup Requested(hw, 1)
  /\ wrapped' = (wrapped \/ \E t \in TimerIds : ~hw[t].ctrl.cascade
                                                /\ Carries(hw, 1)[t] > 0)
  /\ UNCHANGED <<bank, irq, stale, writes>>

\* What a catch-up makes of the bank, the gap and the requests.
CatchUp == [bank |-> Caught(bank, gap), gap |-> 0,
            irq |-> irq \cup Requested(bank, gap)]

\* The scheduler's tick, and a guest read of any timer register.
Tick ==
  /\ gap > 0
  /\ bank' = Caught(bank, gap)
  /\ irq' = irq \cup Requested(bank, gap)
  /\ gap' = 0 /\ wrapped' = FALSE
  /\ UNCHANGED <<hw, hwIrq, stale, writes>>

\* Enabling reloads the counter and restarts the prescaler.
Started(T, c) ==
  IF c.enable /\ ~T.ctrl.enable
  THEN [T EXCEPT !.ctrl = c, !.counter = T.reload, !.accum = 0]
  ELSE [T EXCEPT !.ctrl = c]

\* nds_io_write, control half: the bank is caught up first.  A 32-bit write
\* stores the reload value before the control.
WriteControl ==
  /\ writes < MaxWrites
  /\ LET now == CatchUp
     IN  \E t \in TimerIds, c \in Controls :
           \E r \in Reloads \cup {bank[t].reload} :
             /\ bank' = [now.bank EXCEPT
                           ![t] = Started([@ EXCEPT !.reload = r], c)]
             /\ hw' = [hw EXCEPT ![t] = Started([@ EXCEPT !.reload = r], c)]
             /\ gap' = now.gap /\ irq' = now.irq
  /\ wrapped' = FALSE
  /\ writes' = writes + 1
  /\ UNCHANGED <<hwIrq, stale>>

\* nds_io_write, 16 bits of reload: nothing is caught up, so an overflow that
\* lies in the gap will be applied with the new value.
WriteReload ==
  /\ writes < MaxWrites
  /\ \E t \in TimerIds, r \in Reloads :
       /\ bank' = [bank EXCEPT ![t].reload = r]
       /\ hw' = [hw EXCEPT ![t].reload = r]
  /\ stale' = (stale \/ wrapped)
  /\ writes' = writes + 1
  /\ UNCHANGED <<gap, irq, hwIrq, wrapped>>

Next == Cycle \/ Tick \/ WriteControl \/ WriteReload

-----------------------------------------------------------------------------
(* Properties.                                                             *)

\* Catching a bank up in one step, whatever the gap and wherever the cascade
\* carries, leaves exactly what the hardware reached cycle by cycle, and has
\* requested exactly its interrupts (nds_tick_timers).
CatchUpExact ==
  ~stale => /\ Caught(bank, gap) = hw
            /\ irq \cup Requested(bank, gap) = hwIrq

\* The deadline an idle jump plans on is never late: while it lies ahead, no
\* timer, count-up timers included, has overflowed; and it is not early
\* either, unless a control write shortened the prescaler under a remainder.
OverflowDeadlineExact ==
  ~stale => /\ wrapped \/ irq # hwIrq => Due
            /\ Due /\ (\A t \in TimerIds : bank[t].accum < bank[t].ctrl.pre)
                 => wrapped
=============================================================================
