--------------------------- MODULE Scheduler_proofs ---------------------------
(***************************************************************************)
(* Type correctness, context integrity and the times of a round, for every *)
(* cap, margin, instruction cost, debt bound and set of deadlines.         *)
(***************************************************************************)
EXTENDS Scheduler, TLAPS

(* The parked and live contexts are right, and a slice has a CPU loaded.   *)
IInv == TypeOK /\ (phase = "slice" => cur \in CPUs) /\ ContextIntegrity

(* Rounding an overflow up to the grid never lands before the overflow.    *)
LEMMA TimerGridType ==
  ASSUME NEW t \in Nat, NEW o \in Nat
  PROVE  TimerGrid(t, o) \in Nat
<1> DEFINE a == o - t + kIterCap - 1
           n == a \div kIterCap
<1>1. kIterCap \in Nat \ {0} /\ a \in Int
  BY RendezvousAssumption
<1>2. n \in Int /\ a < kIterCap * n + kIterCap
  BY <1>1, SMT
<1>3. n * kIterCap = kIterCap * n /\ kIterCap * n \in Int
  BY <1>1, <1>2, SMT
<1>4. TimerGrid(t, o) = t + n * kIterCap
  BY DEF TimerGrid
<1> HIDE DEF n
<1> QED BY <1>1, <1>2, <1>3, <1>4

(* A round's target is a time.                                             *)
LEMMA TargetType ==
  ASSUME NEW t \in Nat, NEW d \in Nat, NEW o \in Nat
  PROVE  FastForwardTarget(t, d, o) \in Nat /\ PlannedTarget(t, d) \in Nat
<1>1. TimerGrid(t, o) \in Nat
  BY TimerGridType
<1> QED BY <1>1, RendezvousAssumption
        DEF FastForwardTarget, FastForwardWake, PlannedTarget, Snap

(* Deadlines are times.                                                    *)
LEMMA DeadlineType ==
  ASSUME NEW t \in Nat
  PROVE  Deadlines(t) \subseteq Nat
BY SchedulerAssumption, GapsAssumption DEF Deadlines

LEMMA ClockType == \A c \in CPUs : Clock(c) \in {1, 2}
BY DEF Clock, CPUs, ARM9, ARM7

(* An executed instruction leaves a well-formed context with no debt.      *)
LEMMA RetiredType ==
  ASSUME NEW ctx \in Context
  PROVE  /\ Retired(ctx) \in Context
         /\ [Retired(ctx) EXCEPT !.debt = 0] = Retired(ctx)
<1>1. ctx.calls \in 0..1 /\ 1 - ctx.calls \in 0..1
  BY DEF Context
<1>2. Retired(ctx) = [who |-> ctx.who, calls |-> 1 - ctx.calls, debt |-> 0]
  BY DEF Retired
<1>3. ctx.who \in CPUs
  BY DEF Context
<1> QED BY <1>1, <1>2, <1>3 DEF Context

(* The two ways a slice is entered or skipped keep the contexts right.     *)
LEMMA SwitchKeeps ==
  ASSUME IInv, NEW c \in CPUs, SwitchTo(c), live' = Loaded(c), truth' = truth
  PROVE  /\ cur' = c /\ live' \in Context /\ slot' \in [CPUs -> Context]
         /\ live' = truth[c]
         /\ ContextIntegrity'
<1> USE DEF IInv, TypeOK
<1>1. cur' = c /\ live' \in Context /\ slot' \in [CPUs -> Context]
  <2>1. SaveCurrent \in [CPUs -> Context]
    BY DEF SaveCurrent
  <2>2. slot' \in [CPUs -> Context] /\ cur' = c
    BY <2>1 DEF SwitchTo
  <2> QED BY <2>2 DEF Loaded
<1>2. live' = truth[c]
  BY DEF Loaded, ContextIntegrity, Current
<1>3. ASSUME NEW d \in CPUs, d # c PROVE slot'[d] = truth[d]
  <2>1. CASE cur = d
    BY <2>1, <1>3 DEF SwitchTo, SaveCurrent, ContextIntegrity, Current,
                      None, CPUs, ARM9, ARM7
  <2>2. CASE cur # d
    <3>1. slot[d] = truth[d]
      BY <2>2 DEF ContextIntegrity, Current
    <3>2. slot'[d] = slot[d]
      BY <2>2, <1>3 DEF SwitchTo, SaveCurrent
    <3> QED BY <3>1, <3>2
  <2> QED BY <2>1, <2>2
<1> QED BY <1>1, <1>2, <1>3 DEF ContextIntegrity, Current

(* Ending a slice parks what the CPU now is.                               *)
LEMMA EndSliceKeeps ==
  ASSUME IInv, NEW ctx \in Context, NEW t \in Nat, NEW d \in Nat,
         cur \in CPUs, cur' = cur,
         EndSlice(cur, ctx, t, d),
         truth' = [truth EXCEPT ![cur] = [ctx EXCEPT !.debt = d]]
  PROVE  /\ live' \in Context /\ slot' \in [CPUs -> Context]
         /\ truth' \in [CPUs -> Context]
         /\ cyc' \in [CPUs -> Nat] /\ rc' \in Nat /\ cap' \in Nat /\ gcap' \in Nat
         /\ phase' \in Phases \ {"slice"}
         /\ ContextIntegrity'
<1> USE DEF IInv, TypeOK
<1>1. [ctx EXCEPT !.debt = d] \in Context
  BY DEF Context
<1>2. live' \in Context /\ truth' \in [CPUs -> Context]
  BY <1>1 DEF EndSlice
<1>3. slot' \in [CPUs -> Context]
  BY DEF EndSlice, Context
<1>4. \A c \in CPUs : c # cur => slot'[c] = truth'[c]
  BY DEF EndSlice, ContextIntegrity, Current
<1>5. live' = truth'[cur]
  BY <1>1 DEF EndSlice
<1>6. ContextIntegrity'
  BY <1>4, <1>5 DEF ContextIntegrity, Current
<1> QED BY <1>2, <1>3, <1>6 DEF EndSlice, AfterSlice, Phases

(* Whatever the action, the running CPU's live context is the true one.    *)
LEMMA LiveIsTruth ==
  ASSUME IInv, cur \in CPUs
  PROVE  live = truth[cur] /\ live \in Context /\ live.debt \in Nat
BY DEF IInv, TypeOK, ContextIntegrity, Current, Context

(* An instruction that commits its cost keeps the inductive invariant's    *)
(* share of the variables it changes.                                      *)
LEMMA CommitKeeps ==
  ASSUME IInv, phase = "slice", NEW cost \in Nat, NEW newCap \in Nat,
         Commit(cur, cost, newCap)
  PROVE  /\ live' \in Context /\ slot' \in [CPUs -> Context]
         /\ truth' \in [CPUs -> Context]
         /\ cyc' \in [CPUs -> Nat] /\ rc' \in Nat /\ cap' \in Nat /\ gcap' \in Nat
         /\ phase' \in Phases /\ cur' \in CPUs
         /\ UNCHANGED roundVars
         /\ ContextIntegrity'
<1> DEFINE t == rc + cost + live.debt
<1>1. cur \in CPUs /\ cur' = cur /\ UNCHANGED roundVars
  BY DEF IInv, Commit
<1>2. live = truth[cur] /\ live \in Context /\ live.debt \in Nat /\ t \in Nat
  BY <1>1, LiveIsTruth DEF IInv, TypeOK
<1>3. Retired(live) \in Context /\ [Retired(live) EXCEPT !.debt = 0] = Retired(live)
  BY <1>2, RetiredType
<1>4. truth' = [truth EXCEPT ![cur] = Retired(live)]
  BY <1>1, <1>2 DEF Commit
<1>5. CASE t >= newCap
  <2>1. EndSlice(cur, Retired(live), t, 0)
    BY <1>5 DEF Commit
  <2>2. truth' = [truth EXCEPT ![cur] = [Retired(live) EXCEPT !.debt = 0]]
    BY <1>3, <1>4
  <2> HIDE DEF t
  <2> QED BY <1>1, <1>2, <1>3, <2>1, <2>2, EndSliceKeeps
<1>6. CASE ~(t >= newCap)
  <2>1. live' = Retired(live) /\ rc' = t /\ gcap' = newCap
        /\ slot' = slot /\ cyc' = cyc /\ phase' = phase /\ cap' = cap
    BY <1>6 DEF Commit
  <2>2. truth' \in [CPUs -> Context] /\ slot' \in [CPUs -> Context]
    BY <1>1, <1>3, <1>4, <2>1 DEF IInv, TypeOK
  <2>3. ContextIntegrity'
    BY <1>1, <1>4, <2>1 DEF IInv, TypeOK, ContextIntegrity, Current
  <2> QED BY <1>1, <1>2, <1>3, <2>1, <2>2, <2>3 DEF IInv, TypeOK
<1> QED BY <1>5, <1>6

(* The same for an instruction whose cost becomes debt.                    *)
LEMMA DeferKeeps ==
  ASSUME IInv, phase = "slice", NEW t \in Nat, cur' = cur, Defer(cur, t)
  PROVE  /\ live' \in Context /\ slot' \in [CPUs -> Context]
         /\ truth' \in [CPUs -> Context]
         /\ cyc' \in [CPUs -> Nat] /\ rc' \in Nat /\ cap' \in Nat /\ gcap' \in Nat
         /\ phase' \in Phases \ {"slice"} /\ cur' \in CPUs
         /\ ContextIntegrity'
<1>1. cur \in CPUs
  BY DEF IInv
<1>2. live = truth[cur] /\ live \in Context /\ live.debt \in Nat
  BY <1>1, LiveIsTruth
<1>3. PICK cost \in 1..MaxCost :
        /\ truth' = [truth EXCEPT ![cur] =
                       [Retired(@) EXCEPT !.debt = cost + truth[cur].debt]]
        /\ EndSlice(cur, Retired(live), t, cost + live.debt)
  BY DEF Defer
<1>4. cost + live.debt \in Nat
  BY <1>2, SchedulerAssumption, GapsAssumption
<1>5. truth' = [truth EXCEPT ![cur] = [Retired(live) EXCEPT !.debt = cost + live.debt]]
  BY <1>1, <1>2, <1>3
<1>6. Retired(live) \in Context
  BY <1>2, RetiredType
<1> QED BY <1>1, <1>3, <1>4, <1>5, <1>6, EndSliceKeeps

LEMMA InitIInv == Init => IInv
<1> SUFFICES ASSUME Init PROVE IInv
  OBVIOUS
<1>1. \A c \in CPUs : FreshContext(c) \in Context
  BY DEF FreshContext, Context
<1>2. ARM9 \in CPUs
  BY DEF CPUs
<1>3. dev \in Nat
  BY DeadlineType DEF Init
<1>4. TypeOK
  BY <1>1, <1>2, <1>3, RendezvousAssumption, SchedulerAssumption, GapsAssumption
     DEF Init, TypeOK, Phases
<1>5. \A c \in CPUs : cur # c
  BY DEF Init, None, CPUs, ARM9, ARM7
<1>6. ContextIntegrity
  BY <1>5 DEF Init, ContextIntegrity, Current
<1> QED BY <1>4, <1>6 DEF IInv, Init

(* Instructions.                                                           *)
LEMMA InstructionIInv ==
  ASSUME IInv, Instruction
  PROVE  IInv'
<1>1. MaxCost \in Nat /\ 1..MaxCost \subseteq Nat
  BY SchedulerAssumption, GapsAssumption
<1>2. CASE ExecPlain
  <2>1. PICK cost \in 1..MaxCost : Commit(cur, cost, gcap)
    BY <1>2 DEF ExecPlain
  <2>2. phase = "slice" /\ cost \in Nat /\ gcap \in Nat /\ cur \in CPUs
    BY <1>1, <1>2 DEF ExecPlain, Running, IInv, TypeOK
  <2>3. wake' \in [CPUs -> BOOLEAN] /\ gxStall' \in BOOLEAN /\ off' \in BOOLEAN
    BY <1>2, <2>2 DEF ExecPlain, IInv, TypeOK
  <2> QED BY <1>2, <2>1, <2>2, <2>3, CommitKeeps
          DEF ExecPlain, IInv, TypeOK, roundVars
<1>3. CASE ExecSchedule
  <2>1. PICK cost \in 1..MaxCost, d \in Deadlines(rc \div Clock(cur)) :
          Commit(cur, cost, Lesser(gcap, d * Clock(cur))) /\ dev' = Lesser(dev, d)
    BY <1>3 DEF ExecSchedule
  <2>2. phase = "slice" /\ cost \in Nat /\ cur \in CPUs /\ rc \in Nat
    BY <1>1, <1>3 DEF ExecSchedule, Running, IInv, TypeOK
  <2>3. Clock(cur) \in {1, 2} /\ d \in Nat
    <3>1. Clock(cur) \in {1, 2}
      BY <2>2, ClockType
    <3>2. rc \div Clock(cur) \in Nat
      BY <3>1, <2>2
    <3> QED BY <3>1, <3>2, DeadlineType
  <2>4. Lesser(gcap, d * Clock(cur)) \in Nat /\ dev' \in Nat
    BY <2>1, <2>3 DEF Lesser, IInv, TypeOK
  <2> QED BY <1>3, <2>1, <2>2, <2>4, CommitKeeps
          DEF ExecSchedule, IInv, TypeOK, roundVars, flagVars
<1>4. CASE ExecTimer
  <2>1. PICK cost \in 1..MaxCost, d \in Deadlines(rc \div Clock(cur)) :
          Commit(cur, cost, gcap) /\ tov' = [tov EXCEPT ![cur] = d]
    BY <1>4 DEF ExecTimer
  <2>2. phase = "slice" /\ cost \in Nat /\ cur \in CPUs /\ rc \in Nat /\ gcap \in Nat
    BY <1>1, <1>4 DEF ExecTimer, Running, IInv, TypeOK
  <2>3. d \in Nat
    <3>1. Clock(cur) \in {1, 2}
      BY <2>2, ClockType
    <3>2. rc \div Clock(cur) \in Nat
      BY <3>1, <2>2
    <3> QED BY <3>2, DeadlineType
  <2>4. tov' \in [CPUs -> Nat]
    BY <2>1, <2>3 DEF IInv, TypeOK
  <2> QED BY <1>4, <2>1, <2>2, <2>4, CommitKeeps
          DEF ExecTimer, IInv, TypeOK, roundVars, flagVars
<1>5. CASE ExecHalt
  <2>1. phase = "slice" /\ cap \in Nat /\ cur \in CPUs
    BY <1>5 DEF ExecHalt, Running, IInv, TypeOK
  <2>2. ghalt' \in [CPUs -> BOOLEAN]
    BY <1>5 DEF ExecHalt, IInv, TypeOK
  <2> QED BY <1>5, <2>1, <2>2, DeferKeeps DEF ExecHalt, IInv, TypeOK, roundVars
<1>6. CASE ExecDma
  <2>1. phase = "slice" /\ rc \in Nat /\ cur \in CPUs
    BY <1>6 DEF ExecDma, Running, IInv, TypeOK
  <2>2. dma' \in [CPUs -> BOOLEAN]
    BY <1>6 DEF ExecDma, IInv, TypeOK
  <2> QED BY <1>6, <2>1, <2>2, DeferKeeps DEF ExecDma, IInv, TypeOK, roundVars
<1>7. CASE ExecStop
  <2>1. phase = "slice" /\ rc \in Nat /\ cur \in CPUs
    BY <1>7 DEF ExecStop, Running, IInv, TypeOK
  <2>2. PICK cost \in 1..MaxCost :
          /\ truth' = [truth EXCEPT ![cur] = Retired(@)]
          /\ EndSlice(cur, Retired(live), rc + cost + live.debt, 0)
    BY <1>7 DEF ExecStop
  <2>3. live = truth[cur] /\ live \in Context /\ live.debt \in Nat
    BY <2>1, LiveIsTruth
  <2>4. Retired(live) \in Context /\ [Retired(live) EXCEPT !.debt = 0] = Retired(live)
    BY <2>3, RetiredType
  <2>5. rc + cost + live.debt \in Nat
    BY <1>1, <2>1, <2>3
  <2>6. truth' = [truth EXCEPT ![cur] = [Retired(live) EXCEPT !.debt = 0]]
    BY <2>1, <2>2, <2>3, <2>4
  <2>7. term' \in [CPUs -> BOOLEAN] /\ brk' \in BOOLEAN /\ cur' = cur
    BY <1>7 DEF ExecStop, IInv, TypeOK
  <2> QED BY <1>7, <2>1, <2>2, <2>4, <2>5, <2>6, <2>7, EndSliceKeeps
          DEF ExecStop, IInv, TypeOK, roundVars
<1> QED BY <1>2, <1>3, <1>4, <1>5, <1>6, <1>7 DEF Instruction

(* run_slice, up to the first instruction.                                 *)
LEMMA RunSliceKeeps ==
  ASSUME IInv, NEW c \in CPUs, NEW quantum \in Nat, RunSlice(c, quantum)
  PROVE  /\ live' \in Context /\ slot' \in [CPUs -> Context]
         /\ truth' \in [CPUs -> Context]
         /\ cyc' \in [CPUs -> Nat] /\ rc' \in Nat /\ cap' \in Nat /\ gcap' \in Nat
         /\ term' = term /\ ghalt' \in [CPUs -> BOOLEAN]
         /\ wake' \in [CPUs -> BOOLEAN] /\ dma' \in [CPUs -> BOOLEAN]
         /\ UNCHANGED <<gxStall, brk, off, dev, tov>>
         /\ phase' \in Phases /\ cur' \in CPUs \cup {None}
         /\ phase' = "slice" => cur' \in CPUs
         /\ ContextIntegrity'
<1> USE DEF IInv, TypeOK
<1>1. AfterSlice(c) \in Phases \ {"slice"}
  BY DEF AfterSlice, Phases
<1>2. CASE SliceSleep(c, quantum)
  <2>1. cyc' \in [CPUs -> Nat]
    BY <1>2 DEF SliceSleep
  <2>2. ContextIntegrity'
    BY <1>2 DEF SliceSleep, cpuVars, ContextIntegrity, Current
  <2> QED BY <1>1, <1>2, <2>1, <2>2
          DEF SliceSleep, cpuVars, flagVars, sliceVars
<1>3. CASE SliceDma(c, quantum)
  <2>1. SwitchTo(c) /\ live' = Loaded(c) /\ truth' = truth
    BY <1>3 DEF SliceDma
  <2>2. PICK adv \in 1..(quantum + MaxCost - 1), done \in BOOLEAN, irq \in BOOLEAN :
          /\ cyc' = [cyc EXCEPT ![c] = @ + adv]
          /\ dma' = [dma EXCEPT ![c] = ~done]
          /\ wake' = [wake EXCEPT ![c] = @ \/ irq]
    BY <1>3 DEF SliceDma
  <2>3. adv \in Nat
    BY SchedulerAssumption, GapsAssumption
  <2>4. cyc' \in [CPUs -> Nat]
    BY <2>2, <2>3
  <2>5. dma' \in [CPUs -> BOOLEAN] /\ wake' \in [CPUs -> BOOLEAN]
    BY <2>2
  <2>6. cur' = c /\ live' \in Context /\ slot' \in [CPUs -> Context] /\ ContextIntegrity'
    BY <2>1, SwitchKeeps
  <2> QED BY <1>1, <1>3, <2>4, <2>5, <2>6 DEF SliceDma, sliceVars
<1>4. CASE SliceBegin(c, quantum)
  <2> DEFINE ctx == Loaded(c)
  <2>1. SwitchTo(c)
    BY <1>4 DEF SliceBegin
  <2>2. PICK irq \in BOOLEAN :
          /\ rc' = cyc[c] + (IF irq /\ ctx.debt = 0 THEN Refill ELSE 0)
          /\ live' = [ctx EXCEPT !.debt = IF irq /\ @ # 0 THEN @ + Refill ELSE @]
          /\ truth' = [truth EXCEPT ![c].debt =
                         IF irq /\ truth[c].debt # 0 THEN truth[c].debt + Refill
                         ELSE truth[c].debt]
    BY <1>4 DEF SliceBegin
  <2>3. ctx = truth[c] /\ ctx \in Context /\ ctx.debt \in Nat
    BY DEF Loaded, ContextIntegrity, Current, Context
  <2>4. cur' = c /\ slot' \in [CPUs -> Context]
    <3>1. SaveCurrent \in [CPUs -> Context]
      BY DEF SaveCurrent
    <3> QED BY <2>1, <3>1 DEF SwitchTo
  <2> HIDE DEF ctx
  <2> DEFINE newDebt == IF irq /\ ctx.debt # 0 THEN ctx.debt + Refill ELSE ctx.debt
  <2>5. newDebt \in Nat
    BY <2>3, SchedulerAssumption, GapsAssumption
  <2>6. live' = [ctx EXCEPT !.debt = newDebt]
    BY <2>2
  <2>7. truth' = [truth EXCEPT ![c] = [ctx EXCEPT !.debt = newDebt]]
    BY <2>2, <2>3
  <2> HIDE DEF newDebt
  <2>8. [ctx EXCEPT !.debt = newDebt] \in Context
    BY <2>3, <2>5 DEF Context
  <2>9. truth' \in [CPUs -> Context] /\ live' \in Context /\ live' = truth'[c]
    BY <2>6, <2>7, <2>8
  <2>10. ASSUME NEW d \in CPUs, d # c PROVE slot'[d] = truth'[d]
    <3>1. truth'[d] = truth[d]
      BY <2>7, <2>10
    <3>2. slot'[d] = IF cur = d THEN live ELSE slot[d]
      BY <2>1, <2>10 DEF SwitchTo, SaveCurrent, None, CPUs, ARM9, ARM7
    <3> QED BY <3>1, <3>2 DEF ContextIntegrity, Current
  <2>11. ContextIntegrity'
    BY <2>4, <2>9, <2>10 DEF ContextIntegrity, Current
  <2>12. rc' \in Nat /\ cap' \in Nat /\ gcap' \in Nat
    BY <1>4, <2>2, SchedulerAssumption, GapsAssumption DEF SliceBegin, SliceCap
  <2>13. ghalt' \in [CPUs -> BOOLEAN]
    BY <1>4 DEF SliceBegin
  <2> QED BY <1>4, <2>4, <2>9, <2>11, <2>12, <2>13 DEF SliceBegin, Phases
<1> QED BY <1>2, <1>3, <1>4 DEF RunSlice

(* Timer catch-up.                                                         *)
LEMMA TickKeeps ==
  ASSUME TypeOK, NEW c \in CPUs, NEW t \in Nat, TickTimers(c, t)
  PROVE  tov' \in [CPUs -> Nat] /\ wake' \in [CPUs -> BOOLEAN]
<1>1. Deadlines(t) \cup {Never} \subseteq Nat
  BY DeadlineType, RendezvousAssumption
<1>2. CASE tov[c] > t
  BY <1>2 DEF TickTimers, TypeOK
<1>3. CASE ~(tov[c] > t)
  <2>1. PICK d \in Deadlines(t) \cup {Never} : tov' = [tov EXCEPT ![c] = d]
    BY <1>3 DEF TickTimers
  <2>2. d \in Nat
    BY <1>1
  <2>3. wake' \in {wake, [wake EXCEPT ![c] = TRUE]}
    BY <1>3 DEF TickTimers
  <2> QED BY <2>1, <2>2, <2>3 DEF TypeOK
<1> QED BY <1>2, <1>3

(* Contexts that do not move stay right.                                   *)
LEMMA IntegrityStable ==
  ASSUME ContextIntegrity, UNCHANGED cpuVars
  PROVE  ContextIntegrity'
BY DEF ContextIntegrity, Current, cpuVars

(* The steps of a round between instructions, and what may happen between  *)
(* rounds.                                                                 *)
LEMMA RoundIInv ==
  ASSUME IInv, Round \/ SaveAndRestore \/ Disarm
  PROVE  IInv'
<1>0. ARM9 \in CPUs /\ ARM7 \in CPUs /\ Clock(ARM9) = 2
  BY DEF CPUs, Clock
<1>1. CASE PlanRound
  <2>1. NextOverflow \in Nat
    BY <1>0 DEF NextOverflow, Lesser, IInv, TypeOK
  <2>2. planned' \in Nat
    BY <1>1, <2>1, TargetType DEF PlanRound, IInv, TypeOK
  <2>3. ContextIntegrity'
    BY <1>1, IntegrityStable DEF PlanRound, IInv
  <2> QED BY <1>1, <2>2, <2>3
          DEF PlanRound, IInv, TypeOK, Phases, cpuVars, flagVars, sliceVars
<1>2. CASE Arm9Turn
  <2>1. Arm9Target \in Nat /\ UNCHANGED roundVars
    BY <1>0, <1>2 DEF Arm9Turn, Arm9Target, IInv, TypeOK
  <2>2. CASE term[ARM9] \/ cyc[ARM9] >= Arm9Target
    <3>1. phase' = "tick9" /\ UNCHANGED <<cyc, cpuVars, flagVars, sliceVars, dev, tov>>
      BY <1>2, <2>2 DEF Arm9Turn
    <3>2. ContextIntegrity'
      BY <3>1, IntegrityStable DEF IInv
    <3> QED BY <2>1, <3>1, <3>2
            DEF IInv, TypeOK, Phases, cpuVars, flagVars, sliceVars, roundVars
  <2>3. CASE ~(term[ARM9] \/ cyc[ARM9] >= Arm9Target) /\ gxStall
    <3>1. PICK debt \in 0..MaxCost :
            cyc' = [cyc EXCEPT ![ARM9] = Lesser(Arm9Target, @ + debt * Clock(ARM9))]
      BY <1>2, <2>3 DEF Arm9Turn
    <3>2. debt \in Nat /\ debt * Clock(ARM9) \in Nat
      BY <1>0, SchedulerAssumption, GapsAssumption
    <3>3. cyc' \in [CPUs -> Nat]
      BY <1>0, <2>1, <3>1, <3>2 DEF Lesser, IInv, TypeOK
    <3>4. phase' = "tick9" /\ UNCHANGED <<cpuVars, flagVars, sliceVars, dev, tov>>
      BY <1>2, <2>3 DEF Arm9Turn
    <3>5. ContextIntegrity'
      BY <3>4, IntegrityStable DEF IInv
    <3> QED BY <2>1, <3>3, <3>4, <3>5
            DEF IInv, TypeOK, Phases, cpuVars, flagVars, sliceVars, roundVars
  <2>4. CASE ~(term[ARM9] \/ cyc[ARM9] >= Arm9Target) /\ ~gxStall
    <3>1. RunSlice(ARM9, Arm9Target - cyc[ARM9])
      BY <1>2, <2>4 DEF Arm9Turn
    <3>2. Arm9Target - cyc[ARM9] \in Nat
      BY <1>0, <2>1, <2>4 DEF IInv, TypeOK
    <3> QED BY <1>0, <2>1, <3>1, <3>2, RunSliceKeeps DEF IInv, TypeOK, roundVars
  <2> QED BY <2>2, <2>3, <2>4
<1>3. CASE Tick9
  <2>1. cyc[ARM9] \div Clock(ARM9) \in Nat
    BY <1>0 DEF IInv, TypeOK
  <2>2. tov' \in [CPUs -> Nat] /\ wake' \in [CPUs -> BOOLEAN]
    BY <1>0, <1>3, <2>1, TickKeeps DEF Tick9, IInv
  <2>3. gxStall' \in BOOLEAN /\ dma' \in [CPUs -> BOOLEAN]
    BY <1>0, <1>3 DEF Tick9, IInv, TypeOK
  <2>4. ContextIntegrity'
    BY <1>3, IntegrityStable DEF Tick9, IInv
  <2> QED BY <1>3, <2>1, <2>2, <2>3, <2>4
          DEF Tick9, IInv, TypeOK, Phases, cpuVars, sliceVars
<1>4. CASE Arm7Turn
  <2>1. CASE Arm7Done
    <3>1. phase' = "devices"
          /\ UNCHANGED <<sys, planned, rdv, before, cyc, cpuVars, flagVars, sliceVars, dev, tov>>
      BY <1>4, <2>1 DEF Arm7Turn
    <3>2. ContextIntegrity'
      BY <3>1, IntegrityStable DEF IInv
    <3> QED BY <3>1, <3>2 DEF IInv, TypeOK, Phases, cpuVars, flagVars, sliceVars
  <2>2. CASE ~Arm7Done
    <3>1. before' = cyc[ARM7] /\ RunSlice(ARM7, rdv - cyc[ARM7])
          /\ UNCHANGED <<sys, planned, rdv>>
      BY <1>4, <2>2 DEF Arm7Turn
    <3>2. rdv - cyc[ARM7] \in Nat /\ before' \in Nat
      BY <1>0, <2>2, <3>1 DEF Arm7Done, IInv, TypeOK
    <3> QED BY <1>0, <3>1, <3>2, RunSliceKeeps DEF IInv, TypeOK
  <2> QED BY <2>1, <2>2
<1>5. CASE Tick7
  <2>1. cyc[ARM7] \in Nat
    BY <1>0 DEF IInv, TypeOK
  <2>2. tov' \in [CPUs -> Nat] /\ wake' \in [CPUs -> BOOLEAN]
    BY <1>0, <1>5, <2>1, TickKeeps DEF Tick7, IInv
  <2>3. ContextIntegrity'
    BY <1>5, IntegrityStable DEF Tick7, IInv
  <2> QED BY <1>5, <2>2, <2>3
          DEF Tick7, IInv, TypeOK, Phases, cpuVars, sliceVars, roundVars
<1>6. CASE Devices
  <2>1. Deadlines(rdv) \subseteq Nat
    BY DeadlineType DEF IInv, TypeOK
  <2>2. dev' \in Nat /\ term' \in [CPUs -> BOOLEAN]
        /\ wake' \in [CPUs -> BOOLEAN] /\ dma' \in [CPUs -> BOOLEAN]
    BY <1>6, <2>1 DEF Devices, IInv, TypeOK
  <2>3. ContextIntegrity'
    BY <1>6, IntegrityStable DEF Devices, IInv
  <2> QED BY <1>6, <2>2, <2>3
          DEF Devices, IInv, TypeOK, Phases, cpuVars, sliceVars
<1>7. CASE SaveAndRestore
  <2>1. slot' \in [CPUs -> Context]
    BY <1>7 DEF SaveAndRestore, SaveCurrent, IInv, TypeOK
  <2>2. live' \in Context
    BY <1>7 DEF SaveAndRestore, IInv, TypeOK, Context
  <2>3. ASSUME NEW c \in CPUs PROVE cur' # c /\ slot'[c] = truth'[c]
    <3>1. cur' # c
      BY <1>7 DEF SaveAndRestore, RestoredCur, None, CPUs, ARM9, ARM7
    <3>2. slot'[c] = IF cur = c THEN live ELSE slot[c]
      BY <1>7 DEF SaveAndRestore, SaveCurrent, IInv, TypeOK, None, CPUs, ARM9, ARM7
    <3> QED BY <1>7, <3>1, <3>2 DEF SaveAndRestore, IInv, ContextIntegrity, Current
  <2>4. ContextIntegrity'
    BY <2>3 DEF ContextIntegrity, Current
  <2> QED BY <1>7, <2>1, <2>2, <2>4
          DEF SaveAndRestore, RestoredCur, IInv, TypeOK, flagVars, sliceVars
<1>8. CASE Disarm
  <2>1. ContextIntegrity'
    BY <1>8, IntegrityStable DEF Disarm, IInv
  <2> QED BY <1>8, <2>1
          DEF Disarm, IInv, TypeOK, cpuVars, sliceVars, roundVars
<1> QED BY <1>1, <1>2, <1>3, <1>4, <1>5, <1>6, <1>7, <1>8 DEF Round

LEMMA NextIInv == IInv /\ [Next]_vars => IInv'
<1> SUFFICES ASSUME IInv, [Next]_vars PROVE IInv'
  OBVIOUS
<1>1. CASE Instruction
  BY <1>1, InstructionIInv
<1>2. CASE Round \/ SaveAndRestore \/ Disarm
  BY <1>2, RoundIInv
<1>3. CASE UNCHANGED vars
  BY <1>3 DEF vars, IInv, TypeOK, ContextIntegrity, Current
<1> QED BY <1>1, <1>2, <1>3 DEF Next

(* The inductive invariant holds of every reachable state.                 *)
LEMMA Invariant == Spec => []IInv
BY InitIInv, NextIInv, PTL DEF Spec

(* Type correctness of the scheduler.                                      *)
THEOREM TypeCorrect == Spec => []TypeOK
<1>1. IInv => TypeOK
  BY DEF IInv
<1> QED BY <1>1, Invariant, PTL

(* Each CPU always resumes with the registers, call-return stack and owed  *)
(* cycles its own instructions left, whatever ran in between.              *)
THEOREM ContextsIntact == Spec => []ContextIntegrity
<1>1. IInv => ContextIntegrity
  BY DEF IInv
<1> QED BY <1>1, Invariant, PTL

-----------------------------------------------------------------------------
(* Where the two timelines stand.  Until the ARM9's turn is over the round *)
(* has no rendezvous and its start sys is what both CPUs are measured      *)
(* against; afterwards the rendezvous is.                                  *)
Slicing(c) == phase = "slice" /\ cur = c
Before9 == phase \in {"idle", "arm9", "tick9"} \/ Slicing(ARM9)
After9  == phase \in {"arm7", "tick7", "devices"} \/ Slicing(ARM7)
Now9    == cyc[ARM9] \div Clock(ARM9)

(* A slice runs to its CPU's target and never backwards.                   *)
SliceInv ==
  phase = "slice" =>
    /\ gcap <= cap /\ cyc[cur] <= rc
    /\ cap = IF cur = ARM9 THEN Arm9Target ELSE rdv
    /\ cur = ARM7 => before = cyc[ARM7]

DebtInv == \A c \in CPUs : truth[c].debt <= MaxDebt

SkewInv ==
  /\ Before9 => sys <= Now9 /\ cyc[ARM7] < sys + Overshoot
  /\ phase \in {"idle", "arm9"} => Now9 = sys \/ cyc[ARM9] <= Refill
  /\ phase = "tick9" => cyc[ARM9] < Arm9Target + Overshoot \/ Now9 = sys
  /\ After9 => rdv = Now9 /\ sys <= rdv /\ cyc[ARM7] < rdv + Overshoot

(* A catch-up slice that ends where it began was stopped for a reason.     *)
LagInv ==
  /\ phase = "tick7" => \/ cyc[ARM7] # before \/ cyc[ARM7] >= rdv
                        \/ term[ARM7] \/ brk \/ dma[ARM7]
  /\ Arm7LagsOnlyUnderDma

(* Every time of a round is before Never.                                  *)
NearInv ==
  /\ \E g \in Gaps : dev <= sys + g
  /\ phase # "idle" => sys + 2 * Overshoot < Never
  /\ phase # "idle" /\ Before9 => planned + 2 * Overshoot < Never
  /\ After9 => rdv + Overshoot < Never

(* A timer that is not being caught up overflows in its CPU's future.      *)
TimerInv ==
  /\ phase # "tick9" /\ ~Slicing(ARM9) => tov[ARM9] > Now9
  /\ phase # "tick7" /\ ~Slicing(ARM7) => tov[ARM7] > cyc[ARM7]

(* A round leaves its events behind it, unless the console is off.         *)
EventInv == phase = "idle" => dev > sys \/ \A c \in CPUs : term[c]

JInv == SliceInv /\ DebtInv /\ SkewInv /\ LagInv /\ NearInv /\ TimerInv /\ EventInv

LEMMA Consts ==
  /\ MaxCost \in Nat /\ MaxCost > 0 /\ MaxDebt \in Nat /\ Refill \in Nat
  /\ Overshoot \in Nat /\ Overshoot = MaxCost + MaxDebt + Refill
  /\ kIterCap \in Nat /\ Horizon \in Nat /\ Never \in Nat
BY SchedulerAssumption, GapsAssumption, RendezvousAssumption DEF Overshoot

(* Halving the ARM9's cycles.                                              *)
LEMMA HalfFacts ==
  /\ \A x \in Nat : /\ x \div Clock(ARM9) \in Nat
                    /\ 2 * (x \div Clock(ARM9)) <= x
                    /\ x < 2 * (x \div Clock(ARM9)) + 2
  /\ \A x \in Nat, y \in Nat : x <= y => x \div Clock(ARM9) <= y \div Clock(ARM9)
  /\ \A x \in Nat : x * Clock(ARM9) = 2 * x
  /\ Clock(ARM9) = 2
<1>1. Clock(ARM9) = 2
  BY DEF Clock
<1> QED BY <1>1

LEMMA CpuFacts ==
  ARM9 \in CPUs /\ ARM7 \in CPUs /\ ARM9 # ARM7 /\ CPUs = {ARM9, ARM7}
BY DEF CPUs, ARM9, ARM7

(* What the types say of the times.                                        *)
LEMMA TimesType ==
  ASSUME TypeOK
  PROVE  /\ sys \in Nat /\ planned \in Nat /\ rdv \in Nat /\ before \in Nat /\ dev \in Nat
         /\ rc \in Nat /\ cap \in Nat /\ gcap \in Nat
         /\ cyc[ARM9] \in Nat /\ cyc[ARM7] \in Nat /\ tov[ARM9] \in Nat /\ tov[ARM7] \in Nat
         /\ Now9 \in Nat /\ 2 * Now9 <= cyc[ARM9] /\ cyc[ARM9] < 2 * Now9 + 2
         /\ Arm9Target \in Nat /\ Arm9Target = 2 * planned
<1>1. cyc[ARM9] \in Nat /\ cyc[ARM7] \in Nat /\ tov[ARM9] \in Nat /\ tov[ARM7] \in Nat
  BY CpuFacts DEF TypeOK
<1>2. planned \in Nat
  BY DEF TypeOK
<1> QED BY <1>1, <1>2, HalfFacts DEF TypeOK, Now9, Arm9Target

(* The ARM9's turn is over: it slept, stalled, transferred or executed.    *)
LEMMA Arm9Turned ==
  ASSUME TypeOK, JInv, TypeOK',
         phase = "arm9" \/ Slicing(ARM9), phase' = "tick9",
         UNCHANGED <<sys, planned>>,
         cyc'[ARM7] = cyc[ARM7], cyc[ARM9] <= cyc'[ARM9],
         cyc'[ARM9] < Arm9Target + Overshoot \/ Now9' = sys,
         tov'[ARM7] = tov[ARM7], dev' <= dev, DebtInv'
  PROVE  JInv'
<1>1. Before9 /\ phase # "idle" /\ ~After9 /\ phase # "tick7" /\ ~Slicing(ARM7)
  BY CpuFacts DEF Before9, After9, Slicing
<1>2. ~After9' /\ ~Slicing(ARM9)' /\ ~Slicing(ARM7)' /\ Before9'
  BY DEF Before9, After9, Slicing
<1>3. Now9 <= Now9'
  BY CpuFacts, TimesType, HalfFacts DEF Now9, TypeOK
<1>4. Now9' \in Nat /\ Now9 \in Nat /\ sys \in Nat /\ dev \in Nat /\ dev' \in Nat
  BY CpuFacts, TimesType, HalfFacts DEF Now9, TypeOK
<1>5. SkewInv'
  BY <1>1, <1>2, <1>3, <1>4 DEF JInv, SkewInv, Arm9Target
<1>6. NearInv'
  <2>1. PICK g \in Gaps : dev <= sys + g
    BY DEF JInv, NearInv
  <2>2. g \in Nat /\ dev' <= sys' + g
    BY <1>4, <2>1, SchedulerAssumption, GapsAssumption
  <2> QED BY <1>1, <1>2, <2>2 DEF JInv, NearInv
<1>7. TimerInv'
  BY <1>1, <1>2 DEF JInv, TimerInv
<1>8. SliceInv' /\ LagInv' /\ EventInv'
  BY DEF SliceInv, LagInv, EventInv, Arm7LagsOnlyUnderDma
<1> QED BY <1>5, <1>6, <1>7, <1>8 DEF JInv

(* The same for a turn of the ARM7.                                        *)
LEMMA Arm7Turned ==
  ASSUME TypeOK, JInv, TypeOK',
         phase = "arm7" \/ Slicing(ARM7), phase' = "tick7",
         UNCHANGED <<sys, rdv>>,
         cyc'[ARM9] = cyc[ARM9], cyc'[ARM7] < rdv + Overshoot,
         \/ cyc'[ARM7] # before' \/ cyc'[ARM7] >= rdv
         \/ term'[ARM7] \/ brk' \/ dma'[ARM7],
         tov'[ARM9] = tov[ARM9], dev' <= dev, DebtInv'
  PROVE  JInv'
<1>1. After9 /\ phase # "idle" /\ ~Before9 /\ phase # "tick9" /\ ~Slicing(ARM9)
  BY CpuFacts DEF Before9, After9, Slicing
<1>2. After9' /\ ~Slicing(ARM9)' /\ ~Slicing(ARM7)' /\ ~Before9'
  BY DEF Before9, After9, Slicing
<1>3. Now9' = Now9
  BY DEF Now9
<1>4. sys \in Nat /\ dev \in Nat /\ dev' \in Nat
  BY DEF TypeOK
<1>5. SkewInv'
  BY <1>1, <1>2, <1>3 DEF JInv, SkewInv
<1>6. NearInv'
  <2>1. PICK g \in Gaps : dev <= sys + g
    BY DEF JInv, NearInv
  <2>2. g \in Nat /\ dev' <= sys' + g
    BY <1>4, <2>1, SchedulerAssumption, GapsAssumption
  <2> QED BY <1>1, <1>2, <2>2 DEF JInv, NearInv
<1>7. TimerInv'
  BY <1>1, <1>2, <1>3 DEF JInv, TimerInv
<1>8. SliceInv' /\ LagInv' /\ EventInv'
  BY DEF SliceInv, LagInv, EventInv, Arm7LagsOnlyUnderDma
<1> QED BY <1>5, <1>6, <1>7, <1>8 DEF JInv

(* An instruction that ends the slice.                                     *)
LEMMA SliceEnds ==
  ASSUME IInv, JInv, TypeOK', phase = "slice", NEW t \in Nat,
         cyc' = [cyc EXCEPT ![cur] = t], phase' = AfterSlice(cur),
         UNCHANGED <<roundVars, cur>>,
         rc <= t, t < cap + Overshoot,
         t > rc \/ t >= cap \/ brk' \/ dma'[cur],
         tov'[Other(cur)] = tov[Other(cur)], dev' <= dev, DebtInv'
  PROVE  JInv'
<1>1. cur \in CPUs /\ TypeOK /\ cyc \in [CPUs -> Nat]
  BY DEF IInv, TypeOK
<1>2. sys' = sys /\ planned' = planned /\ rdv' = rdv /\ before' = before
  BY DEF roundVars
<1>3. gcap <= cap /\ cyc[cur] <= rc /\ rc \in Nat /\ cap \in Nat
  BY <1>1 DEF JInv, SliceInv, TypeOK
<1>4. CASE cur = ARM9
  <2>1. phase' = "tick9" /\ Slicing(ARM9) /\ cap = Arm9Target
    BY <1>4 DEF AfterSlice, Slicing, JInv, SliceInv
  <2>2. cyc'[ARM9] = t /\ cyc'[ARM7] = cyc[ARM7]
    BY <1>1, <1>4, CpuFacts
  <2>3. cyc[ARM9] \in Nat /\ cyc[ARM9] <= t
    BY <1>1, <1>3, <1>4, CpuFacts
  <2>4. tov'[ARM7] = tov[ARM7]
    BY <1>4 DEF Other, ARM9, ARM7
  <2> QED BY <1>1, <1>2, <2>1, <2>2, <2>3, <2>4, Arm9Turned
<1>5. CASE cur = ARM7
  <2>1. phase' = "tick7" /\ Slicing(ARM7) /\ cap = rdv /\ before = cyc[ARM7]
    BY <1>5, CpuFacts DEF AfterSlice, Slicing, JInv, SliceInv
  <2>2. cyc'[ARM7] = t /\ cyc'[ARM9] = cyc[ARM9]
    BY <1>1, <1>5, CpuFacts
  <2>3. t # before \/ t >= rdv \/ brk' \/ dma'[ARM7]
    BY <1>1, <1>3, <1>5, <2>1, CpuFacts
  <2>4. tov'[ARM9] = tov[ARM9]
    BY <1>5 DEF Other, ARM9, ARM7
  <2> QED BY <1>1, <1>2, <2>1, <2>2, <2>3, <2>4, Arm7Turned
<1> QED BY <1>1, <1>4, <1>5, CpuFacts

(* An instruction after which the slice goes on.                           *)
LEMMA SliceGoesOn ==
  ASSUME IInv, JInv, TypeOK', phase = "slice", phase' = "slice",
         UNCHANGED <<roundVars, cur, cyc, cap>>,
         gcap' <= gcap, rc <= rc',
         tov'[Other(cur)] = tov[Other(cur)], dev' <= dev, DebtInv'
  PROVE  JInv'
<1>1. cur \in CPUs /\ TypeOK
  BY DEF IInv
<1>2. sys' = sys /\ planned' = planned /\ rdv' = rdv /\ before' = before
  BY DEF roundVars
<1>3. Slicing(ARM9)' = Slicing(ARM9) /\ Slicing(ARM7)' = Slicing(ARM7)
      /\ Now9' = Now9 /\ Arm9Target' = Arm9Target
  BY <1>2 DEF Slicing, Now9, Arm9Target
<1>4. Before9' = Before9 /\ After9' = After9
  BY <1>3 DEF Before9, After9
<1>5. SliceInv'
  <2>1. gcap' <= cap /\ cyc[cur] <= rc'
    <3>1. /\ gcap \in Nat /\ gcap' \in Nat /\ cap \in Nat /\ rc \in Nat /\ rc' \in Nat
          /\ cyc[cur] \in Nat
      BY <1>1 DEF TypeOK
    <3>2. gcap <= cap /\ cyc[cur] <= rc
      BY DEF JInv, SliceInv
    <3> QED BY <3>1, <3>2
  <2> QED BY <1>2, <1>3, <2>1 DEF JInv, SliceInv
<1>6. SkewInv' /\ LagInv' /\ EventInv'
  BY <1>2, <1>3, <1>4 DEF JInv, SkewInv, LagInv, EventInv, Arm7LagsOnlyUnderDma
<1>7. NearInv'
  <2>1. PICK g \in Gaps : dev <= sys + g
    BY DEF JInv, NearInv
  <2>2. g \in Nat /\ dev' <= sys' + g
    BY <1>1, <1>2, <2>1, SchedulerAssumption, GapsAssumption DEF TypeOK
  <2> QED BY <1>2, <1>4, <2>2 DEF JInv, NearInv
<1>8. TimerInv'
  <2>1. ~Slicing(ARM9) => tov'[ARM9] = tov[ARM9]
    BY <1>1, CpuFacts DEF Slicing, Other, CPUs, ARM9, ARM7
  <2>2. ~Slicing(ARM7) => tov'[ARM7] = tov[ARM7]
    BY <1>1, CpuFacts DEF Slicing, Other, CPUs, ARM9, ARM7
  <2> QED BY <1>3, <2>1, <2>2 DEF JInv, TimerInv
<1> QED BY <1>5, <1>6, <1>7, <1>8 DEF JInv

(* The debt of the running CPU is the bounded one.                         *)
LEMMA LiveDebt ==
  ASSUME IInv, JInv, phase = "slice"
  PROVE  cur \in CPUs /\ live.debt \in Nat /\ live.debt <= MaxDebt
BY LiveIsTruth DEF IInv, JInv, DebtInv

LEMMA CommitJInv ==
  ASSUME IInv, JInv, TypeOK', Running, NEW cost \in 1..MaxCost, NEW newCap \in Nat,
         newCap <= gcap, Commit(cur, cost, newCap),
         tov'[Other(cur)] = tov[Other(cur)], dev' <= dev
  PROVE  JInv'
<1> DEFINE t == rc + cost + live.debt
<1>1. phase = "slice" /\ rc < cap /\ rc \in Nat /\ cap \in Nat /\ gcap <= cap
  BY DEF Running, IInv, TypeOK, JInv, SliceInv
<1>2. cur \in CPUs /\ live.debt \in Nat /\ live.debt <= MaxDebt
  BY <1>1, LiveDebt
<1>3. t \in Nat /\ rc <= t /\ t > rc /\ t < cap + Overshoot
  BY <1>1, <1>2, Consts
<1>4. DebtInv'
  <2>1. truth' = [truth EXCEPT ![cur] = Retired(@)]
    BY DEF Commit
  <2>2. ASSUME NEW c \in CPUs PROVE truth'[c].debt <= MaxDebt
    BY <1>2, <2>1, Consts DEF Retired, IInv, TypeOK, JInv, DebtInv
  <2> QED BY <2>2 DEF DebtInv
<1>5. UNCHANGED <<roundVars, cur>>
  BY DEF Commit
<1>6. CASE t >= newCap
  <2>1. cyc' = [cyc EXCEPT ![cur] = t] /\ phase' = AfterSlice(cur)
    BY <1>6 DEF Commit, EndSlice
  <2> HIDE DEF t
  <2> QED BY <1>1, <1>3, <1>4, <1>5, <2>1, SliceEnds
<1>7. CASE ~(t >= newCap)
  <2>1. rc' = t /\ gcap' = newCap /\ UNCHANGED <<cyc, phase, cap>>
    BY <1>7 DEF Commit
  <2> HIDE DEF t
  <2>2. rc <= rc' /\ gcap' <= gcap
    BY <1>1, <1>3, <2>1
  <2> QED BY <1>1, <1>4, <1>5, <2>1, <2>2, SliceGoesOn
<1> QED BY <1>6, <1>7

LEMMA DeferJInv ==
  ASSUME IInv, JInv, TypeOK', Running, NEW t \in {rc, cap}, Defer(cur, t),
         UNCHANGED <<roundVars, cur, dev, tov>>, t = cap \/ brk' \/ dma'[cur]
  PROVE  JInv'
<1>1. phase = "slice" /\ rc < cap /\ rc \in Nat /\ cap \in Nat
  BY DEF Running, IInv, TypeOK
<1>2. t \in Nat /\ rc <= t /\ t < cap + Overshoot /\ (t >= cap \/ brk' \/ dma'[cur])
  BY <1>1, Consts
<1>3. cur \in CPUs /\ live.debt \in Nat /\ live = truth[cur]
  BY <1>1, LiveIsTruth DEF IInv
<1>4. PICK cost \in 1..MaxCost :
        /\ cost + live.debt <= MaxDebt
        /\ truth' = [truth EXCEPT ![cur] =
                       [Retired(@) EXCEPT !.debt = cost + truth[cur].debt]]
        /\ EndSlice(cur, Retired(live), t, cost + live.debt)
  BY DEF Defer
<1>5. DebtInv'
  <2>1. truth'[cur].debt = cost + live.debt
    BY <1>3, <1>4 DEF IInv, TypeOK, Retired
  <2>2. ASSUME NEW c \in CPUs, c # cur PROVE truth'[c] = truth[c]
    BY <1>4, <2>2 DEF IInv, TypeOK
  <2> QED BY <1>4, <2>1, <2>2 DEF JInv, DebtInv
<1>6. cyc' = [cyc EXCEPT ![cur] = t] /\ phase' = AfterSlice(cur)
  BY <1>4 DEF EndSlice
<1>7. dev' <= dev
  BY DEF IInv, TypeOK
<1> QED BY <1>1, <1>2, <1>5, <1>6, <1>7, SliceEnds

LEMMA InstructionJInv ==
  ASSUME IInv, JInv, TypeOK', Instruction
  PROVE  JInv'
<1>1. Running /\ phase = "slice" /\ rc < cap /\ cur \in CPUs
  BY DEF Instruction, ExecPlain, ExecSchedule, ExecTimer, ExecHalt, ExecDma, ExecStop,
         Running, IInv
<1>2. /\ dev \in Nat /\ gcap \in Nat /\ gcap <= gcap /\ dev <= dev
      /\ rc \in Nat /\ cap \in Nat
  BY DEF IInv, TypeOK
<1>3. Other(cur) # cur /\ Other(cur) \in CPUs
  BY <1>1 DEF Other, CPUs, ARM9, ARM7
<1>4. CASE ExecPlain
  <2>1. PICK cost \in 1..MaxCost : Commit(cur, cost, gcap)
    BY <1>4 DEF ExecPlain
  <2>2. dev' = dev /\ tov' = tov
    BY <1>4 DEF ExecPlain
  <2> QED BY <1>1, <1>2, <2>1, <2>2, CommitJInv
<1>5. CASE ExecSchedule
  <2>1. PICK cost \in 1..MaxCost, d \in Deadlines(rc \div Clock(cur)) :
          Commit(cur, cost, Lesser(gcap, d * Clock(cur))) /\ dev' = Lesser(dev, d)
    BY <1>5 DEF ExecSchedule
  <2>2. Clock(cur) \in {1, 2} /\ d \in Nat
    <3>1. Clock(cur) \in {1, 2}
      BY <1>1, ClockType
    <3>2. rc \div Clock(cur) \in Nat
      BY <1>2, <3>1
    <3> QED BY <3>1, <3>2, DeadlineType
  <2>3. Lesser(gcap, d * Clock(cur)) \in Nat /\ Lesser(gcap, d * Clock(cur)) <= gcap
    BY <1>2, <2>2 DEF Lesser
  <2>4. dev' <= dev /\ tov' = tov
    BY <1>2, <1>5, <2>1, <2>2 DEF Lesser, ExecSchedule
  <2> QED BY <1>1, <2>1, <2>3, <2>4, CommitJInv
<1>6. CASE ExecTimer
  <2>1. PICK cost \in 1..MaxCost, d \in Deadlines(rc \div Clock(cur)) :
          Commit(cur, cost, gcap) /\ tov' = [tov EXCEPT ![cur] = d]
    BY <1>6 DEF ExecTimer
  <2>2. dev' = dev /\ tov'[Other(cur)] = tov[Other(cur)]
    BY <1>3, <1>6, <2>1 DEF ExecTimer, IInv, TypeOK
  <2> QED BY <1>1, <1>2, <2>1, <2>2, CommitJInv
<1>7. CASE ExecHalt
  <2>1. PICK b \in BOOLEAN : brk' = b /\ Defer(cur, IF b THEN rc ELSE cap)
    BY <1>7 DEF ExecHalt
  <2>2. UNCHANGED <<roundVars, cur, dev, tov>>
    BY <1>7 DEF ExecHalt
  <2>3. CASE b
    BY <1>1, <2>1, <2>2, <2>3, DeferJInv
  <2>4. CASE ~b
    BY <1>1, <2>1, <2>2, <2>4, DeferJInv
  <2> QED BY <2>3, <2>4
<1>8. CASE ExecDma
  <2>1. Defer(cur, rc) /\ dma'[cur] /\ UNCHANGED <<roundVars, cur, dev, tov>>
    BY <1>1, <1>8 DEF ExecDma, IInv, TypeOK
  <2> QED BY <1>1, <2>1, DeferJInv
<1>9. CASE ExecStop
  <2>1. PICK cost \in 1..MaxCost :
          /\ truth' = [truth EXCEPT ![cur] = Retired(@)]
          /\ EndSlice(cur, Retired(live), rc + cost + live.debt, 0)
    BY <1>9 DEF ExecStop
  <2>2. live.debt \in Nat /\ live.debt <= MaxDebt
    BY <1>1, LiveDebt
  <2> DEFINE t == rc + cost + live.debt
  <2>3. t \in Nat /\ rc < t /\ t < cap + Overshoot
    BY <1>1, <1>2, <2>2, Consts
  <2>4. ASSUME NEW c \in CPUs PROVE truth'[c].debt <= MaxDebt
    BY <1>1, <2>1, Consts DEF Retired, IInv, TypeOK, JInv, DebtInv
  <2>5. cyc' = [cyc EXCEPT ![cur] = t] /\ phase' = AfterSlice(cur)
    BY <2>1 DEF EndSlice
  <2>6. UNCHANGED <<roundVars, cur>> /\ dev' = dev /\ tov' = tov
    BY <1>9 DEF ExecStop
  <2> HIDE DEF t
  <2>7. DebtInv' /\ rc <= t
    BY <1>2, <2>3, <2>4 DEF DebtInv
  <2> QED BY <1>1, <1>2, <2>3, <2>5, <2>6, <2>7, SliceEnds
<1> QED BY <1>4, <1>5, <1>6, <1>7, <1>8, <1>9 DEF Instruction

(* run_slice up to the first instruction: the time it takes when it takes  *)
(* any, and the cap it arms when instructions are to follow.               *)
LEMMA RunSliceTimes ==
  ASSUME IInv, JInv, TypeOK', NEW c \in CPUs, NEW quantum \in Nat, quantum > 0,
         RunSlice(c, quantum)
  PROVE  /\ UNCHANGED <<dev, tov>> /\ DebtInv'
         /\ \A d \in CPUs : d # c => cyc'[d] = cyc[d]
         /\ \/ /\ phase' = AfterSlice(c)
               /\ cyc[c] < cyc'[c] /\ cyc'[c] < cyc[c] + quantum + Overshoot
            \/ /\ phase' = "slice" /\ cur' = c /\ cyc' = cyc
               /\ cap' = cyc[c] + quantum /\ gcap' = cap' /\ cyc[c] <= rc'
<1>1. cyc \in [CPUs -> Nat] /\ cyc[c] \in Nat /\ truth \in [CPUs -> Context]
  BY DEF IInv, TypeOK
<1>2. CASE SliceSleep(c, quantum)
  <2>1. cyc' = [cyc EXCEPT ![c] = @ + quantum] /\ phase' = AfterSlice(c)
        /\ UNCHANGED <<truth, dev, tov>>
    BY <1>2 DEF SliceSleep, cpuVars
  <2>2. cyc'[c] = cyc[c] + quantum /\ \A d \in CPUs : d # c => cyc'[d] = cyc[d]
    BY <1>1, <2>1
  <2>3. DebtInv'
    BY <2>1 DEF JInv, DebtInv
  <2>4. cyc[c] < cyc'[c] /\ cyc'[c] < cyc[c] + quantum + Overshoot
    BY <1>1, <2>2, Consts
  <2> QED BY <2>1, <2>2, <2>3, <2>4
<1>3. CASE SliceDma(c, quantum)
  <2>1. PICK adv \in 1..(quantum + MaxCost - 1) : cyc' = [cyc EXCEPT ![c] = @ + adv]
    BY <1>3 DEF SliceDma
  <2>2. phase' = AfterSlice(c) /\ UNCHANGED <<truth, dev, tov>>
    BY <1>3 DEF SliceDma
  <2>3. cyc'[c] = cyc[c] + adv /\ \A d \in CPUs : d # c => cyc'[d] = cyc[d]
    BY <1>1, <2>1
  <2>4. DebtInv'
    BY <2>2 DEF JInv, DebtInv
  <2>5. cyc[c] < cyc'[c] /\ cyc'[c] < cyc[c] + quantum + Overshoot
    BY <1>1, <2>3, Consts
  <2> QED BY <2>2, <2>3, <2>4, <2>5
<1>4. CASE SliceBegin(c, quantum)
  <2>1. /\ phase' = "slice" /\ cap' = cyc[c] + quantum /\ gcap' = cyc[c] + quantum
        /\ UNCHANGED <<cyc, dev, tov>>
    BY <1>4 DEF SliceBegin, SliceCap
  <2>2. cur' = c
    BY <1>4 DEF SliceBegin, SwitchTo
  <2>3. Loaded(c) = truth[c]
    BY DEF IInv, Loaded, ContextIntegrity, Current
  <2>4. PICK irq \in BOOLEAN :
          /\ irq => Loaded(c).debt + Refill <= MaxDebt
          /\ rc' = cyc[c] + (IF irq /\ Loaded(c).debt = 0 THEN Refill ELSE 0)
          /\ truth' = [truth EXCEPT ![c].debt =
                         IF irq /\ truth[c].debt # 0 THEN truth[c].debt + Refill
                         ELSE truth[c].debt]
    BY <1>4 DEF SliceBegin
  <2>5. cyc[c] <= rc'
    BY <1>1, <2>4, Consts
  <2>6. truth'[c].debt <= MaxDebt
    <3>1. truth'[c].debt = IF irq /\ truth[c].debt # 0 THEN truth[c].debt + Refill
                           ELSE truth[c].debt
      BY <1>1, <2>4 DEF Context
    <3>2. truth[c].debt <= MaxDebt
      BY DEF JInv, DebtInv
    <3> QED BY <2>3, <2>4, <3>1, <3>2
  <2>7. ASSUME NEW d \in CPUs, d # c PROVE truth'[d] = truth[d]
    BY <1>1, <2>4, <2>7
  <2>8. DebtInv'
    BY <2>6, <2>7 DEF JInv, DebtInv
  <2> QED BY <2>1, <2>2, <2>5, <2>8
<1> QED BY <1>2, <1>3, <1>4 DEF RunSlice

(* A rendezvous is planned at most an iteration past the next event.       *)
LEMMA TargetBound ==
  ASSUME NEW t \in Nat, NEW d \in Nat, NEW o \in Nat, NEW g \in Nat, d <= t + g
  PROVE  /\ FastForwardTarget(t, d, o) <= t + g + kIterCap
         /\ PlannedTarget(t, d) <= t + g + kIterCap
<1> DEFINE a == o - t + kIterCap - 1
           n == a \div kIterCap
<1>1. kIterCap \in Nat \ {0} /\ a \in Int /\ kMargin \in Nat
  BY RendezvousAssumption
<1>2. n \in Int /\ kIterCap * n <= a
  BY <1>1, SMT
<1>3. n * kIterCap = kIterCap * n /\ kIterCap * n \in Int
  BY <1>1, <1>2, SMT
<1>4. TimerGrid(t, o) = t + n * kIterCap
  BY DEF TimerGrid
<1>5. TimerGrid(t, o) \in Int /\ TimerGrid(t, o) <= o + kIterCap - 1
  <2> HIDE DEF n
  <2> QED BY <1>1, <1>2, <1>3, <1>4
<1>6. FastForwardWake(t, d, o) \in Int /\ FastForwardWake(t, d, o) <= d + kIterCap
  BY <1>1, <1>5 DEF FastForwardWake
<1> QED BY <1>1, <1>6 DEF FastForwardTarget, PlannedTarget, Snap

(* After a catch-up the timer's next overflow is ahead.                    *)
LEMMA TickAhead ==
  ASSUME TypeOK, NEW c \in CPUs, NEW t \in Nat, t < Never, TickTimers(c, t)
  PROVE  tov'[c] > t /\ \A d \in CPUs : d # c => tov'[d] = tov[d]
<1>1. tov \in [CPUs -> Nat]
  BY DEF TypeOK
<1>2. CASE tov[c] > t
  BY <1>2 DEF TickTimers
<1>3. CASE ~(tov[c] > t)
  <2>1. PICK e \in Deadlines(t) \cup {Never} : tov' = [tov EXCEPT ![c] = e]
    BY <1>3 DEF TickTimers
  <2>2. CASE e = Never
    BY <1>1, <2>1, <2>2
  <2>3. CASE e \in Deadlines(t)
    <3>1. PICK g \in Gaps : e = t + g
      BY <2>3 DEF Deadlines
    <3>2. e > t
      BY <3>1, SchedulerAssumption, GapsAssumption
    <3> QED BY <1>1, <2>1, <3>2
  <2> QED BY <2>1, <2>2, <2>3
<1> QED BY <1>2, <1>3

(* The steps of a round.                                                   *)
LEMMA PlanJInv ==
  ASSUME IInv, JInv, TypeOK', PlanRound
  PROVE  JInv'
<1>1. /\ phase = "idle" /\ sys < Horizon /\ phase' = "arm9"
      /\ planned' = IF BothIdle THEN FastForwardTarget(sys, dev, NextOverflow)
                    ELSE PlannedTarget(sys, dev)
      /\ sys' = sys /\ cyc' = cyc /\ truth' = truth /\ dev' = dev /\ tov' = tov
  BY DEF PlanRound, cpuVars
<1>2. Before9 /\ Before9' /\ ~After9' /\ ~Slicing(ARM9) /\ ~Slicing(ARM7)
      /\ Now9' = Now9
  BY <1>1 DEF Before9, After9, Slicing, Now9
<1>3. PICK g \in Gaps : dev <= sys + g
  BY DEF JInv, NearInv
<1>4. /\ sys \in Nat /\ dev \in Nat /\ g \in Nat /\ NextOverflow \in Nat
      /\ planned' \in Nat
  BY <1>3, CpuFacts, SchedulerAssumption, GapsAssumption DEF IInv, TypeOK, NextOverflow, Lesser
<1>5. planned' <= sys + g + kIterCap
  BY <1>1, <1>3, <1>4, TargetBound
<1>6. Horizon + g + kIterCap + 2 * Overshoot < Never
  BY NeverAssumption, <1>3 DEF Overshoot
<1>7. sys + 2 * Overshoot < Never /\ planned' + 2 * Overshoot < Never
  BY <1>1, <1>4, <1>5, <1>6, Consts
<1>8. NearInv'
  BY <1>1, <1>2, <1>3, <1>7 DEF NearInv
<1>9. SkewInv' /\ TimerInv'
  BY <1>1, <1>2 DEF JInv, SkewInv, TimerInv, Slicing
<1>10. DebtInv'
  BY <1>1 DEF JInv, DebtInv
<1> QED BY <1>1, <1>8, <1>9, <1>10
        DEF JInv, SliceInv, LagInv, EventInv, Arm7LagsOnlyUnderDma

LEMMA Arm9TurnJInv ==
  ASSUME IInv, JInv, TypeOK', Arm9Turn
  PROVE  JInv'
<1>1. /\ phase = "arm9" /\ TypeOK
      /\ sys' = sys /\ planned' = planned /\ rdv' = rdv /\ before' = before
  BY DEF Arm9Turn, roundVars, IInv
<1>2. /\ sys \in Nat /\ planned \in Nat /\ dev \in Nat /\ cyc[ARM9] \in Nat
      /\ cyc[ARM7] \in Nat /\ Arm9Target \in Nat /\ cyc \in [CPUs -> Nat]
  BY <1>1, TimesType DEF TypeOK
<1>3. CASE term[ARM9] \/ cyc[ARM9] >= Arm9Target
  <2>1. phase' = "tick9" /\ cyc' = cyc /\ truth' = truth /\ dev' = dev /\ tov' = tov
    BY <1>3 DEF Arm9Turn, cpuVars
  <2>2. cyc[ARM9] < Arm9Target + Overshoot \/ Now9' = sys
    <3>1. Now9 = sys \/ cyc[ARM9] <= Refill
      BY <1>1 DEF JInv, SkewInv
    <3>2. Now9' = Now9
      BY <2>1 DEF Now9
    <3> QED BY <1>2, <3>1, <3>2, Consts
  <2>3. DebtInv' /\ dev' <= dev
    BY <1>2, <2>1 DEF JInv, DebtInv
  <2> QED BY <1>1, <1>2, <2>1, <2>2, <2>3, Arm9Turned
<1>4. CASE ~(term[ARM9] \/ cyc[ARM9] >= Arm9Target) /\ gxStall
  <2>1. PICK debt \in 0..MaxCost :
          cyc' = [cyc EXCEPT ![ARM9] = Lesser(Arm9Target, @ + debt * Clock(ARM9))]
    BY <1>4 DEF Arm9Turn
  <2>2. phase' = "tick9" /\ truth' = truth /\ dev' = dev /\ tov' = tov
    BY <1>4 DEF Arm9Turn, cpuVars
  <2>3. debt \in Nat /\ debt * Clock(ARM9) \in Nat
    BY HalfFacts, Consts
  <2>4. cyc'[ARM7] = cyc[ARM7]
        /\ cyc'[ARM9] = Lesser(Arm9Target, cyc[ARM9] + debt * Clock(ARM9))
    BY <1>2, <2>1, CpuFacts
  <2>5. cyc[ARM9] <= cyc'[ARM9] /\ cyc'[ARM9] < Arm9Target + Overshoot
    BY <1>2, <1>4, <2>3, <2>4, Consts DEF Lesser
  <2>6. DebtInv' /\ dev' <= dev
    BY <1>2, <2>2 DEF JInv, DebtInv
  <2> QED BY <1>1, <2>2, <2>4, <2>5, <2>6, Arm9Turned
<1>5. CASE ~(term[ARM9] \/ cyc[ARM9] >= Arm9Target) /\ ~gxStall
  <2> DEFINE q == Arm9Target - cyc[ARM9]
  <2>1. RunSlice(ARM9, q)
    BY <1>5 DEF Arm9Turn
  <2>2. q \in Nat /\ q > 0 /\ cyc[ARM9] + q = Arm9Target
    BY <1>2, <1>5
  <2> HIDE DEF q
  <2>3. /\ UNCHANGED <<dev, tov>> /\ DebtInv'
        /\ \A d \in CPUs : d # ARM9 => cyc'[d] = cyc[d]
        /\ \/ /\ phase' = AfterSlice(ARM9)
              /\ cyc[ARM9] < cyc'[ARM9] /\ cyc'[ARM9] < cyc[ARM9] + q + Overshoot
           \/ /\ phase' = "slice" /\ cur' = ARM9 /\ cyc' = cyc
              /\ cap' = cyc[ARM9] + q /\ gcap' = cap' /\ cyc[ARM9] <= rc'
    BY <2>1, <2>2, CpuFacts, RunSliceTimes
  <2>4. dev' <= dev /\ cyc'[ARM7] = cyc[ARM7] /\ cyc'[ARM9] \in Nat
    BY <1>2, <2>3, CpuFacts DEF TypeOK
  <2>5. CASE /\ phase' = AfterSlice(ARM9)
             /\ cyc[ARM9] < cyc'[ARM9] /\ cyc'[ARM9] < cyc[ARM9] + q + Overshoot
    <3>1. cyc[ARM9] <= cyc'[ARM9] /\ cyc'[ARM9] < Arm9Target + Overshoot
      BY <1>2, <2>2, <2>4, <2>5
    <3> QED BY <1>1, <2>3, <2>4, <2>5, <3>1, Arm9Turned DEF AfterSlice
  <2>6. CASE /\ phase' = "slice" /\ cur' = ARM9 /\ cyc' = cyc
             /\ cap' = cyc[ARM9] + q /\ gcap' = cap' /\ cyc[ARM9] <= rc'
    <3>1. Before9 /\ Before9' /\ ~After9' /\ Slicing(ARM9)' /\ ~Slicing(ARM7)'
          /\ ~Slicing(ARM7)
      BY <1>1, <2>6, CpuFacts DEF Before9, After9, Slicing
    <3>2. Now9' = Now9 /\ Arm9Target' = Arm9Target /\ cap' \in Nat
      BY <1>1, <1>2, <2>2, <2>6 DEF Now9, Arm9Target
    <3>3. SliceInv'
      BY <2>2, <2>6, <3>2, CpuFacts DEF SliceInv
    <3>4. SkewInv' /\ TimerInv'
      BY <1>1, <2>3, <2>6, <3>1, <3>2 DEF JInv, SkewInv, TimerInv
    <3>5. NearInv'
      BY <1>1, <2>3, <3>1 DEF JInv, NearInv
    <3> QED BY <2>3, <2>6, <3>3, <3>4, <3>5
            DEF JInv, LagInv, EventInv, Arm7LagsOnlyUnderDma
  <2> QED BY <2>3, <2>5, <2>6
<1> QED BY <1>3, <1>4, <1>5

LEMMA Tick9JInv ==
  ASSUME IInv, JInv, TypeOK', Tick9
  PROVE  JInv'
<1>1. /\ phase = "tick9" /\ phase' = "arm7" /\ rdv' = Now9
      /\ TickTimers(ARM9, Now9)
      /\ sys' = sys /\ planned' = planned /\ cyc' = cyc /\ truth' = truth /\ dev' = dev
  BY DEF Tick9, Now9, cpuVars
<1>2. /\ sys \in Nat /\ planned \in Nat /\ dev \in Nat /\ cyc[ARM9] \in Nat
      /\ cyc[ARM7] \in Nat /\ Arm9Target = 2 * planned
      /\ Now9 \in Nat /\ 2 * Now9 <= cyc[ARM9] /\ TypeOK
  BY TimesType DEF IInv
<1>3. Before9 /\ After9' /\ ~Before9' /\ ~Slicing(ARM9) /\ ~Slicing(ARM7)
      /\ ~Slicing(ARM9)' /\ ~Slicing(ARM7)' /\ Now9' = Now9
  BY <1>1 DEF Before9, After9, Slicing, Now9
<1>4. /\ sys <= Now9 /\ cyc[ARM7] < sys + Overshoot
      /\ cyc[ARM9] < Arm9Target + Overshoot \/ Now9 = sys
  BY <1>1, <1>3 DEF JInv, SkewInv
<1>5. SkewInv'
  <2>1. cyc[ARM7] < Now9 + Overshoot
    BY <1>2, <1>4, Consts
  <2> QED BY <1>1, <1>3, <1>4, <2>1 DEF SkewInv
<1>6. sys + 2 * Overshoot < Never /\ planned + 2 * Overshoot < Never
  BY <1>1, <1>3 DEF JInv, NearInv
<1>7. Now9 + Overshoot < Never
  BY <1>2, <1>4, <1>6, Consts
<1>8. NearInv'
  BY <1>1, <1>3, <1>6, <1>7 DEF JInv, NearInv
<1>9. TimerInv'
  <2>1. Now9 < Never
    BY <1>2, <1>7, Consts
  <2>2. tov'[ARM9] > Now9 /\ tov'[ARM7] = tov[ARM7]
    BY <1>1, <1>2, <2>1, CpuFacts, TickAhead
  <2> QED BY <1>1, <1>3, <2>2 DEF JInv, TimerInv
<1>10. DebtInv'
  BY <1>1 DEF JInv, DebtInv
<1> QED BY <1>1, <1>5, <1>8, <1>9, <1>10
        DEF JInv, SliceInv, LagInv, EventInv, Arm7LagsOnlyUnderDma

LEMMA Arm7TurnJInv ==
  ASSUME IInv, JInv, TypeOK', Arm7Turn
  PROVE  JInv'
<1>1. phase = "arm7" /\ sys' = sys /\ planned' = planned /\ rdv' = rdv /\ TypeOK
  BY DEF Arm7Turn, IInv
<1>2. /\ sys \in Nat /\ rdv \in Nat /\ dev \in Nat /\ cyc[ARM7] \in Nat
      /\ cyc \in [CPUs -> Nat]
  BY <1>1, TimesType DEF TypeOK
<1>3. CASE Arm7Done
  <2>1. /\ phase' = "devices" /\ cyc' = cyc /\ truth' = truth /\ dev' = dev /\ tov' = tov
        /\ term' = term /\ brk' = brk
    BY <1>3 DEF Arm7Turn, cpuVars, flagVars
  <2>2. After9 /\ After9' /\ ~Before9' /\ ~Slicing(ARM9) /\ ~Slicing(ARM7)
        /\ ~Slicing(ARM9)' /\ ~Slicing(ARM7)' /\ Now9' = Now9
    BY <1>1, <2>1 DEF Before9, After9, Slicing, Now9
  <2>3. LagInv'
    BY <1>1, <1>3, <2>1 DEF LagInv, Arm7LagsOnlyUnderDma, Arm7Done
  <2>4. SkewInv' /\ TimerInv' /\ DebtInv' /\ NearInv'
    BY <1>1, <2>1, <2>2 DEF JInv, SkewInv, TimerInv, DebtInv, NearInv
  <2> QED BY <2>1, <2>3, <2>4 DEF JInv, SliceInv, EventInv
<1>4. CASE ~Arm7Done
  <2> DEFINE q == rdv - cyc[ARM7]
  <2>1. before' = cyc[ARM7] /\ RunSlice(ARM7, q)
    BY <1>4 DEF Arm7Turn
  <2>2. q \in Nat /\ q > 0 /\ cyc[ARM7] + q = rdv
    BY <1>2, <1>4 DEF Arm7Done
  <2> HIDE DEF q
  <2>3. /\ UNCHANGED <<dev, tov>> /\ DebtInv'
        /\ \A d \in CPUs : d # ARM7 => cyc'[d] = cyc[d]
        /\ \/ /\ phase' = AfterSlice(ARM7)
              /\ cyc[ARM7] < cyc'[ARM7] /\ cyc'[ARM7] < cyc[ARM7] + q + Overshoot
           \/ /\ phase' = "slice" /\ cur' = ARM7 /\ cyc' = cyc
              /\ cap' = cyc[ARM7] + q /\ gcap' = cap' /\ cyc[ARM7] <= rc'
    BY <2>1, <2>2, CpuFacts, RunSliceTimes
  <2>4. dev' <= dev /\ cyc'[ARM9] = cyc[ARM9] /\ cyc'[ARM7] \in Nat
    BY <1>2, <2>3, CpuFacts DEF TypeOK
  <2>5. CASE /\ phase' = AfterSlice(ARM7)
             /\ cyc[ARM7] < cyc'[ARM7] /\ cyc'[ARM7] < cyc[ARM7] + q + Overshoot
    <3>1. cyc'[ARM7] # before' /\ cyc'[ARM7] < rdv + Overshoot
      BY <1>2, <2>1, <2>2, <2>4, <2>5
    <3>2. phase' = "tick7"
      BY <2>5, CpuFacts DEF AfterSlice
    <3> QED BY <1>1, <2>3, <2>4, <3>1, <3>2, Arm7Turned
  <2>6. CASE /\ phase' = "slice" /\ cur' = ARM7 /\ cyc' = cyc
             /\ cap' = cyc[ARM7] + q /\ gcap' = cap' /\ cyc[ARM7] <= rc'
    <3>1. After9 /\ After9' /\ ~Before9' /\ Slicing(ARM7)' /\ ~Slicing(ARM9)'
          /\ ~Slicing(ARM9)
      BY <1>1, <2>6, CpuFacts DEF Before9, After9, Slicing
    <3>2. Now9' = Now9 /\ cap' \in Nat
      BY <1>2, <2>2, <2>6 DEF Now9
    <3>3. SliceInv'
      BY <1>1, <2>1, <2>2, <2>6, <3>2, CpuFacts DEF SliceInv
    <3>4. SkewInv' /\ TimerInv'
      BY <1>1, <2>3, <2>6, <3>1, <3>2 DEF JInv, SkewInv, TimerInv
    <3>5. NearInv'
      BY <1>1, <2>3, <3>1 DEF JInv, NearInv
    <3> QED BY <2>3, <2>6, <3>3, <3>4, <3>5
            DEF JInv, LagInv, EventInv, Arm7LagsOnlyUnderDma
  <2> QED BY <2>3, <2>5, <2>6
<1> QED BY <1>3, <1>4

LEMMA Tick7JInv ==
  ASSUME IInv, JInv, TypeOK', Tick7
  PROVE  JInv'
<1>1. /\ phase = "tick7" /\ phase' = (IF Progress THEN "arm7" ELSE "devices")
      /\ TickTimers(ARM7, cyc[ARM7])
      /\ sys' = sys /\ rdv' = rdv /\ before' = before /\ cyc' = cyc /\ truth' = truth
      /\ dev' = dev /\ term' = term /\ brk' = brk /\ dma' = dma
  BY DEF Tick7, cpuVars, roundVars
<1>2. /\ rdv \in Nat /\ cyc[ARM7] \in Nat /\ TypeOK
  BY TimesType DEF IInv
<1>3. After9 /\ After9' /\ ~Before9' /\ ~Slicing(ARM9) /\ ~Slicing(ARM7)
      /\ ~Slicing(ARM9)' /\ ~Slicing(ARM7)' /\ Now9' = Now9
      /\ phase' \in {"arm7", "devices"}
  BY <1>1 DEF Before9, After9, Slicing, Now9
<1>4. LagInv'
  BY <1>1 DEF JInv, LagInv, Arm7LagsOnlyUnderDma, Progress
<1>5. TimerInv'
  <2>1. cyc[ARM7] < Never
    BY <1>2, <1>3, Consts DEF JInv, SkewInv, NearInv
  <2>2. tov'[ARM7] > cyc[ARM7] /\ tov'[ARM9] = tov[ARM9]
    BY <1>1, <1>2, <2>1, CpuFacts, TickAhead
  <2> QED BY <1>1, <1>3, <2>2 DEF JInv, TimerInv
<1>6. SkewInv' /\ DebtInv' /\ NearInv'
  BY <1>1, <1>3 DEF JInv, SkewInv, DebtInv, NearInv
<1> QED BY <1>3, <1>4, <1>5, <1>6 DEF JInv, SliceInv, EventInv

LEMMA DevicesJInv ==
  ASSUME IInv, JInv, TypeOK', Devices
  PROVE  JInv'
<1>1. /\ phase = "devices" /\ phase' = "idle" /\ sys' = rdv
      /\ cyc' = cyc /\ truth' = truth /\ tov' = tov
  BY DEF Devices, cpuVars
<1>2. After9 /\ Before9' /\ ~After9' /\ ~Slicing(ARM9) /\ ~Slicing(ARM7)
      /\ ~Slicing(ARM9)' /\ ~Slicing(ARM7)' /\ Now9' = Now9
  BY <1>1 DEF Before9, After9, Slicing, Now9
<1>3. /\ rdv \in Nat /\ sys \in Nat /\ dev \in Nat /\ sys <= rdv /\ rdv = Now9
      /\ cyc[ARM7] < rdv + Overshoot
  BY <1>2, TimesType DEF IInv, JInv, SkewInv
<1>4. SkewInv'
  BY <1>1, <1>2, <1>3 DEF SkewInv
<1>5. CASE off \/ ~Due
  <2>1. dev' = dev /\ (off => \A c \in CPUs : term'[c])
    BY <1>5 DEF Devices
  <2>2. EventInv'
    BY <1>1, <1>3, <1>5, <2>1 DEF EventInv, Due
  <2>3. PICK g \in Gaps : dev <= sys + g
    BY DEF JInv, NearInv
  <2>4. dev' <= sys' + g
    BY <1>1, <1>3, <2>1, <2>3, SchedulerAssumption, GapsAssumption
  <2> QED BY <1>1, <1>2, <1>4, <2>2, <2>4
          DEF JInv, SliceInv, DebtInv, LagInv, Arm7LagsOnlyUnderDma, NearInv, TimerInv
<1>6. CASE ~off /\ Due
  <2>1. PICK g \in Gaps : dev' = rdv + g
    BY <1>6 DEF Devices, Deadlines
  <2>2. dev' > sys' /\ dev' <= sys' + g
    BY <1>1, <1>3, <2>1, SchedulerAssumption, GapsAssumption
  <2>3. EventInv'
    BY <2>2 DEF EventInv
  <2> QED BY <1>1, <1>2, <1>4, <2>2, <2>3
          DEF JInv, SliceInv, DebtInv, LagInv, Arm7LagsOnlyUnderDma, NearInv, TimerInv
<1> QED BY <1>5, <1>6

LEMMA BetweenJInv ==
  ASSUME IInv, JInv, TypeOK', SaveAndRestore \/ Disarm
  PROVE  JInv'
<1>1. /\ phase = "idle" /\ phase' = "idle" /\ sys' = sys /\ cyc' = cyc /\ truth' = truth
      /\ dev' = dev /\ tov' = tov /\ term' = term
  BY DEF SaveAndRestore, Disarm, cpuVars, flagVars, roundVars
<1>2. Before9 /\ Before9' /\ ~After9' /\ ~Slicing(ARM9) /\ ~Slicing(ARM7)
      /\ ~Slicing(ARM9)' /\ ~Slicing(ARM7)' /\ Now9' = Now9
  BY <1>1 DEF Before9, After9, Slicing, Now9
<1> QED BY <1>1, <1>2
        DEF JInv, SliceInv, DebtInv, SkewInv, LagInv, Arm7LagsOnlyUnderDma, NearInv,
            TimerInv, EventInv

LEMMA InitJInv == Init => JInv
<1> SUFFICES ASSUME Init PROVE JInv
  OBVIOUS
<1>1. /\ phase = "idle" /\ sys = 0 /\ cyc[ARM9] = Refill /\ cyc[ARM7] = Refill
      /\ tov[ARM9] = Never /\ tov[ARM7] = Never
      /\ \A c \in CPUs : truth[c].debt = 0
  BY CpuFacts DEF Init, FreshContext
<1>2. PICK g \in Gaps : dev = 0 + g
  BY DEF Init, Deadlines
<1>3. dev > sys /\ dev <= sys + g /\ g \in Nat
  BY <1>1, <1>2, SchedulerAssumption, GapsAssumption
<1>4. Before9 /\ ~After9 /\ ~Slicing(ARM9) /\ ~Slicing(ARM7)
  BY <1>1 DEF Before9, After9, Slicing
<1>5. Now9 \in Nat /\ Now9 <= Refill
  BY <1>1, HalfFacts, Consts DEF Now9
<1>6. Refill < Never
  BY <1>3, NeverAssumption, Consts DEF Overshoot
<1>7. SkewInv
  BY <1>1, <1>4, <1>5, Consts DEF SkewInv
<1>8. TimerInv
  BY <1>1, <1>5, <1>6, Consts DEF TimerInv
<1>9. NearInv /\ EventInv
  BY <1>1, <1>3, <1>4 DEF NearInv, EventInv
<1>10. SliceInv /\ DebtInv /\ LagInv
  BY <1>1, Consts DEF SliceInv, DebtInv, LagInv, Arm7LagsOnlyUnderDma
<1> QED BY <1>7, <1>8, <1>9, <1>10 DEF JInv

LEMMA NextJInv == IInv /\ IInv' /\ JInv /\ [Next]_vars => JInv'
<1> SUFFICES ASSUME IInv, JInv, IInv', [Next]_vars PROVE JInv'
  OBVIOUS
<1>1. TypeOK'
  BY DEF IInv
<1>2. CASE Instruction
  BY <1>1, <1>2, InstructionJInv
<1>3. CASE Round
  BY <1>1, <1>3, PlanJInv, Arm9TurnJInv, Tick9JInv, Arm7TurnJInv, Tick7JInv, DevicesJInv
     DEF Round
<1>4. CASE SaveAndRestore \/ Disarm
  BY <1>1, <1>4, BetweenJInv
<1>5. CASE UNCHANGED vars
  BY <1>5 DEF vars, JInv, SliceInv, Arm9Target, DebtInv, SkewInv, LagInv, NearInv,
     TimerInv, EventInv, Arm7LagsOnlyUnderDma, Before9, After9, Slicing, Now9
<1> QED BY <1>2, <1>3, <1>4, <1>5 DEF Next

LEMMA TimesInvariant == Spec => []JInv
BY InitJInv, NextJInv, Invariant, PTL DEF Spec

(* Neither CPU passes its target by more than its last instruction and the *)
(* debt that instruction commits, and the ARM7 stays behind the rendezvous *)
(* only when it is dead, stopped by a break or off its bus                 *)
(* (scheduler_run_round, run_slice).                                       *)
THEOREM TimelinesStayTogether == Spec => []TimelinesTogether
<1>1. JInv => TimelinesTogether
  <2> SUFFICES ASSUME JInv PROVE Arm7LagsOnlyUnderDma /\ SkewBounded
    BY DEF TimelinesTogether
  <2>1. phase = "devices" => After9
    BY DEF After9
  <2> QED BY <2>1 DEF JInv, LagInv, SkewInv, SkewBounded, Now9
<1> QED BY <1>1, TimesInvariant, PTL

(* Whenever the idle fast-forward plans, the deadlines it reads lie ahead: *)
(* its jump skips nothing that is already due (FastForwardTarget).         *)
THEOREM FastForwardHasFuture == Spec => []FastForwardPrecondition
<1>1. IInv /\ JInv => FastForwardPrecondition
  <2> SUFFICES ASSUME IInv, JInv, phase = "idle", BothIdle
               PROVE  /\ dev > sys
                      /\ \A c \in CPUs : tov[c] > sys \/ cyc[c] < sys * Clock(c)
    BY DEF FastForwardPrecondition
  <2>1. dev > sys
    BY CpuFacts DEF JInv, EventInv, BothIdle
  <2>2. /\ sys \in Nat /\ Now9 \in Nat /\ cyc[ARM7] \in Nat
        /\ tov[ARM9] \in Nat /\ tov[ARM7] \in Nat
    BY TimesType DEF IInv
  <2>3. Before9 /\ ~Slicing(ARM9) /\ ~Slicing(ARM7)
    BY DEF Before9, Slicing
  <2>4. sys <= Now9 /\ tov[ARM9] > Now9 /\ tov[ARM7] > cyc[ARM7]
    BY <2>3 DEF JInv, SkewInv, TimerInv
  <2>5. tov[ARM9] > sys
    BY <2>2, <2>4
  <2>6. tov[ARM7] > sys \/ cyc[ARM7] < sys * Clock(ARM7)
    <3>1. Clock(ARM7) = 1
      BY DEF Clock, ARM9, ARM7
    <3> QED BY <2>2, <2>4, <3>1
  <2> QED BY <2>1, <2>5, <2>6, CpuFacts
<1> QED BY <1>1, Invariant, TimesInvariant, PTL

==============================================================================
