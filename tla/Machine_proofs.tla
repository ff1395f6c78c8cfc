----------------------------- MODULE Machine_proofs -----------------------------
(***************************************************************************)
(* Proofs about the emulated machine's derived state, for every value of   *)
(* the constants of its components: the cycle deadline misses no service   *)
(* and no stale code is executed; whichever cache answers a dispatch, the  *)
(* body entered is proved by the bytes in memory; inline accesses and      *)
(* prices answer as the slow paths at every address; what the renderers    *)
(* derive from the VRAM controls is never stale; and 2D lines show the 3D  *)
(* frame they should.                                                      *)
(***************************************************************************)
EXTENDS MCMachine, FiniteSetTheorems, SequenceTheorems, TLAPS

-----------------------------------------------------------------------------
(***************************************************************************)
(* The cycle deadline, for every quantum, set of instruction costs and     *)
(* debts, and depth of calls.                                              *)
(***************************************************************************)

(* What must also hold while control is at the scheduler, whose dispatch   *)
(* loop goes round again without re-arming the limit.                      *)
LimitIsEager ==
  rc < limit => limit <= cap /\ debt = 0 /\ ~Pending(ime[active], source[active])
                /\ ~breakPc

(* The guard of the level that executes knows when its bytes have changed. *)
TopNoticed == InBank /\ dirty[depth] => invalid[depth]

IInv == TypeOK /\ NoServiceMissed /\ NoStaleCode /\ LimitIsEager /\ TopNoticed

(* The types a step must keep for the other parts to make sense.           *)
LEMMA LevelFacts ==
  /\ \A d \in 0..MaxDepth : d > 0 => d \in Levels
  /\ \A d \in 0..MaxDepth : d < MaxDepth => d + 1 \in Levels
  /\ \A d \in 0..MaxDepth : d > 1 => d - 1 \in Levels
  /\ 1 \in Levels /\ MaxDepth \in Nat \ {0}
  /\ NoLevels \in [Levels -> BOOLEAN]
  /\ Costs \subseteq Nat \ {0} /\ Quantum \in Nat \ {0} /\ Refill \in Nat
  /\ Debts \subseteq Nat
BY DeadlineAssumption DEF Levels, NoLevels

LEMMA DepthFacts == MaxDepth \in Nat \ {0} /\ {0, 1} \subseteq 0..MaxDepth
BY DeadlineAssumption

LEMMA NoLevelsType == NoLevels \in [Levels -> BOOLEAN]
BY DEF NoLevels

LEMMA InitIInv == Init => IInv
<1> SUFFICES ASSUME Init PROVE IInv
  OBVIOUS
<1>0. \A v \in BOOLEAN : [c \in CPUs |-> v] \in [CPUs -> BOOLEAN]
  OBVIOUS
<1>1. TypeOK
  BY <1>0, DepthFacts, NoLevelsType DEF Init, TypeOK, CPUs
<1>2. PendingCacheCoherent
  BY DEF Init, PendingCacheCoherent, CPUs
<1>3. at = "host" /\ rc = 0 /\ limit = 0 /\ ~InBank
  BY DEF Init, InBank
<1> QED BY <1>1, <1>2, <1>3
        DEF IInv, NoServiceMissed, FastPathIsNoOp, HintIsEager, NoStaleCode,
            LimitIsEager, TopNoticed

(* The poll of a static function.                                          *)
LEMMA PollFastIInv ==
  ASSUME IInv, PollFast
  PROVE  IInv'
BY DEF IInv, TypeOK, PollFast, clockVars, irqVars, flagVars, guardVars,
       NoServiceMissed, FastPathIsNoOp, HintIsEager, PendingCacheCoherent, Pending,
       NoStaleCode, LimitIsEager, TopNoticed, InBank, CodeChanged

(* What a published limit vouches for.                                     *)
LEMMA PublishedIsEager ==
  ASSUME IInv, NEW owed, PublishedLimit(cache, owed) # 0
  PROVE  /\ PublishedLimit(cache, owed) = cap /\ owed = 0
         /\ ~Pending(ime[active], source[active])
         /\ ~(breakPc \/ brk \/ term \/ halted[active] \/ dma[active] \/ CodeChanged)
BY DEF PublishedLimit, IInv, TypeOK, NoServiceMissed, PendingCacheCoherent, Pending

LEMMA PublishedType ==
  ASSUME IInv, NEW owed
  PROVE  PublishedLimit(cache, owed) \in Nat
BY DEF PublishedLimit, IInv, TypeOK

LEMMA PollSlowIInv ==
  ASSUME IInv, PollSlow
  PROVE  IInv'
<1>1. PICK hit \in BOOLEAN :
        /\ hit => breakPc
        /\ IF ~hint /\ ~hit /\ rc < cap
           THEN /\ limit' = PublishedLimit(cache, debt) /\ at' = "body"
                /\ UNCHANGED <<hint, term, guardVars>>
           ELSE IF ~MustYield(hit)
           THEN /\ hint' = FALSE /\ limit' = PublishedLimit(cache, debt) /\ at' = "body"
                /\ UNCHANGED <<term, guardVars>>
           ELSE /\ IF hit /\ ~(brk \/ halted[active] \/ dma[active] \/ CodeChanged)
                   THEN term' = TRUE /\ RequestYieldPoll
                   ELSE UNCHANGED <<term, hint, limit>>
                /\ Unwind
  BY DEF PollSlow
<1>2. /\ at = "poll" /\ InBank /\ rc >= limit
      /\ UNCHANGED <<active, clockVars, masked, irqVars, halted, dma, brk, breakPc>>
  BY DEF PollSlow
<1>3. ASSUME at' = "body", limit' = PublishedLimit(cache, debt), hint' \in BOOLEAN,
             UNCHANGED <<term, guardVars>>, ~CodeChanged,
             ~hint' => ~(brk \/ term \/ halted[active] \/ dma[active])
      PROVE  IInv'
  <2>1. TypeOK'
    BY <1>2, <1>3, PublishedType DEF IInv, TypeOK, clockVars, irqVars, guardVars
  <2>2. ~CodeChanged' /\ InBank' /\ ~dirty'[depth']
    BY <1>2, <1>3 DEF IInv, TopNoticed, CodeChanged, InBank, guardVars
  <2>3. limit' # 0 => /\ limit' = cap /\ debt = 0
                      /\ ~Pending(ime[active], source[active])
                      /\ ~(breakPc \/ brk \/ term \/ halted[active] \/ dma[active])
    BY <1>3, PublishedIsEager
  <2>4. rc' \in Nat /\ (rc' < limit' => limit' # 0)
    BY <2>1 DEF TypeOK
  <2> QED BY <1>2, <1>3, <2>1, <2>2, <2>3, <2>4
          DEF IInv, TypeOK, clockVars, irqVars, NoServiceMissed, FastPathIsNoOp,
              HintIsEager, PendingCacheCoherent, NoStaleCode, LimitIsEager,
              TopNoticed
<1>4. CASE ~hint /\ ~hit /\ rc < cap
  BY <1>1, <1>2, <1>3, <1>4 DEF IInv, TypeOK, NoServiceMissed, HintIsEager
<1>5. CASE ~(~hint /\ ~hit /\ rc < cap) /\ ~MustYield(hit)
  BY <1>1, <1>3, <1>5 DEF MustYield
<1>6. CASE ~(~hint /\ ~hit /\ rc < cap) /\ MustYield(hit)
  <2>1. /\ at' = "host" /\ depth' = 0
        /\ bank' = NoLevels /\ dirty' = NoLevels /\ invalid' = NoLevels
    BY <1>1, <1>6 DEF Unwind
  <2>2. \/ term' = TRUE /\ hint' = TRUE /\ limit' = 0
        \/ UNCHANGED <<term, hint, limit>>
    BY <1>1, <1>6 DEF RequestYieldPoll
  <2>3. TypeOK'
    <3>1. hint' \in BOOLEAN /\ limit' \in Nat /\ term' \in BOOLEAN
      <4>1. limit' \in Nat
        BY <2>2 DEF IInv, TypeOK
      <4>2. hint' \in BOOLEAN /\ term' \in BOOLEAN
        BY <2>2, Zenon DEF IInv, TypeOK
      <4> QED BY <4>1, <4>2
    <3>2. at' = "host" /\ depth' \in 0..MaxDepth
      BY <2>1, DepthFacts
    <3>3. /\ bank' \in [Levels -> BOOLEAN] /\ dirty' \in [Levels -> BOOLEAN]
          /\ invalid' \in [Levels -> BOOLEAN]
      BY <2>1, LevelFacts
    <3> QED BY <1>2, <3>1, <3>2, <3>3 DEF IInv, TypeOK, clockVars, irqVars
  <2>4. PendingCacheCoherent'
    BY <1>2 DEF IInv, NoServiceMissed, PendingCacheCoherent, irqVars
  <2>5. LimitIsEager'
    BY <1>2, <2>2 DEF IInv, TypeOK, LimitIsEager, clockVars, irqVars
  <2> QED BY <2>1, <2>3, <2>4, <2>5
          DEF IInv, NoServiceMissed, FastPathIsNoOp, HintIsEager, NoStaleCode,
              TopNoticed, InBank
<1> QED BY <1>1, <1>4, <1>5, <1>6

LEMMA PollTier3IInv ==
  ASSUME IInv, PollTier3
  PROVE  IInv'
<1>1. /\ at = "poll" /\ InTier3 /\ ~InBank
      /\ UNCHANGED <<active, limit, hint, clockVars, masked, irqVars, flagVars>>
  BY DEF PollTier3, InTier3, InBank
<1>2. CASE rc >= limit /\ brk
  <2>1. /\ at' = "host" /\ depth' = 0
        /\ bank' = NoLevels /\ dirty' = NoLevels /\ invalid' = NoLevels
    BY <1>2 DEF PollTier3, Unwind
  <2>2. TypeOK'
    BY <1>1, <2>1, LevelFacts DEF IInv, TypeOK, clockVars, irqVars, flagVars
  <2> QED BY <1>1, <2>1, <2>2
          DEF IInv, TypeOK, clockVars, irqVars, flagVars, NoServiceMissed,
              FastPathIsNoOp, HintIsEager, PendingCacheCoherent, NoStaleCode,
              LimitIsEager, TopNoticed, InBank
<1>3. CASE ~(rc >= limit /\ brk)
  <2>1. at' = "body" /\ UNCHANGED guardVars
    BY <1>3 DEF PollTier3
  <2> QED BY <1>1, <2>1
          DEF IInv, TypeOK, clockVars, irqVars, flagVars, guardVars, NoServiceMissed,
              FastPathIsNoOp, HintIsEager, PendingCacheCoherent, NoStaleCode,
              LimitIsEager, TopNoticed, InBank, CodeChanged, Pending
<1> QED BY <1>2, <1>3

-----------------------------------------------------------------------------
(* The instruction's effect.  Each effect that a poll looks for drops the  *)
(* limit, and sets the hint when the short poll looks for it too.          *)
LEMMA EffectIInv ==
  ASSUME IInv, Effect
  PROVE  IInv'
<1>1. at = "body" /\ at' = "tick" /\ active' = active
  BY DEF Effect, ExecPlain, ExecIrq, ExecHalt, ExecDma, ExecEvent, ExecFail,
         ExecReschedule, ExecCodeWrite, Body
<1>2. CASE ExecPlain
  <2>1. /\ masked' \in BOOLEAN
        /\ UNCHANGED <<limit, hint, clockVars, irqVars, flagVars, guardVars>>
    BY <1>2 DEF ExecPlain
  <2> QED BY <1>1, <2>1
          DEF IInv, TypeOK, clockVars, irqVars, flagVars, guardVars, NoServiceMissed,
              FastPathIsNoOp, HintIsEager, PendingCacheCoherent, NoStaleCode,
              LimitIsEager, TopNoticed, InBank, CodeChanged, Pending
<1>3. CASE ExecIrq
  <2>1. PICK c \in CPUs, on \in BOOLEAN, src \in BOOLEAN :
          /\ ime' = [ime EXCEPT ![c] = on] /\ source' = [source EXCEPT ![c] = src]
          /\ cache' = [cache EXCEPT ![c] = Pending(ime'[c], source'[c])]
          /\ limit' = 0 /\ hint' = hint
    BY <1>3 DEF ExecIrq, IrqRecompute, ClearFastLimit
  <2>2. UNCHANGED <<clockVars, masked, flagVars, guardVars>>
    BY <1>3 DEF ExecIrq
  <2>3. /\ ime' \in [CPUs -> BOOLEAN] /\ source' \in [CPUs -> BOOLEAN]
        /\ cache' \in [CPUs -> BOOLEAN]
    BY <2>1 DEF IInv, TypeOK, Pending
  <2>4. PendingCacheCoherent'
    BY <2>1 DEF IInv, TypeOK, NoServiceMissed, PendingCacheCoherent, Pending
  <2>5. TypeOK'
    BY <1>1, <2>1, <2>2, <2>3 DEF IInv, TypeOK, clockVars, flagVars, guardVars
  <2>6. ~(rc' < limit')
    BY <2>1, <2>5 DEF TypeOK
  <2>7. HintIsEager' /\ TopNoticed'
    BY <1>1, <2>1, <2>2 DEF IInv, NoServiceMissed, HintIsEager, TopNoticed, InBank,
                            CodeChanged, flagVars, guardVars
  <2> QED BY <1>1, <2>4, <2>5, <2>6, <2>7
          DEF IInv, NoServiceMissed, FastPathIsNoOp, NoStaleCode, LimitIsEager
<1>4. CASE ExecHalt \/ ExecDma \/ ExecEvent \/ ExecFail
  <2>1. limit' = 0 /\ hint' = TRUE /\ UNCHANGED <<clockVars, masked, irqVars, guardVars>>
    BY <1>4 DEF ExecHalt, ExecDma, ExecEvent, ExecFail, RequestYieldPoll
  <2>2. /\ halted' \in [CPUs -> BOOLEAN] /\ dma' \in [CPUs -> BOOLEAN]
        /\ brk' \in BOOLEAN /\ term' \in BOOLEAN /\ breakPc' \in BOOLEAN
    BY <1>4 DEF ExecHalt, ExecDma, ExecEvent, ExecFail, IInv, TypeOK
  <2>3. TypeOK'
    BY <1>1, <2>1, <2>2 DEF IInv, TypeOK, clockVars, irqVars, guardVars
  <2>4. ~(rc' < limit')
    BY <2>1, <2>3 DEF TypeOK
  <2>5. PendingCacheCoherent' /\ TopNoticed'
    BY <2>1 DEF IInv, NoServiceMissed, PendingCacheCoherent, TopNoticed, InBank,
                irqVars, guardVars
  <2> QED BY <1>1, <2>1, <2>3, <2>4, <2>5
          DEF IInv, NoServiceMissed, FastPathIsNoOp, HintIsEager, NoStaleCode,
              LimitIsEager
<1>5. CASE ExecReschedule
  <2>1. PICK deadline \in 1..Quantum :
          IF deadline < cap THEN cap' = deadline /\ limit' = 0 /\ hint' = hint
          ELSE UNCHANGED <<cap, limit, hint>>
    BY <1>5 DEF ExecReschedule, ClearFastLimit
  <2>2. UNCHANGED <<rc, debt, masked, irqVars, flagVars, guardVars>>
    BY <1>5 DEF ExecReschedule
  <2>3. cap' \in Nat /\ limit' \in Nat /\ hint' = hint
    BY <2>1, LevelFacts DEF IInv, TypeOK
  <2>4. TypeOK'
    BY <1>1, <2>2, <2>3 DEF IInv, TypeOK, irqVars, flagVars, guardVars
  <2>5. PendingCacheCoherent' /\ TopNoticed' /\ HintIsEager'
    BY <1>1, <2>2, <2>3 DEF IInv, NoServiceMissed, PendingCacheCoherent, TopNoticed,
                HintIsEager, InBank, CodeChanged, irqVars, flagVars, guardVars
  <2>6. CASE deadline < cap
    <3>1. ~(rc' < limit')
      BY <2>1, <2>4, <2>6 DEF TypeOK
    <3> QED BY <1>1, <2>4, <2>5, <3>1
            DEF IInv, NoServiceMissed, FastPathIsNoOp, NoStaleCode, LimitIsEager
  <2>7. CASE ~(deadline < cap)
    <3>1. UNCHANGED <<cap, limit, hint>>
      BY <2>1, <2>7
    <3> QED BY <1>1, <2>2, <2>4, <2>5, <3>1
            DEF IInv, NoServiceMissed, FastPathIsNoOp, NoStaleCode, LimitIsEager,
                Pending, CodeChanged, irqVars, flagVars, guardVars
  <2> QED BY <2>6, <2>7
<1>6. CASE ExecCodeWrite
  <2>1. PICK now \in [Levels -> BOOLEAN] :
          /\ dirty' = now
          /\ IF InBank /\ ~invalid[depth] /\ now[depth]
             THEN invalid' = [invalid EXCEPT ![depth] = TRUE] /\ hint' = TRUE /\ limit' = 0
             ELSE UNCHANGED <<invalid, limit, hint>>
    BY <1>6 DEF ExecCodeWrite, Noticed, RequestYieldPoll
  <2>2. UNCHANGED <<clockVars, masked, irqVars, flagVars, depth, bank>>
    BY <1>6 DEF ExecCodeWrite
  <2>3. InBank => depth \in Levels
    BY LevelFacts DEF IInv, TypeOK, InBank
  <2>4. CASE InBank /\ ~invalid[depth] /\ now[depth]
    <3>1. invalid' = [invalid EXCEPT ![depth] = TRUE] /\ hint' = TRUE /\ limit' = 0
      BY <2>1, <2>4
    <3>2. TypeOK'
      BY <1>1, <2>1, <2>2, <3>1 DEF IInv, TypeOK, clockVars, irqVars, flagVars
    <3>3. ~(rc' < limit')
      BY <3>1, <3>2 DEF TypeOK
    <3>4. TopNoticed'
      BY <2>2, <2>3, <3>1 DEF IInv, TypeOK, TopNoticed, InBank
    <3>5. PendingCacheCoherent'
      BY <2>2 DEF IInv, NoServiceMissed, PendingCacheCoherent, irqVars
    <3> QED BY <1>1, <3>1, <3>2, <3>3, <3>4, <3>5
            DEF IInv, NoServiceMissed, FastPathIsNoOp, HintIsEager, NoStaleCode,
                LimitIsEager
  <2>5. CASE ~(InBank /\ ~invalid[depth] /\ now[depth])
    <3>1. UNCHANGED <<invalid, limit, hint>>
      BY <2>1, <2>5
    <3>2. TypeOK'
      BY <1>1, <2>1, <2>2, <3>1 DEF IInv, TypeOK, clockVars, irqVars, flagVars
    <3>3. TopNoticed'
      BY <2>1, <2>2, <2>5, <3>1 DEF TopNoticed, InBank
    <3> QED BY <1>1, <2>2, <3>1, <3>2, <3>3
            DEF IInv, NoServiceMissed, FastPathIsNoOp, HintIsEager, NoStaleCode,
                PendingCacheCoherent, LimitIsEager, Pending, CodeChanged, clockVars,
                irqVars, flagVars
  <2> QED BY <2>4, <2>5
<1> QED BY <1>2, <1>3, <1>4, <1>5, <1>6 DEF Effect

-----------------------------------------------------------------------------
(* The end of an instruction.                                              *)

(* A level that is entered has just been validated.                        *)
LEMMA PushFacts ==
  ASSUME IInv, NEW kind \in BOOLEAN, Push(kind)
  PROVE  /\ depth' \in 0..MaxDepth
         /\ bank' \in [Levels -> BOOLEAN] /\ dirty' \in [Levels -> BOOLEAN]
         /\ invalid' \in [Levels -> BOOLEAN]
         /\ ~CodeChanged' /\ TopNoticed'
<1>1. /\ depth < MaxDepth /\ depth' = depth + 1
      /\ bank' = [bank EXCEPT ![depth + 1] = kind]
      /\ dirty' = [dirty EXCEPT ![depth + 1] = FALSE]
      /\ invalid' = [invalid EXCEPT ![depth + 1] = FALSE]
  BY DEF Push
<1>2. depth \in 0..MaxDepth /\ depth + 1 \in Levels /\ depth' \in 0..MaxDepth
  BY <1>1, DeadlineAssumption DEF IInv, TypeOK, Levels
<1>3. /\ bank' \in [Levels -> BOOLEAN] /\ dirty' \in [Levels -> BOOLEAN]
      /\ invalid' \in [Levels -> BOOLEAN]
  BY <1>1, <1>2 DEF IInv, TypeOK
<1>4. ~dirty'[depth'] /\ ~invalid'[depth']
  BY <1>1, <1>2 DEF IInv, TypeOK
<1> QED BY <1>2, <1>3, <1>4 DEF CodeChanged, TopNoticed

(* A level that is returned to is validated again: either its change is    *)
(* known and the limit and the hint ask for a poll, or nothing changed.    *)
LEMMA PopFacts ==
  ASSUME IInv, Pop, depth > 1
  PROVE  /\ depth' \in 0..MaxDepth
         /\ bank' \in [Levels -> BOOLEAN] /\ dirty' \in [Levels -> BOOLEAN]
         /\ invalid' \in [Levels -> BOOLEAN]
         /\ TopNoticed'
         /\ \/ limit' = 0 /\ hint' = TRUE
            \/ limit' = limit /\ hint' = hint /\ ~CodeChanged'
<1>1. depth' = depth - 1 /\ UNCHANGED <<bank, dirty>>
  BY DEF Pop
<1>2. depth - 1 \in Levels /\ depth - 1 \in 0..MaxDepth /\ depth - 1 > 0
  BY DeadlineAssumption DEF IInv, TypeOK, Levels
<1>3. CASE bank[depth - 1] /\ (invalid[depth - 1] \/ dirty[depth - 1])
  <2>1. invalid' = [invalid EXCEPT ![depth - 1] = TRUE] /\ limit' = 0 /\ hint' = TRUE
    BY <1>3 DEF Pop, GuardRestored, RequestYieldPoll
  <2>2. invalid' \in [Levels -> BOOLEAN] /\ invalid'[depth']
    BY <1>1, <1>2, <2>1 DEF IInv, TypeOK
  <2> QED BY <1>1, <1>2, <2>1, <2>2 DEF IInv, TypeOK, TopNoticed
<1>4. CASE ~(bank[depth - 1] /\ (invalid[depth - 1] \/ dirty[depth - 1]))
  <2>1. UNCHANGED <<invalid, limit, hint>>
    BY <1>4 DEF Pop, GuardRestored
  <2>2. ~(bank'[depth'] /\ (invalid'[depth'] \/ dirty'[depth']))
    BY <1>1, <1>4, <2>1
  <2> QED BY <1>1, <1>2, <2>1, <2>2 DEF IInv, TypeOK, TopNoticed, InBank, CodeChanged
<1> QED BY <1>3, <1>4

LEMMA TickFastIInv ==
  ASSUME IInv, NEW cost \in Costs, TickFast(cost)
  PROVE  IInv'
<1>1. /\ at = "tick" /\ InBank /\ rc + cost < limit
      /\ rc' = rc + cost /\ at' \in {"poll", "branch"}
      /\ UNCHANGED <<active, limit, hint, cap, debt, masked, irqVars, flagVars, guardVars>>
  BY DEF TickFast
<1>2. rc' \in Nat /\ rc < limit
  BY <1>1, LevelFacts DEF IInv, TypeOK
<1>3. TypeOK'
  BY <1>1, <1>2 DEF IInv, TypeOK, irqVars, flagVars, guardVars
<1> QED BY <1>1, <1>2, <1>3
        DEF IInv, irqVars, flagVars, guardVars, NoServiceMissed, FastPathIsNoOp,
            HintIsEager, PendingCacheCoherent, Pending, NoStaleCode, LimitIsEager,
            TopNoticed, InBank, CodeChanged

LEMMA TickSlowIInv ==
  ASSUME IInv, NEW cost \in Costs, TickSlow(cost)
  PROVE  IInv'
<1>1. /\ at = "tick" /\ rc + cost >= limit
      /\ rc' = rc + cost + debt + (IF TakesIrq THEN Refill ELSE 0)
      /\ debt' = 0
      /\ UNCHANGED <<active, limit, hint, cap, irqVars, flagVars>>
  BY DEF TickSlow
<1>2. rc' \in Nat /\ debt' \in Nat /\ ~(rc' < limit')
  BY <1>1, LevelFacts DEF IInv, TypeOK
<1>3. PendingCacheCoherent'
  BY <1>1 DEF IInv, NoServiceMissed, PendingCacheCoherent, irqVars
<1>4. CASE TakesIrq
  <2>1. masked' = TRUE /\ Push(TRUE) /\ at' = "poll"
    BY <1>4 DEF TickSlow
  <2>2. /\ depth' \in 0..MaxDepth
        /\ bank' \in [Levels -> BOOLEAN] /\ dirty' \in [Levels -> BOOLEAN]
        /\ invalid' \in [Levels -> BOOLEAN]
        /\ ~CodeChanged' /\ TopNoticed'
    BY <2>1, PushFacts
  <2>3. TypeOK'
    BY <1>1, <1>2, <2>1, <2>2 DEF IInv, TypeOK, irqVars, flagVars
  <2>4. HintIsEager'
    BY <1>1, <2>2 DEF IInv, NoServiceMissed, HintIsEager, flagVars
  <2> QED BY <1>2, <1>3, <2>1, <2>2, <2>3, <2>4
          DEF IInv, NoServiceMissed, FastPathIsNoOp, NoStaleCode, LimitIsEager
<1>5. CASE ~TakesIrq
  <2>1. UNCHANGED <<masked, guardVars>> /\ at' \in {"poll", "branch"}
    BY <1>5 DEF TickSlow
  <2>2. TypeOK'
    BY <1>1, <1>2, <2>1 DEF IInv, TypeOK, irqVars, flagVars, guardVars
  <2>3. HintIsEager' /\ TopNoticed'
    BY <1>1, <2>1 DEF IInv, NoServiceMissed, HintIsEager, TopNoticed, InBank,
                      CodeChanged, flagVars, guardVars
  <2> QED BY <1>2, <1>3, <2>1, <2>2, <2>3
          DEF IInv, NoServiceMissed, FastPathIsNoOp, NoStaleCode, LimitIsEager
<1> QED BY <1>4, <1>5

(* Leaving every frame: what is left to hold is what the scheduler needs.  *)
LEMMA UnwindFacts ==
  ASSUME IInv, Unwind
  PROVE  /\ at' = "host" /\ depth' \in 0..MaxDepth
         /\ bank' \in [Levels -> BOOLEAN] /\ dirty' \in [Levels -> BOOLEAN]
         /\ invalid' \in [Levels -> BOOLEAN]
         /\ TopNoticed'
<1>1. /\ at' = "host" /\ depth' = 0
      /\ bank' = NoLevels /\ dirty' = NoLevels /\ invalid' = NoLevels
  BY DEF Unwind
<1> QED BY <1>1, DepthFacts, NoLevelsType DEF TopNoticed, InBank

LEMMA TickTier3IInv ==
  ASSUME IInv, NEW cost \in Costs, TickTier3(cost)
  PROVE  IInv'
<1> DEFINE t    == rc + cost + debt
           poll == t >= limit
           irq  == poll /\ TakesIrq
<1>1. /\ at = "tick" /\ debt' = 0 /\ rc' = t + (IF irq THEN Refill ELSE 0)
      /\ masked' = (masked \/ irq)
      /\ UNCHANGED <<active, cap, irqVars, flagVars>>
  BY DEF TickTier3
<1>2. /\ t \in Nat /\ rc' \in Nat /\ debt' \in Nat /\ rc <= t /\ t <= rc'
      /\ rc \in Nat /\ limit \in Nat
  BY <1>1, LevelFacts DEF IInv, TypeOK
<1>3. masked' \in BOOLEAN
  BY <1>1
<1>4. PendingCacheCoherent'
  BY <1>1 DEF IInv, NoServiceMissed, PendingCacheCoherent, irqVars
<1>5. ASSUME Unwind, UNCHANGED <<limit, hint>>, rc >= limit \/ poll
      PROVE  IInv'
  <2>1. /\ at' = "host" /\ depth' \in 0..MaxDepth
        /\ bank' \in [Levels -> BOOLEAN] /\ dirty' \in [Levels -> BOOLEAN]
        /\ invalid' \in [Levels -> BOOLEAN]
        /\ TopNoticed'
    BY <1>5, UnwindFacts
  <2>2. TypeOK'
    BY <1>1, <1>2, <1>3, <1>5, <2>1 DEF IInv, TypeOK, irqVars, flagVars
  <2>3. ~(rc' < limit')
    BY <1>2, <1>5
  <2> QED BY <1>4, <2>1, <2>2, <2>3
          DEF IInv, NoServiceMissed, FastPathIsNoOp, HintIsEager, NoStaleCode,
              LimitIsEager
<1>6. CASE term
  <2>1. rc >= limit /\ hint = TRUE
    <3>1. ~(rc < limit) /\ hint
      BY <1>1, <1>6 DEF IInv, NoServiceMissed, FastPathIsNoOp, HintIsEager
    <3>2. rc >= limit
      BY <1>2, <3>1
    <3>3. hint = TRUE
      BY <3>1, Zenon DEF IInv, TypeOK
    <3> QED BY <3>2, <3>3
  <2>2. CASE depth > 1
    <3>1. at' = "poll" /\ Pop
      BY <1>6, <2>2 DEF TickTier3
    <3>2. /\ depth' \in 0..MaxDepth
          /\ bank' \in [Levels -> BOOLEAN] /\ dirty' \in [Levels -> BOOLEAN]
          /\ invalid' \in [Levels -> BOOLEAN]
          /\ TopNoticed'
          /\ \/ limit' = 0 /\ hint' = TRUE
             \/ limit' = limit /\ hint' = hint /\ ~CodeChanged'
      BY <2>2, <3>1, PopFacts
    <3>3. hint' = TRUE /\ limit' \in Nat /\ ~(rc' < limit')
      <4>1. hint' = TRUE /\ (limit' = 0 \/ limit' = limit)
        BY <2>1, <3>2, Zenon
      <4> QED BY <1>2, <2>1, <4>1
    <3>4. TypeOK'
      BY <1>1, <1>2, <1>3, <3>1, <3>2, <3>3 DEF IInv, TypeOK, irqVars, flagVars
    <3> QED BY <1>4, <3>1, <3>2, <3>3, <3>4
            DEF IInv, NoServiceMissed, FastPathIsNoOp, HintIsEager, NoStaleCode,
                LimitIsEager
  <2>3. CASE ~(depth > 1)
    <3>1. Unwind /\ UNCHANGED <<limit, hint>>
      BY <1>6, <2>3 DEF TickTier3
    <3> QED BY <1>5, <2>1, <3>1
  <2> QED BY <2>2, <2>3
<1>7. CASE ~term /\ poll /\ (halted[active] \/ dma[active] \/ brk \/ rc' >= cap)
  <2>1. Unwind /\ UNCHANGED <<limit, hint>>
    BY <1>7 DEF TickTier3
  <2> QED BY <1>5, <1>7, <2>1
<1>8. CASE ~term /\ ~(poll /\ (halted[active] \/ dma[active] \/ brk \/ rc' >= cap))
  <2>1. /\ at' \in {"poll", "branch"}
        /\ limit' = IF poll THEN PublishedLimit(cache, 0) ELSE limit
        /\ UNCHANGED <<hint, guardVars>>
    BY <1>8 DEF TickTier3
  <2>2. TypeOK'
    BY <1>1, <1>2, <1>3, <2>1, PublishedType DEF IInv, TypeOK, irqVars, flagVars, guardVars
  <2>3. HintIsEager' /\ TopNoticed'
    BY <1>1, <2>1 DEF IInv, NoServiceMissed, HintIsEager, TopNoticed, InBank,
                      CodeChanged, flagVars, guardVars
  <2>4. rc' < limit' =>
          /\ limit <= cap \/ limit' = cap
          /\ limit' = limit \/ limit' = cap
          /\ ~Pending(ime[active], source[active])
          /\ ~(brk \/ term \/ breakPc \/ halted[active] \/ dma[active] \/ CodeChanged)
    <3>1. CASE poll
      <4>1. limit' = PublishedLimit(cache, 0)
        BY <2>1, <3>1
      <4>2. rc' < limit' => limit' # 0
        BY <1>2, <4>1
      <4> QED BY <4>1, <4>2, PublishedIsEager
    <3>2. CASE ~poll
      <4>1. limit' = limit /\ rc < limit
        BY <1>2, <2>1, <3>2
      <4> QED BY <1>1, <4>1 DEF IInv, NoServiceMissed, FastPathIsNoOp
    <3> QED BY <3>1, <3>2
  <2>5. FastPathIsNoOp' /\ LimitIsEager'
    <3> SUFFICES ASSUME rc' < limit'
                 PROVE  /\ limit' <= cap' /\ debt' = 0
                        /\ ~Pending(ime'[active'], source'[active'])
                        /\ ~(brk' \/ term' \/ breakPc' \/ halted'[active'] \/ dma'[active']
                             \/ CodeChanged')
      BY DEF FastPathIsNoOp, LimitIsEager
    <3>1. limit' <= cap'
      BY <1>1, <2>2, <2>4 DEF TypeOK
    <3> QED BY <1>1, <2>1, <2>4, <3>1
            DEF CodeChanged, Pending, irqVars, flagVars, guardVars
  <2> QED BY <1>4, <2>1, <2>2, <2>3, <2>5 DEF IInv, NoServiceMissed, NoStaleCode
<1> QED BY <1>6, <1>7, <1>8

LEMMA CallIInv ==
  ASSUME IInv, Call
  PROVE  IInv'
<1>1. PICK kind \in BOOLEAN : Push(kind)
  BY DEF Call
<1>2. /\ at = "branch" /\ at' = "poll"
      /\ UNCHANGED <<active, limit, hint, clockVars, masked, irqVars, flagVars>>
  BY DEF Call
<1>3. /\ depth' \in 0..MaxDepth
      /\ bank' \in [Levels -> BOOLEAN] /\ dirty' \in [Levels -> BOOLEAN]
      /\ invalid' \in [Levels -> BOOLEAN]
      /\ ~CodeChanged' /\ TopNoticed'
  BY <1>1, PushFacts
<1>4. TypeOK'
  BY <1>2, <1>3 DEF IInv, TypeOK, clockVars, irqVars, flagVars
<1> QED BY <1>2, <1>3, <1>4
        DEF IInv, NoServiceMissed, FastPathIsNoOp, HintIsEager, PendingCacheCoherent,
            Pending, NoStaleCode, LimitIsEager, clockVars, irqVars, flagVars

LEMMA ReturnIInv ==
  ASSUME IInv, Return
  PROVE  IInv'
<1>1. at = "branch" /\ UNCHANGED <<active, clockVars, masked, irqVars, flagVars>>
  BY DEF Return
<1>2. PendingCacheCoherent'
  BY <1>1 DEF IInv, NoServiceMissed, PendingCacheCoherent, irqVars
<1>3. CASE depth > 1
  <2>1. at' = "poll" /\ Pop
    BY <1>3 DEF Return
  <2>2. /\ depth' \in 0..MaxDepth
        /\ bank' \in [Levels -> BOOLEAN] /\ dirty' \in [Levels -> BOOLEAN]
        /\ invalid' \in [Levels -> BOOLEAN]
        /\ TopNoticed'
        /\ \/ limit' = 0 /\ hint' = TRUE
           \/ limit' = limit /\ hint' = hint /\ ~CodeChanged'
    BY <1>3, <2>1, PopFacts
  <2>3. limit' \in Nat /\ hint' \in BOOLEAN
    <3>1. limit' \in Nat
      BY <2>2 DEF IInv, TypeOK
    <3>2. hint' \in BOOLEAN
      BY <2>2, Zenon DEF IInv, TypeOK
    <3> QED BY <3>1, <3>2
  <2>4. TypeOK'
    BY <1>1, <2>1, <2>2, <2>3 DEF IInv, TypeOK, clockVars, irqVars, flagVars
  <2>5. CASE limit' = 0 /\ hint' = TRUE
    <3>1. ~(rc' < limit')
      BY <2>4, <2>5 DEF TypeOK
    <3> QED BY <1>2, <2>1, <2>2, <2>4, <2>5, <3>1
            DEF IInv, NoServiceMissed, FastPathIsNoOp, HintIsEager, NoStaleCode,
                LimitIsEager
  <2>6. CASE limit' = limit /\ hint' = hint /\ ~CodeChanged'
    BY <1>1, <1>2, <2>1, <2>2, <2>4, <2>6
       DEF IInv, NoServiceMissed, FastPathIsNoOp, HintIsEager, Pending, NoStaleCode,
           LimitIsEager, clockVars, irqVars, flagVars
  <2> QED BY <2>2, <2>5, <2>6
<1>4. CASE ~(depth > 1)
  <2>1. Unwind /\ UNCHANGED <<limit, hint>>
    BY <1>4 DEF Return
  <2>2. /\ at' = "host" /\ depth' \in 0..MaxDepth
        /\ bank' \in [Levels -> BOOLEAN] /\ dirty' \in [Levels -> BOOLEAN]
        /\ invalid' \in [Levels -> BOOLEAN]
        /\ TopNoticed'
    BY <2>1, UnwindFacts
  <2>3. TypeOK'
    BY <1>1, <2>1, <2>2 DEF IInv, TypeOK, clockVars, irqVars, flagVars
  <2>4. LimitIsEager'
    BY <1>1, <2>1 DEF IInv, LimitIsEager, Pending, clockVars, irqVars, flagVars
  <2> QED BY <1>2, <2>2, <2>3, <2>4
          DEF IInv, NoServiceMissed, FastPathIsNoOp, HintIsEager, NoStaleCode
<1> QED BY <1>3, <1>4

-----------------------------------------------------------------------------
(* The scheduler.                                                          *)

(* What the dispatch of a frame makes of the guards.                       *)
LEMMA DispatchFacts ==
  ASSUME IInv, Dispatch
  PROVE  /\ at' = "poll" /\ depth' \in 0..MaxDepth
         /\ bank' \in [Levels -> BOOLEAN] /\ dirty' \in [Levels -> BOOLEAN]
         /\ invalid' \in [Levels -> BOOLEAN]
         /\ ~CodeChanged' /\ TopNoticed'
<1>1. PICK kind \in BOOLEAN : bank' = [NoLevels EXCEPT ![1] = kind]
  BY DEF Dispatch
<1>2. at' = "poll" /\ depth' = 1 /\ dirty' = NoLevels /\ invalid' = NoLevels
  BY DEF Dispatch
<1>3. bank' \in [Levels -> BOOLEAN]
  BY <1>1, NoLevelsType
<1>4. ~invalid'[depth'] /\ ~dirty'[depth']
  BY <1>2, LevelFacts DEF NoLevels
<1> QED BY <1>2, <1>3, <1>4, DepthFacts, NoLevelsType DEF CodeChanged, TopNoticed

LEMMA StartSliceIInv ==
  ASSUME IInv, StartSlice
  PROVE  IInv'
<1>1. PICK c \in CPUs, m \in BOOLEAN, d \in Debts :
        /\ active' = c /\ masked' = m /\ debt' = d
        /\ halted' = [halted EXCEPT ![c] = FALSE]
  BY DEF StartSlice
<1>2. /\ rc' = 0 /\ cap' = Quantum /\ term' = FALSE
      /\ hint' = TRUE /\ limit' = 0 /\ Dispatch
      /\ UNCHANGED <<irqVars, dma, brk, breakPc>>
  BY DEF StartSlice, SliceBegin, RequestYieldPoll
<1>3. /\ at' = "poll" /\ depth' \in 0..MaxDepth
      /\ bank' \in [Levels -> BOOLEAN] /\ dirty' \in [Levels -> BOOLEAN]
      /\ invalid' \in [Levels -> BOOLEAN]
      /\ ~CodeChanged' /\ TopNoticed'
  BY <1>2, DispatchFacts
<1>4. TypeOK'
  <2>1. /\ limit' \in Nat /\ cap' \in Nat /\ rc' \in Nat /\ debt' \in Nat
        /\ active' \in CPUs
    BY <1>1, <1>2, LevelFacts
  <2>2. /\ hint' \in BOOLEAN /\ masked' \in BOOLEAN /\ term' \in BOOLEAN
        /\ halted' \in [CPUs -> BOOLEAN]
    BY <1>1, <1>2 DEF IInv, TypeOK
  <2> QED BY <1>2, <1>3, <2>1, <2>2 DEF IInv, TypeOK, irqVars
<1>5. PendingCacheCoherent'
  BY <1>2 DEF IInv, NoServiceMissed, PendingCacheCoherent, irqVars
<1>6. ~(rc' < limit')
  BY <1>2
<1> QED BY <1>2, <1>3, <1>4, <1>5, <1>6
        DEF IInv, NoServiceMissed, FastPathIsNoOp, HintIsEager, NoStaleCode,
            LimitIsEager

LEMMA RedispatchIInv ==
  ASSUME IInv, Redispatch
  PROVE  IInv'
<1>1. /\ ~term /\ ~dma[active] /\ ~halted[active] /\ ~brk /\ Dispatch
      /\ UNCHANGED <<active, limit, hint, clockVars, masked, irqVars, flagVars>>
  BY DEF Redispatch
<1>2. /\ at' = "poll" /\ depth' \in 0..MaxDepth
      /\ bank' \in [Levels -> BOOLEAN] /\ dirty' \in [Levels -> BOOLEAN]
      /\ invalid' \in [Levels -> BOOLEAN]
      /\ ~CodeChanged' /\ TopNoticed'
  BY <1>1, DispatchFacts
<1>3. TypeOK'
  BY <1>1, <1>2 DEF IInv, TypeOK, clockVars, irqVars, flagVars
<1>4. LimitIsEager' /\ PendingCacheCoherent'
  BY <1>1 DEF IInv, NoServiceMissed, LimitIsEager, PendingCacheCoherent, Pending,
              clockVars, irqVars, flagVars
<1>5. FastPathIsNoOp'
  BY <1>1, <1>2, <1>4 DEF FastPathIsNoOp, LimitIsEager, flagVars
<1>6. HintIsEager'
  BY <1>1, <1>2 DEF HintIsEager, flagVars
<1> QED BY <1>2, <1>3, <1>4, <1>5, <1>6 DEF IInv, NoServiceMissed, NoStaleCode

LEMMA DeviceIInv ==
  ASSUME IInv, DeviceIrq \/ DeviceDma \/ Debug
  PROVE  IInv'
<1>1. at = "host" /\ UNCHANGED <<at, active, clockVars, masked, guardVars>>
  BY DEF DeviceIrq, DeviceDma, Debug
<1>2. TopNoticed'
  BY <1>1 DEF IInv, TopNoticed, InBank, guardVars
<1>3. CASE DeviceIrq
  <2>1. PICK c \in CPUs :
          /\ source' = [source EXCEPT ![c] = TRUE] /\ ime' = ime
          /\ cache' = [cache EXCEPT ![c] = Pending(ime'[c], source'[c])]
          /\ limit' = 0 /\ hint' = hint
    BY <1>3 DEF DeviceIrq, IrqRecompute, ClearFastLimit
  <2>2. UNCHANGED flagVars
    BY <1>3 DEF DeviceIrq
  <2>3. /\ source' \in [CPUs -> BOOLEAN] /\ ime' \in [CPUs -> BOOLEAN]
        /\ cache' \in [CPUs -> BOOLEAN]
    BY <2>1 DEF IInv, TypeOK, Pending
  <2>4. PendingCacheCoherent'
    BY <2>1 DEF IInv, TypeOK, NoServiceMissed, PendingCacheCoherent, Pending
  <2>5. TypeOK'
    BY <1>1, <2>1, <2>2, <2>3 DEF IInv, TypeOK, clockVars, flagVars, guardVars
  <2>6. ~(rc' < limit')
    BY <2>1, <2>5 DEF TypeOK
  <2> QED BY <1>1, <1>2, <2>4, <2>5, <2>6
          DEF IInv, NoServiceMissed, FastPathIsNoOp, HintIsEager, NoStaleCode,
              LimitIsEager
<1>4. CASE DeviceDma
  <2>1. PICK c \in CPUs :
          \/ dma' = [dma EXCEPT ![c] = TRUE] /\ hint' = TRUE /\ limit' = 0
          \/ dma' = [dma EXCEPT ![c] = FALSE] /\ UNCHANGED <<limit, hint>>
    BY <1>4 DEF DeviceDma, RequestYieldPoll
  <2>2. UNCHANGED <<irqVars, halted, brk, term, breakPc>>
    BY <1>4 DEF DeviceDma
  <2>3. limit' = 0 \/ limit' = limit
    BY <2>1
  <2>4. dma' \in [CPUs -> BOOLEAN]
    BY <2>1, Zenon DEF IInv, TypeOK
  <2>5. hint' \in BOOLEAN
    BY <2>1, Zenon DEF IInv, TypeOK
  <2>6. limit' \in Nat
    BY <2>3 DEF IInv, TypeOK
  <2>7. TypeOK'
    BY <1>1, <2>2, <2>4, <2>5, <2>6 DEF IInv, TypeOK, clockVars, irqVars, guardVars
  <2>8. LimitIsEager' /\ PendingCacheCoherent'
    BY <1>1, <2>2, <2>3, <2>7 DEF IInv, TypeOK, NoServiceMissed, LimitIsEager,
       PendingCacheCoherent, Pending, clockVars, irqVars
  <2> QED BY <1>1, <1>2, <2>7, <2>8
          DEF IInv, NoServiceMissed, FastPathIsNoOp, HintIsEager, NoStaleCode
<1>5. CASE Debug
  <2>1. brk' = FALSE /\ breakPc' \in BOOLEAN /\ limit' = 0 /\ hint' = hint
    BY <1>5 DEF Debug, ClearFastLimit
  <2>2. UNCHANGED <<irqVars, halted, dma, term>>
    BY <1>5 DEF Debug
  <2>3. TypeOK'
    BY <1>1, <2>1, <2>2 DEF IInv, TypeOK, clockVars, irqVars, guardVars
  <2>4. PendingCacheCoherent'
    BY <2>2 DEF IInv, NoServiceMissed, PendingCacheCoherent, irqVars
  <2>5. ~(rc' < limit')
    BY <2>1, <2>3 DEF TypeOK
  <2> QED BY <1>1, <1>2, <2>3, <2>4, <2>5
          DEF IInv, NoServiceMissed, FastPathIsNoOp, HintIsEager, NoStaleCode,
              LimitIsEager
<1> QED BY <1>3, <1>4, <1>5

-----------------------------------------------------------------------------
LEMMA NextIInv == IInv /\ [Next]_vars => IInv'
<1> SUFFICES ASSUME IInv, [Next]_vars PROVE IInv'
  OBVIOUS
<1>1. CASE Poll
  BY <1>1, PollFastIInv, PollSlowIInv, PollTier3IInv DEF Poll
<1>2. CASE Effect
  BY <1>2, EffectIInv
<1>3. CASE Tick
  BY <1>3, TickFastIInv, TickSlowIInv, TickTier3IInv DEF Tick
<1>4. CASE Call \/ Return
  BY <1>4, CallIInv, ReturnIInv
<1>5. CASE Host
  BY <1>5, StartSliceIInv, RedispatchIInv, DeviceIInv DEF Host
<1>6. CASE UNCHANGED vars
  BY <1>6 DEF vars, clockVars, irqVars, flagVars, guardVars, IInv, TypeOK,
     NoServiceMissed, FastPathIsNoOp, HintIsEager, PendingCacheCoherent, Pending,
     NoStaleCode, LimitIsEager, TopNoticed, InBank, CodeChanged
<1> QED BY <1>1, <1>2, <1>3, <1>4, <1>5, <1>6 DEF Next

LEMMA Invariant == Spec => []IInv
BY InitIInv, NextIInv, PTL DEF Spec

(* Every state is well typed: the counters never leave the naturals and    *)
(* the host stack never outgrows its bound (runtime_arm.cpp).              *)
THEOREM TypeCorrect == Spec => []TypeOK
<1>1. IInv => TypeOK
  BY DEF IInv
<1> QED BY <1>1, Invariant, PTL

(* Below g_nds_fast_limit runtime_should_yield and runtime_tick skip only  *)
(* what the full checks would have found to be a no-op.                    *)
THEOREM ServiceNeverMissed == Spec => []NoServiceMissed
<1>1. IInv => NoServiceMissed
  BY DEF IInv
<1> QED BY <1>1, Invariant, PTL

(* No recompiled instruction is executed once the bytes it was translated  *)
(* from have been overwritten, by itself, a callee or an interrupt handler *)
(* (StaticGuardScope, active_static_code_changed).                         *)
THEOREM CodeNeverStale == Spec => []NoStaleCode
<1>1. IInv => NoStaleCode
  BY DEF IInv
<1> QED BY <1>1, Invariant, PTL

-------------------------------------------------------------------------------
(***************************************************************************)
(* Proof of EntryProved, for every set of rows, pages and images.          *)
(*                                                                         *)
(* What a slot remembers is stated of the pages that were behind its       *)
(* snapshot, whatever WRAMCNT selects now: as long as none of them has     *)
(* been written (Fresh), the rows that were live on them still are.        *)
(***************************************************************************)
Behind == Physical \cup {Unmapped}

GenerationOf(p) == IF p = Unmapped THEN 0 ELSE gen[p]

Fresh(snap) == \A v \in DOMAIN snap : snap[v].gen = GenerationOf(snap[v].from)

\* LiveRow on the pages a snapshot was taken of.
LiveAt(row, snap) ==
    \/ row.pages = {}
    \/ row.owns /\ \A v \in row.pages : /\ snap[v].from # Unmapped
                                         /\ byte[snap[v].from] = row.expect

\* Generations count up, so a snapshot is never ahead of its pages.
Recorded(snap) ==
    \A v \in DOMAIN snap : /\ snap[v].from \in Behind /\ snap[v].gen \in Nat
                           /\ snap[v].gen <= GenerationOf(snap[v].from)

\* A body that is remembered belongs to a row that covers its proof.
Backed(cpu, key, fn, snap) ==
    \E i \in Candidates(cpu, key) :
        /\ index[cpu][i].fn = fn
        /\ index[cpu][i].pages \subseteq DOMAIN snap
        /\ Fresh(snap) => LiveAt(index[cpu][i], snap)

LiveAtSnap(cpu, key, snap) ==
    {i \in Candidates(cpu, key) : LiveAt(index[cpu][i], snap)}

\* An absence that is remembered covers every candidate.
Absent(cpu, key, snap) ==
    /\ \A i \in Candidates(cpu, key) : index[cpu][i].pages \subseteq DOMAIN snap
    /\ Fresh(snap) => Winners(cpu, LiveAtSnap(cpu, key, snap)) = {}

Remembers(cpu, key, fn, snap) ==
    /\ Recorded(snap)
    /\ fn # NoFn => Backed(cpu, key, fn, snap)
    /\ fn = NoFn => Absent(cpu, key, snap)

Shapes ==
    /\ DOMAIN byte = Physical /\ gen \in [Physical -> Nat]
    /\ index \in [Cpus -> Seq(Rows)] /\ epoch \in [Cpus -> Nat \ {0}]
    /\ DOMAIN slots = Cpus /\ linkEpoch \in Nat \ {0} /\ DOMAIN links = Sites

SlotsInv ==
    \A c \in Cpus :
        /\ slots[c].epoch \in Nat /\ slots[c].epoch <= epoch[c]
        /\ slots[c].epoch = epoch[c] =>
             Remembers(c, slots[c].key, slots[c].fn, slots[c].snap)

LinksInv ==
    \A k \in Sites, c \in Cpus :
        /\ \A m \in Nat : links[k].key = <<m, c>> => m <= linkEpoch
        /\ links[k].key = <<linkEpoch, c>> /\ links[k].fn # NoFn =>
             /\ Recorded(links[k].snap)
             /\ Backed(c, k, links[k].fn, links[k].snap)

DispatchInv == Shapes /\ SlotsInv /\ LinksInv

LEMMA RowShape ==
    ASSUME Shapes, NEW c \in Cpus, NEW i \in DOMAIN index[c]
    PROVE  /\ i \in Nat /\ index[c][i] \in Rows
           /\ index[c][i].fn # NoFn /\ index[c][i].pages \subseteq Virtual
           /\ index[c][i].size \in Nat
<1>1. index[c] \in Seq(Rows)
    BY DEF Shapes
<1>2. i \in Nat /\ index[c][i] \in Rows
    BY <1>1
<1> QED BY <1>2, DispatchAssumption

LEMMA ResolveType ==
    \A c \in Cpus, v \in Virtual : Resolve(c, v) \in Behind
BY DEF Resolve, Behind, Virtual, Physical

LEMMA FewPages ==
    ASSUME NEW pages \in SUBSET Virtual
    PROVE  Cardinality(pages) \in Nat
<1>1. IsFiniteSet({"ram"})
    BY FS_Singleton
<1>2. IsFiniteSet({"ram"} \cup {"ram2"})
    BY <1>1, FS_AddElement
<1>3. IsFiniteSet(({"ram"} \cup {"ram2"}) \cup {"wram"})
    BY <1>2, FS_AddElement
<1>4. Virtual = ({"ram"} \cup {"ram2"}) \cup {"wram"}
    BY DEF Virtual
<1> QED BY <1>3, <1>4, FS_Subset, FS_CardinalityType

(* What a lookup decides now, on the pages of a snapshot taken now or of the  *)
(* same pages.                                                                *)
LEMMA SameLive ==
    ASSUME NEW c, NEW row, NEW snap, row.pages \subseteq DOMAIN snap,
           \A v \in DOMAIN snap : snap[v].from = Resolve(c, v)
    PROVE  LiveAt(row, snap) <=> LiveRow(c, row)
BY DEF LiveAt, LiveRow, IdentityLive, Holds

LEMMA SnapshotTaken ==
    ASSUME Shapes, NEW c \in Cpus, NEW pages \in SUBSET Virtual
    PROVE  /\ DOMAIN Snapshot(c, pages) = pages
           /\ \A v \in pages : Snapshot(c, pages)[v].from = Resolve(c, v)
           /\ Recorded(Snapshot(c, pages))
<1> DEFINE s == Snapshot(c, pages)
<1>1. DOMAIN s = pages /\ \A v \in pages : s[v].from = Resolve(c, v) /\ s[v].gen = Generation(c, v)
    BY DEF Snapshot
<1>2. \A v \in pages : Resolve(c, v) \in Behind
    BY ResolveType
<1>3. \A p \in Behind : GenerationOf(p) \in Nat
    BY DEF Shapes, GenerationOf, Behind
<1>4. \A v \in pages : Generation(c, v) = GenerationOf(Resolve(c, v))
    BY DEF Generation, GenerationOf
<1> HIDE DEF s
<1>5. Recorded(s)
    BY <1>1, <1>2, <1>3, <1>4 DEF Recorded
<1> QED BY <1>1, <1>5 DEF s

\* A winner is a live candidate, and there is one winner at most.
LEMMA WinnerLive ==
    ASSUME Shapes, NEW c \in Cpus, NEW live, live \subseteq DOMAIN index[c]
    PROVE  /\ \A r \in Winners(c, live) : \E i \in live : r = index[c][i]
           /\ \A r, o \in Winners(c, live) : r = o
<1>1. \A r \in Winners(c, live) : \E i \in live : r = index[c][i]
    BY DEF Winners
<1>2. ASSUME NEW r \in Winners(c, live), NEW o \in Winners(c, live) PROVE r = o
    <2>1. PICK i \in live : /\ r = index[c][i]
                            /\ \A x \in live : \/ Rank(index[c][i]) > Rank(index[c][x])
                                               \/ Rank(index[c][i]) = Rank(index[c][x]) /\ i <= x
        BY DEF Winners
    <2>2. PICK j \in live : /\ o = index[c][j]
                            /\ \A x \in live : \/ Rank(index[c][j]) > Rank(index[c][x])
                                               \/ Rank(index[c][j]) = Rank(index[c][x]) /\ j <= x
        BY DEF Winners
    <2>3. i \in Nat /\ j \in Nat /\ Rank(index[c][i]) \in Nat /\ Rank(index[c][j]) \in Nat
        BY RowShape DEF Rank
    <2>4. i = j
        BY <2>1, <2>2, <2>3
    <2> QED BY <2>1, <2>2, <2>4
<1> QED BY <1>1, <1>2

LEMMA OneCandidate ==
    ASSUME Shapes, NEW c \in Cpus, NEW key, ~(Cardinality(Candidates(c, key)) > 1),
           NEW i \in Candidates(c, key), NEW j \in Candidates(c, key)
    PROVE  i = j
<1> DEFINE s == Candidates(c, key)
<1>1. IsFiniteSet(s) /\ Cardinality(s) \in Nat
    <2>1. index[c] \in Seq(Rows) /\ Len(index[c]) \in Nat /\ s \subseteq 1..Len(index[c])
        BY DEF Shapes, Candidates
    <2>2. IsFiniteSet(1..Len(index[c]))
        BY <2>1, FS_Interval
    <2> QED BY <2>1, <2>2, FS_Subset, FS_CardinalityType
<1>2. SUFFICES ASSUME i # j PROVE FALSE
    OBVIOUS
<1>3. {i, j} \subseteq s
    OBVIOUS
<1> HIDE DEF s
<1>4. Cardinality({i, j}) <= Cardinality(s)
    BY <1>1, <1>3, FS_Subset
<1>5. Cardinality({i, j}) = 2
    <2>1. IsFiniteSet({i}) /\ Cardinality({i}) = 1
        BY FS_Singleton
    <2>2. {i} \cup {j} = {i, j} /\ j \notin {i}
        BY <1>2
    <2> QED BY <2>1, <2>2, FS_AddElement
<1> QED BY <1>1, <1>4, <1>5 DEF s

\* The pages a lookup records cover the row it found, or every rejected one.
LEMMA PagesRecorded ==
    ASSUME Shapes, NEW c \in Cpus, NEW key
    PROVE  LET hit == Selected(c, key)
               pages == RecordedPages(c, key, hit)
           IN  /\ pages \subseteq Virtual
               /\ \A r \in hit : pages = r.pages
               /\ hit = {} => \A i \in Candidates(c, key) : index[c][i].pages \subseteq pages
<1> DEFINE hit == Selected(c, key)
           pages == RecordedPages(c, key, hit)
<1>1. /\ Candidates(c, key) \subseteq DOMAIN index[c]
      /\ LiveCandidates(c, key) \subseteq Candidates(c, key)
    BY DEF Candidates, LiveCandidates
<1>2. /\ \A r \in hit : \E i \in Candidates(c, key) : r = index[c][i]
      /\ \A r, o \in hit : r = o
    BY <1>1, WinnerLive DEF Selected
<1>3. \A i \in Candidates(c, key) : index[c][i].pages \subseteq Virtual
    BY <1>1, RowShape
<1>4. CASE hit # {}
    <2> HIDE DEF hit
    <2>1. PICK r \in hit : hit = {r}
        BY <1>2, <1>4
    <2>2. pages = r.pages
        BY <1>4, <2>1 DEF RecordedPages
    <2> QED BY <1>2, <1>3, <1>4, <2>1, <2>2 DEF hit
<1>5. CASE hit = {} /\ Cardinality(Candidates(c, key)) > 1
    <2>1. pages = UNION {index[c][i].pages : i \in Candidates(c, key)}
        BY <1>5 DEF RecordedPages
    <2> QED BY <1>3, <1>5, <2>1
<1>6. CASE hit = {} /\ ~(Cardinality(Candidates(c, key)) > 1)
    <2>1. pages = UNION {r.pages : r \in Inactive(c, key)}
        BY <1>6 DEF RecordedPages
    <2>2. pages \subseteq Virtual
        BY <1>3, <2>1 DEF Inactive
    <2>3. ASSUME NEW i \in Candidates(c, key) PROVE index[c][i] \in Inactive(c, key)
        <3>1. Candidates(c, key) = {i} /\ i \in Nat
            BY <1>1, <1>6, OneCandidate, RowShape
        <3>2. i \notin LiveCandidates(c, key)
            <4> SUFFICES ASSUME i \in LiveCandidates(c, key) PROVE FALSE
                OBVIOUS
            <4>1. LiveCandidates(c, key) = {i}
                BY <1>1, <3>1
            <4>2. index[c][i] \in Winners(c, {i})
                BY <3>1 DEF Winners
            <4> QED BY <1>6, <4>1, <4>2 DEF Selected
        <3> QED BY <3>1, <3>2 DEF Inactive
    <2> QED BY <1>6, <2>1, <2>2, <2>3
<1> QED BY <1>4, <1>5, <1>6


Proved(e) == e.registered /\ (e.live \/ e.moved) /\ (~e.missed \/ e.moved)

Moved(c, snap) == \E v \in DOMAIN snap : snap[v].from # Resolve(c, v)

LEMMA StillFresh ==
    ASSUME NEW c, NEW snap, SnapshotLive(c, snap), ~Moved(c, snap)
    PROVE  Fresh(snap)
BY DEF SnapshotLive, Moved, Fresh, Generation, GenerationOf

LEMMA EntryIsProved ==
    ASSUME Shapes, NEW c \in Cpus, NEW key, NEW fn, NEW snap, NEW how,
           Backed(c, key, fn, snap), SnapshotLive(c, snap)
    PROVE  Proved(Entry(c, key, fn, snap, how))
<1>1. PICK i \in Candidates(c, key) : /\ index[c][i].fn = fn
                                      /\ index[c][i].pages \subseteq DOMAIN snap
                                      /\ Fresh(snap) => LiveAt(index[c][i], snap)
    BY DEF Backed
<1>2. index[c][i] \in Range(index[c]) /\ index[c][i].key = key
    BY DEF Candidates, Range
<1>3. Moved(c, snap) \/ LiveRow(c, index[c][i])
    BY <1>1, StillFresh, SameLive DEF Moved
<1> DEFINE e == Entry(c, key, fn, snap, how)
<1>4. /\ e.registered = (\E r \in Range(index[c]) : r.key = key /\ r.fn = fn)
      /\ e.live = (\E r \in Range(index[c]) : r.key = key /\ r.fn = fn /\ LiveRow(c, r))
      /\ e.moved = Moved(c, snap) /\ e.missed = FALSE
    BY DEF Entry, Moved
<1> HIDE DEF e
<1>5. e.registered
    BY <1>1, <1>2, <1>4
<1>6. e.live \/ e.moved
    BY <1>1, <1>2, <1>3, <1>4
<1>7. ~e.missed
    BY <1>4
<1> QED BY <1>5, <1>6, <1>7 DEF Proved, e

LEMMA MissIsProved ==
    ASSUME Shapes, NEW c \in Cpus, NEW key, NEW snap,
           Absent(c, key, snap), SnapshotLive(c, snap)
    PROVE  Proved(Miss(c, key, snap))
<1>1. Moved(c, snap) \/ Selected(c, key) = {}
    <2> SUFFICES ASSUME ~Moved(c, snap) PROVE Selected(c, key) = {}
        OBVIOUS
    <2>1. \A i \in Candidates(c, key) :
            LiveAt(index[c][i], snap) <=> LiveRow(c, index[c][i])
        BY SameLive DEF Absent, Moved
    <2>2. LiveAtSnap(c, key, snap) = LiveCandidates(c, key)
        BY <2>1 DEF LiveAtSnap, LiveCandidates
    <2>3. Fresh(snap)
        BY StillFresh
    <2> QED BY <2>2, <2>3 DEF Absent, Selected
<1> DEFINE e == Miss(c, key, snap)
<1>2. /\ e.registered = TRUE /\ e.live = TRUE /\ e.moved = Moved(c, snap)
      /\ e.missed = (\E r \in Selected(c, key) : Cardinality(r.pages) <= MaxPages)
    BY DEF Miss, Moved
<1> HIDE DEF e
<1>3. e.missed => e.moved
    BY <1>1, <1>2
<1> QED BY <1>2, <1>3 DEF Proved, e

LEMMA NoSlot ==
    /\ EmptySlot.epoch = 0 /\ EmptySlot.fn = NoFn /\ DOMAIN EmptySlot.snap = {}
    /\ EmptyLink.key = <<0, "">> /\ EmptyLink.fn = NoFn
<1>1. EmptySlot.epoch = 0 /\ EmptySlot.fn = NoFn
    BY DEF EmptySlot
<1>2. EmptySlot.snap = <<>>
    BY DEF EmptySlot
<1>3. DOMAIN EmptySlot.snap = {}
    BY <1>2
<1>4. EmptyLink.key = <<0, "">> /\ EmptyLink.fn = NoFn
    BY DEF EmptyLink
<1> QED BY <1>1, <1>3, <1>4

LEMMA FirstOfKey == \A m, d : <<0, "">> = <<m, d>> => m = 0
<1> SUFFICES ASSUME NEW m, NEW d, <<0, "">> = <<m, d>> PROVE m = 0
    OBVIOUS
<1>1. <<0, "">>[1] = 0 /\ <<m, d>>[1] = m
    OBVIOUS
<1> QED BY <1>1

\* A lookup leaves a slot that remembers the rows as they are, and answers with it.
LEMMA Filled ==
    ASSUME Shapes, NEW c \in Cpus, NEW key
    PROVE  LET slot == FilledSlot(c, key) IN
           /\ slot.epoch \in Nat /\ slot.epoch <= epoch[c]
           /\ slot.epoch = epoch[c] => Remembers(c, slot.key, slot.fn, slot.snap)
           /\ slot.fn # NoFn => slot.epoch = epoch[c] /\ slot.key = key
           /\ slot.fn = NoFn => Proved(Miss(c, key, slot.snap))
           /\ SnapshotLive(c, slot.snap)
<1> DEFINE hit == Selected(c, key)
           pages == RecordedPages(c, key, hit)
           snap == Snapshot(c, pages)
           slot == FilledSlot(c, key)
<1>1. pages \subseteq Virtual /\ (\A r \in hit : pages = r.pages)
      /\ (hit = {} => \A i \in Candidates(c, key) : index[c][i].pages \subseteq pages)
    BY PagesRecorded
<1>2. DOMAIN snap = pages /\ Recorded(snap) /\ ~Moved(c, snap) /\ SnapshotLive(c, snap)
    <2>1. SnapshotLive(c, snap)
        BY DEF Snapshot, SnapshotLive
    <2> QED BY <1>1, <2>1, SnapshotTaken DEF Moved
<1>3. epoch[c] \in Nat \ {0}
    BY DEF Shapes
<1>4. Candidates(c, key) \subseteq DOMAIN index[c]
      /\ LiveCandidates(c, key) \subseteq Candidates(c, key)
    BY DEF Candidates, LiveCandidates
<1>5. \A r \in hit : \E i \in LiveCandidates(c, key) : r = index[c][i]
    BY <1>4, WinnerLive DEF Selected
<1>6. CASE Cardinality(pages) > MaxPages
    <2>1. slot = EmptySlot
        BY <1>6 DEF FilledSlot
    <2>2. slot.epoch = 0 /\ slot.fn = NoFn /\ DOMAIN slot.snap = {}
        <3> HIDE DEF slot
        <3> QED BY <2>1, NoSlot
    <2>3. ~Moved(c, slot.snap) /\ SnapshotLive(c, slot.snap)
        BY <2>2 DEF Moved, SnapshotLive
    <2>4. Proved(Miss(c, key, slot.snap))
        <3> DEFINE e == Miss(c, key, slot.snap)
        <3>1. /\ e.registered = TRUE /\ e.live = TRUE
              /\ e.missed = (\E r \in hit : Cardinality(r.pages) <= MaxPages)
            BY DEF Miss
        <3>2. ~(\E r \in hit : Cardinality(r.pages) <= MaxPages)
            <4> SUFFICES ASSUME NEW r \in hit, Cardinality(r.pages) <= MaxPages PROVE FALSE
                OBVIOUS
            <4>1. Cardinality(pages) <= MaxPages
                BY <1>1
            <4>2. Cardinality(pages) \in Nat /\ MaxPages \in Nat
                BY <1>1, FewPages, DispatchAssumption
            <4> QED BY <1>6, <4>1, <4>2
        <3> HIDE DEF e
        <3> QED BY <3>1, <3>2 DEF Proved, e
    <2> QED BY <1>3, <2>2, <2>3, <2>4
<1>7. CASE ~(Cardinality(pages) > MaxPages) /\ hit = {}
    <2>1. slot = [key |-> key, epoch |-> epoch[c], fn |-> NoFn, snap |-> snap]
        BY <1>7 DEF FilledSlot
    <2> HIDE DEF snap
    <2>2. \A i \in Candidates(c, key) :
            LiveAt(index[c][i], snap) <=> LiveRow(c, index[c][i])
        BY <1>1, <1>2, <1>7, SameLive DEF Moved
    <2>3. LiveAtSnap(c, key, snap) = LiveCandidates(c, key)
        BY <2>2 DEF LiveAtSnap, LiveCandidates
    <2>4. Absent(c, key, snap)
        BY <1>1, <1>2, <1>7, <2>3 DEF Absent, Selected
    <2>5. Proved(Miss(c, key, snap))
        BY <1>2, <2>4, MissIsProved
    <2> QED BY <1>2, <1>3, <2>1, <2>4, <2>5 DEF Remembers
<1>8. CASE ~(Cardinality(pages) > MaxPages) /\ hit # {}
    <2>1. PICK r \in hit : r = CHOOSE o \in hit : TRUE
        BY <1>8
    <2>2. PICK i \in LiveCandidates(c, key) : r = index[c][i]
        BY <1>5
    <2>3. slot = [key |-> key, epoch |-> epoch[c], fn |-> r.fn, snap |-> snap]
        BY <1>8, <2>1 DEF FilledSlot
    <2> HIDE DEF snap
    <2>4. LiveRow(c, r) /\ r.fn # NoFn
        BY <1>4, <2>2, RowShape DEF LiveCandidates
    <2>5. r.pages = pages
        BY <1>1
    <2>6. LiveAt(r, snap)
        BY <1>2, <2>4, <2>5, SameLive DEF Moved
    <2>7. Backed(c, key, r.fn, snap)
        BY <1>2, <1>4, <2>2, <2>5, <2>6 DEF Backed
    <2> QED BY <1>2, <1>3, <2>3, <2>4, <2>7 DEF Remembers
<1> QED BY <1>6, <1>7, <1>8

LEMMA Looked ==
    ASSUME Shapes, SlotsInv, NEW c \in Cpus, NEW key
    PROVE  LET slot == LookedUp(c, key) IN
           /\ slot.epoch \in Nat /\ slot.epoch <= epoch[c]
           /\ slot.epoch = epoch[c] => Remembers(c, slot.key, slot.fn, slot.snap)
           /\ slot.fn # NoFn => Recorded(slot.snap) /\ Backed(c, key, slot.fn, slot.snap)
           /\ Proved(IF slot.fn = NoFn THEN Miss(c, key, slot.snap)
                     ELSE Entry(c, key, slot.fn, slot.snap, "cache"))
<1> DEFINE slot == LookedUp(c, key)
<1>1. /\ slot.epoch \in Nat /\ slot.epoch <= epoch[c]
      /\ slot.epoch = epoch[c] => Remembers(c, slot.key, slot.fn, slot.snap)
      /\ slot.fn # NoFn => slot.epoch = epoch[c] /\ slot.key = key
      /\ slot.fn = NoFn => Proved(Miss(c, key, slot.snap))
      /\ SnapshotLive(c, slot.snap)
    <2>1. CASE SlotHits(c, key)
        <3>1. slot = slots[c]
            BY <2>1 DEF LookedUp
        <3>2. slot.key = key /\ slot.epoch = epoch[c] /\ SnapshotLive(c, slot.snap)
            BY <2>1, <3>1 DEF SlotHits
        <3>3. slot.epoch \in Nat /\ slot.epoch <= epoch[c]
              /\ Remembers(c, key, slot.fn, slot.snap)
            BY <3>1, <3>2 DEF SlotsInv
        <3>4. slot.fn = NoFn => Proved(Miss(c, key, slot.snap))
            BY <3>2, <3>3, MissIsProved DEF Remembers
        <3> HIDE DEF slot
        <3> QED BY <3>2, <3>3, <3>4
    <2>2. CASE ~SlotHits(c, key)
        <3>1. slot = FilledSlot(c, key)
            BY <2>2 DEF LookedUp
        <3> HIDE DEF slot
        <3> QED BY <3>1, Filled
    <2> QED BY <2>1, <2>2
<1> HIDE DEF slot
<1>2. slot.fn # NoFn => Recorded(slot.snap) /\ Backed(c, key, slot.fn, slot.snap)
    BY <1>1 DEF Remembers
<1>3. slot.fn # NoFn => Proved(Entry(c, key, slot.fn, slot.snap, "cache"))
    BY <1>1, <1>2, EntryIsProved
<1> QED BY <1>1, <1>2, <1>3 DEF slot


\* What is remembered of a processor depends on the memory and on its index.
LEMMA SameMemory ==
    ASSUME NEW c, UNCHANGED <<byte, gen>>, index'[c] = index[c], NEW key, NEW fn, NEW snap
    PROVE  /\ Recorded(snap)' <=> Recorded(snap)
           /\ Backed(c, key, fn, snap)' <=> Backed(c, key, fn, snap)
           /\ Remembers(c, key, fn, snap)' <=> Remembers(c, key, fn, snap)
<1>1. /\ \A p : GenerationOf(p)' = GenerationOf(p)
      /\ \A row : LiveAt(row, snap)' <=> LiveAt(row, snap)
      /\ Candidates(c, key)' = Candidates(c, key)
      /\ \A live : Winners(c, live)' = Winners(c, live)
    BY DEF GenerationOf, LiveAt, Candidates, Winners
<1>2. Fresh(snap)' <=> Fresh(snap)
    BY <1>1 DEF Fresh
<1>3. Recorded(snap)' <=> Recorded(snap)
    BY <1>1 DEF Recorded
<1>4. Backed(c, key, fn, snap)' <=> Backed(c, key, fn, snap)
    BY <1>1, <1>2 DEF Backed
<1>5. LiveAtSnap(c, key, snap)' = LiveAtSnap(c, key, snap)
    BY <1>1 DEF LiveAtSnap
<1>6. Absent(c, key, snap)' <=> Absent(c, key, snap)
    BY <1>1, <1>2, <1>5 DEF Absent
<1> QED BY <1>3, <1>4, <1>6 DEF Remembers

\* A store ages the snapshots of its page and leaves the others as true as before.
LEMMA WriteKept ==
    ASSUME Shapes, NEW p \in Physical, NEW x, byte' = [byte EXCEPT ![p] = x],
           gen' = [gen EXCEPT ![p] = @ + 1], UNCHANGED index,
           NEW c, NEW key, NEW fn, NEW snap, Recorded(snap)
    PROVE  /\ Recorded(snap)'
           /\ Backed(c, key, fn, snap) => Backed(c, key, fn, snap)'
           /\ Remembers(c, key, fn, snap) => Remembers(c, key, fn, snap)'
<1>1. /\ \A q \in Behind : GenerationOf(q) \in Nat
      /\ \A q \in Behind : GenerationOf(q)' = IF q = p THEN GenerationOf(q) + 1 ELSE GenerationOf(q)
      /\ \A q \in Physical : q # p => byte'[q] = byte[q]
    <2>1. p # Unmapped
        BY DEF Physical, Unmapped
    <2> QED BY <2>1 DEF Shapes, GenerationOf, Behind
<1>2. Recorded(snap)'
    <2> SUFFICES ASSUME NEW v \in DOMAIN snap
                 PROVE  /\ snap[v].from \in Behind /\ snap[v].gen \in Nat
                        /\ snap[v].gen <= GenerationOf(snap[v].from)'
        BY DEF Recorded
    <2>1. PICK q, n : q = snap[v].from /\ n = snap[v].gen
        OBVIOUS
    <2>2. q \in Behind /\ n \in Nat /\ n <= GenerationOf(q)
        BY <2>1 DEF Recorded
    <2>3. n <= GenerationOf(q)'
        BY <1>1, <2>2
    <2> QED BY <2>1, <2>2, <2>3
<1>3. ASSUME Fresh(snap)', NEW v \in DOMAIN snap
      PROVE  snap[v].from # p /\ snap[v].gen = GenerationOf(snap[v].from)
    <2>1. PICK q, n : q = snap[v].from /\ n = snap[v].gen
        OBVIOUS
    <2>2. q \in Behind /\ n \in Nat /\ n <= GenerationOf(q) /\ n = GenerationOf(q)'
        BY <1>3, <2>1 DEF Recorded, Fresh
    <2>3. q # p /\ n = GenerationOf(q)
        BY <1>1, <2>2
    <2> QED BY <2>1, <2>3
<1>4. ASSUME Fresh(snap)' PROVE Fresh(snap)
    BY <1>3, <1>4 DEF Fresh
<1>5. ASSUME Fresh(snap)', NEW row, row.pages \subseteq DOMAIN snap
      PROVE  LiveAt(row, snap)' <=> LiveAt(row, snap)
    <2>1. ASSUME NEW v \in row.pages PROVE snap[v].from = Unmapped \/ byte'[snap[v].from] = byte[snap[v].from]
        <3>1. v \in DOMAIN snap
            BY <1>5
        <3>2. snap[v].from \in Behind /\ snap[v].from # p
            BY <1>3, <1>5, <3>1 DEF Recorded
        <3> QED BY <1>1, <3>2 DEF Behind
    <2> QED BY <2>1 DEF LiveAt
<1>6. Candidates(c, key)' = Candidates(c, key) /\ \A live : Winners(c, live)' = Winners(c, live)
    BY DEF Candidates, Winners
<1>7. Backed(c, key, fn, snap) => Backed(c, key, fn, snap)'
    BY <1>4, <1>5, <1>6 DEF Backed
<1>8. ASSUME Absent(c, key, snap) PROVE Absent(c, key, snap)'
    <2>1. ASSUME Fresh(snap)' PROVE LiveAtSnap(c, key, snap)' = LiveAtSnap(c, key, snap)
        BY <1>5, <1>6, <1>8, <2>1 DEF LiveAtSnap, Absent
    <2> QED BY <1>4, <1>6, <1>8, <2>1 DEF Absent
<1> QED BY <1>2, <1>7, <1>8 DEF Remembers

\* A step that keeps the memory, the index and the epochs may put a good slot
\* in the cache, and a good proof in a link.
LEMMA CacheStep ==
    ASSUME DispatchInv, UNCHANGED <<byte, gen, index, epoch, linkEpoch>>,
           NEW c \in Cpus, NEW slot, DOMAIN slots' = DOMAIN slots, slots'[c] = slot,
           \A d \in Cpus \ {c} : slots'[d] = slots[d],
           slot.epoch \in Nat, slot.epoch <= epoch[c],
           slot.epoch = epoch[c] => Remembers(c, slot.key, slot.fn, slot.snap),
           LinksInv', DOMAIN links' = DOMAIN links
    PROVE  DispatchInv'
<1>1. Shapes /\ SlotsInv
    BY DEF DispatchInv
<1>2. Shapes'
    BY <1>1 DEF Shapes
<1>3. SlotsInv'
    <2> SUFFICES ASSUME NEW d \in Cpus
                 PROVE  /\ slots'[d].epoch \in Nat /\ slots'[d].epoch <= epoch[d]
                        /\ slots'[d].epoch = epoch[d] =>
                             Remembers(d, slots[d].key, slots[d].fn, slots[d].snap)'
        BY DEF SlotsInv
    <2>1. PICK s : s = slots'[d]
        OBVIOUS
    <2>2. s.epoch \in Nat /\ s.epoch <= epoch[d]
          /\ (s.epoch = epoch[d] => Remembers(d, s.key, s.fn, s.snap))
        BY <1>1, <2>1 DEF SlotsInv
    <2>3. Remembers(d, s.key, s.fn, s.snap)' <=> Remembers(d, s.key, s.fn, s.snap)
        BY SameMemory
    <2> QED BY <2>1, <2>2, <2>3
<1> QED BY <1>2, <1>3 DEF DispatchInv

\* A step that only enters code.
LEMMA LinksKept ==
    ASSUME LinksInv, UNCHANGED <<byte, gen, index, linkEpoch, links>>
    PROVE  LinksInv'
BY SameMemory DEF LinksInv

LEMMA DispatchStep ==
    ASSUME DispatchInv, NEW c \in Cpus, NEW key, RuntimeDispatch(c, key)
    PROVE  DispatchInv' /\ EntryProved'
<1> DEFINE slot == LookedUp(c, key)
<1>1. Shapes /\ SlotsInv /\ LinksInv /\ slots' = [slots EXCEPT ![c] = slot]
      /\ entered' = (IF slot.fn = NoFn THEN Miss(c, key, slot.snap)
                     ELSE Entry(c, key, slot.fn, slot.snap, "cache"))
      /\ UNCHANGED <<byte, gen, mode, index, epoch, linkEpoch, guards, links>>
    BY DEF DispatchInv, RuntimeDispatch, memory, banks, linking
<1>2. /\ slot.epoch \in Nat /\ slot.epoch <= epoch[c]
      /\ slot.epoch = epoch[c] => Remembers(c, slot.key, slot.fn, slot.snap)
      /\ Proved(IF slot.fn = NoFn THEN Miss(c, key, slot.snap)
                ELSE Entry(c, key, slot.fn, slot.snap, "cache"))
    BY <1>1, Looked
<1> HIDE DEF slot
<1>3. LinksInv'
    BY <1>1, LinksKept
<1>4. EntryProved'
    BY <1>1, <1>2 DEF EntryProved, Proved
<1>5. DispatchInv'
    <2>1. /\ DOMAIN slots' = DOMAIN slots /\ slots'[c] = slot
          /\ \A d \in Cpus \ {c} : slots'[d] = slots[d]
        BY <1>1 DEF Shapes
    <2> QED BY <1>1, <1>2, <1>3, <2>1, CacheStep
<1> QED BY <1>4, <1>5

LEMMA RefillStep ==
    ASSUME DispatchInv, NEW c \in Cpus, NEW key \in Sites, LinkRefill(c, key)
    PROVE  DispatchInv' /\ EntryProved'
<1> DEFINE slot == LookedUp(c, key)
           link == FilledLink(c, slot)
<1>1. Shapes /\ SlotsInv /\ LinksInv /\ slots' = [slots EXCEPT ![c] = slot]
      /\ links' = [links EXCEPT ![key] = link]
      /\ entered' = (IF slot.fn = NoFn THEN Miss(c, key, slot.snap)
                     ELSE Entry(c, key, slot.fn, slot.snap, "cache"))
      /\ UNCHANGED <<byte, gen, mode, index, epoch, linkEpoch>>
    BY DEF DispatchInv, LinkRefill, memory, banks
<1>2. /\ slot.epoch \in Nat /\ slot.epoch <= epoch[c]
      /\ slot.epoch = epoch[c] => Remembers(c, slot.key, slot.fn, slot.snap)
      /\ slot.fn # NoFn => Recorded(slot.snap) /\ Backed(c, key, slot.fn, slot.snap)
      /\ Proved(IF slot.fn = NoFn THEN Miss(c, key, slot.snap)
                ELSE Entry(c, key, slot.fn, slot.snap, "cache"))
    BY <1>1, Looked
<1> HIDE DEF slot
<1>3. \/ link = EmptyLink
      \/ /\ slot.fn # NoFn
         /\ link.key = <<linkEpoch, c>> /\ link.fn = slot.fn /\ link.snap = slot.snap
    BY DEF FilledLink
<1> HIDE DEF link
<1>4. LinksInv'
    <2> SUFFICES ASSUME NEW k \in Sites, NEW d \in Cpus
                 PROVE  /\ \A m \in Nat : links'[k].key = <<m, d>> => m <= linkEpoch
                        /\ links'[k].key = <<linkEpoch, d>> /\ links'[k].fn # NoFn =>
                             /\ Recorded(links[k].snap)'
                             /\ Backed(d, k, links[k].fn, links[k].snap)'
        BY <1>1 DEF LinksInv
    <2>1. PICK l : l = links'[k]
        OBVIOUS
    <2>2. CASE k # key
        <3>1. l = links[k]
            BY <1>1, <2>1, <2>2 DEF Shapes
        <3>2. /\ \A m \in Nat : l.key = <<m, d>> => m <= linkEpoch
              /\ l.key = <<linkEpoch, d>> /\ l.fn # NoFn => Recorded(l.snap) /\ Backed(d, k, l.fn, l.snap)
            BY <1>1, <3>1 DEF LinksInv
        <3>3. (Recorded(l.snap)' <=> Recorded(l.snap))
              /\ (Backed(d, k, l.fn, l.snap)' <=> Backed(d, k, l.fn, l.snap))
            BY <1>1, SameMemory
        <3> QED BY <2>1, <3>2, <3>3
    <2>3. CASE k = key
        <3>1. l = link /\ linkEpoch \in Nat \ {0}
            BY <1>1, <2>1, <2>3 DEF Shapes
        <3>2. CASE link = EmptyLink
            <4>1. l.key = <<0, "">> /\ l.fn = NoFn
                BY <3>1, <3>2, NoSlot
            <4>2. \A m \in Nat : l.key = <<m, d>> => m = 0
                BY <4>1, FirstOfKey
            <4>3. \A m \in Nat : l.key = <<m, d>> => m <= linkEpoch
                BY <3>1, <4>2
            <4>4. ~(l.key = <<linkEpoch, d>> /\ l.fn # NoFn)
                BY <4>1
            <4> QED BY <2>1, <4>3, <4>4
        <3>3. CASE slot.fn # NoFn /\ link.key = <<linkEpoch, c>> /\ link.fn = slot.fn /\ link.snap = slot.snap
            <4>1. l.key = <<linkEpoch, c>> /\ Recorded(l.snap) /\ Backed(c, k, l.fn, l.snap)
                BY <1>2, <2>3, <3>1, <3>3
            <4>2. Recorded(l.snap)' /\ Backed(c, k, l.fn, l.snap)'
                BY <1>1, <4>1, SameMemory
            <4>3. \A m \in Nat : l.key = <<m, d>> => m = linkEpoch /\ d = c
                BY <4>1
            <4> QED BY <2>1, <3>1, <4>2, <4>3
        <3> QED BY <1>3, <3>2, <3>3
    <2> QED BY <2>2, <2>3
<1>5. EntryProved'
    BY <1>1, <1>2 DEF EntryProved, Proved
<1>6. DispatchInv'
    <2>1. /\ DOMAIN slots' = DOMAIN slots /\ slots'[c] = slot /\ DOMAIN links' = DOMAIN links
          /\ \A d \in Cpus \ {c} : slots'[d] = slots[d]
        BY <1>1 DEF Shapes
    <2> QED BY <1>1, <1>2, <1>4, <2>1, CacheStep
<1> QED BY <1>5, <1>6

\* An entry through a link that admits it, the inlined body's included.
LEMMA AdmittedStep ==
    ASSUME DispatchInv, NEW c \in Cpus, NEW k \in Sites, NEW how, Admits(c, k),
           entered' = Entry(c, k, links[k].fn, links[k].snap, how),
           UNCHANGED <<memory, banks, slots, linking>>
    PROVE  DispatchInv' /\ EntryProved'
<1>1. Shapes /\ SlotsInv /\ LinksInv
      /\ UNCHANGED <<byte, gen, index, epoch, slots, linkEpoch, links>>
    BY DEF DispatchInv, memory, banks, linking
<1>2. /\ links[k].key = <<linkEpoch, c>> /\ links[k].fn # NoFn
      /\ SnapshotLive(c, links[k].snap)
    BY DEF Admits
<1>3. Backed(c, k, links[k].fn, links[k].snap)
    BY <1>1, <1>2 DEF LinksInv
<1>4. Proved(Entry(c, k, links[k].fn, links[k].snap, how))
    BY <1>1, <1>2, <1>3, EntryIsProved
<1>5. EntryProved'
    BY <1>4 DEF EntryProved, Proved
<1>6. LinksInv'
    BY <1>1, LinksKept
<1>7. DispatchInv'
    <2>1. slots[c].epoch \in Nat /\ slots[c].epoch <= epoch[c]
          /\ (slots[c].epoch = epoch[c] => Remembers(c, slots[c].key, slots[c].fn, slots[c].snap))
        BY <1>1 DEF SlotsInv
    <2> QED BY <1>1, <1>6, <2>1, CacheStep
<1> QED BY <1>5, <1>7

LEMMA NoEntryProved ==
    ASSUME Elsewhere
    PROVE  EntryProved'
BY DEF Elsewhere, NoEntry, EntryProved

LEMMA WriteStep ==
    ASSUME DispatchInv, NEW c \in Cpus, NEW v \in Written, NEW x, GuestWrite(c, v, x)
    PROVE  DispatchInv' /\ EntryProved'
<1> DEFINE p == Resolve(c, v)
<1>1. Shapes /\ SlotsInv /\ LinksInv /\ p \in Physical
      /\ byte' = [byte EXCEPT ![p] = x] /\ gen' = [gen EXCEPT ![p] = @ + 1]
      /\ UNCHANGED <<index, epoch, slots, linkEpoch, links>> /\ Elsewhere
    BY ResolveType, DispatchAssumption DEF DispatchInv, GuestWrite, banks, linking, Behind
<1> HIDE DEF p
<1>2. Shapes'
    BY <1>1 DEF Shapes
<1>3. SlotsInv'
    <2> SUFFICES ASSUME NEW d \in Cpus, slots[d].epoch = epoch[d]
                 PROVE  Remembers(d, slots[d].key, slots[d].fn, slots[d].snap)'
        BY <1>1 DEF SlotsInv
    <2>1. PICK s : s = slots[d]
        OBVIOUS
    <2>2. Remembers(d, s.key, s.fn, s.snap) /\ Recorded(s.snap)
        BY <1>1, <2>1 DEF SlotsInv, Remembers
    <2>3. Remembers(d, s.key, s.fn, s.snap)'
        BY <1>1, <2>2, WriteKept
    <2> QED BY <1>1, <2>1, <2>3
<1>4. LinksInv'
    <2> SUFFICES ASSUME NEW k \in Sites, NEW d \in Cpus, links[k].key = <<linkEpoch, d>>,
                        links[k].fn # NoFn
                 PROVE  Recorded(links[k].snap)' /\ Backed(d, k, links[k].fn, links[k].snap)'
        BY <1>1 DEF LinksInv
    <2>1. PICK l : l = links[k]
        OBVIOUS
    <2>2. Recorded(l.snap) /\ Backed(d, k, l.fn, l.snap)
        BY <1>1, <2>1 DEF LinksInv
    <2>3. Recorded(l.snap)' /\ Backed(d, k, l.fn, l.snap)'
        BY <1>1, <2>2, WriteKept
    <2> QED BY <1>1, <2>1, <2>3
<1> QED BY <1>1, <1>2, <1>3, <1>4, NoEntryProved DEF DispatchInv

LEMMA RemapStep ==
    ASSUME DispatchInv, NEW m, Remap(m)
    PROVE  DispatchInv' /\ EntryProved'
<1>1. Shapes /\ SlotsInv /\ LinksInv /\ Elsewhere
      /\ UNCHANGED <<byte, gen, index, epoch, slots, linkEpoch, links>>
    BY DEF DispatchInv, Remap, banks, linking
<1>2. Shapes'
    BY <1>1 DEF Shapes
<1>3. SlotsInv'
    BY <1>1, SameMemory DEF SlotsInv
<1>4. LinksInv'
    BY <1>1, LinksKept
<1> QED BY <1>1, <1>2, <1>3, <1>4, NoEntryProved DEF DispatchInv

\* A link of an epoch that is over is never admitted again.
LEMMA LinksOver ==
    ASSUME Shapes, LinksInv, linkEpoch' = linkEpoch + 1, UNCHANGED links
    PROVE  LinksInv'
<1> SUFFICES ASSUME NEW k \in Sites, NEW d \in Cpus
             PROVE  /\ \A m \in Nat : links[k].key = <<m, d>> => m <= linkEpoch + 1
                    /\ links[k].key # <<linkEpoch + 1, d>>
    BY DEF LinksInv
<1>1. linkEpoch \in Nat
    BY DEF Shapes
<1>2. \A m \in Nat : links[k].key = <<m, d>> => m <= linkEpoch
    BY DEF LinksInv
<1> QED BY <1>1, <1>2

\* A registration or its end: the processor's epoch moves past every slot.
LEMMA IndexStep ==
    ASSUME DispatchInv, NEW c \in Cpus, NEW rows \in Seq(Rows), BumpEpochs(c),
           index' = [index EXCEPT ![c] = rows], Elsewhere, UNCHANGED <<memory, links>>
    PROVE  DispatchInv' /\ EntryProved'
<1>1. Shapes /\ SlotsInv /\ LinksInv /\ UNCHANGED <<byte, gen, links>>
      /\ linkEpoch' = linkEpoch + 1
      /\ epoch' = [epoch EXCEPT ![c] = BumpedEpoch(c)]
      /\ slots' = IF epoch[c] = EpochTop THEN [slots EXCEPT ![c] = EmptySlot] ELSE slots
    BY DEF DispatchInv, BumpEpochs, memory
<1>2. epoch[c] \in Nat \ {0}
    BY <1>1 DEF Shapes
<1>3. BumpedEpoch(c) \in Nat \ {0}
    BY <1>2 DEF BumpedEpoch
<1>4. Shapes'
    BY <1>1, <1>3 DEF Shapes
<1>5. SlotsInv'
    <2> SUFFICES ASSUME NEW d \in Cpus
                 PROVE  /\ slots'[d].epoch \in Nat /\ slots'[d].epoch <= epoch'[d]
                        /\ slots'[d].epoch = epoch'[d] =>
                             Remembers(d, slots[d].key, slots[d].fn, slots[d].snap)'
        BY DEF SlotsInv
    <2>1. CASE d = c
        <3>1. slots'[c].epoch \in Nat /\ slots'[c].epoch < BumpedEpoch(c)
            <4>1. CASE epoch[c] = EpochTop
                <5>1. slots'[c] = EmptySlot /\ BumpedEpoch(c) = 1
                    BY <1>1, <4>1 DEF Shapes, BumpedEpoch
                <5>2. PICK s : s = slots'[c]
                    OBVIOUS
                <5>3. s.epoch = 0
                    BY <5>1, <5>2, NoSlot
                <5> QED BY <5>1, <5>2, <5>3
            <4>2. CASE epoch[c] # EpochTop
                <5>1. slots'[c] = slots[c] /\ BumpedEpoch(c) = epoch[c] + 1
                    BY <1>1, <4>2 DEF BumpedEpoch
                <5>2. slots[c].epoch \in Nat /\ slots[c].epoch <= epoch[c]
                    BY <1>1 DEF SlotsInv
                <5> QED BY <1>2, <5>1, <5>2
            <4> QED BY <4>1, <4>2
        <3>2. epoch'[c] = BumpedEpoch(c)
            BY <1>1 DEF Shapes
        <3> QED BY <1>3, <2>1, <3>1, <3>2
    <2>2. CASE d # c
        <3>1. slots'[d] = slots[d] /\ epoch'[d] = epoch[d] /\ index'[d] = index[d]
            BY <1>1, <2>2 DEF Shapes
        <3>2. PICK s : s = slots[d]
            OBVIOUS
        <3>3. s.epoch \in Nat /\ s.epoch <= epoch[d]
              /\ (s.epoch = epoch[d] => Remembers(d, s.key, s.fn, s.snap))
            BY <1>1, <3>2 DEF SlotsInv
        <3>4. Remembers(d, s.key, s.fn, s.snap)' <=> Remembers(d, s.key, s.fn, s.snap)
            BY <1>1, <3>1, SameMemory
        <3> QED BY <3>1, <3>2, <3>3, <3>4
    <2> QED BY <2>1, <2>2
<1>6. LinksInv'
    BY <1>1, LinksOver
<1> QED BY <1>4, <1>5, <1>6, NoEntryProved DEF DispatchInv

\* A reset or a load: no slot and no link survives.
LEMMA InvalidatedStep ==
    ASSUME DispatchInv, InvalidateHostCaches, Elsewhere, UNCHANGED links,
           DOMAIN byte' = Physical, gen' \in [Physical -> Nat],
           index' \in [Cpus -> Seq(Rows)], epoch' \in [Cpus -> Nat \ {0}]
    PROVE  DispatchInv' /\ EntryProved'
<1>1. Shapes /\ LinksInv /\ linkEpoch' = linkEpoch + 1 /\ slots' = [c \in Cpus |-> EmptySlot]
    BY DEF DispatchInv, InvalidateHostCaches
<1>2. Shapes'
    BY <1>1 DEF Shapes
<1>3. SlotsInv'
    <2> SUFFICES ASSUME NEW d \in Cpus
                 PROVE  slots'[d].epoch \in Nat /\ slots'[d].epoch < epoch'[d]
        BY <1>2 DEF SlotsInv, Shapes
    <2>1. slots'[d].epoch = 0
        BY <1>1, NoSlot
    <2> QED BY <2>1
<1>4. LinksInv'
    BY <1>1, LinksOver
<1> QED BY <1>2, <1>3, <1>4, NoEntryProved DEF DispatchInv

LEMMA InitDispatchInv == DispatchInit => DispatchInv /\ EntryProved
<1> SUFFICES ASSUME DispatchInit PROVE DispatchInv /\ EntryProved
    OBVIOUS
<1>1. Shapes
    BY DispatchAssumption DEF DispatchInit, Shapes
<1>2. SlotsInv
    <2> SUFFICES ASSUME NEW c \in Cpus
                 PROVE  slots[c].epoch \in Nat /\ slots[c].epoch < epoch[c]
        BY <1>1 DEF SlotsInv, Shapes
    <2>1. slots[c].epoch = 0 /\ epoch[c] = 1
        BY NoSlot DEF DispatchInit
    <2> QED BY <2>1
<1>3. LinksInv
    <2> SUFFICES ASSUME NEW k \in Sites, NEW c \in Cpus
                 PROVE  /\ \A m \in Nat : links[k].key = <<m, c>> => m <= linkEpoch
                        /\ links[k].fn = NoFn
        BY DEF LinksInv
    <2>1. links[k].key = <<0, "">> /\ links[k].fn = NoFn /\ linkEpoch = 1
        BY NoSlot DEF DispatchInit
    <2>2. PICK l : l = links[k]
        OBVIOUS
    <2>3. \A m \in Nat : l.key = <<m, c>> => m = 0
        BY <2>1, <2>2, FirstOfKey
    <2>4. \A m \in Nat : l.key = <<m, c>> => m <= linkEpoch
        <3>1. linkEpoch \in Nat
            BY <2>1
        <3> QED BY <2>3, <3>1
    <2> QED BY <2>1, <2>2, <2>4
<1>4. EntryProved
    BY DEF DispatchInit, NoEntry, EntryProved
<1> QED BY <1>1, <1>2, <1>3, <1>4 DEF DispatchInv

LEMMA NextDispatchInv ==
    ASSUME DispatchInv, EntryProved, [DispatchNext]_dispatchVars
    PROVE  DispatchInv' /\ EntryProved'
<1>1. CASE \E c \in Cpus, k \in Keys : RuntimeDispatch(c, k)
    BY <1>1, DispatchStep
<1>2. CASE \E c \in Cpus, k \in Sites : LinkHit(c, k)
    BY <1>2, AdmittedStep DEF LinkHit, linking
<1>3. CASE \E c \in Cpus, k \in Sites : LinkRefill(c, k)
    BY <1>3, RefillStep
<1>4. CASE \E c \in Cpus, r \in Rows : InlineLeaf(c, r)
    <2>1. PICK c \in Cpus, r \in Rows : InlineLeaf(c, r)
        BY <1>4
    <2>2. /\ r.key \in Sites /\ Admits(c, r.key)
          /\ entered' = Entry(c, r.key, links[r.key].fn, links[r.key].snap, "inline")
          /\ UNCHANGED <<memory, banks, slots, linking>>
        BY <2>1 DEF InlineLeaf
    <2> QED BY <2>2, AdmittedStep
<1>5. CASE \E c \in Cpus, v \in Written, x \in Values : GuestWrite(c, v, x)
    BY <1>5, WriteStep
<1>6. CASE \E m \in Modes : Remap(m)
    BY <1>6, RemapStep
<1>7. CASE \E r \in Rows : Register(r)
    <2>1. PICK r \in Rows : Register(r)
        BY <1>7
    <2>2. r.cpu \in Cpus /\ index[r.cpu] \in Seq(Rows)
        BY DispatchAssumption DEF DispatchInv, Shapes
    <2>3. Append(index[r.cpu], r) \in Seq(Rows)
        BY <2>2
    <2> QED BY <2>1, <2>2, <2>3, IndexStep DEF Register
<1>8. CASE \E r \in Rows : Unregister(r)
    <2>1. PICK r \in Rows : Unregister(r)
        BY <1>8
    <2>2. r.cpu \in Cpus /\ index[r.cpu] \in Seq(Rows)
        BY DispatchAssumption DEF DispatchInv, Shapes
    <2>3. PICK i \in DOMAIN index[r.cpu] : index' = [index EXCEPT ![r.cpu] = RemoveAt(@, i)]
        BY <2>1 DEF Unregister
    <2>4. RemoveAt(index[r.cpu], i) \in Seq(Rows)
        <3>1. PICK s \in Seq(Rows) : s = index[r.cpu]
            BY <2>2
        <3>2. i \in 1..Len(s) /\ Len(s) \in Nat
            BY <3>1
        <3>3. SubSeq(s, 1, i - 1) \in Seq(Rows) /\ SubSeq(s, i + 1, Len(s)) \in Seq(Rows)
            BY <3>2, SubSeqProperties
        <3> QED BY <3>1, <3>3 DEF RemoveAt
    <2> QED BY <2>1, <2>2, <2>3, <2>4, IndexStep DEF Unregister
<1>9. CASE RuntimeInit
    BY <1>9, InvalidatedStep DEF RuntimeInit
<1>10. CASE \E i \in Images : LoadState(i)
    <2>1. PICK i \in Images : LoadState(i)
        BY <1>10
    <2>2. i.gen \in [Physical -> Nat] /\ DOMAIN i.byte = Physical
        BY DispatchAssumption
    <2>3. UNCHANGED <<index, epoch, links>> /\ Shapes
        BY <2>1 DEF LoadState, banks, DispatchInv
    <2> QED BY <2>1, <2>2, <2>3, InvalidatedStep DEF LoadState, Shapes
<1>11. CASE UNCHANGED dispatchVars
    <2>1. UNCHANGED <<byte, gen, index, epoch, slots, linkEpoch, links, entered>>
        BY <1>11 DEF dispatchVars, memory, banks, linking
    <2>2. Shapes' /\ EntryProved'
        BY <2>1 DEF DispatchInv, Shapes, EntryProved
    <2>3. SlotsInv' /\ LinksInv'
        BY <2>1, SameMemory, LinksKept DEF DispatchInv, SlotsInv
    <2> QED BY <2>2, <2>3 DEF DispatchInv
<1> QED BY <1>1, <1>2, <1>3, <1>4, <1>5, <1>6, <1>7, <1>8, <1>9, <1>10, <1>11 DEF DispatchNext

(* Whichever cache answered, the body that is entered belongs to a bank      *)
(* registered now and its bytes are the ones in memory, unless a page was    *)
(* remapped after the proof; and no live body is missed                      *)
(* (lookup_static_cached_impl, link_slot_admit, runtime_inline_leaf_admit).  *)
THEOREM EntryAlwaysProved == DispatchSpec => []EntryProved
<1>1. DispatchInit => DispatchInv /\ EntryProved
    BY InitDispatchInv
<1>2. (DispatchInv /\ EntryProved) /\ [DispatchNext]_dispatchVars
        => (DispatchInv /\ EntryProved)'
    BY NextDispatchInv
<1> QED BY <1>1, <1>2, PTL DEF DispatchSpec

-----------------------------------------------------------------------------
(***************************************************************************)
(* VRAM, for every sequence of remaps, stores, captures, saves and loads.  *)
(***************************************************************************)

(* A bank and a control it may hold.                                       *)
LEMMA SanitizedIsControl ==
  ASSUME NEW b \in Banks, NEW c \in Controls
  PROVE  Sanitized(b, c) \in Controls
PROOF
<1>1. c.on \in BOOLEAN /\ c.mst \in 0..7 /\ c.ofs \in 0..3
  BY DEF Controls
<1>2. c.mst % 4 \in 0..7 /\ c.ofs % 4 \in 0..3
  BY <1>1
<1> QED BY <1>1, <1>2 DEF Sanitized, Controls

(* The slots a control selects exist, and they are texture memory or       *)
(* memory the CPUs address, never both.                                    *)
LEMMA SelectsExist ==
  ASSUME NEW b \in Banks, NEW c \in Controls
  PROVE  /\ Selects(b, c) \subseteq Slots
         /\ \/ \A s \in Selects(b, c) : s[1] \in Copies
            \/ \A s \in Selects(b, c) : s[1] \notin Copies
PROOF
<1>1. /\ c.on \in BOOLEAN /\ c.mst \in {0, 1, 2, 3, 4, 5, 6, 7} /\ c.ofs \in {0, 1, 2, 3}
  BY DEF Controls
<1>2. b \in {0, 1, 2, 3, 4, 5, 6, 7, 8}
  BY DEF Banks
<1>3. CASE ~c.on
  BY <1>3 DEF Selects
<1>4. CASE c.on /\ c.mst = 0
  BY <1>4 DEF Selects, Slots, Copies
<1>5. CASE c.on /\ c.mst # 0 /\ b <= 3
  BY <1>1, <1>2, <1>5 DEF Selects, Slots, Copies, Run
<1>6. CASE c.on /\ c.mst # 0 /\ b = 4
  BY <1>1, <1>2, <1>6 DEF Selects, Slots, Copies, Run
<1>7. CASE c.on /\ c.mst # 0 /\ b \in {5, 6}
  BY <1>1, <1>2, <1>7 DEF Selects, Slots, Copies, Run
<1>8. CASE c.on /\ c.mst # 0 /\ b = 7
  BY <1>1, <1>2, <1>8 DEF Selects, Slots, Copies, Run
<1>9. CASE c.on /\ c.mst # 0 /\ b = 8
  BY <1>1, <1>2, <1>9 DEF Selects, Slots, Copies, Run
<1> QED BY <1>1, <1>2, <1>3, <1>4, <1>5, <1>6, <1>7, <1>8, <1>9

-----------------------------------------------------------------------------
VramShape ==
  /\ cnt \in [Banks -> Controls]
  /\ mask \in [Slots -> SUBSET Banks]
  /\ texGen \in Nat \ {0}
  /\ data \in [Banks -> {0, 1}]
  /\ flat = [v \in Copies |-> [gen |-> flat[v].gen, bytes |-> flat[v].bytes]]
  /\ \A s \in saved : /\ s.cnt \in [Banks -> Controls] /\ s.data \in [Banks -> {0, 1}]
                      /\ s.texGen \in Nat \ {0}

MasksFollow == \A b \in Banks, s \in Slots : b \in mask[s] <=> s \in Selects(b, cnt[b])

PointersFollow == pointer = RefreshedViews(mask)

(* A copy was made at a generation already reached, and is the texture     *)
(* memory of its own generation.                                           *)
CopiesFollow ==
  \A v \in Copies : /\ flat[v].gen \in Nat /\ flat[v].gen <= texGen
                    /\ flat[v].gen = texGen => flat[v].bytes = SlotSpace(v, mask, data)

VramInv == VramShape /\ MasksFollow /\ PointersFollow /\ CopiesFollow

LEMMA VramInvGives == VramInv => VramCoherent
PROOF
<1> SUFFICES ASSUME VramInv PROVE VramCoherent
  OBVIOUS
<1> USE DEF VramInv
<1>1. MasksAreTheControls
  <2>1. \A b \in Banks : Selects(b, cnt[b]) \subseteq Slots
    BY SelectsExist DEF VramShape
  <2> QED BY <2>1 DEF MasksAreTheControls, MasksFollow
<1>2. PointersReadTheMap
  <2>1. SUFFICES ASSUME NEW s \in Drawn, NEW p \in pointer[s]
                 PROVE  mask[s] = {p.bank} /\ p.at = s[2] % Chunks(p.bank)
    BY DEF PointersReadTheMap
  <2>2. s \in Slots /\ p \in Chunk(mask, s)
    BY <2>1 DEF PointersFollow, RefreshedViews, Drawn
  <2>3. /\ Cardinality(mask[s]) = 1
        /\ p = [bank |-> Only(mask[s]), at |-> s[2] % Chunks(Only(mask[s]))]
    BY <2>2 DEF Chunk
  <2>4. IsFiniteSet(mask[s])
    <3>1. 0 \in Int /\ 8 \in Int
      OBVIOUS
    <3>2. IsFiniteSet(0..8)
      BY ONLY <3>1, FS_Interval
    <3>3. IsFiniteSet(Banks)
      BY <3>2 DEF Banks
    <3> QED BY <2>2, <3>3, FS_Subset DEF VramShape
  <2>5. PICK x : mask[s] = {x}
    BY <2>3, <2>4, FS_Singleton
  <2>6. Only(mask[s]) = x
    BY <2>5 DEF Only
  <2> QED BY <2>3, <2>5, <2>6
<1>3. FlatCopiesCurrent
  BY DEF FlatCopiesCurrent, CopiesFollow
<1> QED BY <1>1, <1>2, <1>3 DEF VramCoherent

(* Memory behind texture slots is what a copy shows: other memory may      *)
(* change under it.                                                        *)
LEMMA SameTextures ==
  ASSUME NEW v \in Copies, NEW mk \in [Slots -> SUBSET Banks], NEW one, NEW other,
         \A s \in Slots : s[1] = v => \A b \in mk[s] : one[b] = other[b]
  PROVE  SlotSpace(v, mk, one) = SlotSpace(v, mk, other)
PROOF
<1>1. ASSUME NEW s \in Slots, s[1] = v
      PROVE  Read(mk, one, s) = Read(mk, other, s)
  BY <1>1 DEF Read
<1>2. ASSUME NEW s \in Slots, s[1] = v, mk[s] # {}
      PROVE  one[Only(mk[s])] = other[Only(mk[s])]
  <2>1. Only(mk[s]) \in mk[s]
    BY <1>2 DEF Only
  <2> QED BY <1>2, <2>1
<1> DEFINE in(bytes, s) == IF mk[s] = {} THEN 0
                           ELSE IF Chunk(mk, s) # {} THEN bytes[Only(mk[s])]
                           ELSE Read(mk, bytes, s)
<1>3. \A s \in {t \in Slots : t[1] = v} : in(one, s) = in(other, s)
  BY <1>1, <1>2
<1>4. /\ SlotSpace(v, mk, one) = [s \in {t \in Slots : t[1] = v} |-> in(one, s)]
      /\ SlotSpace(v, mk, other) = [s \in {t \in Slots : t[1] = v} |-> in(other, s)]
  BY DEF SlotSpace
<1> HIDE DEF in
<1> QED BY <1>3, <1>4

LEMMA MapStep ==
  ASSUME VramInv, NEW b \in Banks, NEW c \in Controls, MapBank(b, c) PROVE VramInv'
PROOF
<1> USE DEF VramInv
<1> DEFINE next == Sanitized(b, c)
           gone == Removed(mask, b, cnt[b])
           mk == Added(gone, b, next)
<1>1. next \in Controls
  BY SanitizedIsControl
<1>2. /\ cnt' = [cnt EXCEPT ![b] = next] /\ mask' = mk /\ texGen' = texGen + 1
      /\ pointer' = RefreshedViews(mk) /\ UNCHANGED <<data, flat, saved>>
  BY DEF MapBank, Bumped
<1>3. \A s \in Slots :
        mk[s] = IF s \in Selects(b, next) THEN gone[s] \cup {b} ELSE gone[s]
  BY DEF Added
<1>4. \A s \in Slots :
        gone[s] = IF s \in Selects(b, cnt[b]) THEN mask[s] \ {b} ELSE mask[s]
  BY DEF Removed
<1>5. mk \in [Slots -> SUBSET Banks]
  <2>1. \A s \in Slots : mk[s] \in SUBSET Banks
    <3> HIDE DEF mk, gone, next
    <3>1. \A s \in Slots : mask[s] \subseteq Banks
      BY DEF VramShape
    <3>2. \A s \in Slots : gone[s] \subseteq Banks
      BY <1>4, <3>1
    <3> QED BY <1>3, <3>2
  <2>2. mk = [s \in Slots |-> mk[s]]
    BY DEF Added
  <2> QED BY <2>1, <2>2
<1> HIDE DEF next, mk, gone
<1>6. VramShape'
  BY <1>1, <1>2, <1>5 DEF VramShape
<1>7. MasksFollow'
  <2>1. ASSUME NEW a \in Banks, NEW s \in Slots
        PROVE  a \in mk[s] <=> s \in Selects(a, cnt'[a])
    <3>1. CASE a = b
      <4>1. cnt'[a] = next
        BY <1>2, <3>1 DEF VramShape
      <4>2. b \in mask[s] <=> s \in Selects(b, cnt[b])
        BY DEF MasksFollow
      <4> QED BY <1>3, <1>4, <3>1, <4>1, <4>2
    <3>2. CASE a # b
      <4>1. cnt'[a] = cnt[a]
        BY <1>2, <3>2 DEF VramShape
      <4>2. a \in mk[s] <=> a \in gone[s]
        BY <1>3, <3>2
      <4>3. a \in gone[s] <=> a \in mask[s]
        BY <1>4, <3>2
      <4> QED BY <4>1, <4>2, <4>3 DEF MasksFollow
    <3> QED BY <3>1, <3>2
  <2> QED BY <1>2, <2>1 DEF MasksFollow
<1>8. PointersFollow'
  BY <1>2 DEF PointersFollow
<1>9. CopiesFollow'
  BY <1>2 DEF CopiesFollow, VramShape
<1> QED BY <1>6, <1>7, <1>8, <1>9

(* A store by a CPU reaches banks behind a slot it can address, and no     *)
(* such bank is behind a texture slot.                                     *)
LEMMA VideoWriteStep ==
  ASSUME VramInv, NEW cpu \in {7, 9}, NEW slot \in Slots, NEW x \in {0, 1},
         VideoWrite(cpu, slot, x)
  PROVE  VramInv'
PROOF
<1> USE DEF VramInv
<1>1. /\ slot[1] \notin Copies
      /\ data' = [b \in Banks |-> IF b \in mask[slot] THEN x ELSE data[b]]
      /\ UNCHANGED <<cnt, mask, pointer, texGen, flat, saved>>
  BY DEF VideoWrite, Addressed, Copies, maps
<1>2. VramShape'
  BY <1>1 DEF VramShape
<1>3. MasksFollow' /\ PointersFollow'
  BY <1>1 DEF MasksFollow, PointersFollow
<1>4. ASSUME NEW v \in Copies PROVE SlotSpace(v, mask, data) = SlotSpace(v, mask, data')
  <2>1. ASSUME NEW s \in Slots, s[1] = v, NEW b \in mask[s]
        PROVE  data[b] = data'[b]
    <3>1. b \in Banks /\ cnt[b] \in Controls
      BY <2>1 DEF VramShape
    <3>2. s \in Selects(b, cnt[b])
      BY <2>1, <3>1 DEF MasksFollow
    <3>3. slot \notin Selects(b, cnt[b])
      BY <1>1, <2>1, <3>1, <3>2, SelectsExist
    <3>4. b \notin mask[slot]
      BY <3>1, <3>3 DEF MasksFollow
    <3> QED BY <1>1, <3>1, <3>4
  <2>2. mask \in [Slots -> SUBSET Banks]
    BY DEF VramShape
  <2> QED BY <2>1, <2>2, SameTextures
<1>5. CopiesFollow'
  BY <1>1, <1>4 DEF CopiesFollow
<1> QED BY <1>2, <1>3, <1>5

LEMMA CaptureStep ==
  ASSUME VramInv, NEW b \in Banks, StagedCapture(b) PROVE VramInv'
PROOF
<1> USE DEF VramInv
<1>1. /\ data' = [data EXCEPT ![b] = 1 - @] /\ texGen' = texGen + 1
      /\ UNCHANGED <<cnt, mask, pointer, flat, saved>>
  BY DEF StagedCapture, maps
<1>2. data' \in [Banks -> {0, 1}]
  BY <1>1 DEF VramShape
<1>3. VramShape'
  BY <1>1, <1>2 DEF VramShape
<1>4. MasksFollow' /\ PointersFollow'
  BY <1>1 DEF MasksFollow, PointersFollow
<1>5. CopiesFollow'
  BY <1>1 DEF CopiesFollow, VramShape
<1> QED BY <1>3, <1>4, <1>5

LEMMA FlatStep ==
  ASSUME VramInv, NEW v \in Copies, MakeFlat(v) PROVE VramInv'
PROOF
<1> USE DEF VramInv
<1> DEFINE bytes == SlotSpace(v, mask, data)
<1>1. /\ flat' = [flat EXCEPT ![v] = [gen |-> texGen, bytes |-> bytes]]
      /\ UNCHANGED <<cnt, mask, pointer, data, texGen, saved>>
  BY DEF MakeFlat, maps
<1> HIDE DEF bytes
<1>2. /\ flat'[v].gen = texGen /\ flat'[v].bytes = bytes
      /\ \A w \in Copies \ {v} : flat'[w] = flat[w]
      /\ flat' = [w \in Copies |-> [gen |-> flat'[w].gen, bytes |-> flat'[w].bytes]]
  BY <1>1 DEF VramShape
<1>3. VramShape'
  BY <1>1, <1>2 DEF VramShape
<1>4. MasksFollow' /\ PointersFollow'
  BY <1>1 DEF MasksFollow, PointersFollow
<1>5. ASSUME NEW w \in Copies
      PROVE  /\ flat'[w].gen \in Nat /\ flat'[w].gen <= texGen
             /\ flat'[w].gen = texGen => flat'[w].bytes = SlotSpace(w, mask, data)
  <2>1. CASE w = v
    BY <1>2, <2>1 DEF VramShape, bytes
  <2>2. CASE w # v
    BY <1>2, <2>2 DEF CopiesFollow
  <2> QED BY <2>1, <2>2
<1>6. CopiesFollow'
  BY <1>1, <1>5 DEF CopiesFollow
<1> QED BY <1>3, <1>4, <1>6

(* Copies that were forgotten are never of a generation that is reached.   *)
LEMMA Forgotten ==
  ASSUME VramShape, texGen' \in Nat \ {0},
         flat' = [v \in Copies |-> [flat[v] EXCEPT !.gen = 0]]
  PROVE  /\ CopiesFollow'
         /\ flat' = [v \in Copies |-> [gen |-> flat'[v].gen, bytes |-> flat'[v].bytes]]
PROOF
<1>1. \A v \in Copies : flat[v] = [gen |-> flat[v].gen, bytes |-> flat[v].bytes]
  BY DEF VramShape
<1>2. ASSUME NEW v \in Copies PROVE flat'[v] = [gen |-> 0, bytes |-> flat[v].bytes]
  <2> DEFINE g == flat[v].gen
             y == flat[v].bytes
  <2>1. flat[v] = [gen |-> g, bytes |-> y] /\ flat'[v] = [flat[v] EXCEPT !.gen = 0]
    BY <1>1
  <2> HIDE DEF g, y
  <2>2. [[gen |-> g, bytes |-> y] EXCEPT !.gen = 0] = [gen |-> 0, bytes |-> y]
    OBVIOUS
  <2> QED BY <2>1, <2>2 DEF y
<1>3. \A v \in Copies : flat'[v].gen = 0 /\ flat'[v].bytes = flat[v].bytes
  BY <1>2
<1>4. flat' = [v \in Copies |-> [gen |-> flat'[v].gen, bytes |-> flat'[v].bytes]]
  BY <1>2, <1>3
<1> QED BY <1>3, <1>4 DEF CopiesFollow

LEMMA SaveStep == VramInv /\ VramSave => VramInv'
PROOF
<1> SUFFICES ASSUME VramInv, VramSave PROVE VramInv'
  OBVIOUS
<1>1. /\ saved' = {[cnt |-> cnt, data |-> data, texGen |-> texGen]}
      /\ UNCHANGED <<cnt, mask, pointer, data, texGen, flat>>
  BY DEF VramSave, maps
<1>2. VramShape'
  BY <1>1 DEF VramInv, VramShape
<1> QED BY <1>1, <1>2 DEF VramInv, MasksFollow, PointersFollow, CopiesFollow

LEMMA LoadStep == VramInv /\ VramLoad => VramInv'
PROOF
<1> SUFFICES ASSUME VramInv, VramLoad PROVE VramInv'
  OBVIOUS
<1> DEFINE on(s) == [b \in Banks |-> Selects(b, s.cnt[b])]
           mk(s) == [t \in Slots |-> {b \in Banks : t \in on(s)[b]}]
<1>1. PICK s \in saved :
        /\ s.texGen # 0
        /\ cnt' = s.cnt /\ mask' = mk(s) /\ pointer' = RefreshedViews(mk(s))
        /\ data' = s.data /\ texGen' = s.texGen
        /\ flat' = [v \in Copies |-> [flat[v] EXCEPT !.gen = 0]]
        /\ UNCHANGED saved
  BY DEF VramLoad
<1>2. /\ cnt' \in [Banks -> Controls] /\ data' \in [Banks -> {0, 1}]
      /\ texGen' \in Nat \ {0}
  BY <1>1 DEF VramInv, VramShape
<1>3. mask' \in [Slots -> SUBSET Banks]
      /\ \A t \in Slots : mask'[t] = {b \in Banks : t \in Selects(b, cnt'[b])}
  BY <1>1
<1>4. CopiesFollow'
      /\ flat' = [v \in Copies |-> [gen |-> flat'[v].gen, bytes |-> flat'[v].bytes]]
  BY <1>1, <1>2, Forgotten DEF VramInv
<1>5. VramShape'
  BY <1>1, <1>2, <1>3, <1>4 DEF VramInv, VramShape
<1>6. MasksFollow' /\ PointersFollow'
  BY <1>1, <1>3 DEF MasksFollow, PointersFollow
<1> QED BY <1>4, <1>5, <1>6 DEF VramInv

(* With every bank off no slot has one.                                    *)
LEMMA AllOff ==
  /\ [b \in Banks |-> Off] \in [Banks -> Controls]
  /\ NoMap \in [Slots -> SUBSET Banks] /\ Zero \in [Banks -> {0, 1}]
  /\ \A b \in Banks, s \in Slots :
       b \in NoMap[s] <=> s \in Selects(b, [a \in Banks |-> Off][b])
PROOF
<1>1. Off \in Controls /\ ~Off.on
  BY DEF Off, Controls
<1>2. \A b \in Banks : Selects(b, Off) = {}
  BY <1>1 DEF Selects
<1> QED BY <1>1, <1>2 DEF NoMap, Zero

LEMMA ResetStep == VramInv /\ VramReset => VramInv'
PROOF
<1> SUFFICES ASSUME VramInv, VramReset PROVE VramInv'
  OBVIOUS
<1>1. /\ cnt' = [b \in Banks |-> Off] /\ mask' = NoMap /\ data' = Zero
      /\ pointer' = RefreshedViews(NoMap) /\ texGen' = texGen + 1
      /\ flat' = [v \in Copies |-> [flat[v] EXCEPT !.gen = 0]]
      /\ UNCHANGED saved
  BY DEF VramReset
<1>2. texGen' \in Nat \ {0}
  BY <1>1 DEF VramInv, VramShape
<1>3. CopiesFollow'
      /\ flat' = [v \in Copies |-> [gen |-> flat'[v].gen, bytes |-> flat'[v].bytes]]
  BY <1>1, <1>2, Forgotten DEF VramInv
<1>4. VramShape'
  BY <1>1, <1>2, <1>3, AllOff DEF VramInv, VramShape
<1>5. MasksFollow' /\ PointersFollow'
  BY <1>1, AllOff DEF MasksFollow, PointersFollow
<1> QED BY <1>3, <1>4, <1>5 DEF VramInv

LEMMA VramInvInit == VramInit => VramInv
PROOF
<1> SUFFICES ASSUME VramInit PROVE VramInv
  OBVIOUS
<1>1. /\ cnt = [b \in Banks |-> Off] /\ mask = NoMap /\ data = Zero
      /\ pointer = RefreshedViews(mask) /\ texGen = 1 /\ saved = {} /\ flat = Stale
  BY DEF VramInit
<1>2. \A v \in Copies : flat[v].gen = 0 /\ flat[v].bytes = SlotSpace(v, NoMap, Zero)
  BY <1>1 DEF Stale
<1>3. flat = [v \in Copies |-> [gen |-> flat[v].gen, bytes |-> flat[v].bytes]]
  BY <1>1, <1>2 DEF Stale
<1>4. VramShape
  BY <1>1, <1>3, AllOff DEF VramShape
<1>5. MasksFollow /\ PointersFollow
  BY <1>1, AllOff DEF MasksFollow, PointersFollow
<1>6. CopiesFollow
  BY <1>1, <1>2 DEF CopiesFollow
<1> QED BY <1>4, <1>5, <1>6 DEF VramInv

LEMMA VramInvNext == VramInv /\ [VramNext]_vramVars => VramInv'
PROOF
<1> SUFFICES ASSUME VramInv, [VramNext]_vramVars PROVE VramInv'
  OBVIOUS
<1>1. ASSUME NEW w \in Mappings, MapBank(w[1], w[2]) PROVE VramInv'
  BY <1>1, MapStep, VramAssumption
<1>2. CASE UNCHANGED vramVars
  BY <1>2 DEF vramVars, maps, VramInv, VramShape, MasksFollow, PointersFollow, CopiesFollow
<1> QED BY <1>1, <1>2, VideoWriteStep, CaptureStep, FlatStep, SaveStep, LoadStep, ResetStep
        DEF VramNext

(* While another component runs, VRAM has no state.                         *)
PartVramInv == part = "vram" => VramInv

(* However the banks are remapped, stored to, captured into, saved and     *)
(* loaded, the slots' masks are what the controls select, a pointer reads  *)
(* the byte the guest would read, and a flat copy of the current           *)
(* generation is the texture memory: no store needs to move the            *)
(* generation, because no bank behind a texture slot has an address        *)
(* ("every content change is therefore a remap").                          *)
THEOREM VramNeverStale == MachineSpec => []VramExact
PROOF
<1>1. MachineInit => PartVramInv
  BY VramInvInit DEF MachineInit, PartVramInv
<1>2. PartVramInv /\ [MachineNext]_machineVars => PartVramInv'
  <2> SUFFICES ASSUME PartVramInv, [MachineNext]_machineVars, part' = "vram"
               PROVE  VramInv'
    BY DEF PartVramInv
  <2>1. CASE part = "vram" /\ VramNext /\ UNCHANGED part
    BY <2>1, VramInvNext DEF PartVramInv
  <2>2. CASE UNCHANGED <<part, vramVars>>
    BY <2>2, VramInvNext DEF PartVramInv
  <2> QED BY <2>1, <2>2 DEF MachineNext, machineVars
<1>3. PartVramInv => VramExact
  BY VramInvGives DEF PartVramInv, VramExact
<1> QED BY <1>1, <1>2, <1>3, PTL DEF MachineSpec

-----------------------------------------------------------------------------
(***************************************************************************)
(* The memory map, for every setting of CP15 and WRAMCNT, and every        *)
(* address.                                                                *)
(***************************************************************************)

(* What the registers hold, and that no generation is zero, which is what *)
(* a publication that was dropped has.                                     *)
MapShape ==
  /\ dtcm.base \in Nat /\ dtcm.size \in Nat /\ itcm \in Nat
  /\ DOMAIN region = Regions /\ \A i \in Regions : RegionValue(region[i])
  /\ timingGen \in Nat \ {0}

(* Windows, mirrors and bitmaps are those of the registers now.            *)
DerivedCurrent ==
  /\ window = FastWindows(control, dtcm, itcm, wramcnt)
  /\ mirror = TimingMirror(control, dtcm, itcm)
  /\ inputs = {ClassInputs(control, region, cacheable)}

Classes == {"cached", "main", "other"}

(* The class latched is the one at the last control transfer.              *)
LatchedClass ==
  /\ jumped = latch
  /\ latch = {} \/ \E c \in Classes : latch = {c}

(* The page remembered in this generation has the class it had then.       *)
PageRemembered ==
  \A c \in pageClass : /\ c.gen \in Nat /\ c.gen <= timingGen
                       /\ c.gen = timingGen => c.class = ReferenceClass(c.page)

(* What is published for this generation is the latched class.             *)
PublicationValid ==
  /\ published.gen \in Nat /\ published.gen <= timingGen
  /\ published.gen = timingGen =>
       /\ latch = {published.class}
       /\ published.itcmLimit = IF "itcm" \in control THEN itcm ELSE 0

MapInv == MapShape /\ DerivedCurrent /\ LatchedClass /\ PageRemembered /\ PublicationValid

(* Where a region begins. *)
LEMMA FirstIsInt == ASSUME NEW r, r.base \in Nat, r.size \in Nat \ {0} PROVE First(r) \in Int
PROOF BY DEF First

(* The page of an address. *)
LEMMA PageFacts == ASSUME NEW u \in Nat
  PROVE /\ Page(u) \in Nat /\ Page(u) % 2 = 0 /\ Page(u) <= u /\ u <= Page(u) + 1
        /\ Page(Page(u)) = Page(u)
        /\ Page(u) \in MainRam <=> u \in MainRam
PROOF
<1>1. PICK p \in Nat : p = u - (u % 2) /\ p % 2 = 0 /\ p <= u /\ u <= p + 1
  OBVIOUS
<1>2. Page(u) = p
  BY <1>1 DEF Page
<1>3. Page(p) = p
  BY <1>1 DEF Page
<1>4. p \in MainRam <=> u \in MainRam
  <2>1. PICK k \in Nat : p = 2 * k
    BY <1>1
  <2>2. u = 2 * k \/ u = 2 * k + 1
    BY <1>1, <2>1
  <2>3. u >= 16384 /\ u <= 24575 <=> k >= 8192 /\ k <= 12287
    <3>1. CASE u = 2 * k
      BY <2>1, <3>1
    <3>2. CASE u = 2 * k + 1
      BY <2>1, <3>2
    <3> QED BY <2>2, <3>1, <3>2
  <2>4. p \in MainRam <=> k >= 8192 /\ k <= 12287
    BY <2>1 DEF MainRam
  <2>5. u \in MainRam <=> u >= 16384 /\ u <= 24575
    BY DEF MainRam
  <2> QED BY <2>3, <2>4, <2>5
<1>5. Page(Page(u)) = Page(u)
  BY <1>2, <1>3
<1>6. Page(u) \in MainRam <=> u \in MainRam
  BY <1>2, <1>4
<1>7. Page(u) \in Nat /\ Page(u) % 2 = 0 /\ Page(u) <= u /\ u <= Page(u) + 1
  BY <1>1, <1>2
<1> QED BY <1>5, <1>6, <1>7

(* A region of whole pages holds a page or none of it, which a region of   *)
(* half a page does not.                                                   *)
LEMMA SameHits ==
  ASSUME NEW r, r.base \in Nat, r.size \in Nat \ {0}, PageSized(r), NEW u \in Nat
  PROVE  Page(u) \in Span(r) <=> u \in Span(r)
PROOF
<1> DEFINE f == First(r)
           z == r.size
           p == Page(u)
<1>1. f \in Int /\ z \in Nat /\ f % 2 = 0 /\ (f + z) % 2 = 0
  BY FirstIsInt DEF PageSized
<1>2. p \in Nat /\ p % 2 = 0 /\ p <= u /\ u <= p + 1
  BY PageFacts
<1>3. (p \in f..(f + z - 1)) <=> (u \in f..(f + z - 1))
  <2> HIDE DEF f, z, p
  <2> QED BY <1>1, <1>2
<1> QED BY <1>3 DEF Span

(* Where the bitmaps are used they give what the walk gives.               *)
LEMMA BitmapIsWalk ==
  ASSUME MapInv, NEW enable \in {"dcache", "icache"}, NEW bits \in {"d", "i"}, NEW u \in Nat
  PROVE  Cacheable(enable, bits, u) <=> Walk(enable, cacheable[bits], u)
PROOF
<1>1. CASE ~ClassReady
  BY <1>1 DEF Cacheable
<1>2. CASE ClassReady
  <2> DEFINE in == ClassInputs(control, region, cacheable)
             walked == {i \in Regions : MpuContains(i, u)}
             filled == {i \in Regions : \E r \in region[i] : Page(u) \in Span(r)}
  <2>1. inputs = {in}
    BY DEF MapInv, DerivedCurrent
  <2>2. in.control = control \cap {"mpu", "dcache", "icache"} /\ in.region = region
        /\ in.cfg = cacheable
    BY DEF ClassInputs
  <2> HIDE DEF in
  <2>3. PageBit(enable, bits, u) <=>
          /\ enable \in in.control
          /\ "mpu" \notin in.control \/ (filled # {} /\ Highest(filled) \in in.cfg[bits])
    BY <2>1, <2>2 DEF PageBit
  <2>4. CASE "mpu" \notin control
    BY <1>2, <2>2, <2>3, <2>4 DEF Cacheable, Walk
  <2>5. CASE "mpu" \in control
    <3>1. \A i \in Regions : \A r \in region[i] : PageSized(r)
      BY <1>2, <2>1, <2>2, <2>5 DEF ClassReady
    <3>2. \A i \in Regions : \A r \in region[i] : r.base \in Nat /\ r.size \in Nat \ {0}
      BY DEF MapInv, MapShape, RegionValue
    <3>3. filled = walked
      BY <3>1, <3>2, SameHits DEF MpuContains
    <3>4. Walk(enable, cacheable[bits], u) <=>
            enable \in control /\ walked # {} /\ Highest(walked) \in cacheable[bits]
      BY <2>5 DEF Walk
    <3> QED BY <1>2, <2>2, <2>3, <2>5, <3>3, <3>4 DEF Cacheable
  <2> QED BY <2>4, <2>5
<1> QED BY <1>1, <1>2

(* So does the class of a page,                                            *)
LEMMA ClassIsReference ==
  ASSUME MapInv, NEW u \in Nat
  PROVE  /\ LiveClass(u) = ReferenceClass(u)
         /\ ReferenceClass(u) \in Classes
         /\ ReferenceClass(Page(u)) = ReferenceClass(u)
PROOF
<1>1. /\ Page(u) \in Nat /\ Page(Page(u)) = Page(u)
      /\ Page(u) \in MainRam <=> u \in MainRam
  BY PageFacts
<1>2. Cacheable("icache", "i", Page(u)) <=> Walk("icache", cacheable.i, Page(u))
  BY <1>1, BitmapIsWalk
<1>3. LiveClass(u) = ReferenceClass(u)
  BY <1>2 DEF LiveClass, ReferenceClass
<1>4. ReferenceClass(u) \in Classes
  BY DEF ReferenceClass, Classes
<1>5. ReferenceClass(Page(u)) = ReferenceClass(u)
  BY <1>1 DEF ReferenceClass
<1> QED BY <1>3, <1>4, <1>5

(* and the one that is remembered.                                         *)
LEMMA TimingIsReference ==
  ASSUME MapInv, NEW u \in Nat
  PROVE  CodeTiming(u) = ReferenceClass(u)
PROOF
<1>1. CASE Remembered(u) = {}
  BY <1>1, ClassIsReference DEF CodeTiming
<1>2. CASE Remembered(u) # {}
  <2>1. \A c \in Remembered(u) : c.class = ReferenceClass(u)
    BY ClassIsReference DEF Remembered, MapInv, PageRemembered
  <2> QED BY <1>2, <2>1 DEF CodeTiming
<1> QED BY <1>1, <1>2

(* The inline access at any address,                                       *)
LEMMA WindowFollows ==
  ASSUME MapInv, NEW u \in Nat
  PROVE  WindowExact(u)
PROOF
<1>1. /\ window.itcmLimit = IF "itcm" \in control THEN Smaller(itcm, 16384) ELSE 0
      /\ window.dtcmBase = dtcm.base
      /\ window.dtcmLimit = IF "dtcm" \in control THEN Smaller(dtcm.size, 8) ELSE 0
      /\ window.wram = wramcnt
  BY DEF MapInv, DerivedCurrent, FastWindows
<1>2. dtcm.base \in Nat /\ dtcm.size \in Nat /\ itcm \in Nat
  BY DEF MapInv, MapShape
<1>3. u < window.itcmLimit <=> WithinItcm(u) /\ u < 16384
  BY <1>1, <1>2 DEF WithinItcm, Smaller
<1>4. u >= window.dtcmBase /\ u - window.dtcmBase < window.dtcmLimit
        <=> WithinDtcm(u) /\ u - dtcm.base < 8
  BY <1>1, <1>2 DEF WithinDtcm, Smaller
<1>5. u >= window.itcmLimit <=> ~(u < window.itcmLimit)
  BY <1>1, <1>2 DEF Smaller
<1>6. ASSUME NEW cpu \in {"arm9", "arm7"}
      PROVE  \/ Classify(cpu, u) = BusResolve(cpu, u)
             \/ Classify(cpu, u) = {} /\ (u \in Arm9Bios \/ (cpu = "arm7" /\ u < 8))
  <2>1. CASE cpu = "arm9" /\ WithinItcm(u) /\ u < 16384
    BY <1>3, <1>5, <2>1 DEF Classify, BusResolve
  <2>2. CASE cpu = "arm9" /\ ~(WithinItcm(u) /\ u < 16384) /\ WithinDtcm(u) /\ u - dtcm.base < 8
    BY <1>1, <1>3, <1>4, <1>5, <2>2 DEF Classify, BusResolve
  <2>3. CASE ~(cpu = "arm9" /\ (\/ WithinItcm(u) /\ u < 16384
                                \/ WithinDtcm(u) /\ u - dtcm.base < 8))
    <3>1. /\ ~(cpu = "arm9" /\ u < window.itcmLimit)
          /\ ~(cpu = "arm9" /\ u >= window.itcmLimit /\ u >= window.dtcmBase
               /\ u - window.dtcmBase < window.dtcmLimit)
      BY <1>3, <1>4, <2>3
    <3>2. Classify(cpu, u) = CASE u \in MainRam -> At("main", u % 2048)
                               [] u \in WramLow -> SharedWram(cpu, wramcnt, u)
                               [] u \in WramHigh -> At("wram7", u % 32)
                               [] OTHER -> {}
      BY <1>1, <3>1 DEF Classify
    <3>3. BusResolve(cpu, u) = CASE u \in MainRam -> At("main", u % 2048)
                              [] u \in WramLow -> SharedWram(cpu, wramcnt, u)
                              [] u \in WramHigh -> At("wram7", u % 32)
                              [] cpu = "arm9" /\ u \in Arm9Bios -> At("bios9", u % 2)
                              [] cpu = "arm7" /\ u < 8 -> At("bios7", u)
                              [] OTHER -> {}
      BY <2>3 DEF BusResolve
    <3>4. CASE u \in MainRam
      BY <3>2, <3>3, <3>4
    <3>5. CASE u \notin MainRam /\ u \in WramLow
      BY <3>2, <3>3, <3>5
    <3>6. CASE u \notin MainRam /\ u \notin WramLow /\ u \in WramHigh
      BY <3>2, <3>3, <3>6
    <3>7. CASE u \notin MainRam /\ u \notin WramLow /\ u \notin WramHigh
      BY <3>2, <3>3, <3>7
    <3> QED BY <3>4, <3>5, <3>6, <3>7
  <2> QED BY <2>1, <2>2, <2>3
<1> QED BY <1>6 DEF WindowExact

(* The regions priced apart do not overlap. *)
LEMMA RegionsApart ==
  ASSUME NEW u \in Nat
  PROVE  /\ u \in Vram => u \notin MainRam /\ u \notin Wifi /\ u \notin GbaSlot
         /\ u \in MainRam => u \notin Vram /\ u \notin Wifi /\ u \notin GbaSlot
PROOF
<1>1. u \in MainRam <=> 16384 <= u /\ u <= 24575
  BY DEF MainRam
<1>2. u \in Vram <=> 49152 <= u /\ u <= 57343
  BY DEF Vram
<1>3. u \in Wifi <=> 36864 <= u /\ u <= 36895
  BY DEF Wifi
<1>4. u \in GbaSlot <=> 65536 <= u /\ u <= 90111
  BY DEF GbaSlot
<1> QED BY <1>1, <1>2, <1>3, <1>4

(* its price,                                                              *)
LEMMA DataPriceFollows ==
  ASSUME MapInv, NEW u \in Nat, NEW cpu \in {"arm9", "arm7"}, NEW width \in {2, 4},
         NEW seq \in BOOLEAN
  PROVE  DataInline(cpu, u, width, seq) = DataReference(cpu, u, width, seq)
PROOF
<1>1. CASE cpu = "arm7"
  <2>1. CASE u \in MainRam
    <3>1. u \notin Vram /\ u \notin Wifi /\ u \notin GbaSlot
      BY <2>1, RegionsApart
    <3>2. Bus7(u) = [n |-> 8, s |-> 1, wide |-> FALSE]
      BY <2>1, <3>1 DEF Bus7
    <3> QED BY <1>1, <2>1, <3>1, <3>2 DEF DataInline, DataReference, N32, S32
  <2>2. CASE u \in Vram
    <3>1. u \notin MainRam /\ u \notin Wifi /\ u \notin GbaSlot
      BY <2>2, RegionsApart
    <3>2. Bus7(u) = [n |-> 1, s |-> 1, wide |-> FALSE]
      BY <2>2, <3>1 DEF Bus7
    <3> QED BY <1>1, <2>2, <3>1, <3>2 DEF DataInline, DataReference, N32, S32
  <2>3. CASE u \notin MainRam /\ u \notin Vram
    <3>1. Bus7(u) = [n |-> 1, s |-> 1, wide |-> TRUE]
      BY <2>3 DEF Bus7
    <3> QED BY <1>1, <2>3, <3>1 DEF DataInline, DataReference, N32, S32
  <2> QED BY <2>1, <2>2, <2>3
<1>2. CASE cpu = "arm9"
  <2>1. Cacheable("dcache", "d", u) <=> Walk("dcache", cacheable.d, u)
    BY BitmapIsWalk
  <2>2. /\ mirror.itcm = IF "itcm" \in control THEN itcm ELSE 0
        /\ mirror.base = dtcm.base
        /\ mirror.size = IF "dtcm" \in control THEN dtcm.size ELSE 0
    BY DEF MapInv, DerivedCurrent, TimingMirror
  <2>3. dtcm.base \in Nat /\ dtcm.size \in Nat /\ itcm \in Nat
    BY DEF MapInv, MapShape
  <2>4. (u < mirror.itcm \/ (u >= mirror.base /\ u - mirror.base < mirror.size))
          <=> WithinItcm(u) \/ WithinDtcm(u)
    BY <2>2, <2>3 DEF WithinItcm, WithinDtcm
  <2>5. CASE WithinItcm(u) \/ WithinDtcm(u)
    BY <1>2, <2>4, <2>5 DEF DataInline, DataReference
  <2>6. CASE ~(WithinItcm(u) \/ WithinDtcm(u))
    BY <1>2, <2>1, <2>4, <2>6 DEF DataInline, DataReference
  <2> QED BY <2>5, <2>6
<1> QED BY <1>1, <1>2

(* and the price of a fetch.                                               *)
LEMMA FetchPriceFollows ==
  ASSUME MapInv, NEW u \in Nat, NEW lineStart \in BOOLEAN
  PROVE  FetchInline(u, lineStart) = FetchReference(u, lineStart)
PROOF
<1>1. FetchSlow(u, lineStart) = FetchReference(u, lineStart)
  BY TimingIsReference DEF MapInv, LatchedClass, FetchSlow, FetchReference, NumC
<1>2. CASE published.gen # timingGen
  BY <1>1, <1>2 DEF FetchInline
<1>3. CASE published.gen = timingGen
  <2>1. /\ latch = {published.class} /\ jumped = {published.class}
        /\ published.class \in Classes
    BY <1>3 DEF MapInv, PublicationValid, LatchedClass
  <2>2. u < published.itcmLimit <=> WithinItcm(u)
    BY <1>3 DEF MapInv, MapShape, PublicationValid, WithinItcm
  <2>3. CASE WithinItcm(u)
    BY <1>3, <2>2, <2>3 DEF FetchInline, FetchReference
  <2>4. CASE ~WithinItcm(u)
    <3>1. FetchInline(u, lineStart) = CodeK(lineStart)[published.class]
      BY <1>3, <2>2, <2>4 DEF FetchInline
    <3>2. FetchReference(u, lineStart) = NumC(published.class, lineStart)
      BY <2>1, <2>4 DEF FetchReference
    <3>3. CodeK(lineStart)[published.class] = NumC(published.class, lineStart)
      BY <2>1 DEF CodeK, NumC, Classes
    <3> QED BY <3>1, <3>2, <3>3
  <2> QED BY <2>3, <2>4
<1> QED BY <1>2, <1>3

(* Everything inlined answers as the reference does, at every address. *)
LEMMA MapInvGives ==
  ASSUME MapInv, NEW u \in Nat PROVE WindowExact(u) /\ PriceExact(u)
PROOF
BY WindowFollows, DataPriceFollows, FetchPriceFollows DEF PriceExact

-----------------------------------------------------------------------------
(* The machine as it is switched on. *)
LEMMA MapInvInit == MapInit => MapInv
PROOF
<1> SUFFICES ASSUME MapInit PROVE MapInv
  OBVIOUS
<1>1. MapShape
  BY DEF MapInit, MapShape, NoRegions, RegionValue
<1>2. DerivedCurrent
  BY DEF MapInit, DerivedCurrent
<1>3. LatchedClass /\ PageRemembered /\ PublicationValid
  BY DEF MapInit, LatchedClass, PageRemembered, PublicationValid, Unpublished
<1> QED BY <1>1, <1>2, <1>3 DEF MapInv

(* A write of CP15 ages what was published and remembered. *)
LEMMA WritesAge ==
  ASSUME MapInv, NewGeneration, UNCHANGED fetching
  PROVE  /\ timingGen' \in Nat \ {0}
         /\ LatchedClass' /\ PageRemembered' /\ PublicationValid'
PROOF
<1>1. timingGen \in Nat \ {0} /\ timingGen' = timingGen + 1
  BY DEF MapInv, MapShape, NewGeneration
<1>2. latch' = latch /\ pageClass' = pageClass /\ published' = published /\ jumped' = jumped
  BY DEF fetching
<1>3. LatchedClass'
  BY <1>2 DEF MapInv, LatchedClass
<1>4. PageRemembered'
  BY <1>1, <1>2 DEF MapInv, PageRemembered
<1>5. PublicationValid'
  BY <1>1, <1>2 DEF MapInv, PublicationValid
<1> QED BY <1>1, <1>3, <1>4, <1>5

(* A load and a reset forget what was latched. *)
LEMMA NothingLatched ==
  ASSUME latch' = {}, pageClass' = {}, published' = Unpublished, jumped' = {},
         timingGen' \in Nat \ {0}
  PROVE  LatchedClass' /\ PageRemembered' /\ PublicationValid'
PROOF
BY DEF LatchedClass, PageRemembered, PublicationValid, Unpublished

(* One step per operation. *)
LEMMA MapInvNext == MapInv /\ [MapNext]_mapVars => MapInv'
PROOF
<1> SUFFICES ASSUME MapInv, [MapNext]_mapVars PROVE MapInv'
  OBVIOUS
<1>1. ASSUME NEW c \in ControlValues, WriteControl(c) PROVE MapInv'
  <2>1. timingGen' \in Nat \ {0} /\ LatchedClass' /\ PageRemembered' /\ PublicationValid'
    BY <1>1, WritesAge DEF WriteControl
  <2>2. MapShape'
    BY <1>1, <2>1 DEF WriteControl, MapInv, MapShape
  <2>3. DerivedCurrent'
    BY <1>1 DEF WriteControl, Refresh, ClassSync, DerivedCurrent
  <2> QED BY <2>1, <2>2, <2>3 DEF MapInv
<1>2. ASSUME NEW b \in {"d", "i"}, NEW s \in SUBSET Regions, WriteCacheable(b, s)
      PROVE  MapInv'
  <2>1. timingGen' \in Nat \ {0} /\ LatchedClass' /\ PageRemembered' /\ PublicationValid'
    BY <1>2, WritesAge DEF WriteCacheable
  <2>2. MapShape'
    BY <1>2, <2>1 DEF WriteCacheable, MapInv, MapShape
  <2>3. DerivedCurrent'
    BY <1>2 DEF WriteCacheable, ClassSync, MapInv, DerivedCurrent
  <2> QED BY <2>1, <2>2, <2>3 DEF MapInv
<1>3. ASSUME NEW i \in Regions, NEW r \in RegionValues, WriteRegion(i, r)
      PROVE  MapInv'
  <2>1. timingGen' \in Nat \ {0} /\ LatchedClass' /\ PageRemembered' /\ PublicationValid'
    BY <1>3, WritesAge DEF WriteRegion
  <2>2. MapShape'
    <3>1. RegionValue(r)
      BY MemoryMapAssumption
    <3>2. DOMAIN region' = Regions /\ \A j \in Regions : RegionValue(region'[j])
      BY <1>3, <3>1 DEF WriteRegion, MapInv, MapShape
    <3> QED BY <1>3, <2>1, <3>2 DEF WriteRegion, MapInv, MapShape
  <2>3. DerivedCurrent'
    BY <1>3 DEF WriteRegion, ClassSync, MapInv, DerivedCurrent
  <2> QED BY <2>1, <2>2, <2>3 DEF MapInv
<1>4. ASSUME NEW b \in DtcmBases, NEW n \in TcmSizes, WriteDtcm(b, n)
      PROVE  MapInv'
  <2>1. timingGen' \in Nat \ {0} /\ LatchedClass' /\ PageRemembered' /\ PublicationValid'
    <3>1. NewGeneration /\ UNCHANGED fetching
      BY <1>4 DEF WriteDtcm
    <3> QED BY <3>1, WritesAge
  <2>2. b \in Nat /\ TcmUnits(n) \in Nat
    BY MemoryMapAssumption DEF TcmUnits, Unit4G
  <2>3. MapShape'
    BY <1>4, <2>1, <2>2 DEF WriteDtcm, MapInv, MapShape
  <2>4. DerivedCurrent'
    BY <1>4 DEF WriteDtcm, Refresh, MapInv, DerivedCurrent, ClassInputs
  <2> QED BY <2>1, <2>3, <2>4 DEF MapInv
<1>5. ASSUME NEW n \in TcmSizes, WriteItcm(n) PROVE MapInv'
  <2>1. timingGen' \in Nat \ {0} /\ LatchedClass' /\ PageRemembered' /\ PublicationValid'
    <3>1. NewGeneration /\ UNCHANGED fetching
      BY <1>5 DEF WriteItcm
    <3> QED BY <3>1, WritesAge
  <2>2. TcmUnits(n) \in Nat
    BY MemoryMapAssumption DEF TcmUnits, Unit4G
  <2>3. MapShape'
    BY <1>5, <2>1, <2>2 DEF WriteItcm, MapInv, MapShape
  <2>4. DerivedCurrent'
    BY <1>5 DEF WriteItcm, Refresh, MapInv, DerivedCurrent, ClassInputs
  <2> QED BY <2>1, <2>3, <2>4 DEF MapInv
<1>6. ASSUME NEW m \in WramModes, WriteWramcnt(m) PROVE MapInv'
  <2>1. UNCHANGED <<control, dtcm, itcm, region, cacheable, inputs, timingGen,
                    latch, pageClass, published, jumped>>
    BY <1>6 DEF WriteWramcnt, registers, fetching
  <2>2. MapShape' /\ LatchedClass' /\ PublicationValid'
    BY <2>1 DEF MapInv, MapShape, LatchedClass, PublicationValid
  <2>3. PageRemembered'
    BY <2>1 DEF MapInv, PageRemembered, ReferenceClass, Walk, MpuContains
  <2>4. DerivedCurrent'
    BY <1>6, <2>1 DEF WriteWramcnt, Refresh, MapInv, DerivedCurrent, ClassInputs
  <2> QED BY <2>2, <2>3, <2>4 DEF MapInv
<1>7. ASSUME NEW u \in Targets, Branch(u) \/ Fetch(u) PROVE MapInv'
  <2>1. UNCHANGED <<control, dtcm, itcm, region, cacheable, wramcnt, window,
                    mirror, inputs, timingGen>>
    BY <1>7 DEF Branch, Fetch, registers, derived
  <2>2. MapShape' /\ DerivedCurrent'
    BY <2>1 DEF MapInv, MapShape, DerivedCurrent
  <2>3. \A x : ReferenceClass(x)' = ReferenceClass(x)
    BY <2>1 DEF ReferenceClass, Walk, MpuContains
  <2>4. /\ u \in Nat /\ timingGen \in Nat \ {0}
        /\ CodeTiming(u) = ReferenceClass(u) /\ ReferenceClass(u) \in Classes
        /\ ReferenceClass(Page(u)) = ReferenceClass(u)
    BY MemoryMapAssumption, TimingIsReference, ClassIsReference DEF MapInv, MapShape
  <2>5. Remember(u) = {[page |-> Page(u), gen |-> timingGen, class |-> ReferenceClass(u)]}
    BY <2>4 DEF Remember
  <2>6. pageClass' = pageClass \/ pageClass' = Remember(u)
    BY <1>7 DEF Branch, Fetch
  <2>7. PageRemembered'
    BY <2>1, <2>3, <2>4, <2>5, <2>6 DEF MapInv, PageRemembered
  <2>8. LatchedClass' /\ PublicationValid'
    <3>1. CASE Branch(u)
      <4>1. /\ latch' = {ReferenceClass(u)} /\ jumped' = {ReferenceClass(u)}
            /\ published' = Publish(ReferenceClass(u))
        BY <2>4, <3>1 DEF Branch
      <4> QED BY <2>1, <2>4, <4>1 DEF LatchedClass, PublicationValid, Publish
    <3>2. CASE Fetch(u) /\ latch # {}
      <4>1. PICK c \in Classes : latch = {c} /\ jumped = {c}
        BY <3>2 DEF MapInv, LatchedClass
      <4>2. latch' = {c} /\ jumped' = {c} /\ published' = Publish(c)
        BY <3>2, <4>1 DEF Fetch
      <4> QED BY <2>1, <2>4, <4>1, <4>2 DEF LatchedClass, PublicationValid, Publish
    <3>3. CASE Fetch(u) /\ latch = {} /\ WithinItcm(u)
      <4>1. latch' = {} /\ jumped' = {}
        BY <3>3 DEF Fetch, MapInv, LatchedClass
      <4>2. published' = [Unpublished EXCEPT !.itcmLimit = itcm]
        BY <3>3 DEF Fetch
      <4>3. published'.gen = 0
        BY <4>2 DEF Unpublished
      <4> QED BY <2>1, <2>4, <4>1, <4>3 DEF LatchedClass, PublicationValid
    <3>4. CASE Fetch(u) /\ latch = {} /\ ~WithinItcm(u)
      <4>1. /\ latch' = {ReferenceClass(u)} /\ jumped' = {ReferenceClass(u)}
            /\ published' = Publish(ReferenceClass(u))
        BY <2>4, <3>4 DEF Fetch, MapInv, LatchedClass
      <4> QED BY <2>1, <2>4, <4>1 DEF LatchedClass, PublicationValid, Publish
    <3> QED BY <1>7, <3>1, <3>2, <3>3, <3>4
  <2> QED BY <2>2, <2>7, <2>8 DEF MapInv
<1>8. ASSUME NEW s \in Cp15Images, MapLoad(s) PROVE MapInv'
  <2>1. /\ DOMAIN s.region = Regions /\ \A i \in Regions : RegionValue(s.region[i])
        /\ s.dtcm.base \in Nat /\ s.dtcm.size \in Nat /\ s.itcm \in Nat
        /\ s.gen \in Nat
    BY MemoryMapAssumption
  <2>2. timingGen' \in Nat \ {0}
    BY <1>8, <2>1 DEF MapLoad
  <2>3. LatchedClass' /\ PageRemembered' /\ PublicationValid'
    BY <1>8, <2>2, NothingLatched DEF MapLoad
  <2>4. MapShape'
    BY <1>8, <2>1, <2>2 DEF MapLoad, MapShape
  <2>5. DerivedCurrent'
    BY <1>8 DEF MapLoad, Refresh, ClassSync, DerivedCurrent
  <2> QED BY <2>3, <2>4, <2>5 DEF MapInv
<1>9. CASE MapReset
  <2>1. timingGen' \in Nat \ {0}
    BY <1>9 DEF MapReset, NewGeneration, MapInv, MapShape
  <2>2. LatchedClass' /\ PageRemembered' /\ PublicationValid'
    BY <1>9, <2>1, NothingLatched DEF MapReset
  <2>3. MapShape'
    BY <1>9, <2>1 DEF MapReset, MapInv, MapShape
  <2>4. DerivedCurrent'
    BY <1>9 DEF MapReset, Refresh, ClassSync, DerivedCurrent
  <2> QED BY <2>2, <2>3, <2>4 DEF MapInv
<1>10. CASE UNCHANGED mapVars
  <2>1. UNCHANGED <<control, dtcm, itcm, region, cacheable, wramcnt, window,
                    mirror, inputs, timingGen, latch, pageClass, published, jumped>>
    BY <1>10 DEF mapVars, registers, derived, fetching
  <2>2. MapShape' /\ LatchedClass' /\ PublicationValid' /\ DerivedCurrent'
    BY <2>1 DEF MapInv, MapShape, LatchedClass, PublicationValid, DerivedCurrent
  <2>3. PageRemembered'
    BY <2>1 DEF MapInv, PageRemembered, ReferenceClass, Walk, MpuContains
  <2> QED BY <2>2, <2>3 DEF MapInv
<1> QED BY <1>1, <1>2, <1>3, <1>4, <1>5, <1>6, <1>7, <1>8, <1>9, <1>10 DEF MapNext

PartMapInv == part = "memory" => MapInv

LEMMA PartMapInvariant == MachineSpec => []PartMapInv
PROOF
<1>1. MachineInit => PartMapInv
  BY MapInvInit DEF MachineInit, PartMapInv
<1>2. PartMapInv /\ [MachineNext]_machineVars => PartMapInv'
  <2> SUFFICES ASSUME PartMapInv, [MachineNext]_machineVars, part' = "memory"
               PROVE  MapInv'
    BY DEF PartMapInv
  <2>1. CASE part = "memory" /\ MapNext /\ UNCHANGED part
    BY <2>1, MapInvNext DEF PartMapInv
  <2>2. CASE UNCHANGED <<part, mapVars>>
    BY <2>2, MapInvNext DEF PartMapInv
  <2> QED BY <2>1, <2>2 DEF MachineNext, machineVars
<1> QED BY <1>1, <1>2, PTL DEF MachineSpec

(* Whatever order CP15 and WRAMCNT are written in, and after every load and *)
(* reset: at every address an inline access of bus.h reaches the byte       *)
(* resolve() would, and an inline price of runtime_arm.h is the reference's. *)
THEOREM MirrorsEverywhere ==
  MachineSpec => [](part = "memory" => \A u \in Nat : WindowExact(u) /\ PriceExact(u))
PROOF
<1>1. PartMapInv => (part = "memory" => \A u \in Nat : WindowExact(u) /\ PriceExact(u))
  BY MapInvGives DEF PartMapInv
<1> QED BY <1>1, PartMapInvariant, PTL

(* What the run checks at the edges of every region and TCM.               *)
THEOREM MirrorsNeverStale == MachineSpec => []MirrorsExact
PROOF
<1>1. \A u \in Samples : u \in Nat
  BY DEF Samples
<1>2. PartMapInv => MirrorsExact
  BY <1>1, MapInvGives DEF PartMapInv, MirrorsExact, WindowsExact, TimingExact
<1> QED BY <1>2, PartMapInvariant, PTL

-----------------------------------------------------------------------------
(***************************************************************************)
(* The readback of the 3D frame.                                           *)
(***************************************************************************)

(* The states of a readback: one frame at most is on its way.              *)
Readbacks == [rendered : BOOLEAN, pending : {{}} \cup {{n} : n \in Nat},
              ready : BOOLEAN, frame : Nat, failed : BOOLEAN, halted : BOOLEAN]

FrameShape ==
  /\ phase \in {"start", "drawn", "vblank", "raster"}
  /\ renderer \in {"soft", "compute"}
  /\ latency \in BOOLEAN /\ direct \in BOOLEAN
  /\ raster \in Nat /\ since \in 0..3
  /\ rb \in Readbacks
  /\ capture \in [bit : BOOLEAN, latch : BOOLEAN, frame : BOOLEAN]

ReadsBack == renderer = "compute" /\ ~rb.halted

(* A rasterised frame can still be read back, or is on its way; while      *)
(* deferred, the frame before it is there.                                 *)
Requested ==
  ReadsBack /\ phase = "raster" =>
    /\ rb.rendered \/ rb.pending = {raster}
    /\ latency => /\ ~rb.rendered /\ rb.pending = {raster}
                  /\ since >= 2 => rb.ready /\ rb.frame + 1 = raster

(* Between boundaries only a deferred readback is on its way, and it is    *)
(* that of the last frame.                                                 *)
Deferred ==
  ReadsBack /\ phase # "raster" /\ since >= 1 =>
    /\ rb.pending = {} \/ (latency /\ rb.pending = {raster})
    /\ latency /\ rb.pending = {} => rb.ready /\ rb.frame = raster

(* What line 0 would find.                                                 *)
Composited ==
  ReadsBack /\ phase # "raster" /\ ~direct /\ since >= (IF latency THEN 2 ELSE 1) =>
    /\ rb.ready
    /\ rb.frame = raster \/ (latency /\ ~capture.frame /\ rb.frame + 1 = raster)

FrameInv == FrameShape /\ Requested /\ Deferred /\ Composited /\ LinesFresh

(* What a finished readback is.                                            *)
LEMMA FinishedGives ==
  ASSUME NEW r \in Readbacks, NEW x \in Finished(r)
  PROVE  /\ x \in Readbacks /\ (r.halted => x.halted)
         /\ x.halted \/ (/\ x.pending = {} /\ x.rendered = r.rendered
                         /\ r.pending = {} => x = r
                         /\ \A n \in Nat : r.pending = {n} => x.ready /\ x.frame = n)
PROOF
<1>1. CASE r.pending = {}
  BY <1>1 DEF Finished, Readbacks
<1>2. CASE r.pending # {}
  <2>1. PICK n \in Nat : r.pending = {n}
    BY <1>2 DEF Readbacks
  <2>2. (CHOOSE k \in r.pending : TRUE) = n
    BY <2>1
  <2>3. CASE x = Failed(r)
    BY <2>3 DEF Failed, Readbacks
  <2>4. CASE x = [r EXCEPT !.pending = {}, !.ready = TRUE, !.frame = n]
    BY <2>1, <2>4 DEF Readbacks
  <2> QED BY <1>2, <2>2, <2>3, <2>4 DEF Finished
<1> QED BY <1>1, <1>2

(* What a submitted one is.                                                *)
LEMMA SubmittedGives ==
  ASSUME NEW r \in Readbacks, NEW n \in Nat, NEW x \in Submitted(r, n)
  PROVE  /\ x \in Readbacks /\ (r.halted => x.halted)
         /\ \/ x.halted
            \/ ~r.rendered /\ x = r
            \/ r.pending # {} /\ x = r
            \/ /\ r.rendered /\ r.pending = {} /\ ~x.rendered /\ x.pending = {n}
               /\ x.ready = r.ready /\ x.frame = r.frame
PROOF
<1>1. CASE ~r.rendered \/ r.pending # {}
  BY <1>1 DEF Submitted
<1>2. CASE r.rendered /\ r.pending = {}
  <2>1. CASE x = Failed(r)
    BY <2>1 DEF Failed, Readbacks
  <2>2. CASE x = [r EXCEPT !.rendered = FALSE, !.pending = {n}]
    BY <1>2, <2>2 DEF Readbacks
  <2> QED BY <1>2, <2>1, <2>2 DEF Submitted
<1> QED BY <1>1, <1>2 DEF Readbacks

(* What comes out of several.                                              *)
LEMMA OutOfFinished ==
  ASSUME NEW s, NEW v \in AllFinished(s) PROVE \E r \in s : v \in Finished(r)
PROOF BY DEF AllFinished

LEMMA OutOfSubmitted ==
  ASSUME NEW s, NEW n, NEW v \in AllSubmitted(s, n) PROVE \E r \in s : v \in Submitted(r, n)
PROOF BY DEF AllSubmitted

-----------------------------------------------------------------------------
(* The first frame. *)
LEMMA FrameInvInit == FrameInit => FrameInv
PROOF
<1> SUFFICES ASSUME FrameInit PROVE FrameInv
  OBVIOUS
<1>1. Idle \in Readbacks
  BY DEF Idle, Readbacks
<1>2. FrameShape
  <2>1. capture \in [bit : BOOLEAN, latch : BOOLEAN, frame : BOOLEAN]
    BY DEF FrameInit
  <2>2. rb \in Readbacks
    BY <1>1 DEF FrameInit
  <2>3. latency \in BOOLEAN /\ direct \in BOOLEAN
    BY DEF FrameInit
  <2>4. raster \in Nat /\ since \in 0..3
    BY DEF FrameInit
  <2> QED BY <2>1, <2>2, <2>3, <2>4 DEF FrameInit, FrameShape
<1>3. Requested /\ Deferred /\ Composited
  BY DEF FrameInit, Requested, Deferred, Composited, ReadsBack
<1>4. LinesFresh
  BY DEF FrameInit, LinesFresh, NoFrame
<1> QED BY <1>2, <1>3, <1>4 DEF FrameInv

(* VCount 215: the deferred frame arrives before the next is requested.    *)
LEMMA RasteriseKeeps == FrameInv /\ Rasterise => FrameInv'
PROOF
<1> SUFFICES ASSUME FrameInv, Rasterise PROVE FrameInv'
  OBVIOUS
<1>1. /\ ~rb.halted /\ phase = "vblank" /\ phase' = "raster" /\ raster' = raster + 1
      /\ since' = IF since = 3 THEN 3 ELSE since + 1
      /\ UNCHANGED <<renderer, latency, direct, capture, seen>>
  BY DEF Rasterise, Running
<1>2. /\ rb \in Readbacks /\ raster \in Nat /\ since \in 0..3 /\ latency \in BOOLEAN
  BY DEF FrameInv, FrameShape
<1>3. LinesFresh' /\ Deferred' /\ Composited'
  BY <1>1 DEF FrameInv, LinesFresh, Deferred, Composited
<1>4. CASE renderer = "soft"
  <2>1. rb' = rb
    BY <1>4 DEF Rasterise
  <2>2. FrameShape'
    BY <1>1, <1>2, <2>1 DEF FrameInv, FrameShape
  <2>3. Requested'
    BY <1>1, <1>4 DEF Requested, ReadsBack
  <2> QED BY <1>3, <2>2, <2>3 DEF FrameInv
<1>5. CASE renderer # "soft"
  <2> DEFINE old == IF latency THEN Finished(rb) ELSE {rb}
             new == {[r EXCEPT !.rendered = TRUE] : r \in old}
             submits == (Overlap \/ latency) /\ (Requires(direct, capture) \/ latency)
  <2>1. rb' \in IF submits THEN AllSubmitted(new, raster + 1) ELSE new
    BY <1>5 DEF Rasterise
  <2>2. PICK o \in old : /\ submits => rb' \in Submitted([o EXCEPT !.rendered = TRUE], raster + 1)
                         /\ ~submits => rb' = [o EXCEPT !.rendered = TRUE]
    BY <2>1 DEF AllSubmitted
  <2>3. /\ o \in Readbacks
        /\ latency => o.halted \/ (/\ o.pending = {}
                                   /\ rb.pending = {} => o = rb
                                   /\ \A n \in Nat : rb.pending = {n} => o.ready /\ o.frame = n)
    BY <1>2, <2>2, FinishedGives
  <2> DEFINE m == [o EXCEPT !.rendered = TRUE]
  <2>4. /\ m \in Readbacks /\ m.rendered /\ m.pending = o.pending /\ m.ready = o.ready
        /\ m.frame = o.frame /\ m.halted = o.halted
    BY <2>3 DEF Readbacks
  <2>5. raster + 1 \in Nat
    BY <1>2
  <2> HIDE DEF m, old, new
  <2>6. /\ rb' \in Readbacks
        /\ rb'.halted \/ (/\ rb'.rendered \/ rb'.pending = {raster + 1}
                          /\ latency => /\ ~o.halted
                                        /\ ~rb'.rendered /\ rb'.pending = {raster + 1}
                                        /\ rb'.ready = o.ready /\ rb'.frame = o.frame)
    <3>1. CASE submits
      <4>1. rb' \in Submitted(m, raster + 1)
        BY <2>2, <3>1 DEF m
      <4>2. /\ rb' \in Readbacks /\ (m.halted => rb'.halted)
            /\ \/ rb'.halted
               \/ m.pending # {} /\ rb' = m
               \/ /\ m.pending = {} /\ ~rb'.rendered /\ rb'.pending = {raster + 1}
                  /\ rb'.ready = m.ready /\ rb'.frame = m.frame
        BY <2>4, <2>5, <4>1, SubmittedGives
      <4>3. CASE rb'.halted
        BY <4>2, <4>3
      <4>4. CASE ~rb'.halted /\ m.pending # {} /\ rb' = m
        <5>1. m.rendered /\ ~m.halted /\ ~o.halted /\ o.pending # {}
          BY <2>4, <4>2, <4>4
        <5>2. ~latency
          BY <1>2, <2>3, <5>1 DEF Readbacks
        <5> QED BY <4>2, <4>4, <5>1, <5>2
      <4>5. CASE ~rb'.halted /\ m.pending = {} /\ ~rb'.rendered /\ rb'.pending = {raster + 1}
                 /\ rb'.ready = m.ready /\ rb'.frame = m.frame
        BY <2>4, <4>2, <4>5
      <4> QED BY <4>2, <4>3, <4>4, <4>5
    <3>2. CASE ~submits
      <4>1. rb' = m /\ ~latency
        BY <1>2, <2>2, <3>2 DEF m
      <4> QED BY <2>4, <4>1
    <3> QED BY <3>1, <3>2
  <2>7. FrameShape'
    BY <1>1, <1>2, <2>6 DEF FrameInv, FrameShape
  <2>8. Requested'
    <3>1. ASSUME ReadsBack', phase' = "raster" PROVE rb'.rendered \/ rb'.pending = {raster'}
      BY <1>1, <2>6, <3>1 DEF ReadsBack
    <3>2. ASSUME ReadsBack', latency
          PROVE  /\ ~rb'.rendered /\ rb'.pending = {raster'}
                 /\ since' >= 2 => rb'.ready /\ rb'.frame + 1 = raster'
      <4>1. ~rb'.halted /\ ~o.halted /\ rb'.ready = o.ready /\ rb'.frame = o.frame
            /\ ~rb'.rendered /\ rb'.pending = {raster + 1}
        BY <2>6, <3>2 DEF ReadsBack
      <4>2. ASSUME since' >= 2 PROVE o.ready /\ o.frame = raster
        <5>1. since >= 1
          BY <1>1, <1>2, <4>2
        <5>2. ReadsBack
          BY <1>1, <3>2 DEF ReadsBack
        <5>3. rb.pending = {raster} \/ (rb.pending = {} /\ rb.ready /\ rb.frame = raster)
          BY <1>1, <3>2, <5>1, <5>2 DEF FrameInv, Deferred
        <5>4. /\ rb.pending = {} => o = rb
              /\ \A n \in Nat : rb.pending = {n} => o.ready /\ o.frame = n
          BY <1>2, <2>3, <3>2, <4>1 DEF Readbacks
        <5>5. CASE rb.pending = {raster}
          BY <1>2, <5>4, <5>5
        <5>6. CASE rb.pending = {} /\ rb.ready /\ rb.frame = raster
          BY <5>4, <5>6
        <5> QED BY <5>3, <5>5, <5>6
      <4> QED BY <1>1, <1>2, <4>1, <4>2
    <3> QED BY <1>1, <3>1, <3>2 DEF Requested
  <2> QED BY <1>3, <2>7, <2>8 DEF FrameInv
<1> QED BY <1>4, <1>5

(* The frame boundary: what line 0 needs is waited for.                    *)
LEMMA StartFrameKeeps == FrameInv /\ StartFrame => FrameInv'
PROOF
<1> SUFFICES ASSUME FrameInv, StartFrame PROVE FrameInv'
  OBVIOUS
<1>1. /\ ~rb.halted /\ phase = "raster" /\ phase' = "start"
      /\ capture' = [capture EXCEPT !.frame = capture.bit \/ capture.latch]
      /\ direct' = (force = 0 /\ scene /\ ~capture.bit /\ ~capture.latch)
      /\ rb' \in Boundary(direct', capture')
      /\ UNCHANGED <<renderer, latency, raster, since, seen>>
  BY DEF StartFrame, Running
<1>2. /\ rb \in Readbacks /\ raster \in Nat /\ since \in 0..3 /\ latency \in BOOLEAN
      /\ capture \in [bit : BOOLEAN, latch : BOOLEAN, frame : BOOLEAN]
  BY DEF FrameInv, FrameShape
<1>3. /\ capture' \in [bit : BOOLEAN, latch : BOOLEAN, frame : BOOLEAN]
      /\ capture'.bit = capture.bit /\ capture'.latch = capture.latch
      /\ capture'.frame = (capture.bit \/ capture.latch)
      /\ direct' \in BOOLEAN
  BY <1>1, <1>2
<1>4. LinesFresh' /\ Requested'
  BY <1>1 DEF FrameInv, LinesFresh, Requested
<1>5. CASE renderer = "soft"
  <2>1. rb' = rb
    BY <1>1, <1>5 DEF Boundary
  <2>2. FrameShape'
    BY <1>1, <1>2, <1>3, <2>1 DEF FrameInv, FrameShape
  <2>3. Deferred' /\ Composited'
    BY <1>1, <1>5 DEF Deferred, Composited, ReadsBack
  <2> QED BY <1>4, <2>2, <2>3 DEF FrameInv
<1>6. CASE renderer # "soft"
  <2> DEFINE same == Requires(direct', capture')
             drain == DrainsPending(same)
             first == IF drain THEN Finished(rb) ELSE {rb}
             submit == IF same \/ latency THEN AllSubmitted(first, raster)
                       ELSE {[r EXCEPT !.rendered = FALSE] : r \in first}
  <2>1. rb' \in IF drain THEN AllFinished(submit) ELSE submit
    BY <1>1, <1>6 DEF Boundary
  <2>2. same = (capture'.frame \/ (~direct' /\ ~latency))
    BY <1>3 DEF Requires
  <2>3. drain = (same \/ ~latency)
    BY DEF DrainsPending
  <2>4. renderer = "compute" /\ ReadsBack
    BY <1>1, <1>6 DEF FrameInv, FrameShape, ReadsBack
  <2>5. /\ rb.rendered \/ rb.pending = {raster}
        /\ latency => /\ ~rb.rendered /\ rb.pending = {raster}
                      /\ since >= 2 => rb.ready /\ rb.frame + 1 = raster
    BY <1>1, <2>4 DEF FrameInv, Requested
  \* What the frame is composited from is the frame rasterised last.
  <2>6. ASSUME same
        PROVE  /\ rb' \in Readbacks
               /\ rb'.halted \/ (rb'.pending = {} /\ rb'.ready /\ rb'.frame = raster)
    <3>1. PICK x \in Finished(rb) : \E y \in Submitted(x, raster) : rb' \in Finished(y)
      <4>1. first = Finished(rb) /\ submit = AllSubmitted(first, raster) /\ drain
        BY <2>3, <2>6
      <4>2. rb' \in AllFinished(submit)
        BY <2>1, <4>1
      <4>3. PICK y \in submit : rb' \in Finished(y)
        BY <4>2, OutOfFinished
      <4>4. \E x \in first : y \in Submitted(x, raster)
        BY <4>1, <4>3, OutOfSubmitted
      <4> HIDE DEF first, submit
      <4> QED BY <4>1, <4>3, <4>4
    <3>2. PICK y \in Submitted(x, raster) : rb' \in Finished(y)
      BY <3>1
    <3>3. /\ x \in Readbacks
          /\ x.halted \/ (/\ x.pending = {} /\ x.rendered = rb.rendered
                          /\ rb.pending = {} => x = rb
                          /\ \A n \in Nat : rb.pending = {n} => x.ready /\ x.frame = n)
      BY <1>2, <3>1, FinishedGives
    <3>4. /\ y \in Readbacks /\ (x.halted => y.halted)
          /\ \/ y.halted
             \/ ~x.rendered /\ y = x
             \/ x.pending # {} /\ y = x
             \/ /\ x.rendered /\ x.pending = {} /\ ~y.rendered /\ y.pending = {raster}
                /\ y.ready = x.ready /\ y.frame = x.frame
      BY <1>2, <3>2, <3>3, SubmittedGives
    <3>5. /\ rb' \in Readbacks /\ (y.halted => rb'.halted)
          /\ rb'.halted \/ (/\ rb'.pending = {} /\ rb'.rendered = y.rendered
                            /\ y.pending = {} => rb' = y
                            /\ \A n \in Nat : y.pending = {n} => rb'.ready /\ rb'.frame = n)
      BY <3>2, <3>4, FinishedGives
    <3>6. CASE x.halted \/ y.halted
      BY <3>4, <3>5, <3>6
    <3>7. CASE ~x.halted /\ ~x.rendered /\ y = x
      BY <1>2, <2>5, <3>3, <3>5, <3>7
    <3>8. CASE ~x.halted /\ ~y.halted /\ y.pending = {raster}
      BY <1>2, <3>5, <3>8
    <3> QED BY <3>3, <3>4, <3>5, <3>6, <3>7, <3>8
  \* A direct frame of the renderer that is not deferred forgets it.
  <2>7. ASSUME ~same, ~latency
        PROVE  rb' \in Readbacks /\ (rb'.halted \/ rb'.pending = {})
    <3>1. PICK x \in Finished(rb) : rb' \in Finished([x EXCEPT !.rendered = FALSE])
      BY <2>1, <2>3, <2>7 DEF AllFinished
    <3>2. x \in Readbacks
      BY <1>2, <3>1, FinishedGives
    <3>3. [x EXCEPT !.rendered = FALSE] \in Readbacks
      BY <3>2 DEF Readbacks
    <3> QED BY <3>1, <3>3, FinishedGives
  \* A deferred one goes on to the next frame.
  <2>8. ASSUME ~same, latency PROVE rb' = rb
    <3>1. rb' \in Submitted(rb, raster)
      BY <2>1, <2>3, <2>8 DEF AllSubmitted
    <3> QED BY <2>5, <2>8, <3>1 DEF Submitted
  <2>9. rb' \in Readbacks
    BY <1>2, <2>6, <2>7, <2>8
  <2> HIDE DEF same, drain, first, submit
  <2>10. FrameShape'
    BY <1>1, <1>2, <1>3, <2>4, <2>9 DEF FrameShape
  <2>11. Deferred'
    <3>1. CASE same
      BY <1>1, <2>6, <3>1 DEF Deferred, ReadsBack
    <3>2. CASE ~same /\ ~latency
      BY <1>1, <2>7, <3>2 DEF Deferred, ReadsBack
    <3>3. CASE ~same /\ latency
      <4>1. rb'.pending = {raster}
        BY <2>5, <2>8, <3>3
      <4> QED BY <1>1, <3>3, <4>1 DEF Deferred
    <3> QED BY <1>2, <3>1, <3>2, <3>3
  <2>12. Composited'
    <3>1. CASE same
      BY <1>1, <2>6, <3>1 DEF Composited, ReadsBack
    <3>2. CASE ~same /\ ~latency
      BY <2>2, <3>2 DEF Composited
    <3>3. CASE ~same /\ latency
      <4>1. rb' = rb /\ ~capture'.frame
        BY <1>3, <2>2, <2>8, <3>3
      <4> QED BY <1>1, <2>5, <3>3, <4>1 DEF Composited
    <3> QED BY <1>2, <3>1, <3>2, <3>3
  <2> QED BY <1>4, <2>10, <2>11, <2>12 DEF FrameInv
<1> QED BY <1>5, <1>6

(* Line 0 finds it. *)
LEMMA DrawLine0Keeps == FrameInv /\ DrawLine0 => FrameInv'
PROOF
<1> SUFFICES ASSUME FrameInv, DrawLine0 PROVE FrameInv'
  OBVIOUS
<1>1. /\ ~rb.halted /\ phase = "start" /\ phase' = "drawn"
      /\ capture' = [capture EXCEPT !.latch = capture.latch \/ capture.bit]
      /\ seen'.fetched = ~direct /\ seen'.blank = (renderer = "compute" /\ ~rb.ready)
      /\ seen'.age = IF renderer = "soft" THEN 0 ELSE raster - rb.frame
      /\ seen'.known = capture.frame /\ seen'.settled = since /\ seen'.latency = latency
      /\ UNCHANGED <<renderer, latency, raster, rb, direct, since>>
  BY DEF DrawLine0, Running
<1>2. /\ rb \in Readbacks /\ raster \in Nat /\ since \in 0..3 /\ latency \in BOOLEAN
      /\ direct \in BOOLEAN /\ renderer \in {"soft", "compute"}
      /\ capture \in [bit : BOOLEAN, latch : BOOLEAN, frame : BOOLEAN]
  BY DEF FrameInv, FrameShape
<1>3. /\ capture' \in [bit : BOOLEAN, latch : BOOLEAN, frame : BOOLEAN]
      /\ capture'.frame = capture.frame
  BY <1>1, <1>2
<1>4. FrameShape'
  BY <1>1, <1>2, <1>3 DEF FrameShape
<1>5. Requested' /\ Deferred' /\ Composited'
  BY <1>1, <1>3 DEF FrameInv, Requested, Deferred, Composited, ReadsBack
<1>6. LinesFresh'
  <2> SUFFICES ASSUME ~direct, since >= (IF latency THEN 2 ELSE 1)
               PROVE  /\ ~(renderer = "compute" /\ ~rb.ready)
                      /\ (IF renderer = "soft" THEN 0 ELSE raster - rb.frame)
                            <= (IF latency /\ ~capture.frame THEN 1 ELSE 0)
    BY <1>1 DEF LinesFresh
  <2>1. CASE renderer = "soft"
    BY <2>1
  <2>2. CASE renderer = "compute"
    <3>1. rb.ready /\ (rb.frame = raster \/ (latency /\ ~capture.frame /\ rb.frame + 1 = raster))
      BY <1>1, <2>2 DEF FrameInv, Composited, ReadsBack
    <3>2. rb.frame \in Nat
      BY <1>2 DEF Readbacks
    <3> QED BY <1>2, <2>2, <3>1, <3>2
  <2> QED BY <1>2, <2>1, <2>2
<1> QED BY <1>4, <1>5, <1>6 DEF FrameInv

(* A step that leaves the readback alone. *)
LEMMA AsideKeeps ==
  ASSUME FrameInv, phase' \in {"start", "drawn", "vblank"}, phase # "raster",
         UNCHANGED <<renderer, latency, raster, rb, direct, since, seen>>,
         capture' \in [bit : BOOLEAN, latch : BOOLEAN, frame : BOOLEAN],
         capture'.frame = capture.frame
  PROVE  FrameInv'
PROOF
<1>1. FrameShape'
  BY DEF FrameInv, FrameShape
<1>2. Requested'
  BY DEF Requested
<1>3. Deferred' /\ Composited' /\ LinesFresh'
  BY DEF FrameInv, Deferred, Composited, LinesFresh, ReadsBack
<1> QED BY <1>1, <1>2, <1>3 DEF FrameInv

(* A discontinuity: what is on its way is not relied upon.  *)
LEMMA DiscontinuityKeeps ==
  ASSUME FrameInv, phase' = "start", since' = 0, UNCHANGED seen, rb' \in Readbacks,
         renderer' \in {"soft", "compute"}, latency' \in BOOLEAN,
         direct' \in BOOLEAN, raster' \in Nat,
         capture' \in [bit : BOOLEAN, latch : BOOLEAN, frame : BOOLEAN]
  PROVE  FrameInv'
PROOF
<1>1. FrameShape'
  BY DEF FrameShape
<1>2. Requested'
  BY DEF Requested
<1>3. Deferred' /\ Composited'
  BY DEF Deferred, Composited
<1>4. LinesFresh'
  BY DEF FrameInv, LinesFresh
<1> QED BY <1>1, <1>2, <1>3, <1>4 DEF FrameInv

(* One step per operation. *)
LEMMA FrameInvNext ==
  ASSUME FrameInv, [FrameNext]_frameVars
  PROVE  FrameInv'
PROOF
<1>1. /\ rb \in Readbacks /\ raster \in Nat /\ since \in 0..3 /\ latency \in BOOLEAN
      /\ direct \in BOOLEAN /\ renderer \in {"soft", "compute"}
      /\ phase \in {"start", "drawn", "vblank", "raster"}
      /\ capture \in [bit : BOOLEAN, latch : BOOLEAN, frame : BOOLEAN]
  BY DEF FrameInv, FrameShape
<1>2. CASE Rasterise
  BY <1>2, RasteriseKeeps
<1>3. CASE StartFrame
  BY <1>3, StartFrameKeeps
<1>4. CASE DrawLine0
  BY <1>4, DrawLine0Keeps
<1>5. CASE VBlank
  <2>1. /\ capture' \in [bit : BOOLEAN, latch : BOOLEAN, frame : BOOLEAN]
        /\ capture'.frame = capture.frame
    BY <1>1, <1>5 DEF VBlank
  <2> QED BY <1>5, <2>1, AsideKeeps DEF VBlank
<1>6. ASSUME NEW b \in BOOLEAN, WriteCapture(b) PROVE FrameInv'
  <2>1. /\ capture' \in [bit : BOOLEAN, latch : BOOLEAN, frame : BOOLEAN]
        /\ capture'.frame = capture.frame
    BY <1>1, <1>6 DEF WriteCapture
  <2>2. CASE phase # "raster"
    BY <1>1, <1>6, <2>1, <2>2, AsideKeeps DEF WriteCapture
  <2>3. CASE phase = "raster"
    <3>1. FrameShape'
      BY <1>1, <1>6, <2>1 DEF FrameShape, WriteCapture
    <3>2. Requested' /\ Deferred' /\ Composited' /\ LinesFresh'
      BY <1>6, <2>3 DEF WriteCapture, FrameInv, Requested, Deferred, Composited,
                       LinesFresh, ReadsBack
    <3> QED BY <3>1, <3>2 DEF FrameInv
  <2> QED BY <2>2, <2>3
<1>7. CASE ChangeScene \/ UNCHANGED frameVars
  <2>1. UNCHANGED <<phase, renderer, latency, raster, rb, direct, capture, since, seen>>
    BY <1>7 DEF ChangeScene, frameVars
  <2>2. FrameShape'
    BY <2>1 DEF FrameInv, FrameShape
  <2>3. Requested' /\ Deferred' /\ Composited' /\ LinesFresh'
    BY <2>1 DEF FrameInv, Requested, Deferred, Composited, LinesFresh, ReadsBack
  <2> QED BY <2>2, <2>3 DEF FrameInv
<1>8. ASSUME NEW on \in BOOLEAN, NEW s \in Scales, Govern(on, s) PROVE FrameInv'
  <2>1. /\ phase' = "start" /\ since' = 0
        /\ UNCHANGED <<seen, renderer, raster, direct, capture>>
    BY <1>8 DEF Govern, AtBoundary
  <2>2. latency' \in BOOLEAN
    BY <1>1, <1>8 DEF Govern
  <2>3. rb' \in Readbacks
    <3>1. CASE renderer = "soft" \/ s = scale
      BY <1>1, <1>8, <3>1 DEF Govern
    <3>2. CASE ~(renderer = "soft" \/ s = scale)
      <4>1. PICK r \in Finished(rb) : rb' = Rebuilt(r) \/ rb' = [r EXCEPT !.failed = FALSE]
        BY <1>8, <3>2 DEF Govern
      <4>2. r \in Readbacks
        BY <1>1, <4>1, FinishedGives
      <4>3. Rebuilt(r) \in Readbacks /\ [r EXCEPT !.failed = FALSE] \in Readbacks
        BY <4>2 DEF Rebuilt, Readbacks
      <4> QED BY <4>1, <4>3
    <3> QED BY <3>1, <3>2
  <2> QED BY <1>1, <2>1, <2>2, <2>3, DiscontinuityKeeps
<1>9. CASE Save
  <2>1. /\ phase = "start" /\ rb' \in Finished(rb) /\ renderer = "compute"
        /\ UNCHANGED <<phase, renderer, latency, raster, direct, capture, since, seen>>
    BY <1>9 DEF Save, AtBoundary
  <2>2. rb' \in Readbacks /\ (rb.halted => rb'.halted)
    BY <1>1, <2>1, FinishedGives
  <2>3. rb'.halted \/ (/\ rb'.pending = {}
                       /\ rb.pending = {} => rb' = rb
                       /\ \A n \in Nat : rb.pending = {n} => rb'.ready /\ rb'.frame = n)
    BY <1>1, <2>1, FinishedGives
  <2>4. FrameShape'
    BY <1>1, <2>1, <2>2 DEF FrameInv, FrameShape
  <2>5. CASE rb'.halted \/ since = 0
    <3>1. Requested' /\ Deferred' /\ Composited'
      BY <1>1, <2>1, <2>5 DEF Requested, Deferred, Composited, ReadsBack
    <3> QED BY <2>1, <2>4, <3>1 DEF FrameInv, LinesFresh
  <2>6. CASE ~rb'.halted /\ since >= 1
    <3>1. ReadsBack
      BY <2>1, <2>2, <2>6 DEF ReadsBack
    <3>2. /\ rb.pending = {} \/ (latency /\ rb.pending = {raster})
          /\ latency /\ rb.pending = {} => rb.ready /\ rb.frame = raster
      BY <2>1, <2>6, <3>1 DEF FrameInv, Deferred
    <3>3. CASE rb.pending = {}
      <4>1. rb' = rb
        BY <2>3, <2>6, <3>3
      <4> QED BY <2>1, <2>4, <4>1 DEF FrameInv, Requested, Deferred, Composited,
                                      LinesFresh, ReadsBack
    <3>4. CASE rb.pending = {raster}
      <4>1. rb'.pending = {} /\ rb'.ready /\ rb'.frame = raster
        BY <1>1, <2>3, <2>6, <3>4
      <4>2. Requested' /\ Deferred' /\ Composited'
        BY <2>1, <4>1 DEF Requested, Deferred, Composited
      <4> QED BY <2>1, <2>4, <4>2 DEF FrameInv, LinesFresh
    <3> QED BY <3>2, <3>3, <3>4
  <2> QED BY <1>1, <2>5, <2>6
<1>10. ASSUME NEW b \in BOOLEAN,
              Load([bit |-> b, latch |-> FALSE, frame |-> FALSE])
       PROVE  FrameInv'
  <2>1. /\ phase' = "start" /\ since' = 0 /\ latency' = FALSE /\ direct' = FALSE
        /\ raster' = raster + 1 /\ UNCHANGED <<seen, renderer>>
        /\ capture' = [bit |-> b, latch |-> FALSE, frame |-> FALSE]
    BY <1>10 DEF Load, AtBoundary
  <2>2. rb' \in Readbacks
    <3>1. CASE renderer = "soft"
      BY <1>1, <1>10, <3>1 DEF Load
    <3>2. CASE renderer # "soft"
      <4> DEFINE cleared == {[r EXCEPT !.rendered = TRUE, !.pending = {}, !.ready = FALSE] :
                               r \in Finished(rb)}
      <4>1. rb' \in AllFinished(AllSubmitted(cleared, raster'))
        BY <1>10, <3>2, Zenon DEF Load
      <4>2. PICK y \in AllSubmitted(cleared, raster') : rb' \in Finished(y)
        BY <4>1, OutOfFinished
      <4>3. PICK x \in cleared : y \in Submitted(x, raster')
        BY <4>2, OutOfSubmitted
      <4>4. PICK r \in Finished(rb) :
              x = [r EXCEPT !.rendered = TRUE, !.pending = {}, !.ready = FALSE]
        BY <4>3
      <4> HIDE DEF cleared
      <4>5. r \in Readbacks
        BY <1>1, <4>4, FinishedGives
      <4>6. x \in Readbacks
        BY <4>4, <4>5 DEF Readbacks
      <4>7. raster' \in Nat
        BY <1>1, <2>1
      <4>8. y \in Readbacks
        BY <4>3, <4>6, <4>7, SubmittedGives
      <4> QED BY <4>2, <4>8, FinishedGives
    <3> QED BY <3>1, <3>2
  <2>3. /\ capture' \in [bit : BOOLEAN, latch : BOOLEAN, frame : BOOLEAN]
        /\ raster' \in Nat /\ latency' \in BOOLEAN /\ direct' \in BOOLEAN
    <3>1. [bit |-> b, latch |-> FALSE, frame |-> FALSE]
            \in [bit : BOOLEAN, latch : BOOLEAN, frame : BOOLEAN]
      OBVIOUS
    <3>2. raster + 1 \in Nat
      BY <1>1
    <3> QED BY <2>1, <3>1, <3>2
  <2> QED BY <1>1, <2>1, <2>2, <2>3, DiscontinuityKeeps
<1>11. CASE UseSoft \/ UseCompute \/ Gpu3dReset
  <2>1. /\ phase' = "start" /\ since' = 0 /\ UNCHANGED <<seen, latency, raster, direct, capture>>
        /\ renderer' \in {"soft", "compute"}
    BY <1>1, <1>11 DEF UseSoft, UseCompute, Gpu3dReset, AtBoundary
  <2>2. /\ [rb EXCEPT !.rendered = FALSE, !.pending = {}, !.ready = FALSE] \in Readbacks
        /\ Rebuilt(rb) \in Readbacks
    BY <1>1 DEF Rebuilt, Readbacks
  <2>3. rb' \in Readbacks
    BY <1>11, <2>2 DEF UseSoft, UseCompute, Gpu3dReset
  <2> QED BY <1>1, <2>1, <2>3, DiscontinuityKeeps
<1> QED BY <1>2, <1>3, <1>4, <1>5, <1>6, <1>7, <1>8, <1>9, <1>10, <1>11 DEF FrameNext

PartFrameInv == part = "readback" => FrameInv

(* Through every change between direct and composited frames, deferral,    *)
(* rebuilt renderer, GL failure, capture, savestate and load, line 0 is     *)
(* composited from the frame rasterised last, or the one before it where a  *)
(* deferred readback allows that.                                           *)
THEOREM FramesAlwaysFresh == MachineSpec => []FramesFresh
PROOF
<1>1. MachineInit => PartFrameInv
  BY FrameInvInit DEF MachineInit, PartFrameInv
<1>2. PartFrameInv /\ [MachineNext]_machineVars => PartFrameInv'
  <2> SUFFICES ASSUME PartFrameInv, [MachineNext]_machineVars, part' = "readback"
               PROVE  FrameInv'
    BY DEF PartFrameInv
  <2>1. CASE part = "readback" /\ FrameNext /\ UNCHANGED part
    BY <2>1, FrameInvNext DEF PartFrameInv
  <2>2. CASE UNCHANGED <<part, frameVars>>
    BY <2>2, FrameInvNext DEF PartFrameInv
  <2> QED BY <2>1, <2>2 DEF MachineNext, machineVars
<1>3. PartFrameInv => FramesFresh
  BY DEF PartFrameInv, FramesFresh, FrameInv
<1> QED BY <1>1, <1>2, <1>3, PTL DEF MachineSpec
=============================================================================
