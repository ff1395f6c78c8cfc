----------------------------- MODULE MCScheduler -----------------------------
(***************************************************************************)
(* The scheduler's rounds and, with the caps of the code, the wait of two  *)
(* idle CPUs that its fast-forward cuts short: one of the two runs in a    *)
(* behaviour.                                                              *)
(***************************************************************************)
EXTENDS Scheduler, TLAPS

CONSTANTS CodeCap, CodeMargin,   \* the 64 and the 8 of scheduler_run_round
          IdleNever, IdleGaps, IdleHorizon

ASSUME CodeAssumption ==
  /\ CodeCap \in Nat \ {0} /\ CodeMargin \in 1..CodeCap
  /\ IdleNever \in Nat /\ IdleGaps \subseteq Nat \ {0}

VARIABLES part, iStart, iNow, iEvent, iTimer, iGeometry

idleVars == <<iStart, iNow, iEvent, iTimer, iGeometry>>

Idle == INSTANCE IdleFastForward WITH
          kIterCap <- CodeCap, kMargin <- CodeMargin, Never <- IdleNever,
          Gaps <- IdleGaps, Horizon <- IdleHorizon,
          start <- iStart, s <- iNow, ev <- iEvent, tov <- iTimer, gx <- iGeometry

SystemInit ==
  /\ part \in {"rounds", "idle"}
  /\ Init /\ Idle!Init
  /\ IF part = "idle" THEN \A g \in Gaps : dev <= g
     ELSE \A g \in IdleGaps : {iEvent, iTimer, iGeometry} = {iEvent} /\ iEvent <= g

SystemNext ==
  \/ part = "rounds" /\ Next /\ UNCHANGED <<part, idleVars>>
  \/ part = "idle" /\ Idle!Next /\ UNCHANGED <<part, vars>>

SystemSpec == SystemInit /\ [][SystemNext]_<<part, vars, idleVars>>

\* The idle fast-forward lands on the rendezvous at which the incremental
\* rounds would first see a deadline (scheduler_run_round).
FastForwardExact == Idle!FastForwardExact
------------------------------------------------------------------------------
(* The proof: the fast-forward is exact for every cap, margin and set of   *)
(* deadlines, not only for the ones TLC enumerates.                        *)

(* The incremental scheduler stands on the CodeCap grid rooted at iStart   *)
(* until a deadline is reached, and then it stands where the jump lands.   *)
OnGrid == \E k \in Nat : iNow = iStart + k * CodeCap

IInv == /\ Idle!TypeOK
        /\ iEvent > iStart /\ iTimer > iStart /\ iGeometry > iStart
        /\ ~Idle!Visible(iNow) => OnGrid
        /\ Idle!FastForwardExact

(* Rounding up to the grid: the quotient brackets its argument.            *)
LEMMA CeilBounds ==
  ASSUME NEW a \in Nat \ {0}, NEW c \in Nat \ {0}
  PROVE  LET n == (a + c - 1) \div c
         IN  n \in Nat /\ n >= 1 /\ a <= n * c /\ (n - 1) * c < a
<1> DEFINE n == (a + c - 1) \div c
<1>1. n \in Int /\ c * n <= a + c - 1 /\ a + c - 1 < c * n + c
  BY SMT
<1>2. n >= 1
  <2>1. SUFFICES ASSUME n <= 0 PROVE FALSE
    BY <1>1
  <2>2. c * n <= 0
    BY <2>1, <1>1, SMT
  <2> QED BY <2>2, <1>1
<1>3. n * c = c * n /\ (n - 1) * c = c * n - c
  BY <1>1, SMT
<1> QED BY <1>1, <1>2, <1>3

(* A larger multiple of the step is not smaller.                           *)
LEMMA MulMono ==
  ASSUME NEW j \in Nat, NEW k \in Nat, NEW c \in Nat, j <= k
  PROVE  j * c <= k * c
BY SMT

(* Where the jump lands, without the intermediate maximum.                 *)
LEMMA JumpValue ==
  ASSUME NEW t \in Nat, NEW d \in Nat, NEW o \in Nat, d > t, o > t
  PROVE  LET n == (o - t + CodeCap - 1) \div CodeCap
             g == t + n * CodeCap
         IN  /\ n \in Nat /\ n >= 1
             /\ o <= g /\ t + (n - 1) * CodeCap < o
             /\ Idle!FastForwardTarget(t, d, o) =
                  IF d <= o THEN d ELSE IF d < g + CodeMargin THEN d ELSE g
<1> DEFINE n == (o - t + CodeCap - 1) \div CodeCap
           g == t + n * CodeCap
<1>1. o - t \in Nat \ {0} /\ CodeCap \in Nat \ {0} /\ CodeMargin \in Nat \ {0}
  BY CodeAssumption
<1>2. n \in Nat /\ n >= 1 /\ o - t <= n * CodeCap /\ (n - 1) * CodeCap < o - t
  BY <1>1, CeilBounds
<1> HIDE DEF n
<1>3. 1 * CodeCap <= n * CodeCap
  BY <1>1, <1>2, MulMono
<1>4. n * CodeCap \in Nat /\ (n - 1) * CodeCap \in Int
  BY <1>1, <1>2
<1>5. g \in Nat /\ g >= t + CodeCap /\ o <= g /\ t + (n - 1) * CodeCap < o
  BY <1>1, <1>2, <1>3, <1>4
<1>6. Idle!TimerGrid(t, o) = g
  BY DEF Idle!TimerGrid, n
<1> HIDE DEF g
<1>7. Idle!FastForwardTarget(t, d, o) =
        IF d <= o THEN d ELSE IF d < g + CodeMargin THEN d ELSE g
  BY <1>1, <1>5, <1>6 DEF Idle!FastForwardTarget, Idle!FastForwardWake, Idle!Snap
<1> QED BY <1>2, <1>5, <1>7 DEF n, g

(* The jump always leaves the instant it starts from.                      *)
LEMMA JumpAdvances ==
  ASSUME NEW t \in Nat, NEW d \in Nat, NEW o \in Nat, d > t, o > t
  PROVE  Idle!FastForwardTarget(t, d, o) \in Nat /\ Idle!FastForwardTarget(t, d, o) > t
<1> DEFINE n == (o - t + CodeCap - 1) \div CodeCap
           g == t + n * CodeCap
<1>1. /\ n \in Nat /\ o <= g
      /\ Idle!FastForwardTarget(t, d, o) =
           IF d <= o THEN d ELSE IF d < g + CodeMargin THEN d ELSE g
  BY JumpValue
<1>2. g \in Nat
  BY <1>1, CodeAssumption
<1> QED BY <1>1, <1>2

(* One ordinary round from a grid point before every deadline either       *)
(* reaches a deadline exactly where the jump lands, or the next grid point *)
(* before it.                                                              *)
LEMMA RoundStep ==
  ASSUME NEW t \in Nat, NEW d \in Nat, NEW o \in Nat, NEW k \in Nat,
         NEW p, p = t + k * CodeCap, d > p, o > p
  PROVE  LET q == Idle!PlannedTarget(p, d)
             J == Idle!FastForwardTarget(t, d, o)
         IN  /\ q \in Nat /\ q > p
             /\ (q >= d \/ q >= o) => q = J
             /\ ~(q >= d \/ q >= o) => q = t + (k + 1) * CodeCap /\ q < J
<1> DEFINE n == (o - t + CodeCap - 1) \div CodeCap
           g == t + n * CodeCap
           q == Idle!PlannedTarget(p, d)
           J == Idle!FastForwardTarget(t, d, o)
<1>1. CodeCap \in Nat \ {0} /\ CodeMargin \in Nat \ {0} /\ k * CodeCap \in Nat
  BY CodeAssumption
<1>2. p \in Nat /\ p >= t /\ d > t /\ o > t
  BY <1>1
<1>3. /\ n \in Nat /\ n >= 1
      /\ o <= g /\ t + (n - 1) * CodeCap < o
      /\ J = IF d <= o THEN d ELSE IF d < g + CodeMargin THEN d ELSE g
  BY <1>2, JumpValue
<1>4. (k + 1) * CodeCap = k * CodeCap + CodeCap
  BY <1>1
<1>5. q = IF d < p + CodeCap + CodeMargin THEN d ELSE p + CodeCap
  BY DEF Idle!PlannedTarget, Idle!Snap
<1> HIDE DEF n, J, q
<1>6. n * CodeCap \in Nat /\ g \in Nat
  BY <1>1, <1>3
<1>7. k + 1 <= n
  <2>1. SUFFICES ASSUME n <= k PROVE FALSE
    BY <1>3
  <2>2. n * CodeCap <= k * CodeCap
    BY <2>1, <1>1, <1>3, MulMono
  <2> QED BY <2>2, <1>1, <1>2, <1>3, <1>6
<1>8. p + CodeCap <= g
  <2>1. (k + 1) * CodeCap <= n * CodeCap
    BY <1>1, <1>3, <1>7, MulMono
  <2> QED BY <2>1, <1>1, <1>2, <1>4, <1>6
<1>9. p + CodeCap >= o => p + CodeCap = g
  <2>1. SUFFICES ASSUME p + CodeCap >= o, n # k + 1 PROVE FALSE
    BY <1>1, <1>2, <1>3, <1>4, <1>6
  <2>2. k + 1 <= n - 1 /\ n - 1 \in Nat
    BY <2>1, <1>3, <1>7
  <2>3. (k + 1) * CodeCap <= (n - 1) * CodeCap /\ (n - 1) * CodeCap \in Nat
    BY <2>2, <1>1, MulMono
  <2> QED BY <2>1, <2>3, <1>1, <1>2, <1>3, <1>4
<1> HIDE DEF g
<1>10. q \in Nat /\ q > p
  BY <1>1, <1>2, <1>5
<1>11. (q >= d \/ q >= o) => q = J
  BY <1>1, <1>2, <1>3, <1>5, <1>6, <1>8, <1>9
<1>12. ~(q >= d \/ q >= o) => q = t + (k + 1) * CodeCap /\ q < J
  BY <1>1, <1>2, <1>3, <1>4, <1>5, <1>6, <1>8
<1> QED BY <1>10, <1>11, <1>12 DEF q, J

(* Deadlines are armed strictly in the future.                             *)
LEMMA LaterIsLater ==
  ASSUME NEW t \in Nat
  PROVE  /\ \A d \in Idle!Deadlines(t) : d \in Nat /\ d > t
         /\ \A d \in Idle!Later(t) : d \in Nat /\ d > t
BY CodeAssumption DEF Idle!Deadlines, Idle!Later

LEMMA InitIInv == Idle!Init => IInv
<1> SUFFICES ASSUME Idle!Init PROVE IInv
  OBVIOUS
<1>1. iStart = 0 /\ iNow = 0 /\ iEvent \in Nat /\ iEvent > 0 /\ iTimer \in Nat /\ iTimer > 0
      /\ iGeometry \in Nat /\ iGeometry > 0
  BY LaterIsLater DEF Idle!Init
<1>2. OnGrid
  BY <1>1, CodeAssumption DEF OnGrid
<1>3. Idle!Jump > iNow
  BY <1>1, JumpAdvances DEF Idle!Jump
<1> QED BY <1>1, <1>2, <1>3 DEF IInv, Idle!TypeOK, Idle!FastForwardExact, Idle!Visible

LEMMA NextIInv == IInv /\ [Idle!Next]_(Idle!vars) => IInv'
<1> SUFFICES ASSUME IInv, [Idle!Next]_(Idle!vars) PROVE IInv'
  OBVIOUS
<1> USE DEF IInv, Idle!TypeOK
<1>1. CASE Idle!Round
  <2>1. PICK k \in Nat : iNow = iStart + k * CodeCap
    BY <1>1 DEF Idle!Round, OnGrid
  <2>2. iEvent > iNow /\ iTimer > iNow /\ iGeometry > iNow
    BY <1>1 DEF Idle!Round, Idle!Visible
  <2>3. /\ iNow' \in Nat /\ iNow' > iNow
        /\ (iNow' >= iEvent \/ iNow' >= iTimer) => iNow' = Idle!Jump
        /\ ~(iNow' >= iEvent \/ iNow' >= iTimer) => iNow' = iStart + (k + 1) * CodeCap /\ iNow' < Idle!Jump
    BY <1>1, <2>1, <2>2, RoundStep DEF Idle!Round, Idle!Jump
  <2>4. Idle!Jump' = Idle!Jump /\ Idle!Jump \in Nat /\ UNCHANGED <<iStart, iEvent, iTimer, iGeometry>>
    BY <1>1, JumpAdvances DEF Idle!Round, Idle!Jump
  <2>5. (~Idle!Visible(iNow) => OnGrid)'
    BY <2>3, <2>4 DEF Idle!Visible, OnGrid
  <2>6. Idle!FastForwardExact'
    BY <2>3, <2>4 DEF Idle!FastForwardExact, Idle!Visible
  <2> QED BY <2>3, <2>4, <2>5, <2>6
<1>2. CASE Idle!Rearm
  <2>1. /\ iStart' = iNow /\ iNow' = iNow
        /\ iEvent' \in Nat /\ iEvent' > iNow
        /\ iTimer' \in Nat /\ iTimer' > iNow
        /\ iGeometry' \in Nat /\ iGeometry' > iNow
    BY <1>2, LaterIsLater DEF Idle!Rearm
  <2>2. OnGrid'
    BY <2>1, CodeAssumption DEF OnGrid
  <2>3. Idle!Jump' > iNow'
    BY <2>1, JumpAdvances DEF Idle!Jump
  <2> QED BY <2>1, <2>2, <2>3 DEF Idle!FastForwardExact, Idle!Visible
<1>3. CASE UNCHANGED Idle!vars
  BY <1>3 DEF Idle!vars, Idle!Visible, OnGrid, Idle!FastForwardExact, Idle!Jump
<1> QED BY <1>1, <1>2, <1>3 DEF Idle!Next

(* Every state of the incremental scheduler satisfies the inductive        *)
(* invariant, and with it the exactness of the jump; the scheduler's own   *)
(* rounds leave it alone.                                                  *)
THEOREM FastForwardIsExact == SystemSpec => []FastForwardExact
<1>1. SystemInit => IInv
  BY InitIInv DEF SystemInit
<1>2. IInv /\ [SystemNext]_<<part, vars, idleVars>> => IInv'
  <2> SUFFICES ASSUME IInv, [SystemNext]_<<part, vars, idleVars>> PROVE IInv'
    OBVIOUS
  <2>1. [Idle!Next]_(Idle!vars)
    BY DEF SystemNext, idleVars, Idle!vars
  <2> QED BY <2>1, NextIInv
<1>3. IInv => FastForwardExact
  BY DEF IInv, FastForwardExact
<1> QED BY <1>1, <1>2, <1>3, PTL DEF SystemSpec
==============================================================================
