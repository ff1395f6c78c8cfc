----------------------------- MODULE MCRenderPool -----------------------------
(***************************************************************************)
(* Two scanline pools, of which one runs in a behaviour.  The module's own *)
(* has no VRAM-display line.  The other has them, whose renders may drain  *)
(* the ring themselves; RenderPoolSelfWait.cfg shows that such a drain     *)
(* need not return, so only the accounting of its claims is checked.       *)
(***************************************************************************)
EXTENDS RenderPool, TLAPS, FiniteSetTheorems, SequenceTheorems

VARIABLES part, fHead, fClaim, fDone, fJobs, fOutstanding, fStaged, fMask,
          fApply, fVram, fLcdc, fOp, fY, fStores, fStack, fRef

fVars == <<fHead, fClaim, fDone, fJobs, fOutstanding, fStaged, fMask, fApply,
           fVram, fLcdc, fOp, fY, fStores, fStack, fRef>>

F == INSTANCE RenderPool WITH
       kJobSlots <- 3, Modes <- {"bg", "vram"}, MaxLines <- 3, MaxStores <- 0,
       head <- fHead, claim <- fClaim, done <- fDone, jobs <- fJobs,
       outstanding <- fOutstanding, staged <- fStaged, mask <- fMask,
       apply_index <- fApply, vram <- fVram, lcdc <- fLcdc, op <- fOp, y <- fY,
       stores <- fStores, stack <- fStack, ref <- fRef

PoolsInit ==
  /\ part \in {"lines", "fences"}
  /\ Init /\ F!Init
  /\ IF part = "lines" THEN fLcdc = {} ELSE lcdc = {}

PoolsNext ==
  \/ part = "lines" /\ Next /\ UNCHANGED <<part, fVars>>
  \/ part = "fences" /\ F!Next /\ UNCHANGED <<part, vars>>

\* The fairness of the pool whose drains are shown to return.
PoolsSpec == PoolsInit /\ [][PoolsNext]_<<part, vars, fVars>> /\ Fairness

\* A published line is inside exactly one thread until it is counted, and its
\* slot still holds it, also when renders drain the ring (worker_main,
\* drain_pool, render_line_job).
FencedClaimsAccounted == F!ClaimsAccounted

-----------------------------------------------------------------------------
(***************************************************************************)
(* Proofs about the scanline pool, for every number of workers, ring size, *)
(* frame height and length of run.                                         *)
(*                                                                         *)
(*   IInv   holds of every pool: the claim counters account for the        *)
(*          threads, and a line keeps its ring slot for its whole frame    *)
(*   SInv   holds of a pool without VRAM-display lines: only the scheduler *)
(*          drains, and with nothing outstanding everything is done        *)
(*   EInv   the same pool: video memory differs from the inline renderer's *)
(*          by exactly the captures staged in the ring                     *)
(***************************************************************************)

Activation == [k : {"drain", "render", "count"}, n : Nat]

Stacks == [Threads -> Seq(Activation)]

IsJob(t, k) == stack[t][k].k \in {"render", "count"}

ShapeOK ==
  /\ head \in Nat /\ claim \in Nat /\ done \in Int /\ y \in Nat
  /\ stack \in Stacks
  /\ DOMAIN jobs = 0..(kJobSlots - 1)
  /\ jobs = [s \in 0..(kJobSlots - 1) |-> jobs[s]]
  /\ \A s \in 0..(kJobSlots - 1) :
       jobs[s] = [line |-> jobs[s].line, index |-> jobs[s].index,
                  capture |-> jobs[s].capture, got |-> jobs[s].got,
                  expect |-> jobs[s].expect]

(* Every claimed line that is not yet counted is in one activation.        *)
BelowClaim ==
  \A t \in Threads : \A k \in 1..Len(stack[t]) :
    IsJob(t, k) => stack[t][k].n < claim
Once ==
  \A t, u \in Threads : \A k \in 1..Len(stack[t]) : \A m \in 1..Len(stack[u]) :
    IsJob(t, k) /\ IsJob(u, m) /\ stack[t][k].n = stack[u][m].n => t = u /\ k = m
Claimed == {i \in 0..(claim - 1) : Inside(i)}
Accounting ==
  /\ done <= claim /\ claim <= head
  /\ BelowClaim
  /\ Once
  /\ Cardinality(Claimed) = claim - done

(* Only lines of the current frame are in the ring, so that a slot is      *)
(* never taken from a line that still needs it.                            *)
FrameInv ==
  /\ y <= head /\ y <= FrameLines
  /\ op.k \in {"latch", "publish"} => y < FrameLines
  /\ head - y <= claim
  /\ \A t \in Threads : \A k \in 1..Len(stack[t]) :
       IsJob(t, k) => head - y <= stack[t][k].n
  /\ \A i \in (head - y)..(head - 1) : jobs[Slot(i)].index = i
  /\ op.k = "publish" => jobs[Slot(head)].index = head

(* The outermost drain of the scheduler thread waits for every line.       *)
DrainInv ==
  /\ stack[Sched] # <<>> => stack[Sched][1] = Draining(head)
  /\ op.k = "frame" /\ stack[Sched] = <<>> => done = head

BelowHead ==
  \A t \in Threads : \A k \in 1..Len(stack[t]) : stack[t][k].n <= head

IInv == ShapeOK /\ Accounting /\ FrameInv /\ DrainInv /\ BelowHead

(* Without VRAM-display lines no render drains: a drain is the outermost   *)
(* activation of the scheduler thread, and it leaves everything done.      *)
BgInv ==
  /\ \A s \in 0..(kJobSlots - 1) : jobs[s].line.mode = "bg"
  /\ op.k \in {"latch", "publish"} => op.line \in LineKinds
Drains ==
  \A t \in Threads : \A k \in 1..Len(stack[t]) :
    stack[t][k].k = "drain" => t = Sched /\ k = 1
Quiet ==
  /\ ~outstanding => done = head
  /\ op.k \in {"store", "remap"} /\ stack[Sched] = <<>> => done = head
SInv == BgInv /\ Drains /\ Quiet

-----------------------------------------------------------------------------
(* Lines whose staged capture has not been applied. *)
Pending == apply_index..(head - 1)
LineOf(i) == jobs[Slot(i)].line

(* Line i will write, or has staged a write of, bank b.                    *)
Captures(i, b) == LineOf(i).dst = b /\ b \in lcdc

(* Some thread has line i still to render.                                 *)
Renders(i) == \E t \in Threads : \E k \in 1..Len(stack[t]) :
                stack[t][k].k = "render" /\ stack[t][k].n = i
ToRender(i) == claim <= i \/ Renders(i)

PendingInv ==
  /\ apply_index \in Nat /\ apply_index <= head
  /\ head - y <= apply_index /\ apply_index <= claim
  /\ \A t \in Threads : \A k \in 1..Len(stack[t]) :
       IsJob(t, k) => apply_index <= stack[t][k].n
  /\ ~outstanding => apply_index = head
  /\ op.k \in {"store", "remap", "frame"} /\ stack[Sched] = <<>> => apply_index = head

(* What the ring holds of a pending line.                                  *)
RingInv ==
  /\ lcdc \subseteq Banks /\ (op.k = "remap" => op.bank \in Banks)
  /\ \A i \in Pending : LineOf(i) \in LineKinds
  /\ \A i \in Pending : jobs[Slot(i)].capture =
        IF ToRender(i) \/ LineOf(i).dst \notin lcdc THEN NoBank ELSE LineOf(i).dst
  /\ \A s \in 0..(kJobSlots - 1) :
        (\A i \in Pending : Slot(i) # s) => jobs[s].capture = NoBank
  /\ \A i \in Pending : LineOf(i).dst # NoBank =>
        LineOf(i).dst \in mask /\ (staged \/ op.k = "flag")

(* The last pending capture of a bank is what inline rendering left there; *)
(* every other bank already holds it.                                      *)
LastCapture(b) ==
  \E m \in Pending : /\ Captures(m, b) /\ ref[b] = m + 1
                     /\ \A i \in Pending : Captures(i, b) => i <= m
BankInv ==
  /\ vram = [b \in Banks |-> vram[b]] /\ ref = [b \in Banks |-> ref[b]]
  /\ \A b \in Banks : \/ ref[b] = vram[b] /\ \A i \in Pending : ~Captures(i, b)
                      \/ LastCapture(b)

(* A line still to be rendered will read what it would have read inline.   *)
ReadInv ==
  /\ \A i \in Pending : ToRender(i) =>
        jobs[Slot(i)].expect = [b \in ReadSet(LineOf(i)) |-> vram[b]]
  /\ op.k = "publish" =>
       LET j == jobs[Slot(head)] IN
         /\ j.line = op.line /\ j.got = <<>>
         /\ j.expect = [b \in ReadSet(op.line) |-> ref[b]]
         /\ stack[Sched] = <<>> =>
              j.expect = [b \in ReadSet(op.line) |-> vram[b]]

EInv == PendingInv /\ RingInv /\ BankInv /\ ReadInv /\ LinesExact

-----------------------------------------------------------------------------
(* The ring. *)

LEMMA SlotInRing ==
  ASSUME NEW i \in Nat
  PROVE  Slot(i) \in 0..(kJobSlots - 1)
<1>1. kJobSlots \in Nat \ {0}
  BY RenderPoolAssumption
<1> QED BY <1>1 DEF Slot

(* Fewer than kJobSlots consecutive lines occupy different slots.          *)
LEMMA SlotsDiffer ==
  ASSUME NEW i \in Nat, NEW j \in Nat, i < j, j - i < kJobSlots
  PROVE  Slot(i) # Slot(j)
<1>1. kJobSlots \in Nat \ {0}
  BY RenderPoolAssumption
<1> DEFINE c == kJobSlots
<1>2. \A n \in Nat : n = (c * (n \div c)) + (n % c) /\ n \div c \in Int /\ n % c \in Int
  BY <1>1
<1> SUFFICES ASSUME i % c = j % c PROVE FALSE
  BY DEF Slot
<1>3. PICK p \in Int, q \in Int, r \in Int : i = (c * p) + r /\ j = (c * q) + r
  <2>1. i = (c * (i \div c)) + (i % c) /\ j = (c * (j \div c)) + (i % c)
    BY <1>2
  <2> QED BY <2>1, <1>2
<1>4. c \in Nat \ {0} /\ c * p \in Int /\ c * q \in Int
      /\ (c * q) - (c * p) = j - i /\ 0 < j - i /\ j - i < c
  BY <1>1, <1>3
<1> HIDE DEF c
<1>5. CASE q <= p
  <2>1. c * q <= c * p
    BY <1>4, <1>5
  <2> QED BY <2>1, <1>3, <1>4
<1>6. CASE q > p
  <2>1. c * q >= c * (p + 1) /\ c * (p + 1) = c * p + c
    BY <1>4, <1>6
  <2> QED BY <2>1, <1>3, <1>4
<1> QED BY <1>4, <1>5, <1>6

-----------------------------------------------------------------------------
(* What a call, a return and a change of the top activation do to a stack. *)

LEMMA Pushed ==
  ASSUME stack \in Stacks, NEW t \in Threads, NEW a \in Activation,
         stack' = Push(t, a)
  PROVE  /\ stack' \in Stacks
         /\ Len(stack'[t]) = Len(stack[t]) + 1
         /\ stack'[t][Len(stack[t]) + 1] = a
         /\ \A k \in 1..Len(stack[t]) : stack'[t][k] = stack[t][k]
         /\ \A u \in Threads : u # t => stack'[u] = stack[u]
<1>1. stack[t] \in Seq(Activation)
  BY DEF Stacks
<1>2. /\ Append(stack[t], a) \in Seq(Activation)
      /\ Len(Append(stack[t], a)) = Len(stack[t]) + 1
      /\ Append(stack[t], a)[Len(stack[t]) + 1] = a
      /\ \A k \in 1..Len(stack[t]) : Append(stack[t], a)[k] = stack[t][k]
  BY <1>1, AppendProperties
<1>3. stack' = [stack EXCEPT ![t] = Append(stack[t], a)]
  BY DEF Push
<1> QED BY <1>2, <1>3 DEF Stacks

LEMMA Popped ==
  ASSUME stack \in Stacks, NEW t \in Threads, stack[t] # <<>>, stack' = Pop(t)
  PROVE  /\ stack' \in Stacks
         /\ Len(stack[t]) \in Nat \ {0} /\ Len(stack'[t]) = Len(stack[t]) - 1
         /\ \A k \in 1..(Len(stack[t]) - 1) : stack'[t][k] = stack[t][k]
         /\ \A u \in Threads : u # t => stack'[u] = stack[u]
<1>1. stack[t] \in Seq(Activation) /\ Len(stack[t]) \in Nat \ {0}
  BY EmptySeq DEF Stacks
<1> DEFINE r == SubSeq(stack[t], 1, Len(stack[t]) - 1)
<1>2. \A k \in 1..(Len(stack[t]) - 1) : stack[t][k] \in Activation
  BY <1>1, ElementOfSeq
<1>3. r \in Seq(Activation) /\ Len(r) = Len(stack[t]) - 1
      /\ \A k \in 1..(Len(stack[t]) - 1) : r[k] = stack[t][k]
  BY <1>1, <1>2, SMT
<1>4. stack' = [stack EXCEPT ![t] = r]
  BY DEF Pop
<1> QED BY <1>1, <1>3, <1>4 DEF Stacks

LEMMA Retopped ==
  ASSUME stack \in Stacks, NEW t \in Threads, stack[t] # <<>>, NEW a \in Activation,
         stack' = [stack EXCEPT ![t] = Append(SubSeq(@, 1, Len(@) - 1), a)]
  PROVE  /\ stack' \in Stacks
         /\ Len(stack[t]) \in Nat \ {0} /\ Len(stack'[t]) = Len(stack[t])
         /\ stack'[t][Len(stack[t])] = a
         /\ \A k \in 1..(Len(stack[t]) - 1) : stack'[t][k] = stack[t][k]
         /\ \A u \in Threads : u # t => stack'[u] = stack[u]
<1>1. stack[t] \in Seq(Activation) /\ Len(stack[t]) \in Nat \ {0}
  BY EmptySeq DEF Stacks
<1> DEFINE r == SubSeq(stack[t], 1, Len(stack[t]) - 1)
<1>2. \A k \in 1..(Len(stack[t]) - 1) : stack[t][k] \in Activation
  BY <1>1, ElementOfSeq
<1>3. r \in Seq(Activation) /\ Len(r) = Len(stack[t]) - 1
      /\ \A k \in 1..(Len(stack[t]) - 1) : r[k] = stack[t][k]
  BY <1>1, <1>2, SMT
<1>4. /\ Append(r, a) \in Seq(Activation)
      /\ Len(Append(r, a)) = Len(r) + 1
      /\ Append(r, a)[Len(r) + 1] = a
      /\ \A k \in 1..Len(r) : Append(r, a)[k] = r[k]
  <2> HIDE DEF r
  <2> QED BY <1>3, AppendProperties
<1>5. stack' = [stack EXCEPT ![t] = Append(r, a)]
  OBVIOUS
<1> HIDE DEF r
<1> QED BY <1>1, <1>3, <1>4, <1>5 DEF Stacks

(* Activation k of thread t is inside line i.                              *)
Job(t, k, i) == k \in 1..Len(stack[t]) /\ IsJob(t, k) /\ stack[t][k].n = i

LEMMA Lengths ==
  ASSUME stack \in Stacks
  PROVE  \A t \in Threads : Len(stack[t]) \in Nat
BY LenProperties DEF Stacks

(* Entering or leaving a drain, and going from rendering to counting,      *)
(* change nobody's line.                                                   *)
LEMMA DrainPushed ==
  ASSUME stack \in Stacks, NEW t \in Threads, NEW n \in Nat, stack' = Push(t, Draining(n))
  PROVE  /\ stack' \in Stacks
         /\ \A u \in Threads, k, i \in Nat : Job(u, k, i)' <=> Job(u, k, i)
<1>1. Draining(n) \in Activation /\ Draining(n).k \notin {"render", "count"}
  BY DEF Draining, Activation
<1>2. Len(stack[t]) \in Nat
  BY Lengths
<1> DEFINE a == Draining(n)
<1> HIDE DEF a
<1>3. /\ stack' \in Stacks /\ Len(stack'[t]) = Len(stack[t]) + 1
      /\ stack'[t][Len(stack[t]) + 1] = a
      /\ \A k \in 1..Len(stack[t]) : stack'[t][k] = stack[t][k]
      /\ \A u \in Threads : u # t => stack'[u] = stack[u]
  BY <1>1, Pushed DEF a
<1>4. ASSUME NEW k \in Nat, NEW i \in Nat PROVE Job(t, k, i)' <=> Job(t, k, i)
  <2>1. CASE k = Len(stack[t]) + 1
    BY <1>1, <1>2, <1>3, <2>1 DEF Job, IsJob, a
  <2>2. CASE k # Len(stack[t]) + 1
    BY <1>2, <1>3, <2>2 DEF Job, IsJob
  <2> QED BY <2>1, <2>2
<1>5. ASSUME NEW u \in Threads, u # t, NEW k \in Nat, NEW i \in Nat
      PROVE  Job(u, k, i)' <=> Job(u, k, i)
  <2>1. stack'[u] = stack[u]
    BY <1>3, <1>5
  <2> QED BY <2>1 DEF Job, IsJob
<1> QED BY <1>3, <1>4, <1>5

LEMMA DrainPopped ==
  ASSUME stack \in Stacks, NEW t \in Threads, In(t, "drain"), stack' = Pop(t)
  PROVE  /\ stack' \in Stacks
         /\ \A u \in Threads, k, i \in Nat : Job(u, k, i)' <=> Job(u, k, i)
<1>1. stack[t] # <<>> /\ stack[t][Len(stack[t])].k = "drain"
  BY DEF In, Top
<1>2. /\ stack' \in Stacks
      /\ Len(stack[t]) \in Nat \ {0} /\ Len(stack'[t]) = Len(stack[t]) - 1
      /\ \A k \in 1..(Len(stack[t]) - 1) : stack'[t][k] = stack[t][k]
      /\ \A u \in Threads : u # t => stack'[u] = stack[u]
  BY <1>1, Popped
<1>3. ASSUME NEW k \in Nat, NEW i \in Nat PROVE Job(t, k, i)' <=> Job(t, k, i)
  <2>1. CASE k = Len(stack[t])
    BY <1>1, <1>2, <2>1 DEF Job, IsJob
  <2>2. CASE k # Len(stack[t])
    BY <1>2, <2>2 DEF Job, IsJob
  <2> QED BY <2>1, <2>2
<1>4. ASSUME NEW u \in Threads, u # t, NEW k \in Nat, NEW i \in Nat
      PROVE  Job(u, k, i)' <=> Job(u, k, i)
  <2>1. stack'[u] = stack[u]
    BY <1>2, <1>4
  <2> QED BY <2>1 DEF Job, IsJob
<1> QED BY <1>2, <1>3, <1>4

LEMMA JobRetopped ==
  ASSUME stack \in Stacks, NEW t \in Threads, In(t, "render"),
         stack' = [stack EXCEPT ![t] = Append(SubSeq(@, 1, Len(@) - 1), Counting(Top(t).n))]
  PROVE  /\ stack' \in Stacks
         /\ \A u \in Threads, k, i \in Nat : Job(u, k, i)' <=> Job(u, k, i)
<1>1. stack[t] # <<>>
  BY DEF In
<1>2. Len(stack[t]) \in Nat \ {0} /\ stack[t][Len(stack[t])] \in Activation
  BY <1>1, EmptySeq, ElementOfSeq DEF Stacks
<1>3. Counting(Top(t).n) \in Activation
  BY <1>2 DEF Counting, Activation, Top
<1>4. Counting(Top(t).n).k = "count" /\ Counting(Top(t).n).n = stack[t][Len(stack[t])].n
      /\ stack[t][Len(stack[t])].k = "render"
  BY DEF Counting, In, Top
<1> DEFINE a == Counting(Top(t).n)
<1>5. /\ stack' \in Stacks /\ Len(stack'[t]) = Len(stack[t])
      /\ stack'[t][Len(stack[t])] = a
      /\ \A k \in 1..(Len(stack[t]) - 1) : stack'[t][k] = stack[t][k]
      /\ \A u \in Threads : u # t => stack'[u] = stack[u]
  <2> HIDE DEF a
  <2> QED BY <1>1, <1>3, Retopped DEF a
<1>6. \A k, i \in Nat : Job(t, k, i)' <=> Job(t, k, i)
  <2> HIDE DEF a
  <2> SUFFICES ASSUME NEW k \in Nat, NEW i \in Nat PROVE Job(t, k, i)' <=> Job(t, k, i)
    OBVIOUS
  <2>1. CASE k = Len(stack[t])
    BY <2>1, <1>2, <1>4, <1>5 DEF Job, IsJob, a
  <2>2. CASE k # Len(stack[t])
    BY <2>2, <1>2, <1>5 DEF Job, IsJob
  <2> QED BY <2>1, <2>2
<1>7. ASSUME NEW u \in Threads, u # t, NEW k \in Nat, NEW i \in Nat
      PROVE  Job(u, k, i)' <=> Job(u, k, i)
  <2> HIDE DEF a
  <2>1. stack'[u] = stack[u]
    BY <1>5, <1>7
  <2> QED BY <2>1 DEF Job, IsJob
<1> HIDE DEF a
<1> QED BY <1>5, <1>6, <1>7

LEMMA JobPushed ==
  ASSUME stack \in Stacks, NEW t \in Threads, NEW n \in Nat, stack' = Push(t, Rendering(n))
  PROVE  /\ stack' \in Stacks
         /\ \A u \in Threads, k, i \in Nat :
              Job(u, k, i)' <=> Job(u, k, i) \/ (u = t /\ k = Len(stack[t]) + 1 /\ i = n)
<1>1. /\ Rendering(n) \in Activation /\ Rendering(n).k \in {"render", "count"}
      /\ Rendering(n).n = n
  BY DEF Rendering, Activation
<1>2. Len(stack[t]) \in Nat
  BY Lengths
<1> DEFINE a == Rendering(n)
<1>3. /\ stack' \in Stacks /\ Len(stack'[t]) = Len(stack[t]) + 1
      /\ stack'[t][Len(stack[t]) + 1] = a
      /\ \A k \in 1..Len(stack[t]) : stack'[t][k] = stack[t][k]
      /\ \A u \in Threads : u # t => stack'[u] = stack[u]
  <2> HIDE DEF a
  <2> QED BY <1>1, Pushed DEF a
<1>4. \A k, i \in Nat : Job(t, k, i)' <=> Job(t, k, i) \/ (k = Len(stack[t]) + 1 /\ i = n)
  <2> HIDE DEF a
  <2> SUFFICES ASSUME NEW k \in Nat, NEW i \in Nat
               PROVE  Job(t, k, i)' <=> Job(t, k, i) \/ (k = Len(stack[t]) + 1 /\ i = n)
    OBVIOUS
  <2>1. CASE k = Len(stack[t]) + 1
    BY <2>1, <1>1, <1>2, <1>3 DEF Job, IsJob, a
  <2>2. CASE k # Len(stack[t]) + 1
    BY <2>2, <1>2, <1>3 DEF Job, IsJob
  <2> QED BY <2>1, <2>2
<1>5. \A u \in Threads : u # t => \A k, i \in Nat : Job(u, k, i)' <=> Job(u, k, i)
  BY <1>3 DEF Job, IsJob
<1> QED BY <1>3, <1>4, <1>5

LEMMA JobPopped ==
  ASSUME stack \in Stacks, NEW t \in Threads, In(t, "count"), stack' = Pop(t)
  PROVE  /\ stack' \in Stacks
         /\ Len(stack[t]) \in Nat /\ Top(t).n \in Nat
         /\ Job(t, Len(stack[t]), Top(t).n)
         /\ \A u \in Threads, k, i \in Nat :
              Job(u, k, i)' <=> Job(u, k, i) /\ ~(u = t /\ k = Len(stack[t]))
<1>1. stack[t] # <<>>
  BY DEF In
<1>2. Len(stack[t]) \in Nat \ {0} /\ stack[t][Len(stack[t])] \in Activation
  BY <1>1, EmptySeq, ElementOfSeq DEF Stacks
<1>3. Top(t).n \in Nat /\ Job(t, Len(stack[t]), Top(t).n)
  BY <1>2 DEF Activation, Top, In, Job, IsJob
<1>4. /\ stack' \in Stacks /\ Len(stack'[t]) = Len(stack[t]) - 1
      /\ \A k \in 1..(Len(stack[t]) - 1) : stack'[t][k] = stack[t][k]
      /\ \A u \in Threads : u # t => stack'[u] = stack[u]
  BY <1>1, Popped
<1>5. ASSUME NEW k \in Nat, NEW i \in Nat
      PROVE  Job(t, k, i)' <=> Job(t, k, i) /\ k # Len(stack[t])
  <2>1. CASE k = Len(stack[t])
    BY <1>2, <1>4, <2>1 DEF Job, IsJob
  <2>2. CASE k # Len(stack[t])
    BY <1>2, <1>4, <2>2 DEF Job, IsJob
  <2> QED BY <2>1, <2>2
<1>6. ASSUME NEW u \in Threads, u # t, NEW k \in Nat, NEW i \in Nat
      PROVE  Job(u, k, i)' <=> Job(u, k, i)
  <2>1. stack'[u] = stack[u]
    BY <1>4, <1>6
  <2> QED BY <2>1 DEF Job, IsJob
<1> QED BY <1>2, <1>3, <1>4, <1>5, <1>6

LEMMA HeadPushed ==
  ASSUME stack \in Stacks, head \in Nat, BelowHead, head' = head,
         NEW t \in Threads, NEW a \in Activation, a.n <= head, stack' = Push(t, a)
  PROVE  BelowHead'
<1>1. Len(stack[t]) \in Nat
  BY Lengths
<1>2. /\ Len(stack'[t]) = Len(stack[t]) + 1
      /\ stack'[t][Len(stack[t]) + 1] = a
      /\ \A k \in 1..Len(stack[t]) : stack'[t][k] = stack[t][k]
      /\ \A u \in Threads : u # t => stack'[u] = stack[u]
  BY Pushed
<1> SUFFICES ASSUME NEW u \in Threads, NEW k \in 1..Len(stack'[u]) PROVE stack'[u][k].n <= head
  BY DEF BelowHead
<1>3. CASE u # t
  BY <1>2, <1>3 DEF BelowHead
<1>4. CASE u = t /\ k = Len(stack[t]) + 1
  BY <1>2, <1>4
<1>5. CASE u = t /\ k # Len(stack[t]) + 1
  <2>1. k \in 1..Len(stack[t])
    BY <1>1, <1>2, <1>5
  <2> QED BY <2>1, <1>2, <1>5 DEF BelowHead
<1> QED BY <1>3, <1>4, <1>5

LEMMA HeadPopped ==
  ASSUME stack \in Stacks, BelowHead, head' = head,
         NEW t \in Threads, stack[t] # <<>>, stack' = Pop(t)
  PROVE  BelowHead'
<1>1. /\ Len(stack[t]) \in Nat \ {0}
      /\ Len(stack'[t]) = Len(stack[t]) - 1
      /\ \A k \in 1..(Len(stack[t]) - 1) : stack'[t][k] = stack[t][k]
      /\ \A u \in Threads : u # t => stack'[u] = stack[u]
  BY Popped, EmptySeq DEF Stacks
<1> SUFFICES ASSUME NEW u \in Threads, NEW k \in 1..Len(stack'[u]) PROVE stack'[u][k].n <= head
  BY DEF BelowHead
<1>2. CASE u # t
  BY <1>1, <1>2 DEF BelowHead
<1>3. CASE u = t
  <2>1. k \in 1..(Len(stack[t]) - 1) /\ k \in 1..Len(stack[t])
    BY <1>1, <1>3
  <2> QED BY <2>1, <1>1, <1>3 DEF BelowHead
<1> QED BY <1>2, <1>3

LEMMA HeadRetopped ==
  ASSUME stack \in Stacks, BelowHead, head' = head, NEW t \in Threads, In(t, "render"),
         stack' = [stack EXCEPT ![t] = Append(SubSeq(@, 1, Len(@) - 1), Counting(Top(t).n))]
  PROVE  BelowHead'
<1> DEFINE a == Counting(Top(t).n)
<1>1. Len(stack[t]) \in Nat \ {0} /\ stack[t][Len(stack[t])] \in Activation /\ stack[t] # <<>>
  BY EmptySeq, ElementOfSeq DEF Stacks, In
<1>2. a \in Activation /\ a.n = stack[t][Len(stack[t])].n
  BY <1>1 DEF Counting, Activation, Top
<1> HIDE DEF a
<1>3. /\ Len(stack'[t]) = Len(stack[t])
      /\ stack'[t][Len(stack[t])] = a
      /\ \A k \in 1..(Len(stack[t]) - 1) : stack'[t][k] = stack[t][k]
      /\ \A u \in Threads : u # t => stack'[u] = stack[u]
  BY <1>1, <1>2, Retopped DEF a
<1> SUFFICES ASSUME NEW u \in Threads, NEW k \in 1..Len(stack'[u]) PROVE stack'[u][k].n <= head
  BY DEF BelowHead
<1>4. CASE u # t
  BY <1>3, <1>4 DEF BelowHead
<1>5. CASE u = t /\ k = Len(stack[t])
  BY <1>1, <1>2, <1>3, <1>5 DEF BelowHead
<1>6. CASE u = t /\ k # Len(stack[t])
  BY <1>1, <1>3, <1>6 DEF BelowHead
<1> QED BY <1>4, <1>5, <1>6

-----------------------------------------------------------------------------
(* The accounting of claims. *)

LEMMA OnceJob ==
  ASSUME Once, NEW t \in Threads, NEW u \in Threads, NEW k, NEW m, NEW i,
         Job(t, k, i), Job(u, m, i)
  PROVE  t = u /\ k = m
BY DEF Once, Job, IsJob

LEMMA JobNat ==
  ASSUME stack \in Stacks, NEW t \in Threads, NEW k, NEW i, Job(t, k, i)
  PROVE  k \in Nat /\ i \in Nat
<1>1. stack[t] \in Seq(Activation) /\ Len(stack[t]) \in Nat
  BY LenProperties DEF Stacks
<1>2. k \in 1..Len(stack[t]) /\ stack[t][k].n = i
  BY DEF Job
<1>3. stack[t][k] \in Activation
  BY <1>1, <1>2, ElementOfSeq
<1> QED BY <1>1, <1>2, <1>3 DEF Activation

LEMMA OnceNext ==
  ASSUME \A t, u \in Threads : \A k, m, i : Job(t, k, i)' /\ Job(u, m, i)' => t = u /\ k = m
  PROVE  Once'
<1> SUFFICES ASSUME NEW t \in Threads, NEW u \in Threads,
                    NEW k \in 1..Len(stack'[t]), NEW m \in 1..Len(stack'[u]),
                    IsJob(t, k)', IsJob(u, m)', stack'[t][k].n = stack'[u][m].n
             PROVE  t = u /\ k = m
  BY DEF Once
<1>1. PICK i : i = stack'[t][k].n
  OBVIOUS
<1>2. Job(t, k, i)' /\ Job(u, m, i)'
  BY <1>1 DEF Job
<1> QED BY <1>2

LEMMA JobNatNext ==
  ASSUME stack' \in Stacks, NEW t \in Threads, NEW k, NEW i, Job(t, k, i)'
  PROVE  k \in Nat /\ i \in Nat
<1>1. stack'[t] \in Seq(Activation) /\ Len(stack'[t]) \in Nat
  BY LenProperties DEF Stacks
<1>2. k \in 1..Len(stack'[t]) /\ stack'[t][k].n = i
  BY DEF Job
<1>3. stack'[t][k] \in Activation
  BY <1>1, <1>2, ElementOfSeq
<1> QED BY <1>1, <1>2, <1>3 DEF Activation

LEMMA ClaimedFinite ==
  ASSUME claim \in Nat
  PROVE  IsFiniteSet(Claimed) /\ Cardinality(Claimed) \in Nat
<1>1. IsFiniteSet(0..(claim - 1))
  BY FS_Interval
<1>2. Claimed \subseteq 0..(claim - 1)
  BY DEF Claimed
<1>3. IsFiniteSet(Claimed)
  BY <1>1, <1>2, FS_Subset
<1> QED BY <1>3, FS_CardinalityType

(* No activation enters or leaves a line.                                  *)
LEMMA JobsKept ==
  ASSUME ShapeOK, Accounting, claim' = claim, done' = done, head' \in Nat, head <= head',
         stack' \in Stacks,
         \A t \in Threads, k, i \in Nat : Job(t, k, i)' <=> Job(t, k, i)
  PROVE  Accounting'
<1>1. stack \in Stacks
  BY DEF ShapeOK
<1>2. \A t \in Threads : \A k, i : Job(t, k, i) => k \in Nat /\ i \in Nat
  BY <1>1, JobNat
<1>3. \A t \in Threads : \A k, i : Job(t, k, i)' => k \in Nat /\ i \in Nat
  BY JobNatNext
<1>4. \A t \in Threads : \A k, i : Job(t, k, i)' <=> Job(t, k, i)
  BY <1>2, <1>3
<1>5. \A i : Inside(i)' <=> Inside(i)
  <2>1. \A i : Inside(i) <=> \E t \in Threads : \E k : Job(t, k, i)
    BY DEF Inside, Job, IsJob
  <2>2. \A i : Inside(i)' <=> \E t \in Threads : \E k : Job(t, k, i)'
    BY DEF Inside, Job, IsJob
  <2> QED BY <2>1, <2>2, <1>4
<1>6. Claimed' = Claimed
  BY <1>5 DEF Claimed
<1>7. BelowClaim'
  <2>1. BelowClaim' <=> \A t \in Threads : \A k, i : Job(t, k, i)' => i < claim'
    BY DEF BelowClaim, Job, IsJob
  <2>2. BelowClaim <=> \A t \in Threads : \A k, i : Job(t, k, i) => i < claim
    BY DEF BelowClaim, Job, IsJob
  <2> QED BY <2>1, <2>2, <1>4 DEF Accounting
<1>8. Once'
  <2>1. \A t, u \in Threads : \A k, m, i : Job(t, k, i) /\ Job(u, m, i) => t = u /\ k = m
    BY OnceJob DEF Accounting
  <2>2. \A t, u \in Threads : \A k, m, i : Job(t, k, i)' /\ Job(u, m, i)' => t = u /\ k = m
    BY <2>1, <1>4
  <2> QED BY <2>2, OnceNext
<1>9. done' <= claim' /\ claim' <= head' /\ Cardinality(Claimed)' = claim' - done'
  BY <1>6 DEF Accounting, ShapeOK
<1> QED BY <1>7, <1>8, <1>9 DEF Accounting

(* A thread claims the next published line.                                *)
LEMMA JobClaimed ==
  ASSUME ShapeOK, Accounting, claim < head, NEW t \in Threads,
         claim' = claim + 1, done' = done, head' = head,
         stack' = Push(t, Rendering(claim))
  PROVE  Accounting'
<1> DEFINE top == Len(stack[t]) + 1
<1>1. /\ stack \in Stacks /\ stack' \in Stacks /\ claim \in Nat /\ done \in Int
      /\ head \in Nat /\ top \in Nat
      /\ \A u \in Threads, k, i \in Nat :
           Job(u, k, i)' <=> Job(u, k, i) \/ (u = t /\ k = top /\ i = claim)
  BY JobPushed, Lengths DEF ShapeOK
<1>2. \A u \in Threads : \A k, i :
         Job(u, k, i)' <=> Job(u, k, i) \/ (u = t /\ k = top /\ i = claim)
  <2> HIDE DEF top
  <2>1. \A u \in Threads : \A k, i : Job(u, k, i) => k \in Nat /\ i \in Nat
    BY <1>1, JobNat
  <2>2. \A u \in Threads : \A k, i : Job(u, k, i)' => k \in Nat /\ i \in Nat
    BY <1>1, JobNatNext
  <2> QED BY <1>1, <2>1, <2>2
<1> HIDE DEF top
<1>3. \A u \in Threads : \A k, i : Job(u, k, i) => i < claim /\ i # claim
  <2>1. \A u \in Threads : \A k, i : Job(u, k, i) => i < claim
    BY DEF Accounting, BelowClaim, Job
  <2> QED BY <2>1, <1>1, JobNat
<1>4. BelowClaim'
  <2>1. \A u \in Threads : \A k, i : Job(u, k, i)' => i < claim'
    BY <1>1, <1>2, <1>3, JobNat
  <2>2. \A u \in Threads : \A k \in 1..Len(stack'[u]) :
           IsJob(u, k)' => Job(u, k, stack[u][k].n)'
    BY DEF Job
  <2> QED BY <2>1, <2>2 DEF BelowClaim, Job
<1>5. Once'
  <2>1. \A u, v \in Threads : \A k, m, i : Job(u, k, i) /\ Job(v, m, i) => u = v /\ k = m
    BY OnceJob DEF Accounting
  <2>2. \A u, v \in Threads : \A k, m, i : Job(u, k, i)' /\ Job(v, m, i)' => u = v /\ k = m
    BY <2>1, <1>2, <1>3
  <2> QED BY <2>2, OnceNext
<1>6. \A i : Inside(i)' <=> Inside(i) \/ i = claim
  <2>1. \A i : Inside(i) <=> \E u \in Threads : \E k : Job(u, k, i)
    BY DEF Inside, Job, IsJob
  <2>2. \A i : Inside(i)' <=> \E u \in Threads : \E k : Job(u, k, i)'
    BY DEF Inside, Job, IsJob
  <2> QED BY <2>1, <2>2, <1>2
<1>7. Claimed' = Claimed \cup {claim} /\ claim \notin Claimed
  BY <1>1, <1>6 DEF Claimed
<1>8. Cardinality(Claimed)' = Cardinality(Claimed) + 1
  BY <1>1, <1>7, ClaimedFinite, FS_AddElement
<1> QED BY <1>1, <1>4, <1>5, <1>8 DEF Accounting

(* A thread counts the line it has rendered.                               *)
LEMMA JobCounted ==
  ASSUME ShapeOK, Accounting, NEW t \in Threads, In(t, "count"),
         claim' = claim, done' = done + 1, head' = head, stack' = Pop(t)
  PROVE  Accounting'
<1> DEFINE top == Len(stack[t])  n == Top(t).n
<1>1. /\ stack \in Stacks /\ stack' \in Stacks /\ claim \in Nat /\ done \in Int
      /\ head \in Nat /\ top \in Nat /\ n \in Nat /\ Job(t, top, n)
      /\ \A u \in Threads, k, i \in Nat :
           Job(u, k, i)' <=> Job(u, k, i) /\ ~(u = t /\ k = top)
  BY JobPopped DEF ShapeOK
<1> HIDE DEF top, n
<1>2. \A u \in Threads : \A k, i :
         Job(u, k, i)' <=> Job(u, k, i) /\ ~(u = t /\ k = top)
  <2>1. \A u \in Threads : \A k, i : Job(u, k, i) => k \in Nat /\ i \in Nat
    BY <1>1, JobNat
  <2>2. \A u \in Threads : \A k, i : Job(u, k, i)' => k \in Nat /\ i \in Nat
    BY <1>1, JobNatNext
  <2> QED BY <1>1, <2>1, <2>2
<1>3. \A u, v \in Threads : \A k, m, i : Job(u, k, i) /\ Job(v, m, i) => u = v /\ k = m
  BY OnceJob DEF Accounting
<1>4. \A u \in Threads : \A k, i : Job(u, k, i) => i < claim
  BY DEF Accounting, BelowClaim, Job
<1>5. BelowClaim'
  <2>1. \A u \in Threads : \A k, i : Job(u, k, i)' => i < claim'
    BY <1>2, <1>4
  <2>2. \A u \in Threads : \A k \in 1..Len(stack'[u]) :
           IsJob(u, k)' => Job(u, k, stack[u][k].n)'
    BY DEF Job
  <2> QED BY <2>1, <2>2 DEF BelowClaim, Job
<1>6. Once'
  BY <1>2, <1>3, OnceNext
<1>7. \A i : Inside(i)' <=> Inside(i) /\ i # n
  <2>1. \A i : Inside(i) <=> \E u \in Threads : \E k : Job(u, k, i)
    BY DEF Inside, Job, IsJob
  <2>2. \A i : Inside(i)' <=> \E u \in Threads : \E k : Job(u, k, i)'
    BY DEF Inside, Job, IsJob
  <2>3. \A u \in Threads : \A k, i : Job(u, k, i) => (i # n <=> ~(u = t /\ k = top))
    BY <1>1, <1>3 DEF Job
  <2> QED BY <2>1, <2>2, <2>3, <1>2
<1>8. Claimed' = Claimed \ {n} /\ n \in Claimed
  <2>1. n \in 0..(claim - 1) /\ Inside(n)
    BY <1>1, <1>4 DEF Inside, Job, IsJob
  <2> QED BY <1>1, <1>7, <2>1 DEF Claimed
<1>9. Cardinality(Claimed)' = Cardinality(Claimed) - 1
  BY <1>1, <1>8, ClaimedFinite, FS_RemoveElement
<1>10. done < claim
  <2>1. Cardinality(Claimed) \in Nat \ {0}
    BY <1>1, <1>8, ClaimedFinite, FS_EmptySet
  <2> QED BY <1>1, <2>1 DEF Accounting
<1> QED BY <1>1, <1>5, <1>6, <1>9, <1>10, ClaimedFinite DEF Accounting

-----------------------------------------------------------------------------
(* The claims invariant. *)

LEMMA SchedThread == Sched \in Threads
BY DEF Threads

LEMMA EmptyCard ==
  ASSUME NEW S, S = {}
  PROVE  Cardinality(S) = 0
BY FS_EmptySet

LEMMA InitIInv == Init => IInv
<1> SUFFICES ASSUME Init PROVE IInv
  OBVIOUS
<1>1. <<>> \in Seq(Activation) /\ Len(<<>>) = 0
  BY EmptySeq
<1>2. ShapeOK
  <2>1. stack \in Stacks
    BY <1>1 DEF Init, Stacks
  <2>2. jobs = [s \in 0..(kJobSlots - 1) |-> NoJob]
    BY DEF Init
  <2> QED BY <2>1, <2>2 DEF ShapeOK, Init, NoJob
<1>3. \A t \in Threads : 1..Len(stack[t]) = {}
  BY <1>1 DEF Init
<1>4. Claimed = {}
  BY <1>3 DEF Claimed, Inside, Init
<1>5. Accounting
  BY <1>3, <1>4, EmptyCard DEF Accounting, BelowClaim, Once, Init
<1>6. FrameInv
  BY <1>3, RenderPoolAssumption DEF FrameInv, Init
<1>7. DrainInv
  BY SchedThread DEF DrainInv, Init
<1>8. BelowHead
  BY <1>3 DEF BelowHead
<1> QED BY <1>2, <1>5, <1>6, <1>7, <1>8 DEF IInv

(* With every line counted no thread is inside one.                        *)
LEMMA AllCounted ==
  ASSUME ShapeOK, Accounting, done >= head
  PROVE  /\ done = head /\ claim = head
         /\ \A t \in Threads : \A k \in 1..Len(stack[t]) : ~IsJob(t, k)
<1>1. claim \in Nat /\ done \in Int /\ head \in Nat /\ claim <= head
      /\ Cardinality(Claimed) = claim - done /\ stack \in Stacks
  BY DEF ShapeOK, Accounting
<1>2. IsFiniteSet(Claimed) /\ Cardinality(Claimed) \in Nat
  BY <1>1, ClaimedFinite
<1>3. done = head /\ claim = head /\ Cardinality(Claimed) = 0
  BY <1>1, <1>2
<1>4. Claimed = {}
  BY <1>2, <1>3, FS_EmptySet
<1>5. ASSUME NEW t \in Threads, NEW k \in 1..Len(stack[t]), IsJob(t, k)
      PROVE  FALSE
  <2>1. PICK i : i = stack[t][k].n
    OBVIOUS
  <2>2. Job(t, k, i)
    BY <1>5, <2>1 DEF Job
  <2>3. i \in Nat /\ i < claim
    BY <1>1, <1>5, <2>1, <2>2, JobNat DEF Accounting, BelowClaim
  <2>4. Inside(i)
    BY <1>5, <2>1 DEF Inside, IsJob
  <2> QED BY <1>1, <1>4, <2>3, <2>4 DEF Claimed
<1> QED BY <1>3, <1>5

(* The frame's lines stay in their slots when a step publishes nothing,    *)
(* keeps every slot's index and lets a thread enter only the next line.    *)
LEMMA FrameKept ==
  ASSUME ShapeOK, FrameInv, head' = head, y' = y, claim' \in Nat, claim <= claim',
         stack' \in Stacks,
         \A t \in Threads, k, i \in Nat : Job(t, k, i)' => Job(t, k, i) \/ i = claim,
         \A s \in 0..(kJobSlots - 1) : jobs'[s].index = jobs[s].index,
         op'.k \in {"latch", "publish"} => y < FrameLines,
         op'.k = "publish" => op.k = "publish"
  PROVE  FrameInv'
<1>1. head \in Nat /\ claim \in Nat /\ y \in Nat /\ stack \in Stacks
  BY DEF ShapeOK
<1>2. \A i \in Nat : jobs'[Slot(i)].index = jobs[Slot(i)].index
  BY SlotInRing
<1>3. \A i \in (head' - y')..(head' - 1) : jobs'[Slot(i)].index = i
  BY <1>1, <1>2 DEF FrameInv
<1>4. op'.k = "publish" => jobs'[Slot(head')].index = head'
  BY <1>1, <1>2 DEF FrameInv
<1>5. ASSUME NEW t \in Threads, NEW k \in 1..Len(stack'[t]), IsJob(t, k)'
      PROVE  head' - y' <= stack'[t][k].n
  <2>1. PICK i : i = stack'[t][k].n
    OBVIOUS
  <2>2. Job(t, k, i)'
    BY <1>5, <2>1 DEF Job
  <2>3. k \in Nat /\ i \in Nat
    BY <2>2, JobNatNext
  <2>4. CASE i = claim
    BY <2>1, <2>4, <1>1 DEF FrameInv
  <2>5. CASE Job(t, k, i)
    BY <2>1, <2>5 DEF FrameInv, Job
  <2> QED BY <2>2, <2>3, <2>4, <2>5
<1>6. Slot(head)' = Slot(head) /\ head' - y' <= claim'
  BY <1>1 DEF FrameInv, Slot
<1> QED BY <1>1, <1>3, <1>4, <1>5, <1>6 DEF FrameInv, Slot

(* An operation of the scheduler thread that starts with a fence.          *)
LEMMA ThenStep ==
  ASSUME IInv, stack[Sched] = <<>>, NEW c, NEW o, Then(c, o), UNCHANGED <<ring, y>>,
         o.k \in {"latch", "publish"} => y < FrameLines,
         o.k # "publish", o.k = "frame" => c
  PROVE  IInv'
<1>1. /\ ShapeOK /\ Accounting /\ FrameInv /\ DrainInv /\ op' = o /\ Sched \in Threads
      /\ stack \in Stacks /\ head \in Nat /\ claim \in Nat
      /\ head' = head /\ claim' = claim /\ done' = done /\ jobs' = jobs /\ y' = y
  BY SchedThread DEF IInv, Then, ring, ShapeOK
<1>2. /\ stack' \in Stacks
      /\ \A t \in Threads, k, i \in Nat : Job(t, k, i)' <=> Job(t, k, i)
  <2>1. CASE c
    BY <2>1, <1>1, DrainPushed DEF Then
  <2>2. CASE ~c
    BY <2>2, <1>1 DEF Then, Job, IsJob
  <2> QED BY <2>1, <2>2
<1>3. ShapeOK'
  BY <1>1, <1>2 DEF ShapeOK
<1>4. Accounting'
  <2>1. /\ ShapeOK /\ Accounting /\ claim' = claim /\ done' = done
        /\ head' \in Nat /\ head <= head'
    BY <1>1
  <2>2. /\ stack' \in Stacks
        /\ \A t \in Threads, k, i \in Nat : Job(t, k, i)' <=> Job(t, k, i)
    BY <1>2
  <2> QED BY <2>1, <2>2, JobsKept, Zenon
<1>5. FrameInv'
  BY <1>1, <1>2, FrameKept
<1>6. DrainInv'
  <2>1. CASE c
    <3>1. stack' = Push(Sched, Draining(head)) /\ Draining(head) \in Activation
      BY <2>1, <1>1 DEF Then, Draining, Activation
    <3>2. Len(stack[Sched]) = 0
      BY EmptySeq
    <3>3. stack'[Sched][1] = Draining(head) /\ Len(stack'[Sched]) = 1
      <4>1. Len(stack'[Sched]) = Len(stack[Sched]) + 1
            /\ stack'[Sched][Len(stack[Sched]) + 1] = Draining(head)
        BY <3>1, <1>1, Pushed
      <4> QED BY <3>2, <4>1
    <3>4. stack'[Sched] # <<>>
      BY <3>3, EmptySeq
    <3> QED BY <3>3, <3>4, <1>1 DEF DrainInv, Draining
  <2>2. CASE ~c
    BY <2>2, <1>1 DEF DrainInv, Then
  <2> QED BY <2>1, <2>2
<1>7. BelowHead'
  <2>1. CASE c
    <3>1. Draining(head) \in Activation /\ Draining(head).n = head
      BY <1>1 DEF Draining, Activation
    <3> QED BY <2>1, <3>1, <1>1, HeadPushed DEF Then, IInv
  <2>2. CASE ~c
    BY <2>2, <1>1 DEF Then, BelowHead, IInv
  <2> QED BY <2>1, <2>2
<1> QED BY <1>3, <1>4, <1>5, <1>6, <1>7 DEF IInv

(* The second half of an operation, with no drain running.                 *)
LEMMA OpStep ==
  ASSUME IInv, UNCHANGED <<ring, y, stack>>, op'.k \notin {"latch", "publish", "frame"}
  PROVE  IInv'
<1>1. /\ ShapeOK /\ Accounting /\ FrameInv /\ DrainInv /\ stack \in Stacks
      /\ head \in Nat /\ claim \in Nat
      /\ head' = head /\ claim' = claim /\ done' = done /\ jobs' = jobs /\ y' = y
      /\ stack' = stack
  BY DEF IInv, ring, ShapeOK
<1>2. \A t \in Threads, k, i \in Nat : Job(t, k, i)' <=> Job(t, k, i)
  BY <1>1 DEF Job, IsJob
<1>3. ShapeOK'
  BY <1>1 DEF ShapeOK
<1>4. Accounting'
  BY <1>1, <1>2, JobsKept
<1>5. FrameInv'
  BY <1>1, <1>2, FrameKept
<1>6. DrainInv'
  BY <1>1 DEF DrainInv, Draining
<1>7. BelowHead'
  BY <1>1 DEF BelowHead, IInv
<1> QED BY <1>3, <1>4, <1>5, <1>6, <1>7 DEF IInv

(* A step of a thread, which may end the scheduler thread's outermost      *)
(* drain only when every line is done.                                     *)
LEMMA ThreadStep ==
  ASSUME IInv, ShapeOK', Accounting', BelowHead', head' = head, y' = y, claim <= claim', done <= done',
         op' = op,
         \A t \in Threads, k, i \in Nat : Job(t, k, i)' => Job(t, k, i) \/ i = claim,
         \A s \in 0..(kJobSlots - 1) : jobs'[s].index = jobs[s].index,
         stack'[Sched] # <<>> => stack[Sched] # <<>> /\ stack'[Sched][1] = stack[Sched][1],
         stack'[Sched] = <<>> => stack[Sched] = <<>> \/ done = head
  PROVE  IInv'
<1>1. FrameInv'
  BY FrameKept DEF IInv, ShapeOK, FrameInv
<1>2. DrainInv'
  BY DEF IInv, DrainInv, Draining, ShapeOK, Accounting
<1> QED BY <1>1, <1>2 DEF IInv

(* The scheduler thread's outermost activation is a drain to the head.     *)
LEMMA OutermostDrain ==
  ASSUME IInv, In(Sched, "render") \/ In(Sched, "count")
  PROVE  Len(stack[Sched]) > 1
<1>1. stack[Sched] # <<>> /\ stack[Sched] \in Seq(Activation)
  BY SchedThread DEF In, IInv, ShapeOK, Stacks
<1>2. Len(stack[Sched]) \in Nat \ {0}
  BY <1>1, EmptySeq
<1>3. stack[Sched][1].k = "drain"
  BY <1>1 DEF IInv, DrainInv, Draining
<1>4. stack[Sched][Len(stack[Sched])].k # "drain"
  BY DEF In, Top
<1> QED BY <1>2, <1>3, <1>4

LEMMA WithClaim ==
  ASSUME IInv, NEW t \in Threads, t = Sched => stack[Sched] # <<>>, claim < head,
         claim' = claim + 1, stack' = Push(t, Rendering(claim)),
         UNCHANGED <<head, done, jobs, y, op>>
  PROVE  IInv'
<1>1. ShapeOK /\ Accounting /\ stack \in Stacks /\ claim \in Nat /\ head \in Nat /\ done \in Int
  BY DEF IInv, ShapeOK
<1>2. /\ stack' \in Stacks
      /\ \A u \in Threads, k, i \in Nat : Job(u, k, i)' => Job(u, k, i) \/ i = claim
  BY <1>1, JobPushed
<1>3. ShapeOK'
  BY <1>1, <1>2 DEF ShapeOK
<1>4. Accounting'
  BY <1>1, JobClaimed
<1>5. /\ t # Sched => stack'[Sched] = stack[Sched]
      /\ t = Sched => stack'[Sched] # <<>> /\ stack'[Sched][1] = stack[Sched][1]
  <2>1. Rendering(claim) \in Activation
    BY <1>1 DEF Rendering, Activation
  <2>2. /\ Len(stack'[t]) = Len(stack[t]) + 1
        /\ \A k \in 1..Len(stack[t]) : stack'[t][k] = stack[t][k]
        /\ \A u \in Threads : u # t => stack'[u] = stack[u]
    BY <1>1, <2>1, Pushed
  <2>3. t = Sched => Len(stack[Sched]) \in Nat \ {0}
    BY <1>1, EmptySeq DEF Stacks
  <2>4. t = Sched => stack'[Sched] # <<>>
    BY <2>2, <2>3, EmptySeq
  <2> QED BY <2>2, <2>3, <2>4, SchedThread
<1>6. BelowHead'
  <2>1. Rendering(claim) \in Activation /\ Rendering(claim).n <= head
    BY <1>1 DEF Rendering, Activation
  <2> QED BY <2>1, <1>1, HeadPushed DEF IInv
<1>7. /\ claim <= claim' /\ done <= done'
      /\ \A u \in Threads, k, i \in Nat : Job(u, k, i)' => Job(u, k, i) \/ i = claim
      /\ \A s \in 0..(kJobSlots - 1) : jobs'[s].index = jobs[s].index
      /\ stack'[Sched] # <<>> => stack[Sched] # <<>> /\ stack'[Sched][1] = stack[Sched][1]
      /\ stack'[Sched] = <<>> => stack[Sched] = <<>> \/ done = head
  BY <1>1, <1>2, <1>5
<1> QED BY <1>1, <1>3, <1>4, <1>6, <1>7, ThreadStep

LEMMA FenceStep ==
  ASSUME IInv, NEW t \in Threads, RenderFence(t)
  PROVE  IInv'
<1>1. /\ ShapeOK /\ Accounting /\ stack \in Stacks /\ head \in Nat /\ claim \in Nat
      /\ done \in Int /\ stack' = Push(t, Draining(head)) /\ stack[t] # <<>>
      /\ UNCHANGED <<head, claim, done, jobs, y, op>>
  BY DEF IInv, ShapeOK, RenderFence, In, ring
<1>2. /\ stack' \in Stacks
      /\ \A u \in Threads, k, i \in Nat : Job(u, k, i)' <=> Job(u, k, i)
  BY <1>1, DrainPushed
<1>3. ShapeOK'
  BY <1>1, <1>2 DEF ShapeOK
<1>4. Accounting'
  BY <1>1, <1>2, JobsKept
<1>5. /\ t # Sched => stack'[Sched] = stack[Sched]
      /\ t = Sched => stack'[Sched] # <<>> /\ stack'[Sched][1] = stack[Sched][1]
  <2>1. Draining(head) \in Activation
    BY <1>1 DEF Draining, Activation
  <2>2. /\ Len(stack'[t]) = Len(stack[t]) + 1
        /\ \A k \in 1..Len(stack[t]) : stack'[t][k] = stack[t][k]
        /\ \A u \in Threads : u # t => stack'[u] = stack[u]
    BY <1>1, <2>1, Pushed
  <2>3. t = Sched => Len(stack[Sched]) \in Nat \ {0}
    BY <1>1, EmptySeq DEF Stacks
  <2>4. t = Sched => stack'[Sched] # <<>>
    BY <2>2, <2>3, EmptySeq
  <2> QED BY <2>2, <2>3, <2>4, SchedThread
<1>6. BelowHead'
  <2>1. Draining(head) \in Activation /\ Draining(head).n <= head
    BY <1>1 DEF Draining, Activation
  <2> QED BY <2>1, <1>1, HeadPushed DEF IInv
<1>7. /\ claim <= claim' /\ done <= done'
      /\ \A u \in Threads, k, i \in Nat : Job(u, k, i)' => Job(u, k, i) \/ i = claim
      /\ \A s \in 0..(kJobSlots - 1) : jobs'[s].index = jobs[s].index
      /\ stack'[Sched] # <<>> => stack[Sched] # <<>> /\ stack'[Sched][1] = stack[Sched][1]
      /\ stack'[Sched] = <<>> => stack[Sched] = <<>> \/ done = head
  BY <1>1, <1>2, <1>5
<1> QED BY <1>1, <1>3, <1>4, <1>6, <1>7, ThreadStep

LEMMA LineStep ==
  ASSUME IInv, NEW t \in Threads, RenderLine(t)
  PROVE  IInv'
<1>1. /\ ShapeOK /\ Accounting /\ stack \in Stacks /\ head \in Nat /\ claim \in Nat
      /\ done \in Int /\ In(t, "render") /\ stack[t] # <<>>
      /\ stack' = [stack EXCEPT ![t] = Append(SubSeq(@, 1, Len(@) - 1), Counting(Top(t).n))]
      /\ UNCHANGED <<head, claim, done, y, op>>
  BY DEF IInv, ShapeOK, RenderLine, In
<1>2. /\ stack' \in Stacks
      /\ \A u \in Threads, k, i \in Nat : Job(u, k, i)' <=> Job(u, k, i)
  BY <1>1, JobRetopped
<1>3. /\ DOMAIN jobs' = 0..(kJobSlots - 1)
      /\ jobs' = [s \in 0..(kJobSlots - 1) |-> jobs'[s]]
      /\ \A s \in 0..(kJobSlots - 1) :
           /\ jobs'[s].index = jobs[s].index
           /\ jobs'[s] = [line |-> jobs'[s].line, index |-> jobs'[s].index,
                          capture |-> jobs'[s].capture, got |-> jobs'[s].got,
                          expect |-> jobs'[s].expect]
  <2> DEFINE x == Slot(Top(t).n)  l == jobs[x].line
             j == [line |-> l, index |-> jobs[x].index,
                   capture |-> IF l.dst = NoBank THEN jobs[x].capture
                               ELSE IF l.dst \in lcdc THEN l.dst ELSE NoBank,
                   got |-> [b \in ReadSet(l) |-> vram[b]], expect |-> jobs[x].expect]
  <2>1. jobs' = [jobs EXCEPT ![x] = j]
    BY DEF RenderLine
  <2>2. j = [line |-> j.line, index |-> j.index, capture |-> j.capture, got |-> j.got,
             expect |-> j.expect] /\ j.index = jobs[x].index
    OBVIOUS
  <2> HIDE DEF j, x
  <2> QED BY <1>1, <2>1, <2>2 DEF ShapeOK
<1>4. ShapeOK'
  BY <1>1, <1>2, <1>3 DEF ShapeOK
<1>5. Accounting'
  BY <1>1, <1>2, JobsKept
<1>6. /\ t # Sched => stack'[Sched] = stack[Sched]
      /\ t = Sched => stack'[Sched] # <<>> /\ stack'[Sched][1] = stack[Sched][1]
  <2>1. Counting(Top(t).n) \in Activation
    <3>1. stack[t][Len(stack[t])] \in Activation
      BY <1>1, EmptySeq, ElementOfSeq DEF Stacks
    <3> QED BY <3>1 DEF Counting, Activation, Top
  <2>2. /\ Len(stack[t]) \in Nat \ {0} /\ Len(stack'[t]) = Len(stack[t])
        /\ \A k \in 1..(Len(stack[t]) - 1) : stack'[t][k] = stack[t][k]
        /\ \A u \in Threads : u # t => stack'[u] = stack[u]
    BY <1>1, <2>1, Retopped
  <2>3. t = Sched => Len(stack[Sched]) > 1
    BY <1>1, OutermostDrain
  <2>4. t = Sched => stack'[Sched] # <<>>
    BY <2>2, EmptySeq
  <2>5. t = Sched => 1 \in 1..(Len(stack[t]) - 1)
    BY <2>2, <2>3
  <2>6. t = Sched => stack'[Sched][1] = stack[Sched][1]
    BY <2>2, <2>5
  <2>7. t # Sched => stack'[Sched] = stack[Sched]
    BY Zenon, <2>2, SchedThread
  <2> QED BY <2>4, <2>6, <2>7
<1>7. BelowHead'
  BY <1>1, HeadRetopped DEF IInv
<1>8. /\ claim <= claim' /\ done <= done'
      /\ \A u \in Threads, k, i \in Nat : Job(u, k, i)' => Job(u, k, i) \/ i = claim
      /\ \A s \in 0..(kJobSlots - 1) : jobs'[s].index = jobs[s].index
      /\ stack'[Sched] # <<>> => stack[Sched] # <<>> /\ stack'[Sched][1] = stack[Sched][1]
      /\ stack'[Sched] = <<>> => stack[Sched] = <<>> \/ done = head
  <2>1. claim <= claim' /\ done <= done'
    BY <1>1
  <2>2. /\ \A u \in Threads, k, i \in Nat : Job(u, k, i)' => Job(u, k, i) \/ i = claim
        /\ \A s \in 0..(kJobSlots - 1) : jobs'[s].index = jobs[s].index
    BY <1>1, <1>2, <1>3
  <2> QED BY <1>1, <1>6, <2>1, <2>2
<1> QED BY <1>1, <1>4, <1>5, <1>7, <1>8, ThreadStep

LEMMA DoneStep ==
  ASSUME IInv, NEW t \in Threads, RenderDone(t)
  PROVE  IInv'
<1>1. /\ ShapeOK /\ Accounting /\ stack \in Stacks /\ head \in Nat /\ claim \in Nat
      /\ done \in Int /\ In(t, "count") /\ stack[t] # <<>> /\ stack' = Pop(t)
      /\ done' = done + 1 /\ UNCHANGED <<head, claim, jobs, y, op>>
  BY DEF IInv, ShapeOK, RenderDone, In
<1>2. /\ stack' \in Stacks
      /\ \A u \in Threads, k, i \in Nat : Job(u, k, i)' => Job(u, k, i)
  BY <1>1, JobPopped
<1>3. ShapeOK'
  BY <1>1, <1>2 DEF ShapeOK
<1>4. Accounting'
  BY <1>1, JobCounted
<1>5. /\ t # Sched => stack'[Sched] = stack[Sched]
      /\ t = Sched => stack'[Sched] # <<>> /\ stack'[Sched][1] = stack[Sched][1]
  <2>1. /\ Len(stack[t]) \in Nat \ {0} /\ Len(stack'[t]) = Len(stack[t]) - 1
        /\ \A k \in 1..(Len(stack[t]) - 1) : stack'[t][k] = stack[t][k]
        /\ \A u \in Threads : u # t => stack'[u] = stack[u]
    BY <1>1, Popped
  <2>2. t = Sched => Len(stack[Sched]) > 1
    BY <1>1, OutermostDrain
  <2>3. t = Sched => stack'[Sched] # <<>>
    BY <2>1, <2>2, EmptySeq
  <2>4. t = Sched => 1 \in 1..(Len(stack[t]) - 1)
    BY <2>1, <2>2
  <2>5. t = Sched => stack'[Sched][1] = stack[Sched][1]
    BY <2>1, <2>4
  <2>6. t # Sched => stack'[Sched] = stack[Sched]
    BY Zenon, <2>1, SchedThread
  <2> QED BY <2>3, <2>5, <2>6
<1>6. BelowHead'
  BY <1>1, HeadPopped DEF IInv
<1>7. /\ claim <= claim' /\ done <= done'
      /\ \A u \in Threads, k, i \in Nat : Job(u, k, i)' => Job(u, k, i) \/ i = claim
      /\ \A s \in 0..(kJobSlots - 1) : jobs'[s].index = jobs[s].index
      /\ stack'[Sched] # <<>> => stack[Sched] # <<>> /\ stack'[Sched][1] = stack[Sched][1]
      /\ stack'[Sched] = <<>> => stack[Sched] = <<>> \/ done = head
  <2>1. claim <= claim' /\ done <= done'
    BY <1>1
  <2>2. /\ \A u \in Threads, k, i \in Nat : Job(u, k, i)' => Job(u, k, i) \/ i = claim
        /\ \A s \in 0..(kJobSlots - 1) : jobs'[s].index = jobs[s].index
    BY <1>1, <1>2
  <2> QED BY <1>1, <1>5, <2>1, <2>2
<1> QED BY <1>1, <1>3, <1>4, <1>6, <1>7, ThreadStep

LEMMA ReturnStep ==
  ASSUME IInv, NEW t \in Threads, DrainReturn(t)
  PROVE  IInv'
<1>1. /\ ShapeOK /\ Accounting /\ stack \in Stacks /\ head \in Nat /\ claim \in Nat
      /\ done \in Int /\ In(t, "drain") /\ stack[t] # <<>> /\ stack' = Pop(t)
      /\ Drained(Top(t).n) /\ UNCHANGED <<head, claim, done, y, op>>
  BY DEF IInv, ShapeOK, DrainReturn, In
<1>2. /\ stack' \in Stacks
      /\ \A u \in Threads, k, i \in Nat : Job(u, k, i)' <=> Job(u, k, i)
  BY <1>1, DrainPopped
<1>3. /\ DOMAIN jobs' = 0..(kJobSlots - 1)
      /\ jobs' = [s \in 0..(kJobSlots - 1) |-> jobs'[s]]
      /\ \A s \in 0..(kJobSlots - 1) :
           /\ jobs'[s].index = jobs[s].index
           /\ jobs'[s] = [line |-> jobs'[s].line, index |-> jobs'[s].index,
                          capture |-> jobs'[s].capture, got |-> jobs'[s].got,
                          expect |-> jobs'[s].expect]
  <2>1. jobs' = [s \in 0..(kJobSlots - 1) |->
                   IF \E i \in apply_index..(Top(t).n - 1) : Slot(i) = s
                   THEN [jobs[s] EXCEPT !.capture = NoBank] ELSE jobs[s]]
    BY <1>1 DEF DrainReturn, ShapeOK
  <2>2. \A s \in 0..(kJobSlots - 1) :
           [jobs[s] EXCEPT !.capture = NoBank] =
             [line |-> jobs[s].line, index |-> jobs[s].index, capture |-> NoBank,
              got |-> jobs[s].got, expect |-> jobs[s].expect]
    BY <1>1 DEF ShapeOK
  <2>3. ASSUME NEW s \in 0..(kJobSlots - 1)
        PROVE  /\ jobs'[s].index = jobs[s].index
               /\ jobs'[s] = [line |-> jobs'[s].line, index |-> jobs'[s].index,
                              capture |-> jobs'[s].capture, got |-> jobs'[s].got,
                              expect |-> jobs'[s].expect]
    <3>1. CASE jobs'[s] = jobs[s]
      BY <1>1, <3>1 DEF ShapeOK
    <3>2. CASE jobs'[s] = [line |-> jobs[s].line, index |-> jobs[s].index, capture |-> NoBank,
                           got |-> jobs[s].got, expect |-> jobs[s].expect]
      BY <3>2
    <3> QED BY <2>1, <2>2, <3>1, <3>2
  <2> QED BY <2>1, <2>3
<1>4. ShapeOK'
  BY <1>1, <1>2, <1>3 DEF ShapeOK
<1>5. Accounting'
  BY <1>1, <1>2, JobsKept
<1>6. /\ Len(stack[t]) \in Nat \ {0} /\ Len(stack'[t]) = Len(stack[t]) - 1
      /\ \A k \in 1..(Len(stack[t]) - 1) : stack'[t][k] = stack[t][k]
      /\ \A u \in Threads : u # t => stack'[u] = stack[u]
  BY <1>1, Popped
<1>7. /\ stack'[Sched] # <<>> => stack[Sched] # <<>> /\ stack'[Sched][1] = stack[Sched][1]
      /\ stack'[Sched] = <<>> => stack[Sched] = <<>> \/ done = head
  <2>1. CASE t # Sched
    BY <2>1, <1>6, SchedThread
  <2>2. CASE t = Sched /\ Len(stack[t]) > 1
    <3>1. stack'[Sched] # <<>>
      BY <2>2, <1>6, EmptySeq
    <3> QED BY <3>1, <2>2, <1>1, <1>6
  <2>3. CASE t = Sched /\ Len(stack[t]) = 1
    <3>1. Top(t) = Draining(head)
      BY <2>3, <1>1 DEF Top, IInv, DrainInv
    <3>2. done = head
      BY <3>1, <1>1 DEF Drained, Draining, Accounting
    <3>3. stack'[Sched] = <<>>
      BY <2>3, <1>2, <1>6, EmptySeq, SchedThread DEF Stacks
    <3> QED BY <3>2, <3>3
  <2>4. PICK n \in Nat \ {0} : n = Len(stack[t])
    BY <1>6
  <2>5. n > 1 \/ n = 1
    OBVIOUS
  <2>6. Len(stack[t]) > 1 \/ Len(stack[t]) = 1
    BY <2>4, <2>5
  <2> QED BY <2>1, <2>2, <2>3, <2>6
<1>8. BelowHead'
  BY <1>1, HeadPopped DEF IInv
<1> QED BY <1>1, <1>2, <1>3, <1>4, <1>5, <1>7, <1>8, ThreadStep

LEMMA LatchStep ==
  ASSUME IInv, Latch
  PROVE  IInv'
<1> DEFINE c == ReadsStagedBank(op.line)
<1>1. /\ ShapeOK /\ Accounting /\ FrameInv /\ DrainInv /\ stack \in Stacks
      /\ Sched \in Threads /\ head \in Nat /\ claim \in Nat /\ y \in Nat
      /\ stack[Sched] = <<>> /\ y < FrameLines /\ op'.k = "publish"
      /\ stack' = IF c THEN Push(Sched, Draining(head)) ELSE stack
      /\ UNCHANGED <<head, claim, done, y>>
  BY SchedThread DEF IInv, ShapeOK, Latch, At, Then, FrameInv
<1> HIDE DEF c
<1>2. /\ stack' \in Stacks
      /\ \A t \in Threads, k, i \in Nat : Job(t, k, i)' <=> Job(t, k, i)
  <2>1. CASE c
    BY <2>1, <1>1, DrainPushed
  <2>2. CASE ~c
    BY <2>2, <1>1 DEF Job, IsJob
  <2> QED BY <2>1, <2>2
<1> DEFINE x == Slot(head)
           j == [line |-> op.line, index |-> head, capture |-> jobs[x].capture,
                 got |-> <<>>, expect |-> [b \in ReadSet(op.line) |-> ref[b]]]
<1>3. jobs' = [jobs EXCEPT ![x] = j] /\ x \in 0..(kJobSlots - 1)
  BY <1>1, SlotInRing DEF Latch
<1>4. /\ j = [line |-> j.line, index |-> j.index, capture |-> j.capture, got |-> j.got,
              expect |-> j.expect]
      /\ j.index = head
  OBVIOUS
<1>5. \A i \in (head - y)..(head - 1) : Slot(i) # x /\ Slot(i) \in 0..(kJobSlots - 1)
  <2>1. y <= head /\ y < kJobSlots
    BY <1>1, RenderPoolAssumption DEF FrameInv
  <2> SUFFICES ASSUME NEW i \in (head - y)..(head - 1)
               PROVE  Slot(i) # x /\ Slot(i) \in 0..(kJobSlots - 1)
    OBVIOUS
  <2>2. i \in Nat /\ i < head /\ head - i < kJobSlots
    BY <1>1, <2>1, RenderPoolAssumption
  <2> QED BY <2>2, <1>1, SlotsDiffer, SlotInRing
<1> HIDE DEF j, x
<1>6. ShapeOK'
  BY <1>1, <1>2, <1>3, <1>4 DEF ShapeOK
<1>7. Accounting'
  <2>1. /\ ShapeOK /\ Accounting /\ claim' = claim /\ done' = done
        /\ head' \in Nat /\ head <= head'
    BY <1>1
  <2>2. /\ stack' \in Stacks
        /\ \A t \in Threads, k, i \in Nat : Job(t, k, i)' <=> Job(t, k, i)
    BY <1>2
  <2> QED BY <2>1, <2>2, JobsKept, Zenon
<1>8. FrameInv'
  <2>1. \A i \in (head - y)..(head - 1) : jobs'[Slot(i)].index = i
    BY <1>1, <1>3, <1>5 DEF FrameInv, ShapeOK
  <2>2. jobs'[Slot(head)].index = head
    BY <1>1, <1>3, <1>4 DEF ShapeOK, x
  <2>3. ASSUME NEW t \in Threads, NEW k \in 1..Len(stack'[t]), IsJob(t, k)'
        PROVE  head - y <= stack'[t][k].n
    <3>1. PICK i : i = stack'[t][k].n
      OBVIOUS
    <3>2. Job(t, k, i)'
      BY <2>3, <3>1 DEF Job
    <3>3. Job(t, k, i)
      BY <3>2, <1>2, JobNatNext
    <3> QED BY <3>1, <3>3, <1>1 DEF FrameInv, Job
  <2>4. Slot(head)' = Slot(head)
    BY <1>1 DEF Slot
  <2> QED BY <2>1, <2>2, <2>3, <2>4, <1>1 DEF FrameInv, Slot
<1>9. DrainInv'
  <2>1. CASE c
    <3>1. Draining(head) \in Activation /\ Len(stack[Sched]) = 0
      BY <1>1, EmptySeq DEF Draining, Activation
    <3>2. Len(stack'[Sched]) = Len(stack[Sched]) + 1
          /\ stack'[Sched][Len(stack[Sched]) + 1] = Draining(head)
      BY <2>1, <3>1, <1>1, Pushed
    <3>3. stack'[Sched][1] = Draining(head)
      BY <3>1, <3>2
    <3> QED BY <3>3, <1>1 DEF DrainInv, Draining
  <2>2. CASE ~c
    BY <2>2, <1>1 DEF DrainInv
  <2> QED BY <2>1, <2>2
<1>10. BelowHead'
  <2>1. CASE c
    <3>1. Draining(head) \in Activation /\ Draining(head).n <= head
      BY <1>1 DEF Draining, Activation
    <3> QED BY <2>1, <3>1, <1>1, HeadPushed DEF IInv
  <2>2. CASE ~c
    BY <2>2, <1>1 DEF BelowHead, IInv
  <2> QED BY <2>1, <2>2
<1> QED BY <1>6, <1>7, <1>8, <1>9, <1>10 DEF IInv

LEMMA PublishStep ==
  ASSUME IInv, Publish
  PROVE  IInv'
<1>1. /\ ShapeOK /\ Accounting /\ FrameInv /\ DrainInv /\ stack \in Stacks
      /\ Sched \in Threads /\ head \in Nat /\ claim \in Nat /\ y \in Nat
      /\ stack[Sched] = <<>> /\ y < FrameLines /\ op.k = "publish"
      /\ head' = head + 1 /\ y' = y + 1 /\ op'.k \in {"idle", "flag"}
      /\ UNCHANGED <<claim, done, jobs, stack>>
  BY SchedThread DEF IInv, ShapeOK, Publish, At, FrameInv, Idle
<1>2. \A t \in Threads, k, i \in Nat : Job(t, k, i)' <=> Job(t, k, i)
  BY <1>1 DEF Job, IsJob
<1>3. ShapeOK'
  BY <1>1 DEF ShapeOK
<1>4. Accounting'
  BY <1>1, <1>2, JobsKept
<1>5. FrameInv'
  <2>1. \A i \in (head' - y')..(head' - 1) : jobs'[Slot(i)].index = i
    <3>1. PICK h \in Nat, r \in Nat : h = head' /\ r = y'
      BY <1>1
    <3>2. h - r = head - y /\ h - 1 = head
      BY <3>1, <1>1
    <3>3. \A i \in (head - y)..head : jobs[Slot(i)].index = i
      <4> SUFFICES ASSUME NEW i \in (head - y)..head PROVE jobs[Slot(i)].index = i
        OBVIOUS
      <4>1. i = head \/ i \in (head - y)..(head - 1)
        BY <1>1
      <4> QED BY <4>1, <1>1 DEF FrameInv
    <3> QED BY <3>1, <3>2, <3>3, <1>1
  <2>2. head' - y' = head - y /\ y' <= head' /\ y' <= FrameLines
    <3>1. FrameLines \in Nat
      BY RenderPoolAssumption
    <3> QED BY <3>1, <1>1 DEF FrameInv
  <2>3. head' - y' <= claim' /\ head' - y' \in Int
    BY <2>2, <1>1 DEF FrameInv
  <2>4. \A t \in Threads : \A k \in 1..Len(stack'[t]) :
          IsJob(t, k)' => head' - y' <= stack'[t][k].n
    BY <2>2, <1>1 DEF FrameInv, IsJob
  <2>5. op'.k \notin {"latch", "publish"}
    BY <1>1
  <2>6. \A i \in (head' - y')..(head' - 1) : jobs'[Slot(i)'].index = i
    BY <2>1 DEF Slot
  <2> QED BY <2>2, <2>3, <2>4, <2>5, <2>6 DEF FrameInv
<1>6. DrainInv'
  BY <1>1 DEF DrainInv
<1>7. BelowHead'
  <2> SUFFICES ASSUME NEW t \in Threads, NEW k \in 1..Len(stack[t])
               PROVE  stack[t][k].n <= head + 1
    BY <1>1 DEF BelowHead
  <2>1. stack[t] \in Seq(Activation) /\ Len(stack[t]) \in Nat
    BY <1>1, LenProperties DEF Stacks
  <2>2. stack[t][k] \in Activation /\ stack[t][k].n <= head
    BY <2>1, ElementOfSeq DEF IInv, BelowHead
  <2> QED BY <2>2, <1>1 DEF Activation
<1> QED BY <1>3, <1>4, <1>5, <1>6, <1>7 DEF IInv

(* A new frame starts when every line of the last one is done.             *)
LEMMA FrameStep ==
  ASSUME IInv, DoFrame
  PROVE  IInv'
<1>1. /\ ShapeOK /\ Accounting /\ FrameInv /\ DrainInv /\ stack \in Stacks
      /\ Sched \in Threads /\ head \in Nat /\ claim \in Nat /\ y \in Nat
      /\ stack[Sched] = <<>> /\ done = head /\ y' = 0 /\ op'.k = "idle"
      /\ UNCHANGED <<head, claim, done, jobs, stack>>
  BY SchedThread DEF IInv, ShapeOK, DoFrame, At, DrainInv, Idle, ring
<1>2. \A t \in Threads, k, i \in Nat : Job(t, k, i)' <=> Job(t, k, i)
  BY <1>1 DEF Job, IsJob
<1>3. claim = head /\ \A t \in Threads : \A k \in 1..Len(stack[t]) : ~IsJob(t, k)
  BY <1>1, AllCounted DEF ShapeOK
<1>4. ShapeOK'
  BY <1>1 DEF ShapeOK
<1>5. Accounting'
  BY <1>1, <1>2, JobsKept
<1>6. FrameInv'
  <2>1. \A i \in (head' - y')..(head' - 1) : jobs'[Slot(i)].index = i
    BY <1>1
  <2> QED BY <2>1, <1>1, <1>3, RenderPoolAssumption DEF FrameInv, IsJob, Slot
<1>7. DrainInv'
  BY <1>1 DEF DrainInv
<1>8. BelowHead'
  BY <1>1 DEF BelowHead, IInv
<1> QED BY <1>4, <1>5, <1>6, <1>7, <1>8 DEF IInv

LEMMA NextIInv == IInv /\ [Next]_vars => IInv'
<1> SUFFICES ASSUME IInv, [Next]_vars PROVE IInv'
  OBVIOUS
<1>1. CASE \E l \in LineKinds : Submit(l)
  BY <1>1, ThenStep DEF Submit, At
<1>2. CASE Latch
  BY <1>2, LatchStep
<1>3. CASE Publish
  BY <1>3, PublishStep
<1>4. CASE Flag
  BY <1>4, OpStep DEF Flag, Idle
<1>5. CASE \E b \in Banks : GuestStore(b)
  BY <1>5, ThenStep DEF GuestStore, At
<1>6. CASE \E b \in Banks : Remap(b)
  BY <1>6, ThenStep DEF Remap, At
<1>7. CASE DoStore
  BY <1>7, OpStep DEF DoStore, Idle
<1>8. CASE DoRemap
  BY <1>8, OpStep DEF DoRemap, Idle
<1>9. CASE GuestRead
  BY <1>9, ThenStep DEF GuestRead, At, Idle
<1>10. CASE FrameBoundary
  BY <1>10, ThenStep DEF FrameBoundary, At
<1>11. CASE DoFrame
  BY <1>11, FrameStep
<1>12. CASE StopPool
  BY <1>12, ThenStep DEF StopPool, At
<1>13. CASE Joined
  BY <1>13, OpStep DEF Joined
<1>14. ASSUME NEW t \in Threads, DrainHelp(t) PROVE IInv'
  <2>1. claim < head
    <3>1. /\ stack[t] # <<>> /\ stack[t] \in Seq(Activation) /\ claim < Top(t).n
          /\ claim \in Nat /\ head \in Nat
      BY <1>14 DEF DrainHelp, In, IInv, ShapeOK, Stacks
    <3>2. Len(stack[t]) \in Nat \ {0}
      BY <3>1, EmptySeq
    <3>3. Top(t) \in Activation /\ Top(t).n <= head
      BY <3>1, <3>2, ElementOfSeq DEF Top, IInv, BelowHead
    <3> QED BY <3>1, <3>3 DEF Activation
  <2> QED BY <1>14, <2>1, WithClaim DEF DrainHelp, In
<1>15. CASE \E t \in Threads : DrainReturn(t)
  BY <1>15, ReturnStep
<1>16. CASE \E t \in Threads : RenderFence(t)
  BY <1>16, FenceStep
<1>17. CASE \E t \in Threads : RenderLine(t)
  BY <1>17, LineStep
<1>18. CASE \E t \in Threads : RenderDone(t)
  BY <1>18, DoneStep
<1>19. ASSUME NEW w \in Workers, WorkerClaim(w) PROVE IInv'
  <2>1. w \in Threads /\ w # Sched
    BY RenderPoolAssumption DEF Threads
  <2> QED BY <1>19, <2>1, WithClaim DEF WorkerClaim
<1>20. CASE Stopped \/ UNCHANGED vars
  <2>1. UNCHANGED <<ring, y, stack, op>>
    BY <1>20 DEF Stopped, vars
  <2>2. /\ ShapeOK' <=> ShapeOK
        /\ Accounting' <=> Accounting
    BY <2>1 DEF ShapeOK, Accounting, BelowClaim, Once, Claimed, Inside, IsJob, Stacks, ring
  <2>3. /\ FrameInv' <=> FrameInv
        /\ DrainInv' <=> DrainInv
        /\ BelowHead' <=> BelowHead
    BY <2>1 DEF FrameInv, DrainInv, BelowHead, IsJob, ring, Draining, Slot
  <2> QED BY <2>2, <2>3 DEF IInv
<1> QED
  BY <1>1, <1>2, <1>3, <1>4, <1>5, <1>6, <1>7, <1>8, <1>9, <1>10, <1>11, <1>12, <1>13,
     <1>14, <1>15, <1>16, <1>17, <1>18, <1>19, <1>20 DEF Next, Scheduler, Thread

(* The counters of the pool account for its threads, and the slot of a     *)
(* line some thread is inside still holds that line (worker_main,          *)
(* drain_pool, submit_line): for every number of workers and ring size.    *)
THEOREM ClaimsCounted == Spec => []ClaimsAccounted
<1>1. IInv => ClaimsAccounted
  <2> SUFFICES ASSUME IInv PROVE ClaimsAccounted
    OBVIOUS
  <2>1. ASSUME NEW i \in 0..(head - 1), Inside(i)
        PROVE  jobs[Slot(i)].index = i
    <3>1. head - y <= i
      BY <2>1 DEF Inside, IInv, FrameInv, IsJob
    <3>2. i \in (head - y)..(head - 1)
      BY <3>1 DEF IInv, ShapeOK
    <3> QED BY <3>2 DEF IInv, FrameInv
  <2> QED BY <2>1 DEF ClaimsAccounted, IInv, Accounting, Claimed
<1> QED BY <1>1, InitIInv, NextIInv, PTL DEF Spec

-----------------------------------------------------------------------------
(* The pool without VRAM-display lines. *)

LEMMA InitSInv == Init => SInv
<1> SUFFICES ASSUME Init PROVE SInv
  OBVIOUS
<1>1. \A t \in Threads : 1..Len(stack[t]) = {}
  BY EmptySeq DEF Init
<1> QED BY <1>1 DEF Init, SInv, BgInv, Drains, Quiet, NoJob

LEMMA PushNonEmpty ==
  ASSUME stack \in Stacks, NEW t \in Threads, NEW a \in Activation, stack' = Push(t, a)
  PROVE  stack'[t] # <<>> /\ \A u \in Threads : u # t => stack'[u] = stack[u]
<1>1. /\ Len(stack'[t]) = Len(stack[t]) + 1 /\ Len(stack[t]) \in Nat
      /\ \A u \in Threads : u # t => stack'[u] = stack[u]
  BY Pushed, Lengths
<1> QED BY <1>1, EmptySeq

(* A drain that returns was the scheduler thread's, and everything is done.*)
LEMMA OnlyReturn ==
  ASSUME IInv, SInv, NEW t \in Threads, DrainReturn(t)
  PROVE  /\ t = Sched /\ Len(stack[Sched]) = 1 /\ stack'[Sched] = <<>>
         /\ Top(t).n = head /\ done = head /\ claim = head
<1>1. /\ stack[t] # <<>> /\ stack \in Stacks /\ Top(t).k = "drain" /\ Drained(Top(t).n)
      /\ stack' = Pop(t) /\ claim \in Nat /\ head \in Nat /\ done \in Int
  BY DEF DrainReturn, In, IInv, ShapeOK
<1>2. Len(stack[t]) \in Nat \ {0}
  BY <1>1, EmptySeq DEF Stacks
<1>3. t = Sched /\ Len(stack[t]) = 1
  <2>1. PICK k \in 1..Len(stack[t]) : k = Len(stack[t])
    BY <1>2
  <2>2. stack[t][k].k = "drain"
    BY <1>1, <2>1 DEF Top
  <2> QED BY <2>1, <2>2 DEF SInv, Drains
<1>4. Top(t) = Draining(head)
  BY <1>1, <1>3 DEF Top, IInv, DrainInv
<1>5. done = head /\ claim = head /\ Top(t).n = head
  BY <1>1, <1>4 DEF Draining, Drained, IInv, Accounting
<1>6. stack'[Sched] \in Seq(Activation) /\ Len(stack'[Sched]) = 0
  BY <1>1, <1>3, Popped DEF Stacks
<1> QED BY <1>3, <1>5, <1>6, EmptySeq

LEMMA NoFence ==
  ASSUME IInv, SInv, NEW t \in Threads, RenderFence(t)
  PROVE  FALSE
<1>1. stack[t] # <<>> /\ stack[t] \in Seq(Activation) /\ jobs[Slot(Top(t).n)].line.mode = "vram"
  BY DEF RenderFence, FencesItself, In, IInv, ShapeOK, Stacks
<1>2. Top(t) \in Activation
  BY <1>1, EmptySeq, ElementOfSeq DEF Top
<1>3. Slot(Top(t).n) \in 0..(kJobSlots - 1)
  BY <1>2, SlotInRing DEF Activation
<1> QED BY <1>1, <1>3 DEF SInv, BgInv

(* Only the return of its outermost drain empties the scheduler's stack.   *)
LEMMA Emptied ==
  ASSUME IInv, SInv, NEW t \in Threads,
         DrainHelp(t) \/ WorkerClaim(t) \/ RenderLine(t) \/ RenderDone(t),
         stack'[Sched] = <<>>
  PROVE  stack[Sched] = <<>>
<1>1. stack \in Stacks /\ claim \in Nat /\ Sched \in Threads
  BY SchedThread DEF IInv, ShapeOK
<1>2. CASE DrainHelp(t) \/ WorkerClaim(t)
  <2>1. stack' = Push(t, Rendering(claim)) /\ Rendering(claim) \in Activation
    BY <1>1, <1>2 DEF DrainHelp, WorkerClaim, Rendering, Activation
  <2> QED BY <2>1, <1>1, PushNonEmpty
<1>3. CASE RenderLine(t)
  <2>1. /\ stack[t] # <<>>
        /\ stack' = [stack EXCEPT ![t] = Append(SubSeq(@, 1, Len(@) - 1), Counting(Top(t).n))]
    BY <1>3 DEF RenderLine, In
  <2>2. Counting(Top(t).n) \in Activation
    <3>1. stack[t][Len(stack[t])] \in Activation
      BY <1>1, <2>1, EmptySeq, ElementOfSeq DEF Stacks
    <3> QED BY <3>1 DEF Counting, Activation, Top
  <2>3. /\ Len(stack'[t]) = Len(stack[t]) /\ Len(stack[t]) \in Nat \ {0}
        /\ \A u \in Threads : u # t => stack'[u] = stack[u]
    BY <1>1, <2>1, <2>2, Retopped
  <2> QED BY <2>3, <1>1, EmptySeq
<1>4. CASE RenderDone(t)
  <2>1. stack[t] # <<>> /\ stack' = Pop(t) /\ In(t, "count")
    BY <1>4 DEF RenderDone, In
  <2>2. /\ Len(stack'[t]) = Len(stack[t]) - 1 /\ Len(stack[t]) \in Nat \ {0}
        /\ \A u \in Threads : u # t => stack'[u] = stack[u]
    BY <1>1, <2>1, Popped
  <2>3. t = Sched => Len(stack[t]) > 1
    BY <2>1, OutermostDrain
  <2> QED BY <2>2, <2>3, <1>1, EmptySeq
<1> QED BY <1>2, <1>3, <1>4

LEMMA DrainsPushed ==
  ASSUME stack \in Stacks, Drains, NEW t \in Threads, NEW a \in Activation,
         stack' = Push(t, a), a.k = "drain" => t = Sched /\ stack[t] = <<>>
  PROVE  Drains'
<1>1. Len(stack[t]) \in Nat
  BY Lengths
<1>2. /\ Len(stack'[t]) = Len(stack[t]) + 1
      /\ stack'[t][Len(stack[t]) + 1] = a
      /\ \A k \in 1..Len(stack[t]) : stack'[t][k] = stack[t][k]
      /\ \A u \in Threads : u # t => stack'[u] = stack[u]
  BY Pushed
<1> SUFFICES ASSUME NEW u \in Threads, NEW k \in 1..Len(stack'[u]), stack'[u][k].k = "drain"
             PROVE  u = Sched /\ k = 1
  BY DEF Drains
<1>3. CASE u # t
  BY <1>2, <1>3 DEF Drains
<1>4. CASE u = t /\ k = Len(stack[t]) + 1
  <2>1. u = Sched /\ stack[t] = <<>>
    BY <1>2, <1>4
  <2>2. Len(stack[t]) = 0
    BY <2>1, EmptySeq
  <2> QED BY <2>1, <2>2, <1>4
<1>5. CASE u = t /\ k # Len(stack[t]) + 1
  <2>1. k \in 1..Len(stack[t])
    BY <1>1, <1>2, <1>5
  <2> QED BY <2>1, <1>2, <1>5 DEF Drains
<1> QED BY <1>3, <1>4, <1>5

LEMMA NextDrains ==
  ASSUME IInv, SInv, [Next]_vars
  PROVE  Drains'
<1>1. stack \in Stacks /\ head \in Nat /\ claim \in Nat /\ Drains /\ Sched \in Threads
  BY SchedThread DEF IInv, ShapeOK, SInv
<1>2. Draining(head) \in Activation /\ Rendering(claim) \in Activation
      /\ Rendering(claim).k # "drain"
  BY <1>1 DEF Draining, Rendering, Activation
<1>3. ASSUME NEW c, NEW o, Then(c, o), stack[Sched] = <<>> PROVE Drains'
  <2>1. CASE c
    BY <2>1, <1>1, <1>2, <1>3, DrainsPushed DEF Then
  <2>2. CASE ~c
    BY <2>2, <1>1, <1>3 DEF Then, Drains
  <2> QED BY <2>1, <2>2
<1>4. ASSUME UNCHANGED stack PROVE Drains'
  BY <1>1, <1>4 DEF Drains
<1>5. ASSUME NEW t \in Threads, DrainHelp(t) \/ WorkerClaim(t) PROVE Drains'
  BY <1>1, <1>2, <1>5, DrainsPushed DEF DrainHelp, WorkerClaim
<1>6. ASSUME NEW t \in Threads, DrainReturn(t) \/ RenderDone(t) PROVE Drains'
  <2>1. stack[t] # <<>> /\ stack' = Pop(t)
    BY <1>6 DEF DrainReturn, RenderDone, In
  <2> QED BY <2>1, <1>1, Popped DEF Drains
<1>7. ASSUME NEW t \in Threads, RenderLine(t) PROVE Drains'
  <2> DEFINE a == Counting(Top(t).n)
  <2>1. /\ stack[t] # <<>>
        /\ stack' = [stack EXCEPT ![t] = Append(SubSeq(@, 1, Len(@) - 1), a)]
    BY <1>7 DEF RenderLine, In
  <2>2. a \in Activation /\ a.k # "drain"
    <3>1. stack[t][Len(stack[t])] \in Activation
      BY <1>1, <2>1, EmptySeq, ElementOfSeq DEF Stacks
    <3> QED BY <3>1 DEF Counting, Activation, Top
  <2> HIDE DEF a
  <2>3. /\ Len(stack[t]) \in Nat \ {0} /\ Len(stack'[t]) = Len(stack[t])
        /\ stack'[t][Len(stack[t])] = a
        /\ \A k \in 1..(Len(stack[t]) - 1) : stack'[t][k] = stack[t][k]
        /\ \A u \in Threads : u # t => stack'[u] = stack[u]
    BY <1>1, <2>1, <2>2, Retopped
  <2> SUFFICES ASSUME NEW u \in Threads, NEW k \in 1..Len(stack'[u]), stack'[u][k].k = "drain"
               PROVE  u = Sched /\ k = 1
    BY DEF Drains
  <2>4. CASE u # t
    BY <1>1, <2>3, <2>4 DEF Drains
  <2>5. CASE u = t /\ k = Len(stack[t])
    BY <2>2, <2>3, <2>5
  <2>6. CASE u = t /\ k # Len(stack[t])
    BY <1>1, <2>3, <2>6 DEF Drains
  <2> QED BY <2>4, <2>5, <2>6
<1>8. ASSUME NEW t \in Threads, RenderFence(t) PROVE Drains'
  BY <1>8, NoFence
<1>9. CASE (\E l \in LineKinds : Submit(l)) \/ Latch
  BY <1>9, <1>3 DEF Submit, Latch, At
<1>10. CASE \E b \in Banks : GuestStore(b) \/ Remap(b)
  BY <1>10, <1>3 DEF GuestStore, Remap, At
<1>11. CASE GuestRead \/ FrameBoundary \/ StopPool
  BY <1>11, <1>3 DEF GuestRead, FrameBoundary, StopPool, At
<1>12. CASE Publish \/ Flag \/ DoStore \/ DoRemap \/ DoFrame \/ Joined \/ Stopped
           \/ UNCHANGED vars
  BY <1>12, <1>4 DEF Publish, Flag, DoStore, DoRemap, DoFrame, Joined, Stopped, vars
<1>13. Workers \subseteq Threads
  BY DEF Threads
<1>14. CASE Scheduler
  BY <1>9, <1>12, <1>14, <1>10, <1>11 DEF Scheduler
<1>15. CASE \E t \in Threads : Thread(t)
  BY <1>5, <1>6, <1>7, <1>8, <1>15 DEF Thread
<1> QED
  BY <1>5, <1>12, <1>13, <1>14, <1>15 DEF Next

LEMMA NextQuiet ==
  ASSUME IInv, SInv, IInv', [Next]_vars
  PROVE  Quiet'
<1>1. /\ stack \in Stacks /\ head \in Nat /\ Quiet /\ Sched \in Threads
      /\ done \in Int /\ done' \in Int /\ head' \in Nat /\ done' <= head'
  BY SchedThread DEF IInv, ShapeOK, SInv, Accounting
<1>2. CASE \/ \E l \in LineKinds : Submit(l)
          \/ Latch \/ GuestRead \/ FrameBoundary \/ StopPool
  BY <1>1, <1>2 DEF Submit, Latch, GuestRead, FrameBoundary, StopPool, Then, Idle, Quiet,
                    ring, flags
<1>3. ASSUME NEW o, Then(WriteFence, o), UNCHANGED <<ring, flags>> PROVE Quiet'
  <2>1. CASE outstanding
    <3>1. stack' = Push(Sched, Draining(head)) /\ Draining(head) \in Activation
      BY <1>1, <1>3, <2>1 DEF Then, WriteFence, Draining, Activation
    <3>2. stack'[Sched] # <<>>
      BY <1>1, <3>1, PushNonEmpty
    <3> QED BY <1>3, <2>1, <3>2 DEF Quiet, flags
  <2>2. CASE ~outstanding
    BY <1>1, <1>3, <2>2 DEF Quiet, ring, flags
  <2> QED BY <2>1, <2>2
<1>4. CASE \E b \in Banks : GuestStore(b) \/ Remap(b)
  BY <1>3, <1>4 DEF GuestStore, Remap
<1>5. CASE Publish
  BY <1>5 DEF Publish, Idle, Quiet
<1>6. CASE Flag \/ DoStore \/ DoRemap \/ DoFrame \/ Joined
  BY <1>1, <1>6 DEF Flag, DoStore, DoRemap, DoFrame, Joined, Idle, Quiet, ring, flags
<1>7. ASSUME NEW t \in Threads, DrainHelp(t) \/ WorkerClaim(t) \/ RenderLine(t) PROVE Quiet'
  <2>1. stack'[Sched] = <<>> => stack[Sched] = <<>>
    BY <1>7, Emptied
  <2> QED BY <1>1, <1>7, <2>1 DEF DrainHelp, WorkerClaim, RenderLine, Quiet, flags
<1>8. ASSUME NEW t \in Threads, RenderDone(t) PROVE Quiet'
  <2>1. stack'[Sched] = <<>> => stack[Sched] = <<>>
    BY <1>8, Emptied
  <2>2. done' = done + 1 /\ head' = head /\ outstanding' = outstanding /\ op' = op
    BY <1>8 DEF RenderDone, flags
  <2>3. done # head
    BY <1>1, <2>2
  <2> QED BY <1>1, <2>1, <2>2, <2>3 DEF Quiet
<1>9. ASSUME NEW t \in Threads, DrainReturn(t) PROVE Quiet'
  <2>1. done = head /\ done' = done /\ head' = head
    BY <1>9, OnlyReturn DEF DrainReturn
  <2> QED BY <2>1 DEF Quiet
<1>10. ASSUME NEW t \in Threads, RenderFence(t) PROVE Quiet'
  BY <1>10, NoFence
<1>11. CASE Stopped \/ UNCHANGED vars
  BY <1>1, <1>11 DEF Stopped, vars, Quiet, ring, flags
<1>12. Workers \subseteq Threads
  BY DEF Threads
<1> QED
  BY <1>2, <1>4, <1>5, <1>6, <1>7, <1>8, <1>9, <1>10, <1>11, <1>12 DEF Next, Scheduler, Thread

LEMMA NextBg ==
  ASSUME "vram" \notin Modes, IInv, SInv, IInv', [Next]_vars
  PROVE  BgInv'
<1>1. /\ head \in Nat /\ BgInv /\ Slot(head) \in 0..(kJobSlots - 1)
      /\ DOMAIN jobs = 0..(kJobSlots - 1)
      /\ jobs = [s \in 0..(kJobSlots - 1) |-> jobs[s]]
      /\ DOMAIN jobs' = 0..(kJobSlots - 1)
  BY SlotInRing DEF IInv, ShapeOK, SInv
<1>2. \A l \in LineKinds : l.mode = "bg"
  BY RenderPoolAssumption DEF LineKinds, Lines
<1>3. CASE \E l \in LineKinds : Submit(l)
  BY <1>1, <1>3 DEF Submit, Then, BgInv, ring
<1>4. CASE Latch
  <2>1. op.line \in LineKinds /\ op'.line = op.line
    BY <1>4 DEF Latch, At, Then, SInv, BgInv
  <2>2. \A s \in 0..(kJobSlots - 1) :
          jobs'[s].line = IF s = Slot(head) THEN op.line ELSE jobs[s].line
    BY <1>1, <1>4 DEF Latch
  <2> QED BY <1>1, <1>2, <2>1, <2>2 DEF BgInv
<1>5. CASE GuestRead \/ FrameBoundary \/ StopPool
  BY <1>1, <1>5 DEF GuestRead, FrameBoundary, StopPool, Then, Idle, BgInv, ring
<1>6. CASE \E b \in Banks : GuestStore(b) \/ Remap(b)
  BY <1>1, <1>6 DEF GuestStore, Remap, Then, BgInv, ring
<1>7. CASE Publish \/ Flag \/ DoStore \/ DoRemap \/ DoFrame \/ Joined
  BY <1>1, <1>7 DEF Publish, Flag, DoStore, DoRemap, DoFrame, Joined, Idle, BgInv, ring
<1>8. ASSUME NEW t \in Threads, DrainHelp(t) \/ WorkerClaim(t) \/ RenderDone(t) PROVE BgInv'
  BY <1>1, <1>8 DEF DrainHelp, WorkerClaim, RenderDone, BgInv
<1>9. ASSUME NEW t \in Threads, RenderLine(t) PROVE BgInv'
  <2>1. op' = op
    BY <1>9 DEF RenderLine
  <2>2. \A s \in 0..(kJobSlots - 1) : jobs'[s].line = jobs[s].line
    <3> DEFINE x == Slot(Top(t).n)
               j == [line |-> jobs[x].line, index |-> jobs[x].index,
                     capture |-> IF jobs[x].line.dst = NoBank THEN jobs[x].capture
                                 ELSE IF jobs[x].line.dst \in lcdc THEN jobs[x].line.dst
                                      ELSE NoBank,
                     got |-> [b \in ReadSet(jobs[x].line) |-> vram[b]],
                     expect |-> jobs[x].expect]
    <3>1. jobs' = [jobs EXCEPT ![x] = j]
      BY <1>9 DEF RenderLine
    <3>2. j.line = jobs[x].line
      OBVIOUS
    <3> HIDE DEF j, x
    <3> QED BY <1>1, <3>1, <3>2
  <2> QED BY <1>1, <2>1, <2>2 DEF BgInv
<1>10. ASSUME NEW t \in Threads, DrainReturn(t) PROVE BgInv'
  <2>1. op' = op
    BY <1>10 DEF DrainReturn
  <2>2. \A s \in 0..(kJobSlots - 1) : [jobs[s] EXCEPT !.capture = NoBank].line = jobs[s].line
    <3> SUFFICES ASSUME NEW s \in 0..(kJobSlots - 1)
                 PROVE  [jobs[s] EXCEPT !.capture = NoBank].line = jobs[s].line
      OBVIOUS
    <3>1. jobs[s] = [line |-> jobs[s].line, index |-> jobs[s].index,
                     capture |-> jobs[s].capture, got |-> jobs[s].got,
                     expect |-> jobs[s].expect]
      BY DEF IInv, ShapeOK
    <3> QED BY <3>1
  <2>3. \A s \in 0..(kJobSlots - 1) : jobs'[s].line = jobs[s].line
    BY <1>1, <1>10, <2>2 DEF DrainReturn
  <2> QED BY <1>1, <2>1, <2>3 DEF BgInv
<1>11. ASSUME NEW t \in Threads, RenderFence(t) PROVE BgInv'
  BY <1>11, NoFence
<1>12. CASE Stopped \/ UNCHANGED vars
  BY <1>1, <1>12 DEF Stopped, vars, BgInv, ring
<1>13. Workers \subseteq Threads
  BY DEF Threads
<1>14. CASE Scheduler
  BY <1>3, <1>4, <1>5, <1>6, <1>7, <1>14 DEF Scheduler
<1>15. CASE \E t \in Threads : Thread(t)
  BY <1>8, <1>9, <1>10, <1>11, <1>15 DEF Thread
<1> QED
  BY <1>8, <1>12, <1>13, <1>14, <1>15 DEF Next

(* A pool without VRAM-display lines changes video memory and its mapping  *)
(* only while every line is done (nds_video_write, nds_vram_map,           *)
(* apply_staged_range), whatever the workers do.                           *)
THEOREM MemoryIsStill == "vram" \notin Modes => (Spec => MemoryStill)
<1> SUFFICES ASSUME "vram" \notin Modes PROVE Spec => MemoryStill
  OBVIOUS
<1> DEFINE Both == IInv /\ SInv
<1>1. Init => Both
  BY InitIInv, InitSInv
<1>2. Both /\ [Next]_vars => Both'
  <2> SUFFICES ASSUME IInv, SInv, [Next]_vars PROVE IInv' /\ SInv'
    OBVIOUS
  <2>1. IInv'
    BY NextIInv
  <2>2. BgInv' /\ Drains' /\ Quiet'
    BY <2>1, NextBg, NextDrains, NextQuiet
  <2> QED BY <2>1, <2>2 DEF SInv
<1>3. Both /\ [Next]_vars => [vram' # vram \/ lcdc' # lcdc => done = head]_vars
  <2> SUFFICES ASSUME IInv, SInv, Next, vram' # vram \/ lcdc' # lcdc PROVE done = head
    BY DEF vars
  <2>1. CASE Scheduler
    <3>1. DoStore \/ DoRemap
      BY <2>1 DEF Scheduler, Submit, Latch, Publish, Flag, GuestStore, Remap, GuestRead,
                  FrameBoundary, DoFrame, StopPool, Joined
    <3> QED BY <3>1 DEF DoStore, DoRemap, At, SInv, Quiet
  <2>2. ASSUME NEW t \in Threads, Thread(t) PROVE done = head
    <3>1. DrainReturn(t)
      BY <2>2 DEF Thread, DrainHelp, RenderFence, RenderLine, RenderDone
    <3> QED BY <3>1, OnlyReturn
  <2>3. CASE \E w \in Workers : WorkerClaim(w)
    BY <2>3 DEF WorkerClaim
  <2>4. CASE Stopped
    BY <2>4 DEF Stopped, vars
  <2> QED BY <2>1, <2>2, <2>3, <2>4 DEF Next
<1> HIDE DEF Both
<1> QED BY <1>1, <1>2, <1>3, PTL DEF Spec, MemoryStill

-----------------------------------------------------------------------------
(* Which lines are still to be rendered. *)

LEMMA RenderPushed ==
  ASSUME stack \in Stacks, NEW t \in Threads, NEW a \in Activation, stack' = Push(t, a)
  PROVE  \A i : Renders(i)' <=> Renders(i) \/ (a.k = "render" /\ a.n = i)
<1>1. Len(stack[t]) \in Nat
  BY Lengths
<1>2. /\ Len(stack'[t]) = Len(stack[t]) + 1
      /\ stack'[t][Len(stack[t]) + 1] = a
      /\ \A k \in 1..Len(stack[t]) : stack'[t][k] = stack[t][k]
      /\ \A u \in Threads : u # t => stack'[u] = stack[u]
  BY Pushed
<1> SUFFICES ASSUME NEW i
             PROVE  Renders(i)' <=> Renders(i) \/ (a.k = "render" /\ a.n = i)
  OBVIOUS
<1>3. ASSUME Renders(i)' PROVE Renders(i) \/ (a.k = "render" /\ a.n = i)
  <2>0. PICK u \in Threads : \E k \in 1..Len(stack'[u]) :
           stack'[u][k].k = "render" /\ stack'[u][k].n = i
    BY <1>3 DEF Renders
  <2>1. PICK k \in 1..Len(stack'[u]) : stack'[u][k].k = "render" /\ stack'[u][k].n = i
    BY <2>0
  <2>2. CASE u = t /\ k = Len(stack[t]) + 1
    BY <1>2, <2>1, <2>2
  <2>3. CASE u = t /\ k # Len(stack[t]) + 1
    <3>1. k \in 1..Len(stack[t])
      BY <1>1, <1>2, <2>3
    <3> QED BY <3>1, <1>2, <2>1, <2>3 DEF Renders
  <2>4. CASE u # t
    BY <1>2, <2>1, <2>4 DEF Renders
  <2> QED BY <2>2, <2>3, <2>4
<1>4. ASSUME Renders(i) PROVE Renders(i)'
  <2>0. PICK u \in Threads : \E k \in 1..Len(stack[u]) :
           stack[u][k].k = "render" /\ stack[u][k].n = i
    BY <1>4 DEF Renders
  <2>1. PICK k \in 1..Len(stack[u]) : stack[u][k].k = "render" /\ stack[u][k].n = i
    BY <2>0
  <2>2. k \in 1..Len(stack'[u]) /\ stack'[u][k] = stack[u][k]
    BY <1>1, <1>2, <2>1
  <2> QED BY <2>1, <2>2 DEF Renders
<1>5. ASSUME a.k = "render", a.n = i PROVE Renders(i)'
  <2>1. Len(stack[t]) + 1 \in 1..Len(stack'[t])
    BY <1>1, <1>2
  <2> QED BY <1>2, <1>5, <2>1 DEF Renders
<1> QED BY <1>3, <1>4, <1>5

LEMMA RenderPopped ==
  ASSUME stack \in Stacks, NEW t \in Threads, stack[t] # <<>>, stack' = Pop(t),
         Top(t).k # "render"
  PROVE  \A i : Renders(i)' <=> Renders(i)
<1>1. /\ Len(stack[t]) \in Nat \ {0} /\ Len(stack'[t]) = Len(stack[t]) - 1
      /\ \A k \in 1..(Len(stack[t]) - 1) : stack'[t][k] = stack[t][k]
      /\ \A u \in Threads : u # t => stack'[u] = stack[u]
  BY Popped
<1> SUFFICES ASSUME NEW i PROVE Renders(i)' <=> Renders(i)
  OBVIOUS
<1>2. ASSUME Renders(i)' PROVE Renders(i)
  <2>0. PICK u \in Threads : \E k \in 1..Len(stack'[u]) :
           stack'[u][k].k = "render" /\ stack'[u][k].n = i
    BY <1>2 DEF Renders
  <2>1. PICK k \in 1..Len(stack'[u]) : stack'[u][k].k = "render" /\ stack'[u][k].n = i
    BY <2>0
  <2>2. k \in 1..Len(stack[u]) /\ stack'[u][k] = stack[u][k]
    BY <1>1, <2>1
  <2> QED BY <2>1, <2>2 DEF Renders
<1>3. ASSUME Renders(i) PROVE Renders(i)'
  <2>0. PICK u \in Threads : \E k \in 1..Len(stack[u]) :
           stack[u][k].k = "render" /\ stack[u][k].n = i
    BY <1>3 DEF Renders
  <2>1. PICK k \in 1..Len(stack[u]) : stack[u][k].k = "render" /\ stack[u][k].n = i
    BY <2>0
  <2>2. u = t => k # Len(stack[t])
    BY <2>1 DEF Top
  <2>3. k \in 1..Len(stack'[u]) /\ stack'[u][k] = stack[u][k]
    BY <1>1, <2>1, <2>2
  <2> QED BY <2>1, <2>3 DEF Renders
<1> QED BY <1>2, <1>3

LEMMA RenderTurned ==
  ASSUME stack \in Stacks, Once, NEW t \in Threads, In(t, "render"),
         stack' = [stack EXCEPT ![t] = Append(SubSeq(@, 1, Len(@) - 1), Counting(Top(t).n))]
  PROVE  /\ \A i : Renders(i)' <=> Renders(i) /\ i # Top(t).n
         /\ Renders(Top(t).n)
<1> DEFINE a == Counting(Top(t).n)
<1>1. /\ stack[t] # <<>> /\ Len(stack[t]) \in Nat \ {0}
      /\ stack[t][Len(stack[t])] \in Activation /\ Top(t) = stack[t][Len(stack[t])]
      /\ stack[t][Len(stack[t])].k = "render"
  BY EmptySeq, ElementOfSeq DEF Stacks, In, Top
<1>2. a \in Activation /\ a.k = "count"
  BY <1>1 DEF Counting, Activation
<1> HIDE DEF a
<1>3. /\ Len(stack'[t]) = Len(stack[t])
      /\ stack'[t][Len(stack[t])] = a
      /\ \A k \in 1..(Len(stack[t]) - 1) : stack'[t][k] = stack[t][k]
      /\ \A u \in Threads : u # t => stack'[u] = stack[u]
  BY <1>1, <1>2, Retopped DEF a
<1>4. Renders(Top(t).n)
  BY <1>1 DEF Renders
<1> SUFFICES ASSUME NEW i PROVE Renders(i)' <=> Renders(i) /\ i # Top(t).n
  BY <1>4
<1>5. ASSUME Renders(i)' PROVE Renders(i) /\ i # Top(t).n
  <2>0. PICK u \in Threads : \E k \in 1..Len(stack'[u]) :
           stack'[u][k].k = "render" /\ stack'[u][k].n = i
    BY <1>5 DEF Renders
  <2>1. PICK k \in 1..Len(stack'[u]) : stack'[u][k].k = "render" /\ stack'[u][k].n = i
    BY <2>0
  <2>2. u = t => k # Len(stack[t])
    BY <1>2, <1>3, <2>1
  <2>3. k \in 1..Len(stack[u]) /\ stack'[u][k] = stack[u][k]
    BY <1>1, <1>3, <2>1, <2>2
  <2>4. Renders(i)
    BY <2>1, <2>3 DEF Renders
  <2>5. i # Top(t).n
    <3> SUFFICES ASSUME i = Top(t).n PROVE FALSE
      OBVIOUS
    <3>1. PICK m \in 1..Len(stack[t]) : m = Len(stack[t])
      BY <1>1
    <3>2. IsJob(u, k) /\ IsJob(t, m) /\ stack[u][k].n = stack[t][m].n
      BY <1>1, <2>1, <2>3, <3>1 DEF IsJob
    <3> QED BY <2>2, <2>3, <3>1, <3>2 DEF Once
  <2> QED BY <2>4, <2>5
<1>6. ASSUME Renders(i), i # Top(t).n PROVE Renders(i)'
  <2>0. PICK u \in Threads : \E k \in 1..Len(stack[u]) :
           stack[u][k].k = "render" /\ stack[u][k].n = i
    BY <1>6 DEF Renders
  <2>1. PICK k \in 1..Len(stack[u]) : stack[u][k].k = "render" /\ stack[u][k].n = i
    BY <2>0
  <2>2. u = t => k # Len(stack[t])
    BY <1>1, <1>6, <2>1
  <2>3. k \in 1..Len(stack'[u]) /\ stack'[u][k] = stack[u][k]
    BY <1>1, <1>3, <2>1, <2>2
  <2> QED BY <2>1, <2>3 DEF Renders
<1> QED BY <1>5, <1>6

-----------------------------------------------------------------------------
(* Staged captures. *)

LEMMA PendingSlots ==
  ASSUME IInv, PendingInv
  PROVE  /\ \A i \in Pending : i \in Nat /\ i < head /\ Slot(i) \in 0..(kJobSlots - 1)
         /\ \A i, j \in Pending : i # j => Slot(i) # Slot(j)
         /\ op.k \in {"latch", "publish"} => \A i \in Pending : Slot(i) # Slot(head)
         /\ Slot(head) \in 0..(kJobSlots - 1)
<1>1. /\ head \in Nat /\ y \in Nat /\ y <= FrameLines /\ apply_index \in Nat
      /\ head - y <= apply_index /\ FrameLines <= kJobSlots
      /\ FrameLines \in Nat /\ kJobSlots \in Nat
      /\ op.k \in {"latch", "publish"} => y < FrameLines
  BY RenderPoolAssumption DEF IInv, ShapeOK, FrameInv, PendingInv
<1>2. \A i \in Pending : i \in Nat /\ i < head /\ Slot(i) \in 0..(kJobSlots - 1)
  BY <1>1, SlotInRing DEF Pending
<1>3. \A i, j \in Pending : i < j => Slot(i) # Slot(j)
  <2> SUFFICES ASSUME NEW i \in Pending, NEW j \in Pending, i < j PROVE Slot(i) # Slot(j)
    OBVIOUS
  <2>1. i \in Nat /\ j \in Nat /\ j - i < kJobSlots
    BY <1>1 DEF Pending
  <2> QED BY <2>1, SlotsDiffer
<1>4. \A i, j \in Pending : i # j => Slot(i) # Slot(j)
  BY <1>2, <1>3
<1>5. ASSUME op.k \in {"latch", "publish"}, NEW i \in Pending PROVE Slot(i) # Slot(head)
  <2>1. i \in Nat /\ i < head /\ head - i < kJobSlots
    BY <1>1, <1>5 DEF Pending
  <2> QED BY <1>1, <2>1, SlotsDiffer
<1> QED BY <1>1, <1>2, <1>4, <1>5, SlotInRing

LEMMA InitEInv == Init => EInv
<1> SUFFICES ASSUME Init PROVE EInv
  OBVIOUS
<1>1. \A t \in Threads : 1..Len(stack[t]) = {}
  BY EmptySeq DEF Init
<1>2. Pending = {}
  BY DEF Init, Pending
<1>3. PendingInv
  BY <1>1 DEF Init, PendingInv, Idle
<1>4. RingInv
  BY <1>2 DEF Init, RingInv, NoJob
<1>5. BankInv
  BY <1>2 DEF Init, BankInv
<1>6. ReadInv
  BY <1>2 DEF Init, ReadInv
<1>7. LinesExact
  BY DEF Init, LinesExact, NoJob
<1> QED BY <1>3, <1>4, <1>5, <1>6, <1>7 DEF EInv

(* Jobs of a step that enters at most the next line.                       *)
LEMMA PendingKept ==
  ASSUME IInv, PendingInv, IInv', apply_index' = apply_index, head' = head, y' = y,
         claim <= claim',
         \A t \in Threads, k, i \in Nat : Job(t, k, i)' => Job(t, k, i) \/ i = claim,
         ~outstanding' => apply_index = head,
         op'.k \in {"store", "remap", "frame"} /\ stack'[Sched] = <<>> => apply_index = head
  PROVE  PendingInv'
<1>1. /\ head \in Nat /\ claim \in Nat /\ claim' \in Nat /\ y \in Nat
      /\ apply_index \in Nat /\ apply_index <= claim /\ stack' \in Stacks
  BY DEF IInv, ShapeOK, PendingInv
<1>2. ASSUME NEW t \in Threads, NEW k \in 1..Len(stack'[t]), IsJob(t, k)'
      PROVE  apply_index <= stack'[t][k].n
  <2>1. PICK i : i = stack'[t][k].n
    OBVIOUS
  <2>2. Job(t, k, i)'
    BY <1>2, <2>1 DEF Job
  <2>3. k \in Nat /\ i \in Nat
    BY <1>1, <2>2, JobNatNext
  <2>4. CASE i = claim
    BY <2>1, <2>4, <1>1
  <2>5. CASE Job(t, k, i)
    BY <2>1, <2>5 DEF PendingInv, Job
  <2> QED BY <2>2, <2>3, <2>4, <2>5
<1>3. head' - y' <= apply_index' /\ apply_index' <= claim' /\ apply_index' <= head'
  BY <1>1 DEF PendingInv
<1> QED BY <1>1, <1>2, <1>3 DEF PendingInv

(* The ring, the banks and the pixels of a step that touches none of them. *)
LEMMA ContentKept ==
  ASSUME IInv, EInv,
         UNCHANGED <<head, apply_index, jobs, lcdc, vram, ref, mask>>,
         \A i \in Pending : ToRender(i)' <=> ToRender(i),
         \A i \in Pending : LineOf(i).dst # NoBank => staged' \/ op'.k = "flag",
         op'.k = "remap" => op'.bank \in Banks,
         op'.k = "publish" => op' = op /\ (stack'[Sched] = <<>> => stack[Sched] = <<>>)
  PROVE  RingInv' /\ BankInv' /\ ReadInv' /\ LinesExact'
<1>1. Pending' = Pending
  BY DEF Pending
<1>2. \A i : Slot(i)' = Slot(i) /\ LineOf(i)' = LineOf(i)
  BY DEF Slot, LineOf
<1>3. RingInv'
  BY <1>1, <1>2 DEF EInv, RingInv, LineKinds, Lines
<1>4. BankInv'
  BY <1>1, <1>2 DEF EInv, BankInv, LastCapture, Captures
<1>5. ReadInv'
  <2>1. \A l : ReadSet(l)' = ReadSet(l)
    BY DEF ReadSet
  <2>2. \A i \in Pending : ToRender(i)' =>
          jobs'[Slot(i)].expect = [b \in ReadSet(LineOf(i)) |-> vram[b]]
    BY DEF EInv, ReadInv
  <2>3. op'.k = "publish" =>
          /\ jobs'[Slot(head)].line = op'.line /\ jobs'[Slot(head)].got = <<>>
          /\ jobs'[Slot(head)].expect = [b \in ReadSet(op'.line) |-> ref[b]]
          /\ stack'[Sched] = <<>> =>
               jobs'[Slot(head)].expect = [b \in ReadSet(op'.line) |-> vram[b]]
    BY DEF EInv, ReadInv
  <2> QED BY <1>1, <1>2, <2>1, <2>2, <2>3 DEF ReadInv
<1>6. LinesExact'
  BY DEF EInv, LinesExact
<1> QED BY <1>3, <1>4, <1>5, <1>6

(* An operation of the scheduler thread that starts with a fence.          *)
LEMMA ThenEInv ==
  ASSUME IInv, EInv, IInv', At("idle"), NEW c, NEW o, Then(c, o),
         UNCHANGED <<ring, flags, vram, lcdc, y, ref>>,
         o.k # "publish", o.k = "remap" => o.bank \in Banks,
         o.k \in {"store", "remap", "frame"} => c \/ ~outstanding
  PROVE  EInv'
<1>1. /\ stack \in Stacks /\ head \in Nat /\ claim \in Nat /\ Sched \in Threads
      /\ stack[Sched] = <<>> /\ op.k = "idle" /\ op' = o
      /\ UNCHANGED <<head, claim, done, jobs, outstanding, staged, mask, apply_index>>
  BY SchedThread DEF IInv, ShapeOK, At, Then, ring, flags
<1>2. Draining(head) \in Activation /\ Draining(head).k = "drain"
  BY <1>1 DEF Draining, Activation
<1>3. /\ \A t \in Threads, k, i \in Nat : Job(t, k, i)' => Job(t, k, i)
      /\ \A i : Renders(i)' <=> Renders(i)
      /\ c => stack'[Sched] # <<>>
  <2>1. CASE c
    <3>1. stack' = Push(Sched, Draining(head))
      BY <2>1 DEF Then
    <3> QED BY <1>1, <1>2, <3>1, DrainPushed, RenderPushed, PushNonEmpty
  <2>2. CASE ~c
    BY <2>2 DEF Then, Job, IsJob, Renders
  <2> QED BY <2>1, <2>2
<1>4. PendingInv'
  <2>1. o.k \in {"store", "remap", "frame"} /\ stack'[Sched] = <<>> => apply_index = head
    BY <1>3 DEF EInv, PendingInv
  <2> QED BY <1>1, <1>3, <2>1, PendingKept DEF EInv, PendingInv
<1>5. \A i : ToRender(i)' <=> ToRender(i)
  BY <1>1, <1>3 DEF ToRender
<1>6. RingInv' /\ BankInv' /\ ReadInv' /\ LinesExact'
  <2>1. \A i \in Pending : LineOf(i).dst # NoBank => staged'
    BY <1>1 DEF EInv, RingInv
  <2> QED BY <1>1, <1>5, <2>1, ContentKept
<1> QED BY <1>4, <1>6 DEF EInv

LEMMA FlagEInv ==
  ASSUME IInv, EInv, IInv', Flag \/ DoFrame \/ Joined
  PROVE  EInv'
<1>1. /\ stack[Sched] = <<>> /\ stack' = stack /\ op.k \in {"flag", "frame", "stop"}
      /\ op'.k \in {"idle", "stopped"}
      /\ UNCHANGED <<head, claim, done, jobs, outstanding, mask, apply_index, vram, lcdc, ref>>
      /\ staged' = TRUE \/ (op.k # "flag" /\ staged' = staged)
      /\ y' = y \/ (op.k = "frame" /\ y' = 0)
  <2>1. CASE Flag
    BY <2>1 DEF Flag, At, Idle, ring
  <2>2. CASE DoFrame
    BY <2>2 DEF DoFrame, At, Idle, ring, flags
  <2>3. CASE Joined
    BY <2>3 DEF Joined, At, ring, flags
  <2> QED BY <2>1, <2>2, <2>3
<1>2. /\ \A t \in Threads, k, i \in Nat : Job(t, k, i)' => Job(t, k, i)
      /\ \A i : ToRender(i)' <=> ToRender(i)
  BY <1>1 DEF Job, IsJob, Renders, ToRender
<1>3. PendingInv'
  <2>1. /\ head \in Nat /\ claim \in Nat /\ y \in Nat /\ apply_index \in Nat
    BY DEF IInv, ShapeOK, EInv, PendingInv
  <2>2. CASE y' = y
    <3>1. claim <= claim' /\ (~outstanding' => apply_index = head)
          /\ op'.k \notin {"store", "remap", "frame"}
      BY <1>1, <2>1 DEF EInv, PendingInv
    <3> QED BY <1>1, <1>2, <2>2, <3>1, PendingKept DEF EInv
  <2>3. CASE op.k = "frame" /\ y' = 0
    <3>1. apply_index = head
      BY <1>1, <2>3 DEF EInv, PendingInv
    <3> QED BY <1>1, <2>1, <2>3, <3>1 DEF EInv, PendingInv, IsJob
  <2> QED BY <1>1, <2>2, <2>3
<1>4. RingInv' /\ BankInv' /\ ReadInv' /\ LinesExact'
  <2>1. \A i \in Pending : LineOf(i).dst # NoBank => staged'
    BY <1>1 DEF EInv, RingInv
  <2> QED BY <1>1, <1>2, <2>1, ContentKept
<1> QED BY <1>3, <1>4 DEF EInv

LEMMA ClaimEInv ==
  ASSUME IInv, SInv, EInv, IInv', NEW t \in Threads, DrainHelp(t) \/ WorkerClaim(t)
  PROVE  EInv'
<1>1. /\ stack \in Stacks /\ head \in Nat /\ claim \in Nat
      /\ stack' = Push(t, Rendering(claim)) /\ claim' = claim + 1
      /\ UNCHANGED <<head, done, jobs, flags, vram, lcdc, op, y, ref>>
  BY DEF IInv, ShapeOK, DrainHelp, WorkerClaim
<1>2. Rendering(claim) \in Activation /\ Rendering(claim).k = "render"
      /\ Rendering(claim).n = claim
  BY <1>1 DEF Rendering, Activation
<1>3. /\ \A u \in Threads, k, i \in Nat : Job(u, k, i)' => Job(u, k, i) \/ i = claim
      /\ \A i : Renders(i)' <=> Renders(i) \/ i = claim
  BY <1>1, <1>2, JobPushed, RenderPushed
<1>4. stack'[Sched] = <<>> => stack[Sched] = <<>>
  BY Emptied
<1>5. \A i \in Pending : ToRender(i)' <=> ToRender(i)
  BY <1>1, <1>3 DEF ToRender, Pending, EInv, PendingInv
<1>6. PendingInv'
  BY <1>1, <1>3, <1>4, PendingKept DEF EInv, PendingInv, flags
<1>7. RingInv' /\ BankInv' /\ ReadInv' /\ LinesExact'
  <2>1. \A i \in Pending : LineOf(i).dst # NoBank => staged' \/ op'.k = "flag"
    BY <1>1 DEF EInv, RingInv, flags
  <2>2. op'.k = "remap" => op'.bank \in Banks
    BY <1>1 DEF EInv, RingInv
  <2> QED BY <1>1, <1>4, <1>5, <2>1, <2>2, ContentKept DEF flags
<1> QED BY <1>6, <1>7 DEF EInv

LEMMA DoneEInv ==
  ASSUME IInv, SInv, EInv, IInv', NEW t \in Threads, RenderDone(t)
  PROVE  EInv'
<1>1. /\ stack \in Stacks /\ In(t, "count") /\ stack[t] # <<>> /\ Top(t).k # "render"
      /\ stack' = Pop(t) /\ claim \in Nat
      /\ UNCHANGED <<head, claim, jobs, flags, vram, lcdc, op, y, ref>>
  BY DEF IInv, ShapeOK, RenderDone, In
<1>2. /\ \A u \in Threads, k, i \in Nat : Job(u, k, i)' => Job(u, k, i)
      /\ \A i : ToRender(i)' <=> ToRender(i)
  BY <1>1, JobPopped, RenderPopped DEF ToRender
<1>3. stack'[Sched] = <<>> => stack[Sched] = <<>>
  BY Emptied
<1>4. PendingInv'
  BY <1>1, <1>2, <1>3, PendingKept DEF EInv, PendingInv, flags
<1>5. RingInv' /\ BankInv' /\ ReadInv' /\ LinesExact'
  <2>1. \A i \in Pending : LineOf(i).dst # NoBank => staged' \/ op'.k = "flag"
    BY <1>1 DEF EInv, RingInv, flags
  <2>2. op'.k = "remap" => op'.bank \in Banks
    BY <1>1 DEF EInv, RingInv
  <2> QED BY <1>1, <1>2, <1>3, <2>1, <2>2, ContentKept DEF flags
<1> QED BY <1>4, <1>5 DEF EInv

(* A fenced store or remap finds nothing pending.                          *)
LEMMA StoreEInv ==
  ASSUME IInv, EInv, IInv', DoStore \/ DoRemap
  PROVE  EInv'
<1>1. /\ stack[Sched] = <<>> /\ stack' = stack /\ op.k \in {"store", "remap"}
      /\ op'.k = "idle" /\ y' = y
      /\ UNCHANGED <<head, claim, done, jobs, outstanding, staged, mask, apply_index>>
  BY DEF DoStore, DoRemap, At, Idle, ring, flags
<1>2. head \in Nat /\ apply_index = head /\ Pending = {}
  BY <1>1 DEF IInv, ShapeOK, EInv, PendingInv, Pending
<1>3. /\ Pending' = {}
      /\ \A i : Slot(i)' = Slot(i)
      /\ \A t \in Threads, k, i \in Nat : Job(t, k, i)' => Job(t, k, i)
  BY <1>1, <1>2 DEF Pending, Slot, Job, IsJob
<1>4. PendingInv'
  <2>1. claim <= claim'
    BY <1>1 DEF IInv, ShapeOK
  <2> QED BY <1>1, <1>2, <1>3, <2>1, PendingKept DEF EInv
<1>5. lcdc' \subseteq Banks
  <2>1. CASE DoStore
    BY <2>1 DEF DoStore, EInv, RingInv
  <2>2. CASE DoRemap
    <3>1. op.k = "remap"
      BY <2>2 DEF DoRemap, At
    <3> QED BY <2>2, <3>1 DEF DoRemap, EInv, RingInv
  <2> QED BY <2>1, <2>2
<1>6. RingInv'
  BY <1>1, <1>2, <1>3, <1>5 DEF EInv, RingInv
<1>7. BankInv'
  <2>1. \A b \in Banks : ref[b] = vram[b]
    BY <1>2 DEF EInv, BankInv, LastCapture
  <2>2. /\ vram' = [b \in Banks |-> vram'[b]] /\ ref' = [b \in Banks |-> ref'[b]]
        /\ \A b \in Banks : ref'[b] = vram'[b]
    <3>1. CASE DoStore
      <4>1. PICK v : /\ vram' = [vram EXCEPT ![op.bank] = v]
                     /\ ref' = [ref EXCEPT ![op.bank] = v]
        BY <3>1 DEF DoStore
      <4>2. vram = [b \in Banks |-> vram[b]] /\ ref = [b \in Banks |-> ref[b]]
        BY DEF EInv, BankInv
      <4> QED BY <2>1, <4>1, <4>2
    <3>2. CASE DoRemap
      BY <2>1, <3>2 DEF DoRemap, EInv, BankInv
    <3> QED BY <3>1, <3>2
  <2> QED BY <2>2, <1>3 DEF BankInv
<1>8. ReadInv' /\ LinesExact'
  BY <1>1, <1>3 DEF EInv, ReadInv, LinesExact
<1> QED BY <1>4, <1>6, <1>7, <1>8 DEF EInv

(* The drain returns with every capture applied.                           *)
LEMMA ReturnEInv ==
  ASSUME IInv, SInv, EInv, IInv', NEW t \in Threads, DrainReturn(t)
  PROVE  EInv'
<1>1. /\ t = Sched /\ Top(t).n = head /\ done = head /\ claim = head /\ stack'[Sched] = <<>>
  BY OnlyReturn
<1>2. /\ head \in Nat /\ claim \in Nat /\ y \in Nat /\ done \in Int /\ stack \in Stacks
      /\ apply_index \in Nat /\ apply_index <= head /\ y <= head
      /\ DOMAIN jobs = 0..(kJobSlots - 1)
      /\ ShapeOK /\ Accounting
  BY DEF IInv, ShapeOK, EInv, PendingInv, FrameInv
<1>3. /\ apply_index' = head /\ vram' = Applied(head) /\ mask' = {} /\ staged' = FALSE
      /\ outstanding' = FALSE
      /\ UNCHANGED <<head, claim, done, lcdc, op, y, stores, ref>>
      /\ stack' = Pop(t) /\ stack[t] # <<>> /\ In(t, "drain")
      /\ jobs' = [s \in 0..(kJobSlots - 1) |->
                    IF \E i \in Pending : Slot(i) = s
                    THEN [jobs[s] EXCEPT !.capture = NoBank] ELSE jobs[s]]
  BY <1>1, <1>2 DEF DrainReturn, In, Pending
<1>4. Pending' = {} /\ \A i : Slot(i)' = Slot(i)
  BY <1>2, <1>3 DEF Pending, Slot
<1>5. \A u \in Threads : \A k \in 1..Len(stack[u]) : ~IsJob(u, k)
  BY <1>1, <1>2, AllCounted
<1>6. \A i \in Pending : ~ToRender(i)
  <2>1. \A i \in Pending : i < head /\ i \in Int
    BY <1>2 DEF Pending
  <2> QED BY <1>1, <1>2, <1>5, <2>1 DEF ToRender, Renders, IsJob
<1>7. \A s \in 0..(kJobSlots - 1) :
         /\ jobs'[s].capture = NoBank /\ jobs'[s].line = jobs[s].line
         /\ jobs'[s].got = jobs[s].got /\ jobs'[s].expect = jobs[s].expect
  <2> SUFFICES ASSUME NEW s \in 0..(kJobSlots - 1)
               PROVE  /\ jobs'[s].capture = NoBank /\ jobs'[s].line = jobs[s].line
                      /\ jobs'[s].got = jobs[s].got /\ jobs'[s].expect = jobs[s].expect
    OBVIOUS
  <2>1. jobs[s] = [line |-> jobs[s].line, index |-> jobs[s].index,
                   capture |-> jobs[s].capture, got |-> jobs[s].got,
                   expect |-> jobs[s].expect]
    BY <1>2 DEF ShapeOK
  <2>2. CASE \E i \in Pending : Slot(i) = s
    <3>1. jobs'[s] = [jobs[s] EXCEPT !.capture = NoBank]
      BY <1>3, <2>2
    <3> QED BY <2>1, <3>1
  <2>3. CASE \A i \in Pending : Slot(i) # s
    <3>1. jobs'[s] = jobs[s]
      BY <1>3, <2>3
    <3>2. jobs[s].capture = NoBank
      BY <2>3 DEF EInv, RingInv
    <3> QED BY <3>1, <3>2
  <2> QED BY <2>2, <2>3
<1>8. PendingInv'
  <2>1. \A u \in Threads, k, i \in Nat : Job(u, k, i)' => Job(u, k, i)
    BY <1>2, <1>3, DrainPopped
  <2>2. \A u \in Threads : \A k \in 1..Len(stack'[u]) : ~IsJob(u, k)'
    <3> SUFFICES ASSUME NEW u \in Threads, NEW k \in 1..Len(stack'[u]), IsJob(u, k)'
                 PROVE  FALSE
      OBVIOUS
    <3>1. PICK i : i = stack'[u][k].n
      OBVIOUS
    <3>2. Job(u, k, i)'
      BY <3>1 DEF Job
    <3>3. stack' \in Stacks
      BY DEF IInv, ShapeOK
    <3>4. Job(u, k, i)
      BY <2>1, <3>2, <3>3, JobNatNext
    <3> QED BY <1>5, <3>4 DEF Job
  <2> QED BY <1>1, <1>2, <1>3, <2>2 DEF PendingInv
<1>9. \A b \in Banks : vram'[b] = ref[b]
  <2> SUFFICES ASSUME NEW b \in Banks PROVE vram'[b] = ref[b]
    OBVIOUS
  <2>1. NoBank # b
    BY RenderPoolAssumption
  <2>2. vram'[b] = IF Captured(head, b) = {} THEN vram[b] ELSE Max(Captured(head, b)) + 1
    BY <1>3 DEF Applied
  <2>3. \A i \in Pending : jobs[Slot(i)].capture = b <=> Captures(i, b)
    BY <1>6, <2>1 DEF EInv, RingInv, Captures
  <2>4. Captured(head, b) = {i \in Pending : Captures(i, b)}
    BY <2>3 DEF Captured, Pending
  <2>5. CASE ref[b] = vram[b] /\ \A i \in Pending : ~Captures(i, b)
    <3>1. Captured(head, b) = {}
      BY <2>4, <2>5
    <3> QED BY <2>2, <2>5, <3>1
  <2>6. CASE LastCapture(b)
    <3>1. PICK m \in Pending : /\ Captures(m, b) /\ ref[b] = m + 1
                              /\ \A i \in Pending : Captures(i, b) => i <= m
      BY <2>6 DEF LastCapture
    <3> DEFINE C == Captured(head, b)
    <3>2. /\ m \in C /\ m \in Int /\ \A i \in C : i <= m
          /\ \A i \in C : i \in Int
      BY <1>2, <2>4, <3>1 DEF Pending
    <3>3. C # {} /\ Max(C) = m
      <4> HIDE DEF C
      <4>1. /\ \A i \in C : m >= i
            /\ \A n \in C : (\A i \in C : n >= i) => n = m
        BY <3>2
      <4>2. Max(C) \in C /\ \A i \in C : Max(C) >= i
        BY <3>2, <4>1 DEF Max
      <4> QED BY <3>2, <4>1, <4>2
    <3> QED BY <2>2, <3>1, <3>3
  <2> QED BY <2>5, <2>6 DEF EInv, BankInv
<1>10. vram' = [b \in Banks |-> vram'[b]] /\ ref' = [b \in Banks |-> ref'[b]]
  BY <1>3 DEF Applied, EInv, BankInv
<1>11. BankInv'
  BY <1>3, <1>4, <1>9, <1>10 DEF BankInv
<1>12. RingInv'
  BY <1>3, <1>4, <1>7 DEF EInv, RingInv
<1>13. ReadInv'
  <2>1. op.k = "publish" =>
          LET j == jobs[Slot(head)] IN
            /\ j.line = op.line /\ j.got = <<>>
            /\ j.expect = [b \in ReadSet(op.line) |-> ref[b]]
    BY DEF EInv, ReadInv
  <2>2. ASSUME op.k = "publish"
        PROVE  [b \in ReadSet(op.line) |-> ref[b]] = [b \in ReadSet(op.line)' |-> vram'[b]]
    <3>1. ReadSet(op.line) \subseteq Banks /\ ReadSet(op.line)' = ReadSet(op.line)
      BY <1>3 DEF ReadSet, EInv, RingInv
    <3> QED BY <1>9, <3>1
  <2>3. Slot(head) \in 0..(kJobSlots - 1)
    BY <1>2, SlotInRing
  <2>4. op.k = "publish" =>
          /\ jobs'[Slot(head)].line = op.line /\ jobs'[Slot(head)].got = <<>>
          /\ jobs'[Slot(head)].expect = [b \in ReadSet(op.line) |-> ref[b]]
    BY <1>7, <2>1, <2>3
  <2>5. ReadSet(op.line)' = ReadSet(op.line)
    BY <1>3 DEF ReadSet
  <2> QED BY <1>3, <1>4, <2>2, <2>4, <2>5 DEF ReadInv
<1>14. LinesExact'
  BY <1>2, <1>3, <1>7 DEF LinesExact, EInv
<1> QED BY <1>8, <1>11, <1>12, <1>13, <1>14 DEF EInv

(* Latching a line that reads no staged bank, it will read what inline     *)
(* rendering would; otherwise the drain comes first.                       *)
LEMMA LatchEInv ==
  ASSUME IInv, EInv, IInv', Latch
  PROVE  EInv'
<1> DEFINE c == ReadsStagedBank(op.line)
           x == Slot(head)
           R == ReadSet(op.line)
           j == [line |-> op.line, index |-> head, capture |-> jobs[x].capture,
                 got |-> <<>>, expect |-> [b \in R |-> ref[b]]]
<1>1. /\ stack \in Stacks /\ head \in Nat /\ claim \in Nat /\ Sched \in Threads
      /\ stack[Sched] = <<>> /\ op.k = "latch" /\ op'.k = "publish" /\ op'.line = op.line
      /\ stack' = (IF c THEN Push(Sched, Draining(head)) ELSE stack)
      /\ UNCHANGED <<head, claim, done, flags, vram, lcdc, y, ref>>
      /\ DOMAIN jobs = 0..(kJobSlots - 1)
      /\ jobs' = [jobs EXCEPT ![x] = j]
  BY SchedThread DEF IInv, ShapeOK, Latch, At, Then
<1>2. UNCHANGED <<outstanding, staged, mask, apply_index>>
  BY <1>1 DEF flags
<1>3. Draining(head) \in Activation /\ Draining(head).k = "drain"
  BY <1>1 DEF Draining, Activation
<1>4. /\ \A t \in Threads, k, i \in Nat : Job(t, k, i)' => Job(t, k, i)
      /\ \A i : Renders(i)' <=> Renders(i)
      /\ c => stack'[Sched] # <<>>
  <2> HIDE DEF c, j, x
  <2>1. CASE c
    <3>1. stack' = Push(Sched, Draining(head))
      BY <1>1, <2>1
    <3> QED BY <1>1, <1>3, <3>1, DrainPushed, RenderPushed, PushNonEmpty
  <2>2. CASE ~c
    BY <1>1, <2>2 DEF Job, IsJob, Renders
  <2> QED BY <2>1, <2>2
<1>5. PendingInv'
  BY <1>1, <1>2, <1>4, PendingKept DEF EInv, PendingInv
<1>6. Pending' = Pending /\ (\A i : Slot(i)' = Slot(i)) /\ \A i : ToRender(i)' <=> ToRender(i)
  BY <1>1, <1>2, <1>4 DEF Pending, Slot, ToRender
<1>7. /\ x \in 0..(kJobSlots - 1)
      /\ \A i \in Pending : Slot(i) \in 0..(kJobSlots - 1) /\ Slot(i) # x
  BY <1>1, PendingSlots DEF EInv
<1>8. /\ jobs'[x] = j
      /\ \A i \in Pending : jobs'[Slot(i)] = jobs[Slot(i)]
      /\ \A s \in 0..(kJobSlots - 1) : s # x => jobs'[s] = jobs[s]
  <2> HIDE DEF j, x
  <2> QED BY <1>1, <1>7
<1>9. /\ j.line = op.line /\ j.capture = jobs[x].capture /\ j.got = <<>>
      /\ j.expect = [b \in R |-> ref[b]]
  OBVIOUS
<1> HIDE DEF j
<1>10. RingInv'
  <2>1. \A i \in Pending : LineOf(i)' = LineOf(i)
    BY <1>6, <1>8 DEF LineOf
  <2>2. \A s \in 0..(kJobSlots - 1) : jobs'[s].capture = jobs[s].capture
    BY <1>8, <1>9
  <2>3. LineKinds' = LineKinds
    BY DEF LineKinds, Lines
  <2>4. /\ lcdc' \subseteq Banks /\ (op'.k = "remap" => op'.bank \in Banks)
        /\ \A i \in Pending : LineOf(i)' \in LineKinds
        /\ \A i \in Pending : LineOf(i)'.dst # NoBank =>
              LineOf(i)'.dst \in mask' /\ (staged' \/ op'.k = "flag")
    BY <1>1, <1>2, <2>1 DEF EInv, RingInv
  <2>5. \A i \in Pending : jobs'[Slot(i)].capture =
          IF ToRender(i)' \/ LineOf(i)'.dst \notin lcdc' THEN NoBank ELSE LineOf(i)'.dst
    BY <1>1, <1>6, <1>8, <2>1 DEF EInv, RingInv
  <2>6. \A s \in 0..(kJobSlots - 1) :
          (\A i \in Pending : Slot(i) # s) => jobs'[s].capture = NoBank
    BY <2>2 DEF EInv, RingInv
  <2> QED BY <1>6, <2>3, <2>4, <2>5, <2>6 DEF RingInv
<1>11. BankInv'
  <2>1. \A i \in Pending : LineOf(i)' = LineOf(i)
    BY <1>6, <1>8 DEF LineOf
  <2>2. \A i \in Pending : \A b : Captures(i, b)' <=> Captures(i, b)
    BY <1>1, <2>1 DEF Captures
  <2> QED BY <1>1, <1>6, <2>2 DEF EInv, BankInv, LastCapture
<1>12. ReadInv'
  <2>1. \A l : ReadSet(l)' = ReadSet(l)
    BY <1>1 DEF ReadSet
  <2>2. \A i \in Pending : ToRender(i)' =>
          jobs'[Slot(i)].expect = [b \in ReadSet(LineOf(i)') |-> vram'[b]]
    BY <1>1, <1>6, <1>8 DEF EInv, ReadInv, LineOf
  <2>3. ASSUME ~c, NEW b \in R PROVE ref[b] = vram[b]
    <3>1. b \in Banks /\ (b \in lcdc => b = op.line.src)
      BY DEF ReadSet, EInv, RingInv
    <3>2. CASE LastCapture(b)
      <4>1. PICK m \in Pending : Captures(m, b)
        BY <3>2 DEF LastCapture
      <4>2. b \in lcdc /\ b \in mask
        BY <3>1, <4>1, RenderPoolAssumption DEF Captures, EInv, RingInv
      <4> QED BY <2>3, <3>1, <4>2 DEF ReadsStagedBank
    <3> QED BY <3>1, <3>2 DEF EInv, BankInv
  <2>4. stack'[Sched] = <<>> => j.expect = [b \in R |-> vram[b]]
    BY <1>4, <1>9, <2>3
  <2>5. Slot(head') = x
    BY <1>1
  <2> HIDE DEF c, x
  <2> QED BY <1>1, <1>6, <1>8, <1>9, <2>1, <2>2, <2>4, <2>5 DEF ReadInv, LineOf
<1>13. LinesExact'
  <2>1. DOMAIN jobs' = 0..(kJobSlots - 1)
    BY <1>1
  <2> QED BY <1>1, <1>8, <1>9, <2>1 DEF EInv, LinesExact
<1> QED BY <1>5, <1>10, <1>11, <1>12, <1>13 DEF EInv

(* A published line's capture is the newest of its bank.                   *)
LEMMA PublishEInv ==
  ASSUME IInv, SInv, EInv, IInv', Publish
  PROVE  EInv'
<1> DEFINE l == op.line
<1>1. /\ stack \in Stacks /\ head \in Nat /\ claim \in Nat /\ claim <= head
      /\ y \in Nat /\ apply_index \in Nat /\ apply_index <= head
      /\ stack[Sched] = <<>> /\ op.k = "publish" /\ l \in LineKinds
      /\ head' = head + 1 /\ y' = y + 1 /\ outstanding' = TRUE
      /\ mask' = (IF l.dst = NoBank THEN mask ELSE mask \cup {l.dst})
      /\ ref' = InlineCapture(l)
      /\ op'.k = (IF l.dst = NoBank THEN "idle" ELSE "flag")
      /\ UNCHANGED <<claim, done, jobs, staged, apply_index, vram, lcdc, stack>>
  BY DEF IInv, ShapeOK, Accounting, Publish, At, Idle, SInv, BgInv, EInv, PendingInv
<1>2. /\ Pending' = Pending \cup {head} /\ head \notin Pending
      /\ \A i \in Pending : i \in Nat /\ i < head
      /\ \A i : Slot(i)' = Slot(i) /\ LineOf(i)' = LineOf(i)
      /\ \A i : ToRender(i)' <=> ToRender(i)
      /\ \A m : ReadSet(m)' = ReadSet(m)
      /\ ToRender(head)
  BY <1>1 DEF Pending, Slot, LineOf, ToRender, Renders, ReadSet
<1>3. LineOf(head) = l /\ jobs[Slot(head)].expect = [b \in ReadSet(l) |-> vram[b]]
  BY <1>1 DEF EInv, ReadInv, LineOf
<1>4. /\ Slot(head) \in 0..(kJobSlots - 1)
      /\ \A i \in Pending : Slot(i) # Slot(head)
  BY <1>1, PendingSlots DEF EInv
<1>5. jobs[Slot(head)].capture = NoBank
  BY <1>4 DEF EInv, RingInv
<1> HIDE DEF l
<1>6. PendingInv'
  BY <1>1 DEF EInv, PendingInv, IsJob
<1>7. RingInv'
  <2>1. LineKinds' = LineKinds
    BY DEF LineKinds, Lines
  <2>2. \A i \in Pending' : LineOf(i) \in LineKinds
    BY <1>1, <1>2, <1>3 DEF EInv, RingInv
  <2>3. \A i \in Pending' : jobs[Slot(i)].capture =
          IF ToRender(i) \/ LineOf(i).dst \notin lcdc THEN NoBank ELSE LineOf(i).dst
    BY <1>2, <1>5 DEF EInv, RingInv
  <2>4. \A s \in 0..(kJobSlots - 1) :
          (\A i \in Pending' : Slot(i) # s) => jobs[s].capture = NoBank
    BY <1>2 DEF EInv, RingInv
  <2>5. \A i \in Pending' : LineOf(i).dst # NoBank =>
          LineOf(i).dst \in mask' /\ (staged \/ op'.k = "flag")
    BY <1>1, <1>2, <1>3 DEF EInv, RingInv
  <2>6. lcdc \subseteq Banks /\ op'.k # "remap"
    BY <1>1 DEF EInv, RingInv
  <2> QED BY <1>1, <1>2, <2>1, <2>2, <2>3, <2>4, <2>5, <2>6 DEF RingInv
<1>8. BankInv'
  <2>1. ref' = [b \in Banks |-> IF b = l.dst /\ b \in lcdc THEN head + 1 ELSE ref[b]]
    BY <1>1 DEF InlineCapture, EInv, BankInv, RingInv
  <2>2. \A i, b : Captures(i, b)' <=> Captures(i, b)
    BY <1>1, <1>2 DEF Captures
  <2>3. \A b : Captures(head, b) <=> b = l.dst /\ b \in lcdc
    BY <1>3 DEF Captures
  <2>4. ASSUME NEW b \in Banks
        PROVE  \/ ref'[b] = vram[b] /\ \A i \in Pending' : ~Captures(i, b)
               \/ LastCapture(b)'
    <3>1. CASE b = l.dst /\ b \in lcdc
      <4>1. /\ head \in Pending' /\ Captures(head, b) /\ ref'[b] = head + 1
            /\ \A i \in Pending' : Captures(i, b) => i <= head
        BY <1>1, <1>2, <2>1, <2>3, <3>1
      <4> QED BY <2>2, <4>1 DEF LastCapture
    <3>2. CASE ~(b = l.dst /\ b \in lcdc)
      <4>1. ref'[b] = ref[b] /\ ~Captures(head, b)
        BY <2>1, <2>3, <3>2
      <4>2. CASE ref[b] = vram[b] /\ \A i \in Pending : ~Captures(i, b)
        BY <1>2, <4>1, <4>2
      <4>3. CASE LastCapture(b)
        <5>1. PICK m \in Pending : /\ Captures(m, b) /\ ref[b] = m + 1
                                  /\ \A i \in Pending : Captures(i, b) => i <= m
          BY <4>3 DEF LastCapture
        <5>2. m \in Pending' /\ \A i \in Pending' : Captures(i, b) => i <= m
          BY <1>2, <4>1, <5>1
        <5> QED BY <2>2, <4>1, <5>1, <5>2 DEF LastCapture
      <4> QED BY <4>2, <4>3 DEF EInv, BankInv
    <3> QED BY <3>1, <3>2
  <2>5. ref' = [b \in Banks |-> ref'[b]]
    BY <2>1
  <2>6. vram' = [b \in Banks |-> vram'[b]]
    BY <1>1 DEF EInv, BankInv
  <2> QED BY <1>1, <2>2, <2>4, <2>5, <2>6 DEF BankInv
<1>9. ReadInv'
  <2>1. \A i \in Pending' : ToRender(i) =>
          jobs[Slot(i)].expect = [b \in ReadSet(LineOf(i)) |-> vram[b]]
    BY <1>2, <1>3 DEF EInv, ReadInv
  <2>2. op'.k # "publish"
    BY <1>1
  <2> QED BY <1>1, <1>2, <2>1, <2>2 DEF ReadInv
<1>10. LinesExact'
  BY <1>1 DEF EInv, LinesExact
<1> QED BY <1>6, <1>7, <1>8, <1>9, <1>10 DEF EInv

(* A rendered line has read what inline rendering would have shown it.     *)
LEMMA LineEInv ==
  ASSUME IInv, SInv, EInv, IInv', NEW t \in Threads, RenderLine(t)
  PROVE  EInv'
<1>0. PICK n : n = Top(t).n
  OBVIOUS
<1> DEFINE x == Slot(n)
           l == jobs[x].line
           j == [line |-> l, index |-> jobs[x].index,
                 capture |-> IF l.dst = NoBank THEN jobs[x].capture
                             ELSE IF l.dst \in lcdc THEN l.dst ELSE NoBank,
                 got |-> [b \in ReadSet(l) |-> vram[b]], expect |-> jobs[x].expect]
<1>1. /\ stack \in Stacks /\ head \in Nat /\ claim \in Nat /\ claim <= head
      /\ Once /\ BelowClaim /\ In(t, "render")
      /\ stack' = [stack EXCEPT ![t] = Append(SubSeq(@, 1, Len(@) - 1), Counting(Top(t).n))]
      /\ UNCHANGED <<head, claim, done, outstanding, staged, mask, apply_index, vram, lcdc,
                     op, y, ref>>
      /\ DOMAIN jobs = 0..(kJobSlots - 1)
      /\ jobs' = [jobs EXCEPT ![x] = j]
  BY <1>0 DEF IInv, ShapeOK, Accounting, RenderLine, flags
<1>2. /\ \A u \in Threads, k, i \in Nat : Job(u, k, i)' => Job(u, k, i)
      /\ \A i : Renders(i)' <=> Renders(i) /\ i # n
      /\ Renders(n)
  BY <1>0, <1>1, JobRetopped, RenderTurned
<1>3. stack'[Sched] = <<>> => stack[Sched] = <<>>
  BY Emptied
<1>4. n \in Pending /\ n < claim
  <2>1. PICK u \in Threads : \E k \in 1..Len(stack[u]) :
           stack[u][k].k = "render" /\ stack[u][k].n = n
    BY <1>2 DEF Renders
  <2>2. PICK k \in 1..Len(stack[u]) : stack[u][k].k = "render" /\ stack[u][k].n = n
    BY <2>1
  <2>3. IsJob(u, k)
    BY <2>2 DEF IsJob
  <2>4. n \in Nat
    BY <1>1, <2>2, <2>3, JobNat DEF Job
  <2>5. apply_index <= n /\ n < claim /\ apply_index \in Nat
    BY <1>1, <2>2, <2>3 DEF BelowClaim, EInv, PendingInv
  <2> QED BY <1>1, <2>4, <2>5 DEF Pending
<1>5. /\ x \in 0..(kJobSlots - 1)
      /\ \A i \in Pending : i \in Nat /\ Slot(i) \in 0..(kJobSlots - 1) /\ (i # n => Slot(i) # x)
      /\ op.k = "publish" => Slot(head) # x
      /\ Slot(head) \in 0..(kJobSlots - 1)
  <2> QED BY <1>4, PendingSlots DEF EInv
<1>6. LineOf(n) = l /\ ToRender(n) /\ ~ToRender(n)'
  <2>1. n \in Nat
    BY <1>4, <1>5
  <2> QED BY <1>1, <1>2, <1>4, <2>1 DEF LineOf, ToRender
<1>7. /\ jobs[x].capture = NoBank
      /\ jobs[x].expect = [b \in ReadSet(l) |-> vram[b]]
      /\ NoBank \notin lcdc
  BY <1>4, <1>6, RenderPoolAssumption DEF EInv, RingInv, ReadInv
<1>8. /\ j.line = l /\ j.capture = (IF l.dst \in lcdc THEN l.dst ELSE NoBank)
      /\ j.got = j.expect /\ j.expect = jobs[x].expect
  BY <1>7
<1> HIDE DEF j
<1>9. /\ jobs'[x] = j
      /\ \A s \in 0..(kJobSlots - 1) : s # x => jobs'[s] = jobs[s]
      /\ DOMAIN jobs' = 0..(kJobSlots - 1)
  <2> HIDE DEF x
  <2> QED BY <1>1, <1>5
<1>10. /\ Pending' = Pending /\ \A i : Slot(i)' = Slot(i)
       /\ \A i \in Pending : LineOf(i)' = LineOf(i)
       /\ \A i : ToRender(i)' => ToRender(i) /\ i # n
       /\ \A i : i # n /\ ToRender(i) => ToRender(i)'
  <2>1. Pending' = Pending /\ \A i : Slot(i)' = Slot(i)
    BY <1>1 DEF Pending, Slot
  <2>2. \A i \in Pending : jobs'[Slot(i)].line = jobs[Slot(i)].line
    BY <1>5, <1>8, <1>9
  <2>3. \A i : ToRender(i)' => ToRender(i) /\ i # n
    BY <1>1, <1>2, <1>6 DEF ToRender
  <2>4. \A i : i # n /\ ToRender(i) => ToRender(i)'
    BY <1>1, <1>2 DEF ToRender
  <2> QED BY <2>1, <2>2, <2>3, <2>4 DEF LineOf
<1>11. PendingInv'
  <2>1. claim <= claim'
    BY <1>1
  <2> QED BY <1>1, <1>2, <1>3, <2>1, PendingKept DEF EInv, PendingInv
<1> HIDE DEF l, x
<1>12. RingInv'
  <2>1. LineKinds' = LineKinds
    BY DEF LineKinds, Lines
  <2>2. /\ lcdc' \subseteq Banks /\ (op'.k = "remap" => op'.bank \in Banks)
        /\ \A i \in Pending : LineOf(i) \in LineKinds
        /\ \A i \in Pending : LineOf(i).dst # NoBank =>
              LineOf(i).dst \in mask' /\ (staged' \/ op'.k = "flag")
    BY <1>1 DEF EInv, RingInv
  <2>3. ASSUME NEW i \in Pending
        PROVE  jobs'[Slot(i)].capture =
                 IF ToRender(i)' \/ LineOf(i).dst \notin lcdc THEN NoBank ELSE LineOf(i).dst
    <3>1. CASE i = n
      BY <3>1, <1>6, <1>8, <1>9 DEF x
    <3>2. CASE i # n
      BY <3>2, <1>5, <1>9, <1>10 DEF EInv, RingInv
    <3> QED BY <3>1, <3>2
  <2>4. ASSUME NEW s \in 0..(kJobSlots - 1), \A i \in Pending : Slot(i) # s
        PROVE  jobs'[s].capture = NoBank
    <3>1. s # x
      BY <1>4, <2>4 DEF x
    <3> QED BY <2>4, <3>1, <1>9 DEF EInv, RingInv
  <2> QED BY <1>1, <1>10, <2>1, <2>2, <2>3, <2>4 DEF RingInv
<1>13. BankInv'
  <2>1. \A i \in Pending : \A b : Captures(i, b)' <=> Captures(i, b)
    BY <1>1, <1>10 DEF Captures
  <2> QED BY <1>1, <1>10, <2>1 DEF EInv, BankInv, LastCapture
<1>14. ReadInv'
  <2>1. \A m : ReadSet(m)' = ReadSet(m)
    BY <1>1 DEF ReadSet
  <2>2. ASSUME NEW i \in Pending, ToRender(i)'
        PROVE  jobs'[Slot(i)].expect = [b \in ReadSet(LineOf(i)) |-> vram[b]]
    <3>1. i # n /\ ToRender(i)
      BY <2>2, <1>10
    <3>2. jobs'[Slot(i)] = jobs[Slot(i)]
      BY <3>1, <1>5, <1>9
    <3> QED BY <3>1, <3>2 DEF EInv, ReadInv
  <2>3. op.k = "publish" => jobs'[Slot(head)] = jobs[Slot(head)]
    BY <1>5, <1>9
  <2>4. op'.k = "publish" =>
          /\ jobs'[Slot(head)].line = op'.line /\ jobs'[Slot(head)].got = <<>>
          /\ jobs'[Slot(head)].expect = [b \in ReadSet(op'.line) |-> ref[b]]
          /\ stack'[Sched] = <<>> =>
               jobs'[Slot(head)].expect = [b \in ReadSet(op'.line) |-> vram[b]]
    BY <1>1, <1>3, <2>3 DEF EInv, ReadInv
  <2> QED BY <1>1, <1>10, <2>1, <2>2, <2>4 DEF ReadInv
<1>15. LinesExact'
  <2>1. \A s \in 0..(kJobSlots - 1) :
          jobs'[s].got # <<>> => jobs'[s].got = jobs'[s].expect
    BY <1>1, <1>8, <1>9 DEF EInv, LinesExact
  <2> QED BY <1>9, <2>1 DEF LinesExact
<1> QED BY <1>11, <1>12, <1>13, <1>14, <1>15 DEF EInv

LEMMA NextEInv ==
  ASSUME IInv, SInv, EInv, IInv', [Next]_vars
  PROVE  EInv'
<1>1. CASE \E m \in LineKinds : Submit(m)
  BY <1>1, ThenEInv DEF Submit
<1>2. CASE Latch
  BY <1>2, LatchEInv
<1>3. CASE Publish
  BY <1>3, PublishEInv
<1>4. CASE Flag \/ DoFrame \/ Joined
  BY <1>4, FlagEInv
<1>5. CASE \E b \in Banks : GuestStore(b)
  BY <1>5, ThenEInv DEF GuestStore, WriteFence
<1>6. CASE \E b \in Banks : Remap(b)
  BY <1>6, ThenEInv DEF Remap, WriteFence
<1>7. CASE DoStore \/ DoRemap
  BY <1>7, StoreEInv
<1>8. CASE GuestRead
  BY <1>8, ThenEInv DEF GuestRead, Idle
<1>9. CASE FrameBoundary
  BY <1>9, ThenEInv DEF FrameBoundary
<1>10. CASE StopPool
  BY <1>10, ThenEInv DEF StopPool
<1>11. ASSUME NEW t \in Threads, Thread(t) PROVE EInv'
  BY <1>11, ClaimEInv, ReturnEInv, NoFence, LineEInv, DoneEInv DEF Thread
<1>12. CASE \E w \in Workers : WorkerClaim(w)
  BY <1>12, ClaimEInv DEF Threads
<1>13. CASE Stopped \/ UNCHANGED vars
  <2>1. UNCHANGED <<ring, flags, vram, lcdc, op, y, stack, ref>>
    BY <1>13 DEF Stopped, vars
  <2>2. /\ Pending' = Pending /\ \A i : Slot(i)' = Slot(i)
        /\ \A i : LineOf(i)' = LineOf(i)
        /\ \A i : ToRender(i)' <=> ToRender(i)
    BY <2>1 DEF Pending, Slot, LineOf, ToRender, Renders, ring, flags
  <2>3. PendingInv'
    BY <2>1 DEF EInv, PendingInv, IsJob, ring, flags
  <2>4. RingInv' /\ BankInv' /\ ReadInv' /\ LinesExact'
    <3>1. \A i \in Pending : LineOf(i).dst # NoBank => staged' \/ op'.k = "flag"
      BY <2>1 DEF EInv, RingInv, flags
    <3>2. op'.k = "remap" => op'.bank \in Banks
      BY <2>1 DEF EInv, RingInv
    <3> QED BY <2>1, <2>2, <3>1, <3>2, ContentKept DEF ring, flags
  <2> QED BY <2>3, <2>4 DEF EInv
<1>14. CASE Scheduler
  BY <1>1, <1>2, <1>3, <1>4, <1>5, <1>6, <1>7, <1>8, <1>9, <1>10, <1>14 DEF Scheduler
<1> QED BY <1>11, <1>12, <1>13, <1>14 DEF Next

(* Threading is invisible in a pool without VRAM-display lines: whatever   *)
(* the workers, the stores, the remaps and the deferred captures do, each  *)
(* line shows what rendering it inline would have shown, and a guest read  *)
(* past the fence finds the video memory inline rendering would have left  *)
(* (submit_line, drain_pool, stage_capture, apply_staged_range,            *)
(* nds_video_read, nds_video_write).                                       *)
THEOREM ThreadingInvisible == "vram" \notin Modes => (Spec => []AsInline)
<1> SUFFICES ASSUME "vram" \notin Modes PROVE Spec => []AsInline
  OBVIOUS
<1> DEFINE All == IInv /\ SInv /\ EInv
<1>1. Init => All
  BY InitIInv, InitSInv, InitEInv
<1>2. All /\ [Next]_vars => All'
  <2> SUFFICES ASSUME IInv, SInv, EInv, [Next]_vars PROVE IInv' /\ SInv' /\ EInv'
    OBVIOUS
  <2>1. IInv'
    BY NextIInv
  <2>2. BgInv' /\ Drains' /\ Quiet'
    BY <2>1, NextBg, NextDrains, NextQuiet
  <2>3. EInv'
    BY <2>1, NextEInv
  <2> QED BY <2>1, <2>2, <2>3 DEF SInv
<1>3. All => AsInline
  <2> SUFFICES ASSUME EInv, At("idle"), ~staged PROVE vram = ref
    BY DEF AsInline, GuestViewExact, EInv
  <2>1. \A i \in Pending : LineOf(i).dst = NoBank
    BY DEF EInv, RingInv, At
  <2>2. NoBank \notin Banks
    BY RenderPoolAssumption
  <2>3. \A b \in Banks : ref[b] = vram[b]
    BY <2>1, <2>2 DEF EInv, BankInv, LastCapture, Captures
  <2> QED BY <2>3 DEF EInv, BankInv
<1> HIDE DEF All
<1> QED BY <1>1, <1>2, <1>3, PTL DEF Spec
================================================================================
