----------------------------- MODULE RenderPool -----------------------------
(***************************************************************************)
(* The threaded 2D scanline renderer (runner/src/gpu2d.cpp, struct Pool)    *)
(* and the fences that guard guest video memory (vram.cpp, gpu2d.h).        *)
(*                                                                          *)
(* The scheduler thread latches each scanline into a ring slot and          *)
(* publishes it; workers claim, render and count it.  Rendering reads       *)
(* guest VRAM live, and the pixels of a display-capture line reach VRAM     *)
(* only when the scheduler thread next drains the ring.  Every fence is a   *)
(* drain: help with unclaimed lines, wait for the rest, apply the staged    *)
(* captures in ring order.  All waits of the code are bounded polls, so     *)
(* the condition variables are not modelled.                                *)
(*                                                                          *)
(* Contents of a VRAM bank are abstracted to a number naming their last     *)
(* writer: line i writes i + 1, the k-th guest store MaxLines + k.          *)
(***************************************************************************)
EXTENDS Integers, Sequences, FiniteSets, FiniteSetsExt

CONSTANTS Workers,     \* the pool's threads
          Sched,       \* the scheduler (emulation) thread
          Banks,       \* VRAM banks that can be LCDC-mapped
          NoBank,
          kJobSlots,   \* ring slots (256 in the code)
          FrameLines,  \* visible lines of a frame (192)
          Modes,       \* display modes lines may use: subset of {"bg", "vram"}
          MaxLines,    \* bound: lines submitted
          MaxStores    \* bound: guest stores and remaps

ASSUME RenderPoolAssumption ==
  /\ IsFiniteSet(Workers) /\ Sched \notin Workers
  /\ NoBank \notin Banks
  /\ kJobSlots \in Nat /\ FrameLines \in Nat \ {0} /\ FrameLines <= kJobSlots
  /\ Modes \subseteq {"bg", "vram"}
  /\ MaxLines \in Nat /\ MaxStores \in Nat

Threads == Workers \cup {Sched}

VARIABLES
  head, claim, done,  \* the pool's atomic counters
  jobs,               \* ring slot |-> LineJob
  outstanding,        \* nds_gpu2d_jobs_outstanding
  staged,             \* nds_gpu2d_staged_captures
  mask,               \* g_staged_bank_mask
  apply_index,        \* g_capture_apply_index
  vram, lcdc,         \* bank contents; banks mapped as LCDC
  op,                 \* what the scheduler thread does when its stack empties
  y,                  \* lines submitted in this frame
  stores,             \* guest stores and remaps so far
  stack,              \* each thread's activations of drain_pool and render_line_job
  ref                 \* history: VRAM had every line been rendered inline

ring == <<head, claim, done, jobs>>
flags == <<outstanding, staged, mask, apply_index>>
vars == <<ring, flags, vram, lcdc, op, y, stores, stack, ref>>

-----------------------------------------------------------------------------
(* Lines.  A line shows LCDC bank src (display mode 2, "vram") or decodes BG *)
(* and OBJ layers ("bg"); a capturing line writes bank dst, and a "bg" line  *)
(* that captures may blend with source B, which is also bank src.            *)

Lines == [mode : Modes, src : Banks \cup {NoBank}, dst : Banks \cup {NoBank}]
LineKinds == {l \in Lines : /\ l.mode = "vram" => l.src # NoBank
                            /\ l.mode = "bg" /\ l.dst = NoBank => l.src = NoBank}

\* The banks a render of line l reads: the BG/OBJ views hold only banks that
\* are not LCDC-mapped, mode 2 and source B see only LCDC-mapped ones.
ReadSet(l) == (Banks \ lcdc) \cup ({l.src} \cap lcdc)

NoJob == [line |-> [mode |-> "bg", src |-> NoBank, dst |-> NoBank],
          index |-> -1, capture |-> NoBank, got |-> <<>>, expect |-> <<>>]

Init ==
  /\ head = 0 /\ claim = 0 /\ done = 0
  /\ jobs = [s \in 0..(kJobSlots - 1) |-> NoJob]
  /\ outstanding = FALSE /\ staged = FALSE /\ mask = {} /\ apply_index = 0
  /\ vram = [b \in Banks |-> 0] /\ lcdc \in SUBSET Banks
  /\ op = [k |-> "idle"] /\ y = 0 /\ stores = 0
  /\ stack = [t \in Threads |-> <<>>]
  /\ ref = vram

Slot(i) == i % kJobSlots

-----------------------------------------------------------------------------
(* Activations *)

Top(t) == stack[t][Len(stack[t])]
Push(t, a) == [stack EXCEPT ![t] = Append(@, a)]
Pop(t) == [stack EXCEPT ![t] = SubSeq(@, 1, Len(@) - 1)]

\* A drain remembers the head it found; a render the job index it claimed.
Draining(n) == [k |-> "drain", n |-> n]
Rendering(i) == [k |-> "render", n |-> i]
Counting(i) == [k |-> "count", n |-> i]

In(t, k) == stack[t] # <<>> /\ Top(t).k = k

\* The scheduler thread is between its operations' drains.
At(k) == stack[Sched] = <<>> /\ op.k = k

\* Call drain_pool on the scheduler thread if c holds, then continue with o.
Then(c, o) ==
  /\ op' = o
  /\ stack' = IF c THEN Push(Sched, Draining(head)) ELSE stack

Idle == [k |-> "idle"]

-----------------------------------------------------------------------------
(* submit_line, on the scheduler thread *)

Submit(l) ==
  /\ At("idle") /\ y < FrameLines /\ head < MaxLines
  /\ Then(head - done >= kJobSlots, [k |-> "latch", line |-> l])
  /\ UNCHANGED <<ring, flags, vram, lcdc, y, stores, ref>>

\* line_reads_staged_bank
ReadsStagedBank(l) == l.src \in mask

Latch ==
  /\ At("latch")
  /\ jobs' = [jobs EXCEPT ![Slot(head)] =
                [line |-> op.line, index |-> head, capture |-> @.capture,
                 got |-> <<>>, expect |-> [b \in ReadSet(op.line) |-> ref[b]]]]
  /\ Then(ReadsStagedBank(op.line), [k |-> "publish", line |-> op.line])
  /\ UNCHANGED <<head, claim, done, flags, vram, lcdc, y, stores, ref>>

\* What the inline renderer leaves in VRAM: the capture is applied at once.
InlineCapture(l) ==
  IF l.dst \in lcdc THEN [ref EXCEPT ![l.dst] = head + 1] ELSE ref

Publish ==
  /\ At("publish")
  /\ mask' = IF op.line.dst = NoBank THEN mask ELSE mask \cup {op.line.dst}
  /\ head' = head + 1
  /\ outstanding' = TRUE
  /\ ref' = InlineCapture(op.line)
  /\ y' = y + 1
  /\ op' = IF op.line.dst = NoBank THEN Idle ELSE [k |-> "flag"]
  /\ UNCHANGED <<claim, done, jobs, staged, apply_index, vram, lcdc, stores, stack>>

\* The workers see the flag only after the line it announces.
Flag ==
  /\ At("flag")
  /\ staged' = TRUE
  /\ op' = Idle
  /\ UNCHANGED <<ring, outstanding, mask, apply_index, vram, lcdc, y, stores,
                 stack, ref>>

-----------------------------------------------------------------------------
(* drain_pool, on whichever thread calls it *)

\* The lines below n whose staged capture goes to bank b.
Captured(n, b) == {i \in apply_index..(n - 1) : jobs[Slot(i)].capture = b}
\* A mutant of Applied: the captures are applied in reverse order.
AppliedReversed(n) ==
  [b \in Banks |-> IF Captured(n, b) = {} THEN vram[b] ELSE Min(Captured(n, b)) + 1]
\* apply_staged_range: in ring order, so the last capture into a bank stays.
Applied(n) ==
  [b \in Banks |-> IF Captured(n, b) = {} THEN vram[b] ELSE Max(Captured(n, b)) + 1]

DrainHelp(t) ==
  /\ In(t, "drain") /\ claim < Top(t).n
  /\ claim' = claim + 1
  /\ stack' = Push(t, Rendering(claim))
  /\ UNCHANGED <<head, done, jobs, flags, vram, lcdc, op, y, stores, ref>>

\* drain_pool returns once every line it found published has been rendered.
Drained(n) == claim >= n /\ done >= n

DrainReturn(t) ==
  LET n == Top(t).n IN
  /\ In(t, "drain") /\ Drained(n)
  /\ outstanding' = FALSE
  /\ vram' = Applied(n)
  /\ jobs' = [s \in DOMAIN jobs |->
                IF \E i \in apply_index..(n - 1) : Slot(i) = s
                THEN [jobs[s] EXCEPT !.capture = NoBank] ELSE jobs[s]]
  /\ apply_index' = IF apply_index < n THEN n ELSE apply_index
  /\ mask' = {} /\ staged' = FALSE
  /\ stack' = Pop(t)
  /\ UNCHANGED <<head, claim, done, lcdc, op, y, stores, ref>>

-----------------------------------------------------------------------------
(* worker_main and render_line_job *)

\* A mutant of WorkerClaim: the claim is a plain load.
WorkerClaimLoad(w) ==
  /\ stack[w] = <<>> /\ op.k # "stopped" /\ claim < head
  /\ stack' = Push(w, Rendering(claim))
  /\ UNCHANGED <<ring, flags, vram, lcdc, op, y, stores, ref>>

WorkerClaim(w) ==
  /\ stack[w] = <<>> /\ op.k # "stopped" /\ claim < head
  /\ claim' = claim + 1
  /\ stack' = Push(w, Rendering(claim))
  /\ UNCHANGED <<head, done, jobs, flags, vram, lcdc, op, y, stores, ref>>

\* A mode-2 line reads VRAM through nds_video_read, whose read fence drains
\* when captures are staged, on the thread that renders the line.
FencesItself(i) == jobs[Slot(i)].line.mode = "vram" /\ staged

RenderFence(t) ==
  /\ In(t, "render") /\ FencesItself(Top(t).n)
  /\ stack' = Push(t, Draining(head))
  /\ UNCHANGED <<ring, flags, vram, lcdc, op, y, stores, ref>>

\* Produce the line's pixels and, through stage_capture, its capture pixels.
RenderLine(t) ==
  /\ In(t, "render") /\ ~FencesItself(Top(t).n)
  /\ LET s == Slot(Top(t).n)  l == jobs[s].line IN
       jobs' = [jobs EXCEPT ![s] =
                  [line |-> l, index |-> @.index,
                   capture |-> IF l.dst = NoBank THEN @.capture
                               ELSE IF l.dst \in lcdc THEN l.dst ELSE NoBank,
                   got |-> [b \in ReadSet(l) |-> vram[b]], expect |-> @.expect]]
  /\ stack' = [stack EXCEPT ![t] = Append(SubSeq(@, 1, Len(@) - 1), Counting(Top(t).n))]
  /\ UNCHANGED <<head, claim, done, flags, vram, lcdc, op, y, stores, ref>>

\* A mutant of RenderDone: a helping drain does not count the lines it renders.
RenderDoneUncounted(t) ==
  /\ In(t, "count")
  /\ done' = IF t = Sched THEN done ELSE done + 1
  /\ stack' = Pop(t)
  /\ UNCHANGED <<head, claim, jobs, flags, vram, lcdc, op, y, stores, ref>>

RenderDone(t) ==
  /\ In(t, "count")
  /\ done' = done + 1
  /\ stack' = Pop(t)
  /\ UNCHANGED <<head, claim, jobs, flags, vram, lcdc, op, y, stores, ref>>

-----------------------------------------------------------------------------
(* The fenced operations of the scheduler thread *)

\* A mutant of WriteFence: the write side checks the read side's flag.
WriteFenceOnStaged == staged
\* nds_video_write and nds_vram_map fence on jobs outstanding, then change VRAM.
WriteFence == outstanding

GuestStore(b) ==
  /\ At("idle") /\ stores < MaxStores
  /\ Then(WriteFence, [k |-> "store", bank |-> b])
  /\ UNCHANGED <<ring, flags, vram, lcdc, y, stores, ref>>

DoStore ==
  /\ At("store")
  /\ vram' = [vram EXCEPT ![op.bank] = MaxLines + stores + 1]
  /\ ref' = [ref EXCEPT ![op.bank] = MaxLines + stores + 1]
  /\ stores' = stores + 1
  /\ op' = Idle
  /\ UNCHANGED <<ring, flags, lcdc, y, stack>>

Remap(b) ==
  /\ At("idle") /\ stores < MaxStores
  /\ Then(WriteFence, [k |-> "remap", bank |-> b])
  /\ UNCHANGED <<ring, flags, vram, lcdc, y, stores, ref>>

DoRemap ==
  /\ At("remap")
  /\ lcdc' = IF op.bank \in lcdc THEN lcdc \ {op.bank} ELSE lcdc \cup {op.bank}
  /\ stores' = stores + 1
  /\ op' = Idle
  /\ UNCHANGED <<ring, flags, vram, y, stack, ref>>

\* nds_video_read, nds_video_get_region: the read itself changes nothing.
GuestRead ==
  /\ At("idle") /\ staged
  /\ Then(TRUE, Idle)
  /\ UNCHANGED <<ring, flags, vram, lcdc, y, stores, ref>>

\* nds_gpu2d_vblank, finish_frame and start_frame all drain between the last
\* line of a frame and the first line of the next.
FrameBoundary ==
  /\ At("idle") /\ y = FrameLines
  /\ Then(TRUE, [k |-> "frame"])
  /\ UNCHANGED <<ring, flags, vram, lcdc, y, stores, ref>>

DoFrame ==
  /\ At("frame")
  /\ y' = 0
  /\ op' = Idle
  /\ UNCHANGED <<ring, flags, vram, lcdc, stores, stack, ref>>

\* stop_pool: drain, raise stop, join.  A worker leaves when it next looks for work.
StopPool ==
  /\ At("idle") /\ head = MaxLines
  /\ Then(TRUE, [k |-> "stop"])
  /\ UNCHANGED <<ring, flags, vram, lcdc, y, stores, ref>>

Joined ==
  /\ At("stop") /\ \A w \in Workers : stack[w] = <<>>
  /\ op' = [k |-> "stopped"]
  /\ UNCHANGED <<ring, flags, vram, lcdc, y, stores, stack, ref>>

Stopped == op.k = "stopped" /\ UNCHANGED vars

-----------------------------------------------------------------------------
Thread(t) == DrainHelp(t) \/ DrainReturn(t) \/ RenderFence(t) \/ RenderLine(t) \/ RenderDone(t)

Scheduler ==
  \/ \E l \in LineKinds : Submit(l)
  \/ Latch \/ Publish \/ Flag
  \/ \E b \in Banks : GuestStore(b) \/ Remap(b)
  \/ DoStore \/ DoRemap \/ GuestRead \/ FrameBoundary \/ DoFrame
  \/ StopPool \/ Joined

Next ==
  \/ Scheduler
  \/ \E t \in Threads : Thread(t)
  \/ \E w \in Workers : WorkerClaim(w)
  \/ Stopped

\* Every thread keeps running; no fairness is asked of the guest's choices.
Fairness ==
  /\ \A t \in Threads : WF_vars(Thread(t))
  /\ \A w \in Workers : WF_vars(WorkerClaim(w))

Spec == Init /\ [][Next]_vars /\ Fairness

-----------------------------------------------------------------------------
(* Properties *)

\* A job a thread is inside.
Inside(i) == \E t \in Threads : \E k \in 1..Len(stack[t]) :
               stack[t][k].k \in {"render", "count"} /\ stack[t][k].n = i

\* The counters count the threads: what is claimed and not done is exactly what
\* some thread is inside, once, and the slot of such a job still holds it.  This
\* is why one counter can stand for the completion of every earlier line.
ClaimsAccounted ==
  /\ done <= claim /\ claim <= head
  /\ Cardinality({i \in 0..(claim - 1) : Inside(i)}) = claim - done
  /\ \A i \in 0..(head - 1) : Inside(i) => jobs[Slot(i)].index = i

\* Threading changes no pixel: every rendered line saw, in every bank it reads,
\* what inline rendering would have shown it, however guest stores, remaps and
\* deferred captures interleave with the workers.
LinesExact ==
  \A s \in DOMAIN jobs : jobs[s].got # <<>> => jobs[s].got = jobs[s].expect

\* A guest read that passes the read fence sees every capture of earlier lines.
GuestViewExact == At("idle") /\ ~staged => vram = ref

\* Threading is invisible: pixels and video memory are those of inline rendering.
AsInline == LinesExact /\ GuestViewExact

\* Video memory and its mapping change only while no line is being rendered or
\* waiting to be, whichever thread makes the change.
MemoryStill == [][vram' # vram \/ lcdc' # lcdc => done = head]_vars

\* Every drain the scheduler thread starts returns.
DrainReturns == (stack[Sched] # <<>>) ~> (stack[Sched] = <<>>)
=============================================================================
