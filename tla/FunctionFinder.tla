--------------------------- MODULE FunctionFinder ----------------------------
(***************************************************************************)
(* Static discovery of guest functions (recompiler/finder/                 *)
(* function_finder.cpp): a worklist of (address, mode) roots, a walk that  *)
(* decodes forward from each, the roots it adds, jump tables that become   *)
(* data while discovery runs, and the boundaries fixed afterwards.  The    *)
(* generated code dispatches by entry, so an address control can reach     *)
(* that is neither inside a body nor an entry is a miss at run time.       *)
(*                                                                         *)
(* An address is a halfword.  A decoded instruction is a record: its op,   *)
(* the displacement d and mode m of a direct target, the absolute address  *)
(* `to' of a constant the tracker knows, and a table's base and bound.     *)
(* What each op stands for:                                                *)
(*   plain undef swi ret      bxc   a conditional return or indirect       *)
(*   b bc    a branch         bl    a call, to mode m (BLX switches)       *)
(*   pre suf the two halves of a THUMB call                                *)
(*   bxk     an indirect transfer to a known address                       *)
(*   pad     an unresolved one with a known code address in LR             *)
(*   str     a store of a known code pointer                               *)
(*   jt      a dispatch through a table                                    *)
(***************************************************************************)
EXTENDS Naturals, Integers, Sequences, FiniteSets, SequencesExt

CONSTANTS Size,       \* halfwords of the image
          Copies,     \* [alias address -> source address] of the code copies
          Images,     \* [arm, thumb: address -> instruction, words: -> pointer]
          Configs,    \* [seeds, authoritative, ranges, excluded]
          MaxFunctions, \* the argument of run
          MaxInstrs,  \* kMaxInstrs
          StrictRun   \* instructions a strict code check decodes

VARIABLES
  image, config,
  ranges,     \* addresses marked as data so far
  worklist,   \* QueuedSeed: [addr, mode, exact, required]
  remaining,  \* required_remaining
  enqueued, visited,
  switchSeeds,\* mode_switch_seeds_
  walk,       \* the walk in progress, as a sequence of at most one record
  functions,  \* [addr, mode, end]
  collisions, ptrSeen, jtSeen,
  capped,     \* addresses where a walk ran into kMaxInstrs
  phase

vars == <<image, config, ranges, worklist, remaining, enqueued, visited,
          switchSeeds, walk, functions, collisions, ptrSeen, jtSeen, capped, phase>>

Step(mode) == IF mode = "thumb" THEN 1 ELSE 2

\* map_addr_to_source, as a set
Source(a) ==
  IF a \in 0..(Size - 1) THEN {a}
  ELSE IF a \in DOMAIN Copies THEN {Copies[a]} ELSE {}

CanRead(a, len) == \E s \in Source(a) : s + len <= Size

Decode(a, mode) ==
  LET s == CHOOSE s \in Source(a) : TRUE
  IN IF mode = "thumb" THEN image.thumb[s]
     ELSE IF s % 2 = 0 THEN image.arm[s] ELSE [op |-> "undef"]

Word(a) == image.words[CHOOSE s \in Source(a) : TRUE]

Key(a, mode) == [addr |-> a, mode |-> mode]

Init ==
  /\ image \in Images /\ config \in Configs
  /\ ranges = config.ranges
  /\ worklist = [n \in DOMAIN config.seeds |->
                   [addr |-> config.seeds[n].addr, mode |-> config.seeds[n].mode,
                    exact |-> config.seeds[n].exact, required |-> TRUE]]
  /\ remaining = Len(config.seeds)
  /\ enqueued = {Key(s.addr, s.mode) : s \in Range(config.seeds)}
  /\ collisions = {s.addr : s \in Range(config.seeds)} \cap config.ranges
  /\ visited = {} /\ switchSeeds = <<>> /\ walk = <<>> /\ functions = {}
  /\ ptrSeen = {} /\ jtSeen = {} /\ capped = {} /\ phase = "run"

-----------------------------------------------------------------------------
(* discover_one *)

\* The seed of the configuration with this key (seed_by_key)
Declared(key) == {s \in Range(config.seeds) : Key(s.addr, s.mode) = key}

\* The budget only binds once no required root is left.
More == worklist # <<>> /\ (Cardinality(functions) < MaxFunctions \/ remaining > 0)

\* The next root: over the budget, already seen, unreadable, or with an exact
\* size that runs past the image, it is dropped, visited or not.
Pop ==
  /\ phase = "run" /\ walk = <<>> /\ More
  /\ LET s == Head(worklist)
         key == Key(s.addr, s.mode)
         step == Step(s.mode)
         required == s.required \/ Declared(key) # {}
     IN /\ worklist' = Tail(worklist)
        /\ remaining' = IF s.required /\ remaining > 0 THEN remaining - 1 ELSE remaining
        /\ IF \/ key \in visited \/ Source(s.addr) = {}
              \/ ~required /\ Cardinality(functions) >= MaxFunctions
           THEN UNCHANGED <<visited, walk>>
           ELSE /\ visited' = visited \cup {key}
                /\ walk' = IF s.exact > 0 /\ ~CanRead(s.addr + s.exact - step, step)
                           THEN <<>>
                           ELSE <<[key |-> key, pc |-> s.addr, n |-> 0,
                                   exact |-> s.exact, direct |-> <<>>,
                                   required |-> required]>>
  /\ UNCHANGED <<image, config, ranges, enqueued, switchSeeds, functions,
                 collisions, ptrSeen, jtSeen, capped, phase>>

\* looks_like_code
LooksLikeCode(a, mode, strict) ==
  LET run == IF strict THEN StrictRun ELSE 1
      at(j) == a + (j * Step(mode))
  IN /\ mode = "arm" => a % 2 = 0
     /\ a \notin ranges /\ CanRead(a, Step(mode))
     /\ \A j \in 0..(run - 1) :
          (\A i \in 0..j : CanRead(at(i), Step(mode))) =>
            Decode(at(j), mode).op # "undef"

\* The roots an instruction adds, each with the check its kind applies.  A
\* target found by enqueue_resolved_target is filtered by ReadableRoots.
Continuation(i, pc, mode) ==
  IF i.op \in {"swi", "bxc", "bl"} \/ (i.op = "pre" /\ i.pair)
  THEN {Key(pc + Step(mode) + (IF i.op = "pre" THEN 1 ELSE 0), mode)} ELSE {}

\* Direct targets: of a branch or a call, unfiltered; of a THUMB pair, readable.
DirectRoots(i, pc) ==
  IF i.op \in {"b", "bc", "bl"} THEN {Key(pc + i.d, i.m)}
  ELSE IF i.op = "pre" /\ i.pair /\ CanRead(pc + i.d, Step(i.m))
  THEN {Key(pc + i.d, i.m)} ELSE {}

\* Known constants: the target of a BX, the pad in LR, a stored pointer.
ConstantRoots(i) ==
  IF \/ i.op = "bxk" /\ CanRead(i.to, Step(i.m))
     \/ i.op = "pad" /\ LooksLikeCode(i.to, i.m, FALSE)
     \/ /\ i.op = "str" /\ Key(i.to, i.m) \notin ptrSeen
        /\ LooksLikeCode(i.to, i.m, TRUE)
  THEN {Key(i.to, i.m)} \ {Key(a, i.m) : a \in ranges} ELSE {}

\* emit_jump_table: the entries read before one that is not code.  With a bound
\* all of them must be code, without one at least two.
TableEntries(i) ==
  LET limit == IF i.count > 0 THEN i.count ELSE Size
      pos(k) == i.base + (2 * k)
      good(k) == /\ CanRead(pos(k), 2) /\ pos(k) \notin ranges
                 /\ LET w == Word(pos(k))
                    IN LooksLikeCode(w.addr, w.mode, i.count = 0)
      fits == {n \in 0..limit : \A k \in 0..(n - 1) : good(k)}
  IN CHOOSE n \in fits : \A m \in fits : m <= n

Emits(i) ==
  /\ i.op = "jt" /\ i.base \notin jtSeen
  /\ IF i.count > 0 THEN TableEntries(i) = i.count ELSE TableEntries(i) >= 2

TableRoots(i) ==
  IF Emits(i) THEN {Word(i.base + (2 * k)) : k \in 0..(TableEntries(i) - 1)}
  ELSE {}

TableBytes(i) ==
  IF Emits(i) THEN i.base..(i.base + (2 * TableEntries(i)) - 1) ELSE {}

Collides(roots) == {k \in roots : k.addr \in ranges}

\* The walk ends here, and functions_ gains what it covered; its direct targets
\* and its mode-switch seeds become roots right after it (run).
Seeded(direct, switched, required) ==
  LET found == (direct \o switched)
      fresh == {n \in DOMAIN found :
                  /\ Key(found[n].addr, found[n].mode) \notin enqueued
                  /\ \A j \in 1..(n - 1) : found[j] # found[n]}
      order == SetToSortSeq(fresh, <)
  IN IF config.authoritative THEN <<>>
     ELSE [n \in DOMAIN order |->
             LET k == found[order[n]]
             IN [addr |-> k.addr, mode |-> k.mode, exact |-> 0,
                 required |-> required]]

EndWalk(w, end, direct, switched) ==
  LET new == Seeded(direct, switched, w.required)
  IN /\ functions' = functions \cup
                       {[addr |-> w.key.addr, mode |-> w.key.mode, end |-> end]}
     /\ worklist' = new \o worklist
     /\ remaining' = IF w.required THEN remaining + Len(new) ELSE remaining
     /\ enqueued' = enqueued \cup {Key(s.addr, s.mode) : s \in Range(new)}
     /\ walk' = <<>> /\ switchSeeds' = <<>>

\* The walk stops without decoding: the cap, the end of the image or of an exact
\* body, bytes declared as data, or an undefined instruction.
Stop ==
  /\ phase = "run" /\ walk # <<>>
  /\ LET w == walk[1]
         mode == w.key.mode
         over == w.n >= MaxInstrs
         out == ~CanRead(w.pc, Step(mode))
                  \/ (w.exact > 0 /\ w.pc >= w.key.addr + w.exact)
         data == w.pc \in ranges
     IN /\ ~over /\ ~out /\ ~data => Decode(w.pc, mode).op = "undef"
        /\ collisions' = IF ~over /\ ~out /\ data
                         THEN collisions \cup {w.pc} ELSE collisions
        /\ capped' = IF over THEN capped \cup {w.pc} ELSE capped
        /\ EndWalk(w, w.pc, w.direct, switchSeeds)
  /\ UNCHANGED <<image, config, ranges, visited, ptrSeen, jtSeen, phase>>

Stops(i) == i.op \in {"b", "ret", "bxc", "bxk", "pad", "jt"}

\* One instruction of the walk.
Walk ==
  /\ phase = "run" /\ walk # <<>>
  /\ LET w == walk[1]
         mode == w.key.mode
         raw == Decode(w.pc, mode)
         i == IF raw.op = "pre"
              THEN [raw EXCEPT !.pair = /\ CanRead(w.pc + 1, 1)
                                        /\ Decode(w.pc + 1, mode).op = "suf"]
              ELSE raw
         filtered == {k \in Continuation(i, w.pc, mode) :
                        CanRead(k.addr, Step(k.mode))}
         targets == filtered \cup DirectRoots(i, w.pc)
         ok == (targets \ Collides(targets)) \cup ConstantRoots(i)
                 \cup TableRoots(i)
         direct == w.direct \o SetToSeq({k \in ok : k.mode = mode})
         switched == switchSeeds \o SetToSeq({k \in ok : k.mode # mode})
         next == w.pc + Step(mode)
     IN /\ w.n < MaxInstrs /\ CanRead(w.pc, Step(mode))
        /\ w.exact > 0 => w.pc < w.key.addr + w.exact
        /\ w.pc \notin ranges /\ i.op # "undef"
        /\ collisions' = collisions \cup {k.addr : k \in Collides(targets)}
        /\ ptrSeen' = IF i.op = "str" THEN ptrSeen \cup {Key(i.to, i.m)} ELSE ptrSeen
        /\ jtSeen' = IF i.op = "jt" THEN jtSeen \cup {i.base} ELSE jtSeen
        /\ ranges' = ranges \cup TableBytes(i)
        /\ IF Stops(i) THEN EndWalk(w, next, direct, switched)
           ELSE /\ walk' = <<[w EXCEPT !.pc = next, !.n = @ + 1, !.direct = direct]>>
                /\ switchSeeds' = switched
                /\ UNCHANGED <<functions, worklist, remaining, enqueued>>
  /\ UNCHANGED <<image, config, visited, capped, phase>>

-----------------------------------------------------------------------------
(* run, after the worklist has drained *)

\* A body ends where the next function of its mode starts.
Trimmed(f, all) ==
  LET later == {g.addr : g \in {g \in all : g.mode = f.mode /\ g.addr > f.addr}}
      ends == {f.end} \cup later
  IN [f EXCEPT !.end = CHOOSE e \in ends : \A x \in ends : e <= x]

\* A THUMB body is never cut between the halves of a call.
Pulled(f) ==
  IF /\ f.mode = "thumb" /\ f.end > f.addr
     /\ CanRead(f.end - 1, 1) /\ Decode(f.end - 1, "thumb").op = "pre"
     /\ CanRead(f.end, 1)
  THEN [f EXCEPT !.end = @ + 1] ELSE f

Finish ==
  /\ phase = "run" /\ walk = <<>> /\ ~More
  /\ LET kept == {f \in functions : f.addr \notin config.excluded}
     IN functions' = {Pulled(Trimmed(f, kept)) : f \in kept}
  /\ phase' = "done"
  /\ UNCHANGED <<image, config, ranges, worklist, remaining, enqueued, visited,
                 switchSeeds, walk, collisions, ptrSeen, jtSeen, capped>>

Next == Pop \/ Stop \/ Walk \/ Finish

Spec == Init /\ [][Next]_vars

-----------------------------------------------------------------------------
IsPair(pc, mode) ==
  /\ Decode(pc, mode).op = "pre"
  /\ CanRead(pc + 1, 1) /\ Decode(pc + 1, mode).op = "suf"

\* Where control may go from the instruction at pc, as far as it is known: by
\* falling through, and by a transfer that is dispatched.  A return is, when the
\* scheduler has unwound the host stack between the call and it.
FallsTo(pc, mode) ==
  IF Decode(pc, mode).op \in {"b", "ret", "bxk", "pad", "jt"} THEN {}
  ELSE {Key(pc + Step(mode), mode)}

JumpsTo(pc, mode) ==
  LET i == Decode(pc, mode)
  IN (IF i.op \in {"b", "bc", "bl"} \/ IsPair(pc, mode)
      THEN {Key(pc + i.d, i.m)} ELSE {})
     \cup (IF i.op = "bxk" THEN {Key(i.to, i.m)} ELSE {})
     \cup (IF i.op \in {"bl", "swi"} THEN {Key(pc + Step(mode), mode)} ELSE {})
     \cup (IF IsPair(pc, mode) THEN {Key(pc + 2, mode)} ELSE {})

Body(f) == {pc \in f.addr..(f.end - 1) : (pc - f.addr) % Step(f.mode) = 0}

Entries == {Key(f.addr, f.mode) : f \in functions}

\* Once discovery is done without a collision, every address control is known to
\* jump or return to is an entry, and every one it falls through to is an entry
\* or in the same body: nothing is left to a dispatch miss (the roots pushed by
\* discover_one, and the budget, the dedup and the boundaries of run).
Closed ==
  (phase = "done" /\ collisions = {} /\ ~config.authoritative
     /\ config.excluded = {}) =>
    \A f \in functions : \A pc \in Body(f) :
      /\ \A k \in JumpsTo(pc, f.mode) :
           CanRead(k.addr, Step(k.mode)) => k \in Entries
      /\ \A k \in FallsTo(pc, f.mode) :
           \/ k \in Entries \/ k.addr \in Body(f) \/ k.addr \in capped
           \/ ~CanRead(k.addr, Step(k.mode))
           \/ Decode(k.addr, k.mode).op = "undef"

\* Bodies of one mode do not overlap, except that one may take in the second
\* half of its last call, and no body ends between the halves of a call.
BodiesDisjoint ==
  phase = "done" => \A f, g \in functions :
    /\ f # g /\ f.mode = g.mode =>
         \A pc \in Body(f) \cap Body(g) :
           f.mode = "thumb" /\ Decode(pc - 1, "thumb").op = "pre"
             /\ pc \in {f.end - 1, g.end - 1}
    /\ f.mode = "thumb" /\ f.end > f.addr /\ CanRead(f.end, 1) =>
         \/ Decode(f.end - 1, "thumb").op # "pre"
         \/ Decode(f.end, "thumb").op # "suf"

-----------------------------------------------------------------------------
(***************************************************************************)
(* The register and memory trackers a discovery walk keeps                 *)
(* (recompiler/finder/function_finder.cpp, discover_one): constants,       *)
(* copies of a base register, words stored relative to one, and the        *)
(* compare, scale, add chain that sizes a jump table.  Beside them runs    *)
(* the machine: the same straight-line code on actual registers and RAM,   *)
(* so that what is tracked can be compared with what is true.              *)
(*                                                                         *)
(* The walk decodes each instruction once, as if its condition held, and   *)
(* never looks into a callee; of a block transfer it notes the base alone. *)
(* `stale' names what has thereby parted from the tracker.                 *)
(*                                                                         *)
(* ROM is 0..RomSize-1, everything above it RAM; table entries are Stride  *)
(* apart.  An instruction without a destination may make the code forget   *)
(* one register more than this does, which only loses knowledge.           *)
(***************************************************************************)
CONSTANTS Regs, RomSize, Stride,
          Slots,      \* slots of mem_const
          Languages,  \* sets of instructions a routine is made of
          Entry,      \* [regs, bound] at the entry, the bound perhaps parked
          MaxSteps

VARIABLES language, regs, ram,
          const,   \* reg_const: the known value, as a set of at most one
          sym,     \* reg_sym: [rn, off]
          mem,     \* mem_const: slot -> set of at most one [rn, off, value]
          scaled, table, bound, \* reg_scaled, reg_table, reg_bound
          lastCmp, \* the compare just decoded: [reg, imm]
          pend,    \* the table load awaiting its branch: [base, dest, count]
          target,  \* what the walk resolved the last transfer to, the truth, and
                   \* whether neither rests on anything stale
          stale,   \* regs: those of which what is known may be false; memory:
                   \* so may the words remembered
          n

trackerVars == <<language, regs, ram, const, sym, mem, scaled, table, bound, lastCmp,
          pend, target, stale, n>>

Rom(a) == (a * 3) % RomSize
InRom(v) == v \in 0..(RomSize - 1)
Load(a) == IF InRom(a) THEN Rom(a) ELSE IF a \in DOMAIN ram THEN ram[a] ELSE 0

Nothing == [r \in Regs |-> {}]

TrackerInit ==
  /\ language \in Languages
  /\ \E e \in Entry : regs = e.regs /\ bound = e.bound
  /\ ram = [a \in {} |-> 0]
  /\ const = Nothing /\ sym = Nothing /\ scaled = Nothing /\ table = Nothing
  /\ mem = [s \in 1..Slots |-> {}]
  /\ lastCmp = {} /\ pend = {} /\ target = {} /\ n = 0
  /\ stale = [regs |-> {}, memory |-> FALSE]

-----------------------------------------------------------------------------
(* The memory tracker *)

\* resolve_symbolic_base
Resolve(r, off) ==
  IF sym[r] = {} THEN [rn |-> r, off |-> off]
  ELSE LET s == CHOOSE s \in sym[r] : TRUE
       IN [rn |-> s.rn, off |-> s.off + off]

At(m, where) == {s \in DOMAIN m : \E e \in m[s] : e.rn = where.rn /\ e.off = where.off}

\* remember_mem_const: its slot, else a free one, else the first
Remember(m, where, v) ==
  LET same == At(m, where)
      free == {s \in DOMAIN m : m[s] = {}}
      slot == IF same # {} THEN CHOOSE s \in same : TRUE
              ELSE IF free # {} THEN CHOOSE s \in free : \A t \in free : s <= t
              ELSE 1
  IN [m EXCEPT ![slot] = {[rn |-> where.rn, off |-> where.off, value |-> v]}]

\* lookup_mem_const
Lookup(where) ==
  UNION {{e.value : e \in mem[s]} : s \in At(mem, where)}

ForgetAll(m) == [s \in DOMAIN m |-> {}]

\* invalidate_mem_base
DropBase(m, r) == [s \in DOMAIN m |-> {e \in m[s] : e.rn # r}]

KeepSym(y, r) == y

\* invalidate_sym_base
DropSym(y, r) == [q \in Regs |-> {e \in y[q] : e.rn # r}]

-----------------------------------------------------------------------------
(* What parts the machine from the tracker.                                *)

\* Two names for one word: a store through one leaves what is remembered under
\* the other.
Aliased(m, where, a) ==
  \E s \in DOMAIN m : \E e \in m[s] :
    <<e.rn, e.off>> # <<where.rn, where.off>> /\ regs'[e.rn] + e.off = a

\* The base a remembered word is found from is not the one it seems.
Misplaced(r) == sym[r] # {} /\ ({r} \cup {s.rn : s \in sym[r]}) \cap stale.regs # {}

\* What is stale now: the words remembered until all of them are forgotten.
Stale(now, m, wrong) ==
  [regs |-> now,
   memory |-> (wrong \/ stale.memory) /\ \E s \in DOMAIN m : m[s] # {}]

-----------------------------------------------------------------------------
(* Straight-line instructions, of which x says that the condition holds.   *)
(* The value of rd is tracked as newConst and newSym, from what is known   *)
(* of the registers in `from'; every other tracker of rd is cleared unless *)
(* re-established.                                                         *)

Writes(rd, x, from, value, newConst, newSym, newScaled, newTable) ==
  /\ regs' = IF x THEN [regs EXCEPT ![rd] = value] ELSE regs
  /\ const' = [const EXCEPT ![rd] = newConst]
  /\ sym' = DropSym([sym EXCEPT ![rd] = newSym], rd)
  /\ mem' = DropBase(mem, rd)
  /\ scaled' = [scaled EXCEPT ![rd] = newScaled]
  /\ table' = [table EXCEPT ![rd] = newTable]
  /\ bound' = [bound EXCEPT ![rd] = {}]
  /\ stale' = Stale(IF x /\ from \cap stale.regs = {} THEN stale.regs \ {rd}
                    ELSE stale.regs \cup {rd}, mem', FALSE)
  /\ lastCmp' = {} /\ target' = {} /\ UNCHANGED ram

Overwritten(rd) == {p \in pend : p.dest # rd}

Mov(i, x) ==
  /\ i.op = "movi" /\ Writes(i.rd, x, {}, i.imm, {i.imm}, {}, {}, {})
  /\ pend' = Overwritten(i.rd)

MovReg(i, x) ==
  /\ i.op = "movr"
  /\ Writes(i.rd, x, {i.rm}, regs[i.rm], const[i.rm],
            IF sym[i.rm] # {} THEN sym[i.rm] ELSE {[rn |-> i.rm, off |-> 0]},
            {}, {})
  /\ pend' = Overwritten(i.rd)

AddImm(i, x) ==
  /\ i.op = "addi"
  /\ Writes(i.rd, x, {i.rn}, regs[i.rn] + i.imm,
            {v + i.imm : v \in const[i.rn]}, {}, {}, {})
  /\ pend' = Overwritten(i.rd)

\* MOV rd, rm LSL #k: the index scaled, its bound carried
Scale(i, x) ==
  /\ i.op = "lsl"
  /\ Writes(i.rd, x, {i.rm}, regs[i.rm] * Stride, {}, {}, {[max |-> bound[i.rm]]}, {})
  /\ pend' = Overwritten(i.rd)

\* ADD rd, rn, rm: a base in ROM plus a scaled index, either way round
AddReg(i, x) ==
  LET entry(b, s) == {[base |-> v, max |-> e.max] :
                        v \in {v \in const[b] : InRom(v)}, e \in scaled[s]}
      found == IF entry(i.rn, i.rm) # {} THEN entry(i.rn, i.rm)
               ELSE entry(i.rm, i.rn)
  IN /\ i.op = "addr"
     /\ Writes(i.rd, x, {i.rn, i.rm}, regs[i.rn] + regs[i.rm], {}, {}, {}, found)
     /\ pend' = Overwritten(i.rd)

\* LDR rd, [rn, #off]: a word of ROM is a constant, a load through a table
\* address a candidate entry, with the count its bound gives.
LoadWord(i, x) ==
  LET ea == {v + i.off : v \in const[i.rn]}
  IN /\ i.op = "ldr"
     /\ pend' = IF table[i.rn] # {}
                THEN {[base |-> e.base + i.off, dest |-> i.rd,
                       count |-> {m + 1 : m \in e.max}] : e \in table[i.rn]}
                ELSE Overwritten(i.rd)
     /\ Writes(i.rd, x, {i.rn}, Load(regs[i.rn] + i.off),
               {Rom(a) : a \in {a \in ea : InRom(a)}}, {}, {}, {})

Unwritten == UNCHANGED <<regs, const, sym, scaled, table, bound, stale>>

\* A word the machine stores, and what is then wrong of the words remembered.
Stored(x, a, v) ==
  ram' = IF x /\ ~InRom(a)
         THEN [b \in DOMAIN ram \cup {a} |-> IF b = a THEN v ELSE ram[b]]
         ELSE ram

\* STR rs, [rn, #off]: a known value is remembered, any other store forgets.
\* What is known of rs is dropped as if it were written.
Store(i, x) ==
  LET a == regs[i.rn] + i.off
      where == Resolve(i.rn, i.off)
      kept == IF const[i.rs] = {} THEN ForgetAll(mem)
              ELSE Remember(mem, where, CHOOSE v \in const[i.rs] : TRUE)
  IN /\ i.op = "str" /\ Stored(x, a, regs[i.rs])
     /\ mem' = DropBase(kept, i.rs)
     /\ const' = [const EXCEPT ![i.rs] = {}]
     /\ sym' = DropSym([sym EXCEPT ![i.rs] = {}], i.rs)
     /\ scaled' = [scaled EXCEPT ![i.rs] = {}]
     /\ table' = [table EXCEPT ![i.rs] = {}]
     /\ bound' = [bound EXCEPT ![i.rs] = {}]
     /\ pend' = Overwritten(i.rs)
     /\ UNCHANGED regs
     /\ stale' = Stale(stale.regs, mem',
                       \/ ~x \/ i.rs \in stale.regs \/ Misplaced(i.rn)
                       \/ Aliased(mem', where, a))
     /\ lastCmp' = {} /\ target' = {}

\* STMDB rn!, {rs}: words are remembered relative to the new base.  What is
\* known of the base and of its copies is kept, though the base has moved.
Push(i) ==
  LET a == regs[i.rn] - 1
      where == Resolve(i.rn, 0)
      dropped == DropBase(mem, i.rn)
      moved == \/ const[i.rn] # {} \/ sym[i.rn] # {} \/ scaled[i.rn] # {}
               \/ table[i.rn] # {} \/ bound[i.rn] # {}
               \/ \E q \in Regs : \E s \in sym[q] : s.rn = i.rn
  IN /\ i.op = "push" /\ Stored(TRUE, a, regs[i.rs])
     /\ regs' = [regs EXCEPT ![i.rn] = a]
     /\ mem' = IF sym[i.rn] # {} THEN ForgetAll(mem)
               ELSE IF const[i.rs] # {}
               THEN Remember(dropped, where, CHOOSE v \in const[i.rs] : TRUE)
               ELSE [s \in DOMAIN dropped |->
                       {e \in dropped[s] : e.rn # i.rn \/ e.off # 0}]
     /\ stale' = Stale(IF moved THEN stale.regs \cup {i.rn} ELSE stale.regs, mem',
                       i.rs \in stale.regs \/ Aliased(mem', where, a))
     /\ UNCHANGED <<const, sym, scaled, table, bound, pend>>
     /\ lastCmp' = {} /\ target' = {}

\* LDMIA rn!, {rd}: the trackers of the base are cleared, but for its bound;
\* those of the register loaded are not.
PopWord(i, x) ==
  /\ i.op = "pop"
  /\ regs' = IF x THEN [regs EXCEPT ![i.rd] = Load(regs[i.rn]), ![i.rn] = @ + 1]
             ELSE regs
  /\ const' = [const EXCEPT ![i.rn] = {}]
  /\ sym' = DropSym([sym EXCEPT ![i.rn] = {}], i.rn)
  /\ scaled' = [scaled EXCEPT ![i.rn] = {}] /\ table' = [table EXCEPT ![i.rn] = {}]
  /\ mem' = DropBase(mem, i.rn)
  /\ stale' = Stale({r \in stale.regs \cup {i.rn, i.rd} :
                       r = i.rn => bound[r] # {}}, mem', FALSE)
  /\ lastCmp' = {} /\ target' = {} /\ UNCHANGED <<ram, bound, pend>>

\* A call, or a place another path leads to: the machine arrives with other
\* registers and other words, the walk goes on with what it knew.
Elsewhere(i) ==
  /\ i.op = "call"
  /\ regs' = [r \in Regs |-> IF r \in i.changes THEN 0 ELSE regs[r]]
  /\ ram' = [a \in {} |-> 0]
  /\ stale' = Stale(stale.regs \cup i.changes, mem, TRUE)
  /\ lastCmp' = {} /\ target' = {}
  /\ UNCHANGED <<const, sym, mem, scaled, table, bound, pend>>

Compare(i) ==
  /\ i.op = "cmp" /\ lastCmp' = {[reg |-> i.rn, imm |-> i.imm]}
  /\ Unwritten /\ target' = {} /\ UNCHANGED <<ram, mem, pend>>

\* The largest index that does not branch away: HI keeps N, CS keeps N - 1.
InRange(cond, imm) == IF cond = "hi" THEN imm ELSE imm - 1

\* B{hi,cs} to the default case, not taken
Guard(i) ==
  /\ i.op = "guard"
  /\ \E c \in lastCmp :
       /\ i.cond = "cs" => c.imm > 0
       /\ IF i.cond = "hi" THEN regs[c.reg] <= c.imm ELSE regs[c.reg] < c.imm
       /\ bound' = [bound EXCEPT ![c.reg] = {InRange(i.cond, c.imm)}]
  /\ lastCmp' = {} /\ target' = {}
  /\ UNCHANGED <<regs, ram, const, sym, mem, scaled, table, pend, stale>>

\* LDR pc, [rn, #off] and LDM rn, {pc}: resolved from ROM or from a stored word
LoadPc(i) ==
  LET ea == {v + i.off : v \in const[i.rn]}
      rom == {Rom(a) : a \in {a \in ea : InRom(a)}}
      where == Resolve(i.rn, i.off)
  IN /\ i.op = "ldrpc"
     /\ target' = {[found |-> IF rom # {} THEN rom ELSE Lookup(where),
                    real |-> Load(regs[i.rn] + i.off), count |-> {},
                    sure |-> {i.rn, where.rn} \cap stale.regs = {} /\ ~stale.memory]}
     /\ Unwritten /\ lastCmp' = {} /\ UNCHANGED <<ram, mem, pend>>

\* BX rm: a constant, or the entry of a table, whose candidate it confirms
Bx(i) ==
  /\ i.op = "bx"
  /\ target' = {[found |-> const[i.rm], real |-> regs[i.rm],
                 count |-> UNION {p.count : p \in {p \in pend : p.dest = i.rm}},
                 sure |-> i.rm \notin stale.regs]}
  /\ pend' = {} /\ lastCmp' = {} /\ Unwritten /\ UNCHANGED <<ram, mem>>

TrackerNext ==
  /\ n < MaxSteps /\ n' = n + 1 /\ UNCHANGED language
  /\ \A t \in target : FALSE
  /\ \E i \in language :
       \/ \E x \in IF "maybe" \in DOMAIN i THEN BOOLEAN ELSE {TRUE} :
            \/ Mov(i, x) \/ MovReg(i, x) \/ AddImm(i, x) \/ Scale(i, x)
            \/ AddReg(i, x) \/ LoadWord(i, x) \/ Store(i, x) \/ PopWord(i, x)
       \/ Push(i) \/ Elsewhere(i) \/ Compare(i) \/ Guard(i) \/ LoadPc(i) \/ Bx(i)

-----------------------------------------------------------------------------
\* What the trackers know is so, but for what is stale: a known register holds
\* that value, a copy its base's, a remembered word is in memory, and an index
\* or table address under a bound is in range; so a transfer resolved from
\* nothing stale goes where it was resolved to.  A failed condition, a call, a
\* word loaded by a block transfer, the writeback of a store of one, or a store
\* under a second name, makes that register or word stale and no other.
KnownIsLive ==
  /\ \A r \in Regs \ stale.regs :
       /\ \A v \in const[r] : regs[r] = v
       /\ \A s \in sym[r] : s.rn \in stale.regs \/ regs[r] = regs[s.rn] + s.off
       /\ \A m \in bound[r] : regs[r] <= m
       /\ \A e \in scaled[r] : \A m \in e.max : regs[r] <= m * Stride
       /\ \A e \in table[r] : /\ regs[r] >= e.base
                              /\ \A m \in e.max : regs[r] <= e.base + (m * Stride)
  /\ ~stale.memory =>
       \A s \in DOMAIN mem : \A e \in mem[s] :
         LET a == regs[e.rn] + e.off
         IN e.rn \in stale.regs \/ InRom(a) \/ (a \in DOMAIN ram /\ ram[a] = e.value)
  /\ \A t \in target : \A v \in t.found : t.sure => v = t.real

\* "We only resolve a BX target when we're certain we saw the constant load IN
\* THIS BASIC BLOCK": what a walk resolves a transfer to is where it goes.  The
\* code resolves from stale knowledge too (discover_one).
ResolvedIsTaken == \A t \in target : \A v \in t.found : v = t.real
=============================================================================
