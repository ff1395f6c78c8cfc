---------------------------- MODULE CoverageStore ----------------------------
(* What the interpreter remembers of the code it ran: the content-addressed    *)
(* page store behind the coverage manifest and the live compiler's work list   *)
(* (runner/src/coverage_manifest.cpp, .h).  Each CPU trusts the page it last   *)
(* looked up until something is written; an image is kept at most              *)
(* kMaxVersionsPerAddress deep per address and the least recently seen is      *)
(* replaced in place; a full store is written out as a part and starts again.  *)
(* Entry points are kept per page image with a bounded number of callers.      *)
(*                                                                             *)
(* A page's 4 KiB are one image.  The write epoch is only ever compared with   *)
(* the one a cache copied, so each cache has a bit `current' that a store      *)
(* anywhere clears.  Observation numbers are all different: `order' lists the  *)
(* slots by last_seen, oldest first.  Text, base64 and counters nobody reads   *)
(* back (executions, revisits, dropped, replaced) are left out.                *)
EXTENDS Integers, Sequences, FiniteSets, SequencesExt, FiniteSetsExt

CONSTANTS
    Cpus,
    Ram, Rom,                \* page addresses, writable and not
    Fetches,                 \* [cpu, page, pc]: the entry points there are
    Roots,                   \* the ones native code falls into
    Calls,                   \* <<fetch, caller>>: the ones that are called
    Written,                 \* <<page, image>>: what the guest stores
    Saved,                   \* <<page, image>>: what savestates bring back
    kMaxPages,
    kMaxVersionsPerAddress,
    kMaxCallersPerEntry,
    LivePages,               \* the live snapshot's page cap
    Outputs,                 \* whether g_out_base is set: a set of Booleans
    MaxWrites,               \* bound: guest stores and savestate loads
    MaxNotes,                \* bound: observations
    MaxParts                 \* bound: parts written

VARIABLES
    output,      \* g_out_base is not empty
    mem,         \* per page, [image, gen]
    s,           \* the store, see Empty
    w,           \* stores and loads so far
    n,           \* observations so far
    observed,    \* history: calls seen per entry and resident image
    rooted,      \* history: roots seen per entry and resident image
    session,     \* history: roots seen since the last reset
    kept         \* history: images stored since the last reset, not replaced

vars == <<output, mem, s, w, n, observed, rooted, session, kept>>
history == <<observed, rooted, session, kept>>

Pages == Ram \union Rom
None == 0
kCallerMany == "many"
PCs == {f.pc : f \in Fetches}
Images == {0} \union {x[2] : x \in Written \union Saved}

\* CoverageExecCache{}: trusts nothing.
NoCache == [valid |-> FALSE, base |-> CHOOSE p \in Pages : TRUE, gen |-> 0,
            slot |-> None, current |-> FALSE]

Empty ==
    [pages |-> <<>>,     \* g_pages: [cpu, addr, image, entries, roots]
     order |-> <<>>,     \* slots by last_seen
     records |-> <<>>,   \* g_generation_entries: [pc, caller, hits]
     index |-> {},       \* g_generation_entry_index: [page, pc, caller, at]
     fanout |-> {},      \* g_generation_entry_fanout: [page, pc, kept, folded]
     roots |-> {},       \* g_root_map: <<cpu, page, pc>>
     cache |-> [c \in Cpus |-> NoCache],
     part |-> 0,         \* g_part_index
     parts |-> {}]       \* the images the written parts hold

(***************************************************************************)
(* What a manifest says of a page.                                         *)
(***************************************************************************)

Hits(st, i, pc) ==
    LET of == {e \in ToSet(st.pages[i].entries) : st.records[e].pc = pc}
    IN  MapThenSumSet(LAMBDA e : st.records[e].hits, of)

View(st, i) ==
    LET p == st.pages[i]
    IN  [cpu |-> p.cpu, addr |-> p.addr, image |-> p.image, roots |-> p.roots,
         calls |-> [pc \in PCs |-> Hits(st, i, pc)]]

\* A page the live compiler can use: it has entry points or roots.
HasWork(st, i) ==
    \/ st.pages[i].entries # <<>>
    \/ st.pages[i].roots # {}

\* capture_manifest_snapshot(live_max_pages): the most recent first.
LiveSnapshot(st) ==
    LET work == SelectSeq(Reverse(st.order), LAMBDA i : HasWork(st, i))
        size == IF Len(work) > LivePages THEN LivePages ELSE Len(work)
    IN  {View(st, work[k]) : k \in 1..size}

\* capture_manifest_snapshot(0): everything held.
Snapshot(st) == {View(st, i) : i \in DOMAIN st.pages}

(***************************************************************************)
(* Capturing a page.                                                       *)
(***************************************************************************)

Seen(st, i) ==
    [st EXCEPT !.order = Append(SelectSeq(@, LAMBDA j : j # i), i)]

Versions(st, cpu, base) ==
    {i \in DOMAIN st.pages : st.pages[i].cpu = cpu /\ st.pages[i].addr = base}

Resident(st) ==
    {[cpu |-> st.pages[i].cpu, addr |-> st.pages[i].addr,
      image |-> st.pages[i].image] : i \in DOMAIN st.pages}

\* coverage_manifest_flush_part: {} when it fails, else the store after it.
\* The root map stays; the files of a run have different names.
FlushPart(st, written) ==
    IF ~output THEN {}
    ELSE IF st.pages = <<>> /\ st.part > 0 THEN {st}
    ELSE IF ~written THEN {}
    ELSE {[Empty EXCEPT !.roots = st.roots, !.part = st.part + 1,
                        !.parts = st.parts \union Resident(st)]}

\* The least recently seen version at an address.
Oldest(st, versions) ==
    st.order[Min({k \in DOMAIN st.order : st.order[k] \in versions})]

Fresh(cpu, base) ==
    [cpu |-> cpu, addr |-> base, image |-> mem[base].image,
     entries |-> <<>>, roots |-> {}]

ReplaceKeepingIndex(st, cpu, base, i) ==
    Seen([st EXCEPT !.pages[i] = Fresh(cpu, base),
                    !.fanout = {k \in @ : k.page # i},
                    !.cache[cpu].slot = i], i)

\* A new image in place of an old one: nothing said of the old one may be
\* found under its slot.
Replace(st, cpu, base, i) ==
    Seen([st EXCEPT !.pages[i] = Fresh(cpu, base),
                    !.index = {k \in @ : k.page # i},
                    !.fanout = {k \in @ : k.page # i},
                    !.cache[cpu].slot = i], i)

Add(st, cpu, base) ==
    Seen([st EXCEPT !.pages = Append(@, Fresh(cpu, base)),
                    !.cache[cpu].slot = Len(st.pages) + 1],
         Len(st.pages) + 1)

\* The cache names the page and its generation, and no slot yet.
Looked(st, cpu, base) ==
    [st EXCEPT !.cache[cpu] = [valid |-> TRUE, base |-> base,
                               gen |-> mem[base].gen, slot |-> None,
                               current |-> TRUE]]

\* coverage_capture_exec_page.  `written' is whether a part that has to be
\* written on the way could be.
Capture(st, cpu, base, written) ==
    LET c == st.cache[cpu]
        looked == Looked(st, cpu, base)
        versions == Versions(st, cpu, base)
        same == {i \in versions : st.pages[i].image = mem[base].image}
        flushed == FlushPart(looked, written)
    IN  IF c.valid /\ c.base = base /\ c.gen = mem[base].gen
        THEN [st EXCEPT !.cache[cpu].current = TRUE]
        ELSE IF base \in Rom THEN looked
        ELSE IF same # {}
        THEN LET i == CHOOSE i \in same : TRUE
             IN  Seen([looked EXCEPT !.cache[cpu].slot = i], i)
        ELSE IF Cardinality(versions) >= kMaxVersionsPerAddress
        THEN Replace(looked, cpu, base, Oldest(looked, versions))
        ELSE IF Len(st.pages) < kMaxPages THEN Add(looked, cpu, base)
        ELSE IF flushed = {} THEN looked
        ELSE Add(CHOOSE x \in flushed : TRUE, cpu, base)

(***************************************************************************)
(* Noting an entry point.                                                  *)
(***************************************************************************)

Root(st, f) ==
    LET i == st.cache[f.cpu].slot
    IN  Seen([st EXCEPT !.pages[i].roots = @ \union {f.pc},
                        !.roots = @ \union {<<f.cpu, f.page, f.pc>>}], i)

\* A further call through a record that exists.
Again(st, i, e) == Seen([st EXCEPT !.records[e].hits = @ + 1], i)

\* A first call, from a caller of its own or from "many".
Record(st, i, pc, caller) ==
    Seen([st EXCEPT !.records = Append(@, [pc |-> pc, caller |-> caller,
                                           hits |-> 1]),
                    !.pages[i].entries = Append(@, Len(st.records) + 1)], i)

Call(st, f, caller) ==
    LET i == st.cache[f.cpu].slot
        found == {k \in st.index :
                      k.page = i /\ k.pc = f.pc /\ k.caller = caller}
        fans == {k \in st.fanout : k.page = i /\ k.pc = f.pc}
        fan == IF fans = {} THEN [page |-> i, pc |-> f.pc, kept |-> 0,
                                  folded |-> None]
               ELSE CHOOSE k \in fans : TRUE
        at == Len(st.records) + 1
        Fan(x) == [st EXCEPT !.fanout = (@ \ fans) \union {x}]
    IN  IF found # {} THEN Again(st, i, (CHOOSE k \in found : TRUE).at)
        ELSE IF fan.kept >= kMaxCallersPerEntry
        THEN IF fan.folded # None THEN Again(st, i, fan.folded)
             ELSE Record(Fan([fan EXCEPT !.folded = at]), i, f.pc, kCallerMany)
        ELSE Record([Fan([fan EXCEPT !.kept = @ + 1])
                        EXCEPT !.index = @ \union
                            {[page |-> i, pc |-> f.pc, caller |-> caller,
                              at |-> at]}],
                    i, f.pc, caller)

\* The look-up before an observation is filed: the epoch is not asked, the
\* generation is.
Found(st, f, written) ==
    LET c == st.cache[f.cpu]
    IN  IF c.valid /\ c.base = f.page /\ c.gen = mem[f.page].gen
           /\ c.slot # None
        THEN st ELSE Capture(st, f.cpu, f.page, written)

\* The observation is dropped when the look-up ended without a trusted slot:
\* a page that is not RAM, a full store, and also a rotation, which has just
\* cleared the cache.
Filed(st, f) ==
    LET c == st.cache[f.cpu]
    IN  c.valid /\ c.base = f.page /\ c.slot # None

(***************************************************************************)
(* Steps.                                                                  *)
(***************************************************************************)

Init ==
    /\ output \in Outputs
    /\ mem = [p \in Pages |-> [image |-> 0, gen |-> 0]]
    /\ s = Empty
    /\ w = 0
    /\ n = 0
    /\ observed = [k \in Fetches \X Images |-> 0]
    /\ rooted = {}
    /\ session = {}
    /\ kept = {}

OfPage(x, k) == k[1].cpu = x.cpu /\ k[1].page = x.addr /\ k[2] = x.image

\* What the histories are after the store went from s to st: an image that
\* is no longer held has no count, and only a replaced one is forgotten.
Held(st) ==
    LET gone == Resident(s) \ Resident(st)
    IN  kept' = (IF st.part = s.part THEN kept \ gone ELSE kept)
                \union Resident(st)

Carry(st) ==
    [k \in DOMAIN observed |->
        IF st.part = s.part /\ \E x \in Resident(st) : OfPage(x, k)
        THEN observed[k] ELSE 0]

CarryRoots(st) ==
    {k \in rooted : st.part = s.part /\ \E x \in Resident(st) : OfPage(x, k)}

\* runtime_note_code_write with the page's generation: a guest store.
Write(p, v) ==
    /\ w < MaxWrites
    /\ w' = w + 1
    /\ mem' = [mem EXCEPT ![p] = [image |-> v, gen |-> @.gen + 1]]
    /\ s' = [s EXCEPT !.cache = [c \in Cpus |->
                                    [@[c] EXCEPT !.current = FALSE]]]
    /\ UNCHANGED <<output, n, history>>

\* coverage_note_exec: once per interpreted instruction.
Exec(cpu, base, written) ==
    LET c == s.cache[cpu]
        st == Capture(s, cpu, base, written)
    IN  /\ ~(c.valid /\ c.base = base /\ c.current)
        /\ st.part <= MaxParts
        /\ s' = st
        /\ observed' = Carry(st)
        /\ rooted' = CarryRoots(st)
        /\ Held(st)
        /\ UNCHANGED <<output, mem, w, n, session>>

\* coverage_note_generation_entry.
Note(f, kind, caller, written) ==
    LET found == Found(s, f, written)
        key == <<f, mem[f.page].image>>
        filed == Filed(found, f)
        st == IF ~filed THEN found
              ELSE IF kind = "root" THEN Root(found, f)
              ELSE Call(found, f, caller)
        counted == found.part = s.part
                   /\ [cpu |-> f.cpu, addr |-> f.page, image |-> key[2]]
                          \in Resident(found)
    IN  /\ n < MaxNotes
        /\ n' = n + 1
        /\ st.part <= MaxParts
        /\ s' = st
        /\ observed' = [Carry(found) EXCEPT
               ![key] = IF counted /\ kind = "call" THEN @ + 1 ELSE @]
        /\ rooted' = CarryRoots(found) \union
               (IF counted /\ kind = "root" THEN {key} ELSE {})
        /\ session' = session \union
               (IF counted /\ kind = "root"
                THEN {<<f.cpu, f.page, f.pc>>} ELSE {})
        /\ Held(found)
        /\ UNCHANGED <<output, mem, w>>

\* coverage_pages_reset, with the memory a savestate brings: its generations
\* are the file's and may well be the ones the caches hold.
Load(p, v) ==
    /\ w < MaxWrites
    /\ w' = w + 1
    /\ mem' = [mem EXCEPT ![p] = [image |-> v, gen |-> 0]]
    /\ s' = [Empty EXCEPT !.part = s.part, !.parts = s.parts]
    /\ observed' = [k \in DOMAIN observed |-> 0]
    /\ rooted' = {}
    /\ session' = {}
    /\ kept' = {}
    /\ UNCHANGED <<output, n>>

\* Whether a part can be written matters only to a full store.
Outcomes == IF Len(s.pages) < kMaxPages THEN {TRUE} ELSE BOOLEAN

Next ==
    \/ \E x \in Written : Write(x[1], x[2])
    \/ \E x \in Saved : Load(x[1], x[2])
    \/ \E written \in Outcomes :
          \/ \E f \in Fetches : Exec(f.cpu, f.page, written)
          \/ \E f \in Roots : Note(f, "root", kCallerMany, written)
          \/ \E x \in Calls : Note(x[1], "call", x[2], written)

Spec == Init /\ [][Next]_vars

(***************************************************************************)
(* Properties.                                                             *)
(***************************************************************************)

\* What is said of every image held is what was seen while that image was
\* resident: no call is lost or counted under another image when a slot is
\* reused, when callers are folded, or when a cache is trusted.
ViewsExact ==
    \A v \in Snapshot(s) : \A f \in Fetches :
        (v.cpu = f.cpu /\ v.addr = f.page) =>
            /\ v.calls[f.pc] = observed[<<f, v.image>>]
            /\ (f.pc \in v.roots) <=> (<<f, v.image>> \in rooted)

\* The session's roots outlive the images they were seen in: replacement and
\* rotation take none of them away.
RootsOutlive == s.roots = session

\* Rotation loses no image: what was stored and not replaced is still held or
\* is in a part that was written.
ImagesKept ==
    kept \subseteq Resident(s) \union s.parts

\* The live compiler is offered all the work there is, or as much as it takes.
WorkOffered ==
    LET work == {x \in Resident(s) : \E k \in DOMAIN observed :
                    OfPage(x, k) /\ (observed[k] > 0 \/ k \in rooted)}
        live == LiveSnapshot(s)
    IN  /\ Cardinality(live) = IF Cardinality(work) > LivePages
                               THEN LivePages ELSE Cardinality(work)
        /\ \A v \in live : \E x \in work :
               v.cpu = x.cpu /\ v.addr = x.addr /\ v.image = x.image

\* The manifest: what the page store, its caches and its parts say of the
\* code that ran is true, through overlay swaps, replacement, rotation,
\* failed writes and savestate loads.
CoverageExact == ViewsExact /\ RootsOutlive /\ ImagesKept /\ WorkOffered
==============================================================================
