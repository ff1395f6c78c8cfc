---------------------------- MODULE DispatchCache ----------------------------
(* Entering guest code: the ranked lookup over the registered banks, the       *)
(* direct-mapped dispatch cache in front of it, the link slots that literal    *)
(* transfers keep in the caller, and the inlined leaves, over memory that the  *)
(* guest rewrites and remaps (runner/src/runtime_arm.cpp, dispatch_lookup.h,   *)
(* and the write provenance of bus.cpp).                                       *)
(*                                                                             *)
(* A generated body is entered on the strength of a proof, the byte identity   *)
(* of the ranges it was generated from, and what the caches keep of that proof *)
(* is one generation number per virtual page.  Pages stand for 4 KiB pages     *)
(* holding a value, Blank before the guest has written them.                   *)
EXTENDS Integers, Sequences, FiniteSets, SequencesExt

CONSTANTS
    Cpus,        \* the processors, "arm9" and "arm7"
    Modes,       \* the WRAMCNT values the guest writes
    Rows,        \* generated dispatch rows; a bank is one row
    InitRows,    \* per CPU, the rows registered before the guest starts
    Sites,       \* the keys some linked call site targets
    Images,      \* the memories of the savestate files at hand
    Written,     \* the virtual pages the guest stores to
    Values,      \* what the guest stores into a page
    MaxPages,    \* page_addr[4]: pages one proof can record
    GuardCap,    \* kLinkGuardCap
    EpochTop,    \* the dispatch epoch before the wrap
    MaxWrites,   \* bound: guest stores
    MaxEvents    \* bound: registrations, resets and loads (the link epoch)

(* A row is [key, fn, pages, expect, size, owns, cpu]: pages = {} is a row     *)
(* with no validation (an immutable bank).                                     *)
Blank == "blank"
NoFn == "none"
Keys == {r.key : r \in Rows}
Unmapped == "unmapped"
Physical == {"ram", "ram2", "lo", "hi", "wram7"}
Virtual == {"ram", "ram2", "wram"}

ASSUME DispatchAssumption ==
    /\ \A r \in Rows : r.fn # NoFn /\ r.cpu \in Cpus /\ r.size \in Nat /\ r.pages \subseteq Virtual
    /\ InitRows \in [Cpus -> Seq(Rows)]
    /\ \A i \in Images : i.gen \in [Physical -> Nat] /\ DOMAIN i.byte = Physical
    /\ Written \subseteq Virtual
    /\ EpochTop \in Nat \ {0} /\ MaxPages \in Nat

VARIABLES
    byte,        \* contents of each physical page
    gen,         \* g_*_generation of each physical page
    mode,        \* g_wramcnt
    index,       \* per CPU, dispatch_index: the rows in registration order
    epoch,       \* per CPU, dispatch_epoch
    slots,       \* per CPU, the cache slot the keys share
    linkEpoch,   \* g_link_epoch
    guards,      \* g_link_guards.size()
    links,       \* per key, the NdsLinkSlot of a call site that targets it
    entered      \* the last entry into guest code

memory == <<byte, gen, mode>>
banks == <<index, epoch>>
linking == <<linkEpoch, guards, links>>
dispatchVars == <<memory, banks, slots, linking, entered>>

(***************************************************************************)
(* The bus: which page an address reaches, and what is known of it.        *)
(***************************************************************************)

\* resolve() for the WRAM window: the split WRAMCNT selects.
Resolve(cpu, v) ==
    IF v # "wram" THEN v
    ELSE CASE cpu = "arm9" /\ mode \in {0, 2} -> "lo"
           [] cpu = "arm9" /\ mode = 1 -> "hi"
           [] cpu = "arm9" /\ mode = 3 -> Unmapped
           [] cpu = "arm7" /\ mode = 0 -> "wram7"
           [] cpu = "arm7" /\ mode \in {1, 3} -> "lo"
           [] OTHER -> "hi"

\* bus_exec_page_generation: 0 for a page nothing backs.
Generation(cpu, v) ==
    IF Resolve(cpu, v) = Unmapped THEN 0 ELSE gen[Resolve(cpu, v)]

\* bus_range_has_write_provenance and bus_live_bytes_equal over one page.
Holds(cpu, v, value) ==
    /\ Resolve(cpu, v) # Unmapped
    /\ byte[Resolve(cpu, v)] = value

(***************************************************************************)
(* The lookup.                                                             *)
(***************************************************************************)

\* validation_identity_live: every range written by the guest and identical.
IdentityLive(cpu, row) == \A v \in row.pages : Holds(cpu, v, row.expect)

\* A row without a validation is live; one with it must own the entry.
LiveRow(cpu, row) == row.pages = {} \/ (row.owns /\ IdentityLive(cpu, row))

(* The positions of a key's rows in the index, oldest registration first.      *)
Candidates(cpu, key) == {i \in DOMAIN index[cpu] : index[cpu][i].key = key}

LiveCandidates(cpu, key) ==
    {i \in Candidates(cpu, key) : LiveRow(cpu, index[cpu][i])}

Rank(row) == IF row.pages = {} THEN 0 ELSE row.size

\* The largest span wins, the first of equals.
Winners(cpu, live) ==
    {index[cpu][i] : i \in {j \in live : \A o \in live :
        \/ Rank(index[cpu][j]) > Rank(index[cpu][o])
        \/ Rank(index[cpu][j]) = Rank(index[cpu][o]) /\ j <= o}}

\* nds_dispatch_lookup_index: the row that is found, if any.
Selected(cpu, key) == Winners(cpu, LiveCandidates(cpu, key))

\* The last candidate the walk rejected.
Inactive(cpu, key) ==
    LET dead == Candidates(cpu, key) \ LiveCandidates(cpu, key)
    IN  {index[cpu][i] : i \in {j \in dead : \A o \in dead : o <= j}}

(***************************************************************************)
(* The cache.                                                              *)
(***************************************************************************)

\* What a slot or a guard remembers: the generation of each page; from is
\* the page that was behind it, which the code does not keep.
Snapshot(cpu, pages) ==
    [v \in pages |-> [gen |-> Generation(cpu, v), from |-> Resolve(cpu, v)]]

EmptySlot == [key |-> "", epoch |-> 0, fn |-> NoFn, snap |-> <<>>]

\* cached_lookup_live, link_guard_live: the generations are the recorded ones.
SnapshotLive(cpu, snap) ==
    \A v \in DOMAIN snap : snap[v].gen = Generation(cpu, v)

SlotHits(cpu, key) ==
    /\ slots[cpu].key = key
    /\ slots[cpu].epoch = epoch[cpu]
    /\ SnapshotLive(cpu, slots[cpu].snap)

\* A mutant: of several rejected candidates only the last one is remembered.
LastRejectedPages(cpu, key, hit) ==
    UNION {r.pages : r \in IF hit # {} THEN hit ELSE Inactive(cpu, key)}

\* The pages whose change can alter the answer: those of the body that was
\* found, or those of every candidate that was rejected.
RecordedPages(cpu, key, hit) ==
    CASE hit # {} -> UNION {r.pages : r \in hit}
      [] hit = {} /\ Cardinality(Candidates(cpu, key)) > 1 ->
            UNION {index[cpu][i].pages : i \in Candidates(cpu, key)}
      [] OTHER -> UNION {r.pages : r \in Inactive(cpu, key)}

\* lookup_static_cached_impl after a miss: the slot is rewritten, and left
\* empty, with no answer, when the pages do not fit.
FilledSlot(cpu, key) ==
    LET hit == Selected(cpu, key)
        pages == RecordedPages(cpu, key, hit)
    IN  IF Cardinality(pages) > MaxPages THEN EmptySlot
        ELSE [key |-> key, epoch |-> epoch[cpu],
              fn |-> IF hit = {} THEN NoFn ELSE (CHOOSE r \in hit : TRUE).fn,
              snap |-> Snapshot(cpu, pages)]

LookedUp(cpu, key) ==
    IF SlotHits(cpu, key) THEN slots[cpu] ELSE FilledSlot(cpu, key)

(***************************************************************************)
(* Link slots.                                                             *)
(***************************************************************************)

EmptyLink == [key |-> <<0, "">>, fn |-> NoFn, snap |-> <<>>]

\* link_slot_ready and link_guard_live.
Admits(cpu, k) ==
    /\ links[k].key = <<linkEpoch, cpu>>
    /\ links[k].fn # NoFn
    /\ SnapshotLive(cpu, links[k].snap)

\* link_slot_fill: no link to a miss, nor past the guard pool's cap.
FilledLink(cpu, slot) ==
    IF slot.fn = NoFn \/ (slot.snap # <<>> /\ guards >= GuardCap)
    THEN EmptyLink
    ELSE [key |-> <<linkEpoch, cpu>>, fn |-> slot.fn, snap |-> slot.snap]

(***************************************************************************)
(* Entries.                                                                *)
(***************************************************************************)

\* What an entry was made on: the body, whether it is a registered row whose
\* bytes are the ones in memory, and whether a page moved since the proof.
Entry(cpu, key, fn, snap, how) ==
    [how |-> how, cpu |-> cpu,
     registered |-> \E r \in Range(index[cpu]) : r.key = key /\ r.fn = fn,
     live |-> \E r \in Range(index[cpu]) :
                r.key = key /\ r.fn = fn /\ LiveRow(cpu, r),
     moved |-> \E v \in DOMAIN snap : snap[v].from # Resolve(cpu, v),
     missed |-> FALSE]

\* A dispatch that found nothing to enter: Tier 3 interprets what the guest
\* wrote, anything else is a dispatch miss that halts.
Miss(cpu, key, snap) ==
    [how |-> "miss", cpu |-> cpu, registered |-> TRUE, live |-> TRUE,
     moved |-> \E v \in DOMAIN snap : snap[v].from # Resolve(cpu, v),
     missed |-> \E r \in Selected(cpu, key) :
                    Cardinality(r.pages) <= MaxPages]

NoEntry == [how |-> "start", cpu |-> "arm9", registered |-> TRUE,
            live |-> TRUE, moved |-> FALSE, missed |-> FALSE]

\* The steps between two entries.
Elsewhere == entered' = NoEntry

DispatchInit ==
    /\ byte = [p \in Physical |-> Blank]
    /\ gen = [p \in Physical |-> 0]
    /\ mode = 0
    /\ index = InitRows
    /\ epoch = [c \in Cpus |-> 1]
    /\ slots = [c \in Cpus |-> EmptySlot]
    /\ linkEpoch = 1
    /\ guards = 0
    /\ links = [k \in Sites |-> EmptyLink]
    /\ entered = NoEntry

\* runtime_dispatch_impl without a link.
RuntimeDispatch(cpu, key) ==
    LET slot == LookedUp(cpu, key) IN
    /\ slots' = [slots EXCEPT ![cpu] = slot]
    /\ entered' = IF slot.fn = NoFn THEN Miss(cpu, key, slot.snap)
                  ELSE Entry(cpu, key, slot.fn, slot.snap, "cache")
    /\ UNCHANGED <<memory, banks, linking>>

\* runtime_link_branch / _call / _fallthrough: an admitted slot is entered
\* with no lookup; otherwise the lookup runs and refills the slot.
LinkHit(cpu, key) ==
    /\ Admits(cpu, key)
    /\ entered' = Entry(cpu, key, links[key].fn, links[key].snap, "link")
    /\ UNCHANGED <<memory, banks, slots, linking>>

LinkRefill(cpu, key) ==
    LET slot == LookedUp(cpu, key)
        link == FilledLink(cpu, slot)
    IN
    /\ ~Admits(cpu, key)
    /\ slots' = [slots EXCEPT ![cpu] = slot]
    /\ links' = [links EXCEPT ![key] = link]
    /\ guards' = IF link.snap = <<>> THEN guards ELSE guards + 1
    /\ entered' = IF slot.fn = NoFn THEN Miss(cpu, key, slot.snap)
                  ELSE Entry(cpu, key, slot.fn, slot.snap, "cache")
    /\ UNCHANGED <<memory, banks, linkEpoch>>

\* runtime_inline_leaf_admit: the inlined copy of row's body runs when the
\* slot resolved to that very body.
InlineLeaf(cpu, row) ==
    /\ row.cpu = cpu
    /\ row.key \in Sites
    /\ Admits(cpu, row.key)
    /\ links[row.key].fn = row.fn
    /\ entered' = Entry(cpu, row.key, row.fn, links[row.key].snap, "inline")
    /\ UNCHANGED <<memory, banks, slots, linking>>

(***************************************************************************)
(* What the caches must notice.                                            *)
(***************************************************************************)

Writes == gen["ram"] + gen["ram2"] + gen["lo"] + gen["hi"] + gen["wram7"]

\* A store through the bus: note_ram_write counts it and marks the page.
GuestWrite(cpu, v, value) ==
    LET p == Resolve(cpu, v) IN
    /\ Writes < MaxWrites
    /\ p # Unmapped
    /\ byte' = [byte EXCEPT ![p] = value]
    /\ gen' = [gen EXCEPT ![p] = @ + 1]
    /\ Elsewhere
    /\ UNCHANGED <<mode, banks, slots, linking>>

\* WRAMCNT: the fast windows are published again and nothing else is told.
Remap(m) ==
    /\ m # mode
    /\ mode' = m
    /\ Elsewhere
    /\ UNCHANGED <<byte, gen, banks, slots, linking>>

\* ++dispatch_epoch, and a clear cache when it wraps; link_epoch_bump.
BumpedEpoch(cpu) == IF epoch[cpu] = EpochTop THEN 1 ELSE epoch[cpu] + 1

BumpEpochs(cpu) ==
    /\ linkEpoch <= MaxEvents
    /\ linkEpoch' = linkEpoch + 1
    /\ guards' = 0
    /\ epoch' = [epoch EXCEPT ![cpu] = BumpedEpoch(cpu)]
    /\ slots' = IF epoch[cpu] = EpochTop
                THEN [slots EXCEPT ![cpu] = EmptySlot] ELSE slots

\* nds_register_dispatch and nds_unregister_dispatch.
Register(row) ==
    /\ row \notin Range(index[row.cpu])
    /\ index' = [index EXCEPT ![row.cpu] = Append(@, row)]
    /\ BumpEpochs(row.cpu)
    /\ Elsewhere
    /\ UNCHANGED <<memory, links>>

Unregister(row) ==
    /\ \E i \in DOMAIN index[row.cpu] :
         /\ index[row.cpu][i] = row
         /\ index' = [index EXCEPT ![row.cpu] = RemoveAt(@, i)]
    /\ BumpEpochs(row.cpu)
    /\ Elsewhere
    /\ UNCHANGED <<memory, links>>

\* runtime_savestate_invalidate_host_caches.
InvalidateHostCaches ==
    /\ linkEpoch <= MaxEvents
    /\ slots' = [c \in Cpus |-> EmptySlot]
    /\ linkEpoch' = linkEpoch + 1
    /\ guards' = 0

\* runtime_init and bus_init: a machine reset forgets memory and banks; the
\* dispatch epochs restart, the link epoch does not.
RuntimeInit ==
    /\ byte' = [p \in Physical |-> Blank]
    /\ gen' = [p \in Physical |-> 0]
    /\ mode' = 0
    /\ index' = [c \in Cpus |-> <<>>]
    /\ epoch' = [c \in Cpus |-> 1]
    /\ InvalidateHostCaches
    /\ Elsewhere
    /\ UNCHANGED links

\* runtime_savestate_import with bus_savestate_import: the load puts the
\* generations of the file back under its bytes, whatever they count by now.
LoadState(image) ==
    /\ byte' = image.byte
    /\ gen' = image.gen
    /\ mode' = image.mode
    /\ InvalidateHostCaches
    /\ Elsewhere
    /\ UNCHANGED <<banks, links>>

DispatchNext ==
    \/ \E c \in Cpus, k \in Keys : RuntimeDispatch(c, k)
    \/ \E c \in Cpus, k \in Sites : LinkHit(c, k)
    \/ \E c \in Cpus, k \in Sites : LinkRefill(c, k)
    \/ \E c \in Cpus, r \in Rows : InlineLeaf(c, r)
    \/ \E c \in Cpus, v \in Written, x \in Values : GuestWrite(c, v, x)
    \/ \E m \in Modes : Remap(m)
    \/ \E r \in Rows : Register(r)
    \/ \E r \in Rows : Unregister(r)
    \/ RuntimeInit
    \/ \E i \in Images : LoadState(i)

DispatchSpec == DispatchInit /\ [][DispatchNext]_dispatchVars

(***************************************************************************)
(* Properties.                                                             *)
(***************************************************************************)

(* Whichever cache answered, the body entered belongs to a bank registered   *)
(* now and its bytes are the ones in memory, unless a page was remapped      *)
(* between the proof and the entry; and a dispatch goes to Tier 3 or halts   *)
(* only when no live candidate exists whose pages a slot can record.         *)
EntryProved ==
    /\ entered.registered
    /\ entered.live \/ entered.moved
    /\ ~entered.missed \/ entered.moved
===============================================================================
