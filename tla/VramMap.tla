-------------------------------- MODULE VramMap --------------------------------
(* The nine VRAM banks and everything derived from their control registers     *)
(* (runner/src/vram.cpp): the masks of banks behind every slot of every view,  *)
(* the pointers the scanline renderers dereference, and the flat copies of the *)
(* texture slots the 3D renderer works from (runner/src/gpu3d.cpp).            *)
(*                                                                             *)
(* A bank holds one bit, so that reading overlapping banks ORs them.  A slot   *)
(* is <<view, number>>; sizes and offsets are in 16 KiB chunks.  The write     *)
(* provenance of banks that hold code is DispatchCache's.                      *)
EXTENDS Integers, FiniteSets

CONSTANTS
    Mappings, \* the <<bank, control>> pairs the guest writes
    MaxGen,   \* bound on g_texture_generation
    SaveGen   \* bound: the savestate is taken at or before this generation

Banks == 0..8

\* VRAMCNT as nds_vram_map gets it: the enable bit, three bits of view and two
\* of offset.
Controls == [on : BOOLEAN, mst : 0..7, ofs : 0..3]

ASSUME VramAssumption == Mappings \subseteq Banks \X Controls

VARIABLES
    cnt,      \* g_cnt: [on, mst, ofs] of each bank
    mask,     \* the banks behind each slot
    pointer,  \* g_renderer_view: {} or {[bank, at]} for each 2D slot
    data,     \* g_vram
    texGen,   \* g_texture_generation
    flat,     \* per flat copy: [gen, bytes]
    saved     \* {} or {the VRAM part of the savestate file}

maps == <<cnt, mask, pointer>>
vramVars == <<maps, data, texGen, flat, saved>>

Chunks(b) == CASE b <= 3 -> 8 [] b = 4 -> 4 [] b = 7 -> 2 [] OTHER -> 1
Off == [on |-> FALSE, mst |-> 0, ofs |-> 0]

Slots == ({"abg"} \X (0..31)) \cup ({"aobj"} \X (0..15)) \cup
         ({"bbg", "bobj", "texpal"} \X (0..7)) \cup
         ({"abgExt", "bbgExt", "texture"} \X (0..3)) \cup
         ({"aobjExt", "bobjExt"} \X {0}) \cup ({"arm7"} \X {0, 1}) \cup
         ({"lcdc"} \X Banks)

Run(view, base, count) == {view} \X (base..(base + count - 1))

\* sanitize: the bits the bank has.
Sanitized(b, c) ==
    [on |-> c.on,
     mst |-> IF b \in {0, 1, 7, 8} THEN c.mst % 4 ELSE c.mst,
     ofs |-> IF b \in {4, 7, 8} THEN 0 ELSE c.ofs % 4]

\* map_ab, map_cd, map_e, map_fg, map_h, map_i: the slots a control selects.
Selects(b, c) ==
    LET odd == c.ofs % 2
        fg == odd + 4 * (c.ofs \div 2)
    IN  CASE ~c.on -> {}
          [] c.on /\ c.mst = 0 -> {<<"lcdc", b>>}
          [] c.on /\ c.mst # 0 /\ b <= 3 ->
                CASE c.mst = 1 -> Run("abg", 8 * c.ofs, 8)
                  [] c.mst = 2 -> IF b < 2 THEN Run("aobj", 8 * odd, 8)
                                  ELSE {<<"arm7", odd>>}
                  [] c.mst = 3 -> {<<"texture", c.ofs>>}
                  [] c.mst = 4 -> Run(IF b = 2 THEN "bbg" ELSE "bobj", 0, 8)
                  [] OTHER -> {}
          [] c.on /\ c.mst # 0 /\ b = 4 ->
                IF c.mst > 4 THEN {}
                ELSE Run(<<"abg", "aobj", "texpal", "abgExt">>[c.mst], 0, 4)
          [] c.on /\ c.mst # 0 /\ b \in {5, 6} ->
                CASE c.mst = 1 -> {<<"abg", fg>>, <<"abg", fg + 2>>}
                  [] c.mst = 2 -> {<<"aobj", fg>>, <<"aobj", fg + 2>>}
                  [] c.mst = 3 -> {<<"texpal", fg>>}
                  [] c.mst = 4 -> Run("abgExt", 2 * odd, 2)
                  [] c.mst = 5 -> {<<"aobjExt", 0>>}
                  [] OTHER -> {}
          [] c.on /\ c.mst # 0 /\ b = 7 ->
                CASE c.mst = 1 -> {"bbg"} \X {0, 1, 4, 5}
                  [] c.mst = 2 -> Run("bbgExt", 0, 4)
                  [] OTHER -> {}
          [] OTHER ->
                CASE c.mst = 1 -> {"bbg"} \X {2, 3, 6, 7}
                  [] c.mst = 2 -> Run("bobj", 0, 8)
                  [] OTHER -> {<<"bobjExt", 0>>}

\* apply_map.
Added(mk, b, c) ==
    LET on == Selects(b, c)
    IN  [s \in Slots |-> IF s \in on THEN mk[s] \cup {b} ELSE mk[s]]
Removed(mk, b, c) ==
    LET on == Selects(b, c)
    IN  [s \in Slots |-> IF s \in on THEN mk[s] \ {b} ELSE mk[s]]

Only(s) == CHOOSE x \in s : TRUE

\* direct_chunk: a slot has a pointer when exactly one bank is behind it.
Chunk(mk, slot) ==
    IF Cardinality(mk[slot]) # 1 THEN {}
    ELSE {[bank |-> Only(mk[slot]), at |-> slot[2] % Chunks(Only(mk[slot]))]}

Drawn == {s \in Slots : s[1] \in {"abg", "aobj", "bbg", "bobj"}}
RefreshedViews(mk) == [s \in Drawn |-> Chunk(mk, s)]

\* mapped_read of a slot: the OR of its banks.
Read(mk, bytes, slot) == IF \E b \in mk[slot] : bytes[b] = 1 THEN 1 ELSE 0

\* copy_slot_space.
SlotSpace(view, mk, bytes) ==
    [s \in {t \in Slots : t[1] = view} |->
        IF mk[s] = {} THEN 0
        ELSE IF Chunk(mk, s) # {} THEN bytes[Only(mk[s])]
        ELSE Read(mk, bytes, s)]

Copies == {"texture", "texpal"}
NoMap == [s \in Slots |-> {}]
Zero == [b \in Banks |-> 0]
Stale == [v \in Copies |-> [gen |-> 0, bytes |-> SlotSpace(v, NoMap, Zero)]]

VramInit ==
    /\ cnt = [b \in Banks |-> Off]
    /\ mask = NoMap
    /\ pointer = RefreshedViews(NoMap)
    /\ data = Zero
    /\ texGen = 1
    /\ flat = Stale
    /\ saved = {}

\* A mutant: the generation moves only when a texture slot is given a bank.
BumpWhenMapped(b, c) ==
    IF \E s \in Selects(b, c) : s[1] \in Copies THEN texGen + 1 ELSE texGen

\* The texture generation after a remap.
Bumped(b, c) == texGen + 1

\* nds_vram_map: a VRAMCNT write.  A worker's claim on the views has been
\* drained by nds_gpu2d_memory_fence.
MapBank(b, c) ==
    LET next == Sanitized(b, c)
        mk == Added(Removed(mask, b, cnt[b]), b, next)
    IN
    /\ next # cnt[b]
    /\ texGen < MaxGen
    /\ cnt' = [cnt EXCEPT ![b] = next]
    /\ mask' = mk
    /\ texGen' = Bumped(b, next)
    /\ pointer' = RefreshedViews(mk)
    /\ UNCHANGED <<data, flat, saved>>

\* nds_video_write: a store by either CPU reaches every bank behind the slot,
\* and no texture or extended-palette slot has an address.
Addressed(cpu) == IF cpu = 7 THEN {"arm7"}
                  ELSE {"abg", "aobj", "bbg", "bobj", "lcdc"}
VideoWrite(cpu, slot, x) ==
    LET hit == mask[slot] IN
    /\ slot[1] \in Addressed(cpu)
    /\ hit # {} /\ \E b \in hit : data[b] # x
    /\ data' = [b \in Banks |-> IF b \in hit THEN x ELSE data[b]]
    /\ UNCHANGED <<maps, texGen, flat, saved>>

\* apply_staged_capture: the display capture stores into a bank mapped to
\* LCDC, past the CPU mapping.
StagedCapture(b) ==
    /\ b <= 3 /\ b \in mask[<<"lcdc", b>>]
    /\ texGen < MaxGen
    /\ data' = [data EXCEPT ![b] = 1 - @]
    /\ texGen' = texGen + 1
    /\ UNCHANGED <<maps, flat, saved>>

\* MakeVRAMFlat_TextureCoherent and MakeVRAMFlat_TexPalCoherent, at the start
\* of a 3D frame.
MakeFlat(v) ==
    /\ flat[v].gen # texGen
    /\ flat' = [flat EXCEPT ![v] = [gen |-> texGen,
                                    bytes |-> SlotSpace(v, mask, data)]]
    /\ UNCHANGED <<maps, data, texGen, saved>>

\* vram_savestate_export.
VramSave ==
    /\ saved = {} /\ texGen <= SaveGen
    /\ saved' = {[cnt |-> cnt, data |-> data, texGen |-> texGen]}
    /\ UNCHANGED <<maps, data, texGen, flat>>

\* vram_savestate_import: the maps are rebuilt bank by bank; the generation
\* goes back to the file's.  gpu3d_savestate_import forgets the flat copies'.
VramLoad ==
    \E s \in saved :
        LET on == [b \in Banks |-> Selects(b, s.cnt[b])]
            mk == [t \in Slots |-> {b \in Banks : t \in on[b]}]
        IN
        /\ \A b \in Banks : Sanitized(b, s.cnt[b]) = s.cnt[b]
        /\ s.texGen # 0
        /\ cnt' = s.cnt
        /\ mask' = mk
        /\ pointer' = RefreshedViews(mk)
        /\ data' = s.data
        /\ texGen' = s.texGen
        /\ flat' = [v \in Copies |-> [flat[v] EXCEPT !.gen = 0]]
        /\ UNCHANGED saved

\* nds_vram_reset, with gpu3d_reset forgetting the flat copies.
VramReset ==
    /\ texGen < MaxGen
    /\ cnt' = [b \in Banks |-> Off] /\ mask' = NoMap
    /\ pointer' = RefreshedViews(NoMap)
    /\ data' = Zero
    /\ texGen' = texGen + 1
    /\ flat' = [v \in Copies |-> [flat[v] EXCEPT !.gen = 0]]
    /\ UNCHANGED saved

VramNext ==
    \/ \E w \in Mappings : MapBank(w[1], w[2])
    \/ \E cpu \in {7, 9}, slot \in Slots, x \in {0, 1} : VideoWrite(cpu, slot, x)
    \/ \E b \in Banks : StagedCapture(b)
    \/ \E v \in Copies : MakeFlat(v)
    \/ VramSave
    \/ VramLoad
    \/ VramReset

VramSpec == VramInit /\ [][VramNext]_vramVars

(* The incremental masks are what the control registers select now: no        *)
(* sequence of remaps, loads and resets leaves a bank behind in a slot.        *)
MasksAreTheControls ==
    \A b \in Banks : {s \in Slots : b \in mask[s]} = Selects(b, cnt[b])

(* A renderer that follows its pointer reads the byte the guest would read;    *)
(* where banks overlap it has no pointer and takes the OR.                     *)
PointersReadTheMap ==
    \A s \in Drawn : \A p \in pointer[s] :
        mask[s] = {p.bank} /\ p.at = s[2] % Chunks(p.bank)

(* While the generations agree the flat copy is the texture memory, although   *)
(* no write into a bank moves the generation: "every content change is         *)
(* therefore a remap" (vram.h).                                                *)
FlatCopiesCurrent ==
    \A v \in Copies : flat[v].gen = texGen => flat[v].bytes = SlotSpace(v, mask, data)

(* What the renderers derive from the VRAM controls is never stale.            *)
VramCoherent == MasksAreTheControls /\ PointersReadTheMap /\ FlatCopiesCurrent

================================================================================
