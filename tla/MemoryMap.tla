------------------------------ MODULE MemoryMap ------------------------------
(* What an address means and what it costs: the bus map (runner/src/bus.cpp), *)
(* the CP15 registers that move it (cp15.cpp), and everything derived from    *)
(* them so that generated code need not ask: the fast windows, the timing     *)
(* mirrors of the TCMs, the page bitmaps of cacheability, and the published   *)
(* code-fetch class (recompiler/armv4t/runtime_arm.h).  Each derived item is  *)
(* refreshed by hand wherever an input moves; the model has every such place. *)
(*                                                                            *)
(* Addresses are counted in units of 2 KiB, half a protection page, so that   *)
(* a protection region smaller than a page exists.                            *)
EXTENDS Integers, FiniteSets

CONSTANTS
    ControlValues, \* values of the control register: sets of its bits
    Regions,      \* indices of the protection regions
    RegionValues, \* what a region register is written with: {} or {[base, size]}
    DtcmBases,    \* where the guest puts the DTCM
    TcmSizes,     \* the size fields written for either TCM
    WramModes,    \* WRAMCNT values
    Targets,      \* branch targets and fetch addresses
    Cp15Images,   \* the CP15 part of savestate files
    MaxTimingGen  \* bound on g_cp15_timing_generation

VARIABLES
    control,      \* g_cp15.control: a set of bits
    dtcm, itcm,   \* [base, size] and size, virtual spans
    region,       \* g_mpu_region_base/_end
    cacheable,    \* g_cache_cfg: [d, i], sets of region indices
    wramcnt,
    window,       \* g_busf_*: what the inline accesses are served from
    mirror,       \* g_memt_*: the TCMs as the data timing sees them
    inputs,       \* g_class_inputs: {} or {what the bitmaps were built from}
    timingGen,    \* g_cp15_timing_generation
    latch,        \* g_arm9_region_code_timing: {} or {class}
    pageClass,    \* g_arm9_code_timing: {} or {[page, gen, class]}
    published,    \* g_arm9_code_pub_gen, _class_shift, _itcm_code_limit
    jumped        \* the class at the last control transfer: {} or {class}

registers == <<control, dtcm, itcm, region, cacheable>>
derived == <<window, mirror, inputs>>
fetching == <<latch, pageClass, published, jumped>>
mapVars == <<registers, wramcnt, derived, timingGen, fetching>>

RegionValue(v) == \A r \in v : r.base \in Nat /\ r.size \in Nat \ {0}

\* Addresses and sizes are numbers, the size fields give some, and a file holds
\* what the registers hold.
ASSUME MemoryMapAssumption ==
    /\ \A v \in RegionValues : RegionValue(v)
    /\ DtcmBases \subseteq Nat /\ Targets \subseteq Nat
    /\ \A n \in TcmSizes : (2 ^ (n - 2)) \in Nat
    /\ \A s \in Cp15Images :
          /\ DOMAIN s.region = Regions /\ \A i \in Regions : RegionValue(s.region[i])
          /\ s.dtcm.base \in Nat /\ s.dtcm.size \in Nat /\ s.itcm \in Nat
          /\ s.gen \in Nat

(* Region boundaries, in units: 16#02000000# is 16384 and so on. *)
MainRam == 16384..24575
WramLow == 24576..28671
WramHigh == 28672..32767
PalVram == 40960..57343
Vram == 49152..57343
Wifi == 36864..36895
GbaSlot == 65536..90111
Arm9Bios == 2097120..2097151
Top == 2097152
Unit4G == 2097152

(***************************************************************************)
(* The map as the slow path reads it.                                      *)
(***************************************************************************)

At(mem, offset) == {[mem |-> mem, at |-> offset]}

WithinItcm(u) == "itcm" \in control /\ u < itcm
WithinDtcm(u) == "dtcm" \in control /\ u >= dtcm.base /\ u - dtcm.base < dtcm.size

\* resolve(): the WRAM window by WRAMCNT, for each CPU.
SharedWram(cpu, m, u) ==
    CASE cpu = "arm9" /\ m = 0 -> At("shared", u % 16)
      [] cpu = "arm9" /\ m = 1 -> At("shared", 8 + (u % 8))
      [] cpu = "arm9" /\ m = 2 -> At("shared", u % 8)
      [] cpu = "arm9" /\ m = 3 -> {}
      [] cpu = "arm7" /\ m = 0 -> At("wram7", u % 32)
      [] cpu = "arm7" /\ m = 1 -> At("shared", u % 8)
      [] cpu = "arm7" /\ m = 2 -> At("shared", 8 + (u % 8))
      [] OTHER -> At("shared", u % 16)

\* resolve(): ITCM below main RAM and mirrored, DTCM over whatever it covers
\* up to its 16 KiB, then the common map.
BusResolve(cpu, u) ==
    CASE cpu = "arm9" /\ WithinItcm(u) /\ u < 16384 -> At("itcm", u % 16)
      [] cpu = "arm9" /\ ~(WithinItcm(u) /\ u < 16384) /\ WithinDtcm(u)
         /\ u - dtcm.base < 8 -> At("dtcm", u - dtcm.base)
      [] OTHER ->
            CASE u \in MainRam -> At("main", u % 2048)
              [] u \in WramLow -> SharedWram(cpu, wramcnt, u)
              [] u \in WramHigh -> At("wram7", u % 32)
              [] cpu = "arm9" /\ u \in Arm9Bios -> At("bios9", u % 2)
              [] cpu = "arm7" /\ u < 8 -> At("bios7", u)
              [] OTHER -> {}

(***************************************************************************)
(* The map as generated code reads it.                                     *)
(***************************************************************************)

Smaller(a, b) == IF a < b THEN a ELSE b

\* A mutant: the window is as long as the DTCM's virtual span.
WindowsUnclamped(c, d, i, m) ==
    [itcmLimit |-> IF "itcm" \in c THEN Smaller(i, 16384) ELSE 0,
     dtcmBase |-> d.base,
     dtcmLimit |-> IF "dtcm" \in c THEN d.size ELSE 0,
     wram |-> m]

\* bus_fast_refresh, from the registers and the WRAMCNT it is called under.
FastWindows(c, d, i, m) ==
    [itcmLimit |-> IF "itcm" \in c THEN Smaller(i, 16384) ELSE 0,
     dtcmBase |-> d.base,
     dtcmLimit |-> IF "dtcm" \in c THEN Smaller(d.size, 8) ELSE 0,
     wram |-> m]

TimingMirror(c, d, i) ==
    [itcm |-> IF "itcm" \in c THEN i ELSE 0,
     base |-> d.base, size |-> IF "dtcm" \in c THEN d.size ELSE 0]

\* nds_busf_classify; {} leaves the access to the slow path.
Classify(cpu, u) ==
    CASE cpu = "arm9" /\ u < window.itcmLimit -> At("itcm", u % 16)
      [] cpu = "arm9" /\ u >= window.itcmLimit /\ u >= window.dtcmBase
         /\ u - window.dtcmBase < window.dtcmLimit ->
            At("dtcm", u - window.dtcmBase)
      [] OTHER ->
            CASE u \in MainRam -> At("main", u % 2048)
              [] u \in WramLow -> SharedWram(cpu, window.wram, u)
              [] u \in WramHigh -> At("wram7", u % 32)
              [] OTHER -> {}

(***************************************************************************)
(* Cacheability: the region walk, and the bitmaps built from it.           *)
(***************************************************************************)

\* set_mpu_region: a power of two of bytes from a base aligned down to it.
First(r) == r.base - (r.base % r.size)
Span(r) == First(r)..(First(r) + r.size - 1)

MpuContains(i, u) == \E r \in region[i] : u \in Span(r)

Highest(s) == CHOOSE i \in s : \A j \in s : j <= i

\* cp15_code_cacheable_reference, cp15_data_cacheable_reference.
Walk(enable, bits, u) ==
    /\ enable \in control
    /\ \/ "mpu" \notin control
       \/ LET hits == {i \in Regions : MpuContains(i, u)}
          IN  hits # {} /\ Highest(hits) \in bits

\* What cp15_class_sync compares, and rebuilds the bitmaps from.
ClassInputs(c, reg, cfg) ==
    [control |-> c \cap {"mpu", "dcache", "icache"}, region |-> reg, cfg |-> cfg]

PageSized(r) == First(r) % 2 = 0 /\ (First(r) + r.size) % 2 = 0
Page(u) == u - (u % 2)

\* g_cp15_class_ready: every region is a number of pages.
ClassReady ==
    \A in \in inputs : "mpu" \notin in.control
                       \/ \A i \in Regions : \A r \in in.region[i] : PageSized(r)

\* The bit of u's page in g_cp15_dcache_page or _icache_page: the last region
\* filled wins.
PageBit(enable, bits, u) ==
    \E in \in inputs :
        /\ enable \in in.control
        /\ \/ "mpu" \notin in.control
           \/ LET hits == {i \in Regions : \E r \in in.region[i] : Page(u) \in Span(r)}
              IN  hits # {} /\ Highest(hits) \in in.cfg[bits]

\* cp15_data_cacheable and cp15_code_cacheable.
Cacheable(enable, bits, u) ==
    IF ClassReady THEN PageBit(enable, bits, u)
    ELSE Walk(enable, cacheable[bits], u)

(***************************************************************************)
(* Data timing.                                                            *)
(***************************************************************************)

\* The uncached ARM9 regions.
Uncached9(u, width, seq) ==
    CASE seq -> IF u \in MainRam \/ u \in PalVram THEN 4 ELSE 2
      [] ~seq /\ width = 4 ->
            IF u \in MainRam THEN 18 ELSE IF u \in PalVram THEN 10 ELSE 8
      [] OTHER -> IF u \in MainRam THEN 16 ELSE 8

\* arm7_region: the 16-bit buses of main RAM and VRAM, and the fast rest.
Bus7(u) == CASE u \in MainRam -> [n |-> 8, s |-> 1, wide |-> FALSE]
             [] u \in Vram -> [n |-> 1, s |-> 1, wide |-> FALSE]
             [] OTHER -> [n |-> 1, s |-> 1, wide |-> TRUE]
N32(b) == IF b.wide THEN b.n ELSE b.n + b.s
S32(b) == IF b.wide THEN b.s ELSE 2 * b.s

\* Priced from live I/O registers by the one slow function in both spellings.
ByRegister == 0

\* runtime_mem_cycles_reference.
DataReference(cpu, u, width, seq) ==
    IF cpu = "arm7"
    THEN IF u \in Wifi \/ u \in GbaSlot THEN ByRegister
         ELSE IF width < 4 THEN Bus7(u).n
         ELSE IF seq THEN S32(Bus7(u)) ELSE N32(Bus7(u))
    ELSE CASE WithinItcm(u) \/ WithinDtcm(u) -> 1
           [] ~WithinItcm(u) /\ ~WithinDtcm(u)
              /\ Walk("dcache", cacheable.d, u) -> IF seq THEN 1 ELSE 3
           [] OTHER -> IF u \in GbaSlot THEN ByRegister ELSE Uncached9(u, width, seq)

\* runtime_mem_cycles as it is inlined, over the mirrors and the bitmap.
DataInline(cpu, u, width, seq) ==
    IF cpu = "arm7"
    THEN CASE u \in MainRam -> IF width < 4 THEN 8 ELSE IF seq THEN 2 ELSE 9
           [] u \in Vram -> IF width < 4 THEN 1 ELSE 2
           [] u \in Wifi \/ u \in GbaSlot -> ByRegister
           [] OTHER -> 1
    ELSE LET tcm == \/ u < mirror.itcm
                    \/ u >= mirror.base /\ u - mirror.base < mirror.size
         IN  CASE tcm -> 1
               [] ~tcm /\ Cacheable("dcache", "d", u) -> IF seq THEN 1 ELSE 3
               [] OTHER -> IF u \in GbaSlot THEN ByRegister
                           ELSE Uncached9(u, width, seq)

(***************************************************************************)
(* Code-fetch timing of the ARM9.                                          *)
(***************************************************************************)

\* arm9_code_timing, computed: the class of the page.
LiveClass(u) ==
    CASE Cacheable("icache", "i", Page(u)) -> "cached"
      [] ~Cacheable("icache", "i", Page(u)) /\ u \in MainRam -> "main"
      [] OTHER -> "other"

\* arm9_code_timing: one page is remembered for the generation it was asked in.
Remembered(u) == {c \in pageClass : c.page = Page(u) /\ c.gen = timingGen}
CodeTiming(u) ==
    IF Remembered(u) # {} THEN (CHOOSE c \in Remembered(u) : TRUE).class
    ELSE LiveClass(u)
Remember(u) == {[page |-> Page(u), gen |-> timingGen, class |-> CodeTiming(u)]}

\* arm9_code_fast_publish.
Publish(class) ==
    [gen |-> timingGen, class |-> class,
     itcmLimit |-> IF "itcm" \in control THEN itcm ELSE 0]
Unpublished == [gen |-> 0, class |-> "other", itcmLimit |-> 0]

\* The cost of a fetch by its class; lineStart is the I-cache line term.
NumC(class, lineStart) ==
    CASE class = "itcm" -> 1
      [] class = "cached" -> IF lineStart THEN 3 ELSE 1
      [] class = "main" -> 18
      [] OTHER -> 8

\* NDS_ARM9_CODE_K: the same four costs, packed at code generation; 0 for
\* the odd halfword, which the previous fetch has brought.
CodeK(lineStart) ==
    [itcm |-> 1, cached |-> IF lineStart THEN 3 ELSE 1, main |-> 18, other |-> 8]

\* runtime_code_cycles, without its publication.
FetchSlow(u, lineStart) ==
    IF WithinItcm(u) THEN NumC("itcm", lineStart)
    ELSE NumC(IF latch # {} THEN CHOOSE c \in latch : TRUE ELSE CodeTiming(u),
              lineStart)

\* nds_code_numc: only while the publication is of this generation.
FetchInline(u, lineStart) ==
    IF published.gen # timingGen THEN FetchSlow(u, lineStart)
    ELSE IF u < published.itcmLimit THEN 1
    ELSE CodeK(lineStart)[published.class]

\* The class by the region walk.
ReferenceClass(u) ==
    CASE Walk("icache", cacheable.i, Page(u)) -> "cached"
      [] ~Walk("icache", cacheable.i, Page(u)) /\ u \in MainRam -> "main"
      [] OTHER -> "other"

\* What the pipeline model asks for: ITCM as it is mapped now, otherwise the
\* class of the code region when it was entered.
FetchReference(u, lineStart) ==
    IF WithinItcm(u) THEN 1
    ELSE NumC(IF jumped # {} THEN CHOOSE c \in jumped : TRUE
              ELSE ReferenceClass(u), lineStart)

(***************************************************************************)
(* Steps.                                                                  *)
(***************************************************************************)

NoRegions == [i \in Regions |-> {}]

MapInit ==
    /\ control = {}
    /\ dtcm = [base |-> 0, size |-> 0]
    /\ itcm = 0
    /\ region = NoRegions
    /\ cacheable = [d |-> {}, i |-> {}]
    /\ wramcnt = 0
    /\ window = FastWindows({}, [base |-> 0, size |-> 0], 0, 0)
    /\ mirror = TimingMirror({}, [base |-> 0, size |-> 0], 0)
    /\ inputs = {ClassInputs({}, NoRegions, [d |-> {}, i |-> {}])}
    /\ timingGen = 1
    /\ latch = {} /\ pageClass = {} /\ jumped = {}
    /\ published = Unpublished

Refresh == /\ window' = FastWindows(control', dtcm', itcm', wramcnt')
           /\ mirror' = TimingMirror(control', dtcm', itcm')

NewGeneration == timingGen < MaxTimingGen /\ timingGen' = timingGen + 1

\* cp15_class_sync after a write of c1, c2 or c6.
ClassSync == inputs' = {ClassInputs(control', region', cacheable')}

\* runtime_coproc_write, c1: the enables of everything.
WriteControl(c) ==
    /\ NewGeneration
    /\ control' = c
    /\ UNCHANGED <<dtcm, itcm, region, cacheable, wramcnt>>
    /\ Refresh
    /\ ClassSync
    /\ UNCHANGED fetching

\* c2: the cacheable bits of data or instructions.
WriteCacheable(bits, s) ==
    /\ NewGeneration
    /\ cacheable' = [cacheable EXCEPT ![bits] = s]
    /\ UNCHANGED <<control, dtcm, itcm, region, wramcnt, window, mirror>>
    /\ ClassSync
    /\ UNCHANGED fetching

\* c6: a protection region.
WriteRegion(i, r) ==
    /\ NewGeneration
    /\ region' = [region EXCEPT ![i] = r]
    /\ UNCHANGED <<control, dtcm, itcm, cacheable, wramcnt, window, mirror>>
    /\ ClassSync
    /\ UNCHANGED fetching

\* tcm_bytes: 512 << n in 32 bits, of which the 4 GiB encoding leaves 0.
TcmUnits(n) == (2 ^ (n - 2)) % Unit4G

\* c9: the DTCM's place and size, the ITCM's size.
WriteDtcm(base, n) ==
    /\ NewGeneration
    /\ dtcm' = [base |-> base, size |-> TcmUnits(n)]
    /\ UNCHANGED <<control, itcm, region, cacheable, wramcnt, inputs>>
    /\ Refresh
    /\ UNCHANGED fetching

WriteItcm(n) ==
    /\ NewGeneration
    /\ itcm' = TcmUnits(n)
    /\ UNCHANGED <<control, dtcm, region, cacheable, wramcnt, inputs>>
    /\ Refresh
    /\ UNCHANGED fetching

\* The WRAMCNT write of io.cpp.
WriteWramcnt(m) ==
    /\ wramcnt' = m
    /\ UNCHANGED <<registers, inputs, timingGen, fetching>>
    /\ Refresh

\* arm9_refill_cycles: a control transfer latches the target's class, and
\* publishes it.
Branch(u) ==
    /\ latch' = {CodeTiming(u)}
    /\ pageClass' = Remember(u)
    /\ published' = Publish(CodeTiming(u))
    /\ jumped' = {ReferenceClass(u)}
    /\ UNCHANGED <<registers, wramcnt, derived, timingGen>>

\* A fetch that finds the publication stale: runtime_code_cycles latches what
\* nothing has latched, and publishes for the generation.  Within the ITCM
\* nothing is latched.
Fetch(u) ==
    /\ published.gen # timingGen
    /\ LET class == IF latch # {} THEN latch
                    ELSE IF WithinItcm(u) THEN {} ELSE {CodeTiming(u)}
       IN  /\ latch' = class
           /\ pageClass' = IF class = latch THEN pageClass ELSE Remember(u)
           /\ published' = IF class = {} THEN [Unpublished EXCEPT !.itcmLimit = itcm]
                           ELSE Publish(CHOOSE c \in class : TRUE)
           /\ jumped' = IF jumped # {} \/ WithinItcm(u) THEN jumped
                        ELSE {ReferenceClass(u)}
    /\ UNCHANGED <<registers, wramcnt, derived, timingGen>>

\* import_core_state: bus_savestate_import drops what was latched for
\* fetches, cp15_savestate_import restores the registers with their
\* generation, rebuilds, and drops the publication.
MapLoad(s) ==
    /\ control' = s.control /\ dtcm' = s.dtcm /\ itcm' = s.itcm
    /\ region' = s.region /\ cacheable' = s.cacheable /\ wramcnt' = s.wramcnt
    /\ timingGen' = IF s.gen = 0 THEN 1 ELSE s.gen
    /\ Refresh
    /\ ClassSync
    /\ latch' = {} /\ pageClass' = {} /\ published' = Unpublished /\ jumped' = {}

\* The machine reset of main.cpp: bus_init, cp15_reset, nds_io_reset.  The
\* protection regions and cacheable bits keep their values.
MapReset ==
    /\ NewGeneration
    /\ control' = {} /\ dtcm' = [base |-> 0, size |-> 0] /\ itcm' = 0
    /\ wramcnt' = 0
    /\ UNCHANGED <<region, cacheable>>
    /\ Refresh
    /\ ClassSync
    /\ latch' = {} /\ pageClass' = {} /\ published' = Unpublished /\ jumped' = {}

MapNext ==
    \/ \E c \in ControlValues : WriteControl(c)
    \/ \E b \in {"d", "i"}, s \in SUBSET Regions : WriteCacheable(b, s)
    \/ \E i \in Regions, r \in RegionValues : WriteRegion(i, r)
    \/ \E b \in DtcmBases, n \in TcmSizes : WriteDtcm(b, n)
    \/ \E n \in TcmSizes : WriteItcm(n)
    \/ \E m \in WramModes : WriteWramcnt(m)
    \/ \E u \in Targets : Branch(u)
    \/ \E u \in Targets : Fetch(u)
    \/ \E s \in Cp15Images : MapLoad(s)
    \/ MapReset

MapSpec == MapInit /\ [][MapNext]_mapVars

(***************************************************************************)
(* Properties.                                                             *)
(***************************************************************************)

(* The addresses at the edges of every region and of every TCM. *)
Samples == {0, 1, 7, 8, 15, 16, 31, 16383, 16384, 16385, 16391, 16392, 16400,
            24575, 24576, 24584, 28671, 28672, 32767, 32768, 36863, 36864, 36895,
            36896, 40959, 40960, 49151, 49152, 57343, 57344, 65535, 65536,
            90111, 90112, 2097119, 2097120, 2097151}

(* "Each window mirrors resolve()'s mapping for its address range EXACTLY":   *)
(* after any order of CP15 writes, WRAMCNT writes, loads and resets, an inline *)
(* access reaches the byte the slow path would, and what it leaves to the slow *)
(* path is only what is not plain RAM.                                         *)
WindowExact(u) ==
    \A cpu \in {"arm9", "arm7"} :
        \/ Classify(cpu, u) = BusResolve(cpu, u)
        \/ Classify(cpu, u) = {} /\ (u \in Arm9Bios \/ (cpu = "arm7" /\ u < 8))
WindowsExact == \A u \in Samples : WindowExact(u)

(* The inlined timings give what the reference walk over the live registers   *)
(* gives: data accesses of every width on both CPUs, and ARM9 fetches, whose   *)
(* class is the one latched at the last control transfer while the ITCM is the *)
(* one mapped now.                                                             *)
PriceExact(u) ==
    /\ \A cpu \in {"arm9", "arm7"}, width \in {2, 4}, seq \in BOOLEAN :
           DataInline(cpu, u, width, seq) = DataReference(cpu, u, width, seq)
    /\ \A lineStart \in BOOLEAN :
           FetchInline(u, lineStart) = FetchReference(u, lineStart)
TimingExact == \A u \in Samples : PriceExact(u)

===============================================================================
