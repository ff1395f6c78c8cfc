------------------------------- MODULE MCMachine ------------------------------
(***************************************************************************)
(* The emulated machine's derived state, model checked side by side:        *)
(* `part' names the component that runs in a behaviour, the others keep     *)
(* their first state.  All but the sound channels are specified by the      *)
(* modules this one extends.                                                *)
(***************************************************************************)
EXTENDS CycleDeadline, DispatchCache, MemoryMap, VramMap, FrameReadback

VARIABLES part,
  ch, heard, cpt, stored, mixes, out, taken  \* Spu

spuVars == <<ch, heard, cpt, stored, mixes, out, taken>>
machineVars == <<part, vars, dispatchVars, mapVars, vramVars, frameVars, spuVars>>

-----------------------------------------------------------------------------
\* Two functions at each of two addresses, proved by pages of main memory and
\* of the shared WRAM, one more row than a proof can record among them.
Row(fn, key, pages, expect, size) ==
  [key |-> key, fn |-> fn, pages |-> pages, expect |-> expect, size |-> size,
   owns |-> TRUE, cpu |-> "arm7"]
F1 == Row("f1", "k1", {"wram"}, "a", 2)
F2 == Row("f2", "k1", {"ram"}, "b", 4)
F3 == Row("f3", "k2", {}, "a", 2)
F4 == Row("f4", "k2", {"ram", "ram2", "wram"}, "a", 2)

RowTable == {F1, F2, F3, F4}
FirstRows == [c \in {"arm7"} |-> <<F1, F3>>]

\* A file saved after one store to main memory and one to the shared WRAM.
SavedImages ==
  {[byte |-> [p \in Physical |-> IF p \in {"lo", "ram"} THEN "b" ELSE Blank],
    gen |-> [p \in Physical |-> IF p \in {"lo", "ram"} THEN 1 ELSE 0],
    mode |-> 1]}

Whole == {[base |-> 0, size |-> 2097152]}
Quarter == {[base |-> 16384, size |-> 2]}
Eighth == {[base |-> 16386, size |-> 1]}
RegionTable == {{}, Whole, Quarter, Eighth}
ControlTable == {{"itcm", "dtcm"}, {"mpu", "dcache", "icache", "itcm"},
                 {"icache", "mpu", "dtcm"}}
SavedRegisters ==
  {[control |-> {"mpu", "icache"}, dtcm |-> [base |-> 16384, size |-> 8], itcm |-> 16,
    region |-> [r \in {0, 1} |-> IF r = 0 THEN Whole ELSE {}],
    cacheable |-> [d |-> {}, i |-> {0}], wramcnt |-> 3, gen |-> 2]}

Bank(m, o) == [on |-> TRUE, mst |-> m, ofs |-> o]
Remaps == {<<0, Bank(3, 0)>>, <<0, Bank(0, 0)>>, <<2, Bank(3, 0)>>,
           <<2, Bank(2, 1)>>, <<4, Bank(3, 0)>>, <<4, Bank(1, 0)>>}

\* The channels, the capture units and the output ring are independent, so each
\* has its own part; a second channel part lets a playing sound be rewritten.
Channel == INSTANCE Spu WITH
       Formats <- 0..3, Repeats <- 0..2, Loops <- {0, 4}, Lengths <- {16},
       Reloads <- {7}, CaptureLengths <- {}, OutputFrames <- 1, MaxMixes <- 11,
       MaxChanges <- 0, cap <- cpt
Rewritten == INSTANCE Spu WITH
       Formats <- {1}, Repeats <- {1, 2}, Loops <- {0, 4}, Lengths <- {12, 16},
       Reloads <- {7}, CaptureLengths <- {}, OutputFrames <- 1, MaxMixes <- 7,
       MaxChanges <- 1, cap <- cpt
Capture == INSTANCE Spu WITH
       Formats <- {}, Repeats <- {}, Loops <- {}, Lengths <- {},
       Reloads <- {6, 7}, CaptureLengths <- {4, 20}, OutputFrames <- 1,
       MaxMixes <- 8, MaxChanges <- 1, cap <- cpt
Ring == INSTANCE Spu WITH
       Formats <- {}, Repeats <- {}, Loops <- {}, Lengths <- {},
       Reloads <- {}, CaptureLengths <- {}, OutputFrames <- 3,
       MaxMixes <- 24, MaxChanges <- 0, cap <- cpt

-----------------------------------------------------------------------------
\* The larger components have no state in the behaviours they do not run in.
MachineInit ==
  /\ part \in {"cycles", "dispatch", "memory", "vram", "readback", "channel",
               "rewritten", "capture", "ring"}
  /\ Init /\ DispatchInit /\ FrameInit
  /\ \/ part = "memory" /\ MapInit
     \/ /\ part # "memory"
        /\ control = 0 /\ dtcm = 0 /\ itcm = 0 /\ region = 0
        /\ cacheable = 0 /\ wramcnt = 0 /\ window = 0 /\ mirror = 0
        /\ inputs = 0 /\ timingGen = 0 /\ latch = 0 /\ pageClass = 0
        /\ published = 0 /\ jumped = 0
  /\ \/ part = "vram" /\ VramInit
     \/ /\ part # "vram"
        /\ cnt = 0 /\ mask = 0 /\ pointer = 0 /\ data = 0 /\ texGen = 0
        /\ flat = 0 /\ saved = 0
  /\ \/ part \in {"channel", "rewritten", "capture", "ring"} /\ Channel!Init
     \/ /\ part \notin {"channel", "rewritten", "capture", "ring"}
        /\ ch = 0 /\ heard = 0 /\ cpt = 0 /\ stored = 0 /\ mixes = 0
        /\ out = 0 /\ taken = 0

MachineNext ==
  \/ /\ part = "cycles" /\ Next
     /\ UNCHANGED <<part, dispatchVars, mapVars, vramVars, frameVars, spuVars>>
  \/ /\ part = "dispatch" /\ DispatchNext
     /\ UNCHANGED <<part, vars, mapVars, vramVars, frameVars, spuVars>>
  \/ /\ part = "memory" /\ MapNext
     /\ UNCHANGED <<part, vars, dispatchVars, vramVars, frameVars, spuVars>>
  \/ /\ part = "vram" /\ VramNext
     /\ UNCHANGED <<part, vars, dispatchVars, mapVars, frameVars, spuVars>>
  \/ /\ part = "readback" /\ FrameNext
     /\ UNCHANGED <<part, vars, dispatchVars, mapVars, vramVars, spuVars>>
  \/ /\ part = "channel" /\ Channel!Next
     /\ UNCHANGED <<part, vars, dispatchVars, mapVars, vramVars, frameVars>>
  \/ /\ part = "rewritten" /\ Rewritten!Next
     /\ UNCHANGED <<part, vars, dispatchVars, mapVars, vramVars, frameVars>>
  \/ /\ part = "capture" /\ Capture!Next
     /\ UNCHANGED <<part, vars, dispatchVars, mapVars, vramVars, frameVars>>
  \/ /\ part = "ring" /\ Ring!Next
     /\ UNCHANGED <<part, vars, dispatchVars, mapVars, vramVars, frameVars>>

MachineSpec == MachineInit /\ [][MachineNext]_machineVars

-----------------------------------------------------------------------------
\* Every window, mirror and published class that CP15 and WRAMCNT derive for
\* the inline accesses answers as the slow path would (bus_fast_refresh,
\* cp15.cpp, bus_code_cycles).
MirrorsExact == part = "memory" => WindowsExact /\ TimingExact

\* Slot masks, renderer pointers and flat copies of VRAM follow every mapping,
\* store, capture and restore (vram.cpp, make_flat).
VramExact == part = "vram" => VramCoherent

\* The 3D line a 2D line composites is the frame's own, or the one the declared
\* latency allows (compute_finish_readback, nds_gpu3d_line).
FramesFresh == part = "readback" => LinesFresh

\* Samples are played and captured in order through every loop, refill and end,
\* and the states of a unit playing what it started with are ones a savestate
\* may hold (spu.cpp).
SpuExact ==
  /\ part = "channel" => Channel!SpuExact
  /\ part = "rewritten" => Rewritten!SpuExact
  /\ part = "capture" => Capture!SpuExact
  /\ part = "ring" => Ring!SpuExact
=============================================================================
