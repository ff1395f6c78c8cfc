-------------------------------- MODULE MCHost --------------------------------
(***************************************************************************)
(* What surrounds the emulated machine, model checked side by side: the    *)
(* files that outlive a run, the picture and its presenters, the network   *)
(* and its traces, the function finder, the frontend and the coverage      *)
(* store.  `part' names the component that runs in a behaviour; the        *)
(* variables of the others stay 0.                                         *)
(***************************************************************************)
EXTENDS Integers, Sequences, TLC

VARIABLES part,
  round, core, build, halted, slot, durable, temp, saving, battery, history,
  bootState, kept, promised,
  section, values, payload, damaged, file, harmed,
  disk, temporary, memory, stores, dirty, step,
  engine, powered, units,
  d, cap, latch, acc, y, frame, front, fb, direct, present, force, job, decoded,
  staged, armed, blanked, reloaded,
  kind, in, oam, n, x, line, window,
  now, event, enabled, powerUS, on, client, socket, waiting, packets, replies,
  arrivals, guard, ticks,
  phase, lag, sanitize, tick, inner, state, capture, partial, live, got, nextTx,
  nextRx, mismatch,
  entries, names, seq, w, nameW, retained, ringHistory,
  image, config, ranges, worklist, remaining, enqueued, visited, switchSeeds,
  walk, functions, collisions, ptrSeen, jtSeen, capped, finderPhase,
  language, regs, ram, const, sym, slots, scaled, table, bound, lastCmp, pend,
  target, stale, walked,
  options, u, held, swallowed, tap, guest,
  session, gov, installed, ring, total, left, below, recovered,
  output, mem, store, writes, notes, observed, rooted, roots, images

stateVars == <<round, core, build, halted, slot, durable, temp, saving, battery,
               history, bootState, kept, promised>>
sectionVars == <<section, values, payload, damaged>>
fileVars == <<file, harmed>>
batteryVars == <<disk, temporary, memory, stores, dirty, step>>
pixelVars == <<engine, powered, units>>
latchVars == <<d, cap, latch, acc, y, frame, front, fb, direct, present, force,
               job, decoded, staged, armed, blanked, reloaded>>
decodeVars == <<kind, in, oam, n, x, line, window>>
wifiVars == <<now, event, enabled, powerUS, on, client, socket, waiting, packets,
              replies, arrivals, guard, ticks>>
replayVars == <<phase, lag, sanitize, tick, inner, state, capture, partial, live,
                got, nextTx, nextRx, mismatch>>
ringVars == <<entries, names, seq, w, nameW, retained, ringHistory>>
finderVars == <<image, config, ranges, worklist, remaining, enqueued, visited,
                switchSeeds, walk, functions, collisions, ptrSeen, jtSeen, capped,
                finderPhase>>
trackerVars == <<language, regs, ram, const, sym, slots, scaled, table, bound,
                 lastCmp, pend, target, stale, walked>>
inputVars == <<options, u, held, swallowed, tap, guest>>
governorVars == <<session, gov, installed, ring, total, left, below, recovered>>
coverageVars == <<output, mem, store, writes, notes, observed, rooted, roots, images>>
vars == <<part, stateVars, sectionVars, fileVars, batteryVars, pixelVars, latchVars,
          decodeVars, wifiVars, replayVars, ringVars, finderVars, trackerVars,
          inputVars, governorVars, coverageVars>>

-----------------------------------------------------------------------------
(* Files.  The guest of these runs sends no power-management read:         *)
(* SavestateRollback.cfg shows what those do.                              *)
State == INSTANCE Savestate WITH
           MaxRound <- 4, IndexBytes <- {"write"}, Builds <- {"b1", "b2"},
           session <- bootState
Codec == INSTANCE SavestateCodec WITH Byte <- 4, Extent <- 2
Battery == INSTANCE BatteryFile WITH Kind <- "battery", MaxStore <- 3
Firmware == INSTANCE BatteryFile WITH Kind <- "firmware", MaxStore <- 3

-----------------------------------------------------------------------------
(* The picture.  Screens, blends and windows around the decisions: with and *)
(* without the 3D layer, blend targets on both sides, a window that wraps,  *)
(* sprites over the edges of native and widened lines.                      *)
LowByte(mode, to3d, blank) == [bgMode |-> mode, to3d |-> to3d, blank |-> blank]
MidByte(layers, wins) == [layers |-> layers, wins |-> wins]
Rect(x0, x1, y0, y1) == [left |-> x0, right |-> x1, top |-> y0, bottom |-> y1]
BlendOf(mode, first, second) == [mode |-> mode, first |-> first, second |-> second]
WindowPair ==
  {[w0 |-> Rect(1, 1, 0, 2), w1 |-> Rect(0, 0, 0, 0), in0 |-> {1}, in1 |-> {},
    out |-> 0..5, objwin |-> {0, 4}],
   [w0 |-> Rect(3, 1, 0, 2), w1 |-> Rect(0, 2, 0, 1), in0 |-> {0, 2, 4},
    in1 |-> {5}, out |-> {0, 5}, objwin |-> {1, 4}]}
Pixels == INSTANCE Compositor WITH
  Low <- {LowByte(0, TRUE, FALSE), LowByte(3, FALSE, FALSE),
          LowByte(0, TRUE, TRUE)},
  Mid <- {MidByte(0..4, {}), MidByte({0, 2, 4}, {"w0", "obj"}),
          MidByte({0, 4}, {}), MidByte(1..4, {}), MidByte({4}, {})},
  Modes <- {1, 2}, Masters <- {1, 2},
  Priorities <- {[b \in 0..3 |-> 0], [b \in 0..3 |-> IF b = 0 THEN 1 ELSE b - 1]},
  Blends <- {BlendOf(1, {0, 2, 4}, {1, 3, 5}), BlendOf(2, {0, 1, 4}, {0, 4, 5}),
             BlendOf(0, {0}, {})},
  Windows <- WindowPair, Native <- 4, Wide <- 7, Rows <- 3, u <- units

Shown(mode, to3d, layers, blank) ==
  [mode |-> mode, to3d |-> to3d, layers |-> layers, wins |-> FALSE, blank |-> blank]
Latch == INSTANCE LineLatch WITH
  Displays <- {Shown(1, TRUE, {0, 4}, FALSE), Shown(1, FALSE, {2, 4}, FALSE),
               Shown(2, TRUE, {0, 3}, FALSE), Shown(1, TRUE, {0, 2}, TRUE)},
  Rows <- 3, CapHeight <- 2, MaxFrames <- 3

Obj(at, width, mode, prio, hflip, affine, double, pa, parity) ==
  [x |-> at, w |-> width, mode |-> mode, prio |-> prio, hflip |-> hflip,
   affine |-> affine, double |-> double, pa |-> pa, parity |-> parity]
Decode == INSTANCE TileDecode WITH
  Tile <- 4, Width <- 12, Flipped <- {1, 4},
  Texts <- [scroll : 0..23, wide : BOOLEAN, mosaic : {0, 2}],
  Affines <- [dx : {-1, 1, 3}, mosaic : {0, 2}, my : {0, 1}, pb : {1, -2},
              row : {0, 1, 3}, wrap : BOOLEAN],
  Sprites <- {Obj(at, 8, mode, prio, TRUE, FALSE, FALSE, 256, parity) :
                at \in {0, 5, 21}, mode \in {0, 1}, prio \in {0, 1},
                parity \in {1, 2}}
             \cup {Obj(at, 4, mode, 1, FALSE, FALSE, FALSE, 256, 0) :
                     at \in {3, 10}, mode \in {0, 2, 3}}
             \cup {Obj(at, 4, mode, 1, FALSE, TRUE, double, 128, 2) :
                     at \in {2, 22}, mode \in {0, 2}, double \in BOOLEAN}
             \cup {Obj(0, 8, 0, 0, FALSE, FALSE, TRUE, 256, 2)},
  Outputs <- {[width |-> 12, anchored |-> FALSE, centre |-> 4],
              [width |-> 15, anchored |-> FALSE, centre |-> 4],
              [width |-> 16, anchored |-> TRUE, centre |-> 4]}

-----------------------------------------------------------------------------
(* The network.                                                            *)
Wifi == INSTANCE WifiDevice WITH
  Interval <- 2, MaxTime <- 5, MaxFrames <- 3, Capacity <- 2,
  ResetPowered <- FALSE

Frame(k, src, dst, mac, host, sum) ==
  [kind |-> k, src |-> src, dst |-> dst, mac |-> mac, host |-> host, sum |-> sum]
Discover == Frame("dhcp", "me", "all", "me", "ds", "right")
Offer == Frame("dhcp", "ap", "all", "me", "server", "right")
Request == Frame("dhcp", "me", "ap", "me", "", "off")
Arp == Frame("arp", "ap", "all", "ap", "", "off")
ArpReply == Frame("arp", "me", "ap", "me", "", "off")
Data == Frame("data", "ap", "me", "x", "", "right")
Own == [t \in 0..5 |-> CASE t = 1 -> <<Discover>>
                         [] t = 3 -> <<Request, Request>>
                         [] OTHER -> <<>>]
AnswerTo(f) == CASE f.kind = "dhcp" -> <<Request>>
                 [] f.kind = "arp" -> <<ArpReply>>
                 [] f.kind = "data" -> <<>>
Trace == INSTANCE NetTrace WITH
  MaxTick <- 5, MaxLag <- 2, HostFrames <- {Offer, Arp, Data}, Timed <- Own,
  Answer <- AnswerTo, RingSize <- 3, NameSlots <- 2, MaxEvents <- 5,
  file <- capture, history <- ringHistory

-----------------------------------------------------------------------------
(* The function finder: four halfwords of THUMB code overlapping two ARM   *)
(* words, an alias of the first half, roots in both modes; and routines    *)
(* that move constants through registers, memory and jump tables.          *)
Op(o) == [op |-> o]
To(o, disp, m) == [op |-> o, d |-> disp, m |-> m]
Abs(o, to, m) == [op |-> o, to |-> to, m |-> m]
Prefix(disp, m) == [op |-> "pre", d |-> disp, m |-> m, pair |-> FALSE]
Jump(base, count) == [op |-> "jt", base |-> base, count |-> count]
Thumbs == {t \in {Op("plain"), To("bc", 2, "thumb"), To("bc", 1, "thumb"), Jump(2, 1)}
                 \X {Prefix(-1, "thumb"), Prefix(3, "arm"), Abs("bxk", 0, "arm"),
                     Abs("str", 3, "thumb")}
                 \X {Op("suf"), Op("plain"), Op("swi"), Op("bxc")}
                 \X {Op("ret"), To("b", -1, "thumb"), Op("undef"),
                     Abs("pad", 2, "arm")} :
             (t[2].op = "pre") = (t[3].op = "suf")}
Arms == {To("bl", 3, "thumb"), To("bl", 2, "arm"), Op("plain")}
        \X {Op("ret"), To("bc", -2, "arm"), Abs("bxk", 1, "thumb"), Jump(0, 0)}
Seed(addr, m, exact) == [addr |-> addr, mode |-> m, exact |-> exact]
Config(seeds, authoritative, data, excluded) ==
  [seeds |-> seeds, authoritative |-> authoritative, ranges |-> data,
   excluded |-> excluded]

I(o, rd, imm) == [op |-> o, rd |-> rd, imm |-> imm]
M(o, rd, rn, off) == [op |-> o, rd |-> rd, rn |-> rn, off |-> off]
Str(rs, rn, off) == [op |-> "str", rs |-> rs, rn |-> rn, off |-> off]
Add(rd, rn, imm) == [op |-> "addi", rd |-> rd, rn |-> rn, imm |-> imm]
Mov(rd, rm) == [op |-> "movr", rd |-> rd, rm |-> rm]
Lsl(rd, rm) == [op |-> "lsl", rd |-> rd, rm |-> rm]
AddReg(rd, rn, rm) == [op |-> "addr", rd |-> rd, rn |-> rn, rm |-> rm]
Bx == [op |-> "bx", rm |-> 0]
Common == {I("movi", 0, 1), I("movi", 1, 2), Add(1, 0, 1), M("ldr", 0, 1, 0),
           M("ldr", 1, 2, 0), Bx, [op |-> "ldrpc", rn |-> 2, off |-> 0],
           [op |-> "ldrpc", rn |-> 2, off |-> 1], Str(0, 2, 0), Str(1, 2, 1)}
Maybe(i) == i @@ [maybe |-> TRUE]
Call(changes) == [op |-> "call", changes |-> changes]
Pushes == Common \cup {[op |-> "pop", rd |-> 0, rn |-> 2],
                       [op |-> "push", rs |-> 0, rn |-> 2],
                       [op |-> "push", rs |-> 1, rn |-> 2], Mov(1, 2), Call({0})}
Moves == Common \cup {Maybe(Mov(1, 2)), Maybe(Mov(0, 1)), Add(2, 2, 1), Str(0, 1, 1),
                      Maybe(I("movi", 0, 2)), Maybe(Str(0, 2, 0)), Call({2})}
Tables == {[op |-> "cmp", rn |-> 0, imm |-> 1], [op |-> "guard", cond |-> "hi"],
           [op |-> "guard", cond |-> "cs"], Lsl(1, 0), Lsl(0, 0), I("movi", 2, 2),
           I("movi", 0, 3), AddReg(1, 2, 1), AddReg(0, 0, 2), M("ldr", 0, 1, 0), Bx,
           Add(0, 0, 1), Maybe(Lsl(1, 0)), [op |-> "pop", rd |-> 1, rn |-> 0]}
At(v, b) == [regs |-> 0 :> v @@ 1 :> 19 @@ 2 :> 20 @@ 3 :> 0,
             bound |-> 0 :> b @@ 1 :> {} @@ 2 :> {} @@ 3 :> {}]
Finder == INSTANCE FunctionFinder WITH
  Size <- 4, Copies <- 4 :> 2 @@ 5 :> 3,
  Images <- {[thumb |-> [i \in 0..3 |-> t[i + 1]],
              arm |-> [i \in {0, 2} |-> a[(i \div 2) + 1]],
              words |-> [i \in {0, 2} |-> [addr |-> 3 - i, mode |-> "thumb"]]] :
               t \in Thumbs, a \in Arms},
  Configs <- {Config(<<Seed(0, "thumb", 0)>>, FALSE, {}, {}),
              Config(<<Seed(0, "arm", 0), Seed(4, "thumb", 0)>>, FALSE, {}, {}),
              Config(<<Seed(1, "thumb", 0), Seed(0, "arm", 0)>>, FALSE, {3}, {2}),
              Config(<<Seed(0, "thumb", 2), Seed(2, "thumb", 3)>>, TRUE, {}, {})},
  MaxFunctions <- 1, MaxInstrs <- 3, StrictRun <- 2,
  Regs <- 0..3, RomSize <- 6, Stride <- 2, Slots <- 2,
  Languages <- {Pushes, Moves, Tables}, Entry <- {At(1, {}), At(1, {1}), At(3, {})},
  MaxSteps <- 5, phase <- finderPhase, n <- walked, mem <- slots

-----------------------------------------------------------------------------
(* The frontend.  Controls: a guest key, Prime Controls keys, Tab, Escape, *)
(* two pad buttons, the right trigger, the mouse buttons.                  *)
Options(prime, stylus, relative, direct_, separate, unified, turbo, ui, controls) ==
  [prime |-> prime, stylus |-> stylus, relative |-> relative, direct |-> direct_,
   separate |-> separate, unified |-> unified, turbo |-> turbo, ui |-> ui,
   controls |-> controls]
Controls == {"ka", "kmove", "tab", "kscan", "esc", "pa", "pb", "rt", "left", "right"}
Chosen(pairs) == [c \in Controls |-> IF c \in DOMAIN pairs THEN pairs[c] ELSE {}]
ChosenOr(pairs, other) ==
  [c \in Controls |-> IF c \in DOMAIN pairs THEN pairs[c] ELSE other]
Input == INSTANCE HostInput WITH
  Configs <- {Options(FALSE, TRUE, FALSE, FALSE, TRUE, FALSE, FALSE, TRUE,
                      {"tab", "esc", "pa", "rt", "left"}),
              Options(FALSE, FALSE, TRUE, FALSE, FALSE, FALSE, TRUE, FALSE,
                      {"ka", "tab", "esc", "left"}),
              Options(TRUE, FALSE, TRUE, TRUE, TRUE, TRUE, FALSE, TRUE,
                      {"kscan", "tab", "esc", "left", "pb"}),
              Options(TRUE, FALSE, TRUE, TRUE, TRUE, TRUE, FALSE, TRUE,
                      {"ka", "esc", "rt", "right", "stick", "aim"})},
  Button <- Chosen([ka |-> {"a"}, pa |-> {"a"}]),
  Prime <- Chosen([kmove |-> {"move"}, tab |-> {"stylus"}, kscan |-> {"scan"},
                   pb |-> {"zoom"}, rt |-> {"shoot"}, left |-> {"shoot"},
                   right |-> {"zoom"}]),
  Stylus <- ChosenOr([tab |-> "hold", rt |-> "hold", pa |-> "tap"], "none"),
  MenuInput <- ChosenOr([esc |-> "toggle", pa |-> "accept", pb |-> "back"], "none"),
  Keys <- {"ka", "kmove", "tab", "kscan", "esc"}, Pads <- {"pa", "pb"},
  Mice <- {"left", "right"}, MaxIdle <- 1, config <- options,
  Sessions <- {[mode |-> "auto", resolution |-> 1, glTop |-> FALSE],
               [mode |-> "auto", resolution |-> 2, glTop |-> FALSE]}
              \cup {[mode |-> m, resolution |-> 2, glTop |-> TRUE] :
                      m \in {"auto", "off", "stage1", "stage2"}},
  Engage <- 2, Restore <- 3, FlapLimit <- 2, FlapWindow <- 6, Capacity <- 2,
  MaxTotal <- 8

-----------------------------------------------------------------------------
(* The coverage store.                                                     *)
Fetch(cpu, page, pc) == [cpu |-> cpu, page |-> page, pc |-> pc]
Coverage == INSTANCE CoverageStore WITH
  Cpus <- {"arm9", "arm7"}, Ram <- {"a", "b"}, Rom <- {"rom"},
  Fetches <- {Fetch("arm9", "a", 1), Fetch("arm9", "b", 1), Fetch("arm7", "a", 1),
              Fetch("arm9", "rom", 1)},
  Roots <- {Fetch("arm9", "b", 1), Fetch("arm7", "a", 1)},
  Calls <- {<<Fetch("arm9", "a", 1), "c1">>, <<Fetch("arm9", "a", 1), "c2">>},
  Written <- {<<"a", 1>>, <<"a", 0>>}, Saved <- {<<"a", 1>>}, kMaxPages <- 2,
  kMaxVersionsPerAddress <- 1, kMaxCallersPerEntry <- 1, LivePages <- 1,
  Outputs <- BOOLEAN, MaxWrites <- 1, MaxNotes <- 3, MaxParts <- 1,
  s <- store, w <- writes, n <- notes, session <- roots, kept <- images

-----------------------------------------------------------------------------
files == <<stateVars, sectionVars, fileVars, batteryVars>>
picture == <<pixelVars, latchVars, decodeVars>>
network == <<wifiVars, replayVars, ringVars>>
finder == <<finderVars, trackerVars>>
frontend == <<inputVars, governorVars, coverageVars>>

NoState ==
  /\ round = 0 /\ core = 0 /\ build = 0 /\ halted = 0 /\ slot = 0
  /\ durable = 0 /\ temp = 0 /\ saving = 0 /\ battery = 0 /\ history = 0
  /\ bootState = 0 /\ kept = 0 /\ promised = 0
NoSection ==
  /\ section = 0 /\ values = 0 /\ payload = 0 /\ damaged = 0
NoFile ==
  /\ file = 0 /\ harmed = 0
NoBattery ==
  /\ disk = 0 /\ temporary = 0 /\ memory = 0 /\ stores = 0 /\ dirty = 0
  /\ step = 0
NoPixel ==
  /\ engine = 0 /\ powered = 0 /\ units = 0
NoLatch ==
  /\ d = 0 /\ cap = 0 /\ latch = 0 /\ acc = 0 /\ y = 0 /\ frame = 0
  /\ front = 0 /\ fb = 0 /\ direct = 0 /\ present = 0 /\ force = 0 /\ job = 0
  /\ decoded = 0 /\ staged = 0 /\ armed = 0 /\ blanked = 0 /\ reloaded = 0
NoDecode ==
  /\ kind = 0 /\ in = 0 /\ oam = 0 /\ n = 0 /\ x = 0 /\ line = 0 /\ window = 0
NoWifi ==
  /\ now = 0 /\ event = 0 /\ enabled = 0 /\ powerUS = 0 /\ on = 0
  /\ client = 0 /\ socket = 0 /\ waiting = 0 /\ packets = 0 /\ replies = 0
  /\ arrivals = 0 /\ guard = 0 /\ ticks = 0
NoReplay ==
  /\ phase = 0 /\ lag = 0 /\ sanitize = 0 /\ tick = 0 /\ inner = 0
  /\ state = 0 /\ capture = 0 /\ partial = 0 /\ live = 0 /\ got = 0
  /\ nextTx = 0 /\ nextRx = 0 /\ mismatch = 0
NoRing ==
  /\ entries = 0 /\ names = 0 /\ seq = 0 /\ w = 0 /\ nameW = 0 /\ retained = 0
  /\ ringHistory = 0
NoFinder ==
  /\ image = 0 /\ config = 0 /\ ranges = 0 /\ worklist = 0 /\ remaining = 0
  /\ enqueued = 0 /\ visited = 0 /\ switchSeeds = 0 /\ walk = 0
  /\ functions = 0 /\ collisions = 0 /\ ptrSeen = 0 /\ jtSeen = 0
  /\ capped = 0 /\ finderPhase = 0
NoTracker ==
  /\ language = 0 /\ regs = 0 /\ ram = 0 /\ const = 0 /\ sym = 0 /\ slots = 0
  /\ scaled = 0 /\ table = 0 /\ bound = 0 /\ lastCmp = 0 /\ pend = 0
  /\ target = 0 /\ stale = 0 /\ walked = 0
NoInput ==
  /\ options = 0 /\ u = 0 /\ held = 0 /\ swallowed = 0 /\ tap = 0 /\ guest = 0
NoGovernor ==
  /\ session = 0 /\ gov = 0 /\ installed = 0 /\ ring = 0 /\ total = 0
  /\ left = 0 /\ below = 0 /\ recovered = 0
NoCoverage ==
  /\ output = 0 /\ mem = 0 /\ store = 0 /\ writes = 0 /\ notes = 0
  /\ observed = 0 /\ rooted = 0 /\ roots = 0 /\ images = 0

Init ==
  /\ part \in {"savestate", "section", "file", "battery", "firmware", "pixels",
              "latch", "decode", "wifi", "replay", "ring",
              "finder", "tracker", "input", "governor",
              "coverage"}
  /\ IF part = "savestate" THEN State!Init ELSE NoState
  /\ IF part = "section" THEN Codec!SectionInit ELSE NoSection
  /\ IF part = "file" THEN Codec!FileInit ELSE NoFile
  /\ IF part = "battery" THEN Battery!Init
     ELSE IF part = "firmware" THEN Firmware!Init ELSE NoBattery
  /\ IF part = "pixels" THEN Pixels!Init ELSE NoPixel
  /\ IF part = "latch" THEN Latch!Init ELSE NoLatch
  /\ IF part = "decode" THEN Decode!Init ELSE NoDecode
  /\ IF part = "wifi" THEN Wifi!Init ELSE NoWifi
  /\ IF part = "replay" THEN Trace!ReplayInit ELSE NoReplay
  /\ IF part = "ring" THEN Trace!RingInit ELSE NoRing
  /\ IF part = "finder" THEN Finder!Init ELSE NoFinder
  /\ IF part = "tracker" THEN Finder!TrackerInit ELSE NoTracker
  /\ IF part = "input" THEN Input!Init ELSE NoInput
  /\ IF part = "governor" THEN Input!GovernorInit ELSE NoGovernor
  /\ IF part = "coverage" THEN Coverage!Init ELSE NoCoverage

Next ==
  \/ /\ part = "savestate" /\ State!Next
     /\ UNCHANGED <<part, sectionVars, fileVars, batteryVars, picture, network,
                    finder, frontend>>
  \/ /\ part = "section" /\ Codec!SectionNext
     /\ UNCHANGED <<part, stateVars, fileVars, batteryVars, picture, network,
                    finder, frontend>>
  \/ /\ part = "file" /\ Codec!Harm
     /\ UNCHANGED <<part, stateVars, sectionVars, batteryVars, picture, network,
                    finder, frontend>>
  \/ /\ part = "battery" /\ Battery!Next
     /\ UNCHANGED <<part, stateVars, sectionVars, fileVars, picture, network,
                    finder, frontend>>
  \/ /\ part = "firmware" /\ Firmware!Next
     /\ UNCHANGED <<part, stateVars, sectionVars, fileVars, picture, network,
                    finder, frontend>>
  \/ /\ part = "pixels" /\ Pixels!Next
     /\ UNCHANGED <<part, latchVars, decodeVars, files, network, finder,
                    frontend>>
  \/ /\ part = "latch" /\ Latch!Next
     /\ UNCHANGED <<part, pixelVars, decodeVars, files, network, finder,
                    frontend>>
  \/ /\ part = "decode" /\ Decode!Next
     /\ UNCHANGED <<part, pixelVars, latchVars, files, network, finder, frontend>>
  \/ /\ part = "wifi" /\ Wifi!Next
     /\ UNCHANGED <<part, replayVars, ringVars, files, picture, finder, frontend>>
  \/ /\ part = "replay" /\ Trace!ReplayNext
     /\ UNCHANGED <<part, wifiVars, ringVars, files, picture, finder, frontend>>
  \/ /\ part = "ring" /\ Trace!RingNext
     /\ UNCHANGED <<part, wifiVars, replayVars, files, picture, finder, frontend>>
  \/ /\ part = "finder" /\ Finder!Next
     /\ UNCHANGED <<part, trackerVars, files, picture, network, frontend>>
  \/ /\ part = "tracker" /\ Finder!TrackerNext
     /\ UNCHANGED <<part, finderVars, files, picture, network, frontend>>
  \/ /\ part = "input" /\ Input!Next
     /\ UNCHANGED <<part, governorVars, coverageVars, files, picture, network,
                    finder>>
  \/ /\ part = "governor" /\ Input!GovernorNext
     /\ UNCHANGED <<part, inputVars, coverageVars, files, picture, network,
                    finder>>
  \/ /\ part = "coverage" /\ Coverage!Next
     /\ UNCHANGED <<part, inputVars, governorVars, files, picture, network,
                    finder>>

Spec == Init /\ [][Next]_vars

\* The finder's tracker alone.
TrackerSpec == part = "tracker" /\ Init /\ [][Next]_vars

-----------------------------------------------------------------------------
\* A load installs the whole saved machine or leaves the previous one, the
\* host's traces hold nothing of the timeline it abandons, and a slot file is
\* complete after any crash and decodes to exactly what was encoded or not at
\* all (nds_savestate_load_core, atomic_write_file, encode_*, decode_*).
SavestateExact ==
  /\ part = "savestate" =>
       State!WholeMachine /\ State!HistoryOfOneTimeline /\ State!SlotAtomic
  /\ part = "section" => Codec!CodecExact
  /\ part = "file" => Codec!FileExact

\* The battery file is never replaced from a loaded state, and is never left
\* partial or behind a clean chip (the detached flags,
\* nds_battery_save_write_atomic).
BatterySafe ==
  /\ part = "savestate" => State!BatteryIsNotHistorical
  /\ part = "battery" => Battery!FileWhole
  /\ part = "firmware" => Firmware!FileWhole

\* Every implementation of a pixel agrees: fast paths and presenters with the
\* general path, what the latch foresaw with what the renderer decodes, runs
\* of tiles with single pixels; and a frame is presented and captured whole
\* (render_engine_line, latch_line, decode_text_line, render_obj_line).
PixelsExact ==
  /\ part = "pixels" => Pixels!FastPathsExact /\ Pixels!PresentersExact
  /\ part = "latch" => /\ Latch!LatchMatchesRender
                       /\ Latch!PresentsOneFrame /\ Latch!CaptureWholeFrame
  /\ part = "decode" => Decode!BackgroundExact /\ Decode!ObjExact

\* A savestate is allowed only while the guest's network is idle, the timer of
\* a powered device keeps running, a replay gives the guest what the capture
\* recorded, and the event ring names an event's own host or none
\* (Evaluate, nds_wifi_run_events, NetReplay, net_ring_get_hostname).
NetworkExact ==
  /\ part = "wifi" => Wifi!AllowedIsIdle /\ Wifi!TimerAlive
  /\ part = "replay" => Trace!ReplayReproduces /\ Trace!CaptureHasNoIdentity
  /\ part = "ring" => Trace!RingExact

\* Control never reaches code the finder neither walked nor listed, and bodies
\* do not overlap (FunctionFinder::run).  What the finder's tracker takes for a
\* constant, a copy, a remembered word or a bound is the machine's, but for what
\* a failed condition, a call, a block transfer or a second name of a word made
\* stale (discover_one).
FinderExact ==
  /\ part = "finder" => Finder!Closed /\ Finder!BodiesDisjoint
  /\ part = "tracker" => Finder!KnownIsLive

\* A transfer the finder resolves goes where it was resolved to, also after a
\* failed condition, a call or a block transfer (discover_one).
FinderResolves == Finder!ResolvedIsTaken

\* The guest sees the input of the controls that are held, a click however
\* short, and the renderer runs with the stage that the governor believes it
\* installed (nds_run_interactive_frontend, apply_performance_governor_stage).
FrontendExact ==
  /\ part = "input" => Input!GuestInputIsMeant /\ Input!ClickIsSeen
  /\ part = "governor" => Input!StageIsInstalled

\* What a manifest says of an image is what ran on it, through slot reuse,
\* rotation and savestate loads (coverage_capture_exec_page, flush_part).
CoverageExact == part = "coverage" => Coverage!CoverageExact
=============================================================================
