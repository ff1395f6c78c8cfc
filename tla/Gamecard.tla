------------------------------ MODULE Gamecard -------------------------------
(***************************************************************************)
(* Gamecard transfers and one CPU's DMA bank (src/runner/src/io.cpp).  A   *)
(* ROMCTRL write starts a block; the card raises one word-ready event at a *)
(* time, and only a read of the data port schedules the next.  A channel   *)
(* in gamecard mode is requested by every such event, moves one word and   *)
(* is suspended inside its transaction until the next.  While a channel    *)
(* runs its CPU is stalled.                                                *)
(*                                                                         *)
(* Addresses, unit timing and the response bytes are abstract: word k of a *)
(* response is k.  The GXFIFO start mode belongs to the geometry engine.   *)
(***************************************************************************)
EXTENDS Naturals, Sequences, FiniteSets

CONSTANTS Channels,   \* 0..n, in bus priority order
          Lengths,    \* block lengths the guest asks for, in words
          Counts,     \* unit counts the guest programs
          Budgets,    \* units an nds_dma_run slice has room for
          MaxWrites   \* bound on register writes

VARIABLES card,   \* ROMCTRL bits, position, length, pending event
          slot,   \* AUXSPICNT: slot enabled and not in SPI mode
          dma,    \* [Channels -> channel]
          moved,  \* words the gamecard channel has moved in this block
          plain,  \* the block is driven by one armed gamecard channel alone
          writes

Idle == [on |-> FALSE, mode |-> "now", repeat |-> FALSE, count |-> 0,
         remaining |-> 0, running |-> FALSE, progress |-> FALSE]

DmaInit ==
  /\ card = [busy |-> FALSE, ready |-> FALSE, out |-> FALSE, pos |-> 0,
             len |-> 0, event |-> "none"]
  /\ slot = FALSE
  /\ dma = [c \in Channels |-> Idle]
  /\ moved = <<>> /\ plain = FALSE /\ writes = 0

Stalled == \E c \in Channels : dma[c].running

-----------------------------------------------------------------------------
(* The card.                                                               *)

Armed(c) == dma[c].on /\ dma[c].mode = "card"

\* ROMCTRL write.  The data direction and the start bit are taken as written;
\* a rising start bit begins a block when the slot is enabled and in ROM mode.
\* A new block drops the ready bit and overwrites the pending event.
StartBlock(n) ==
  [card EXCEPT !.busy = TRUE, !.ready = FALSE, !.pos = 0, !.len = n,
               !.event = IF n = 0 THEN "end" ELSE "data"]
WriteRomctrl ==
  /\ ~Stalled /\ writes < MaxWrites
  /\ \E start \in BOOLEAN, out \in BOOLEAN, n \in Lengths :
       LET begins == start /\ ~card.busy /\ slot
       IN  /\ card' = [IF begins THEN StartBlock(n)
                       ELSE [card EXCEPT !.busy = start] EXCEPT !.out = out]
           /\ moved' = IF begins THEN <<>> ELSE moved
           /\ plain' = /\ begins /\ ~out
                       /\ \E c \in Channels :
                            /\ Armed(c) /\ ~dma[c].progress
                            /\ dma[c].count = n
                            /\ \A d \in Channels \ {c} : ~Armed(d)
  /\ writes' = writes + 1
  /\ UNCHANGED <<slot, dma>>

\* The data port.  Nothing is consumed unless a word is ready and the block
\* reads; the last word ends the block, any other schedules the next.
PortRead(k) ==
  IF ~k.ready \/ k.out THEN k
  ELSE IF k.pos + 1 < k.len
  THEN [k EXCEPT !.ready = FALSE, !.pos = @ + 1, !.event = "data"]
  ELSE [k EXCEPT !.ready = FALSE, !.pos = @ + 1, !.busy = FALSE]

CpuRead ==
  /\ ~Stalled
  /\ card.ready
  /\ card' = PortRead(card)
  /\ plain' = FALSE
  /\ UNCHANGED <<slot, dma, moved, writes>>

\* AUXSPICNT.
WriteSlot ==
  /\ ~Stalled /\ writes < MaxWrites
  /\ slot' = ~slot
  /\ writes' = writes + 1
  /\ UNCHANGED <<card, dma, moved, plain>>

-----------------------------------------------------------------------------
(* The DMA bank.                                                           *)

\* dma_start: a transaction in progress is resumed, never reloaded.
Started(d) ==
  IF d.running \/ ~d.on THEN d
  ELSE [d EXCEPT !.running = TRUE, !.progress = TRUE,
                 !.remaining = IF d.progress THEN @ ELSE d.count]

\* nds_dma_trigger.
Triggered(mode) ==
  [c \in Channels |-> IF dma[c].on /\ dma[c].mode = mode THEN Started(dma[c])
                      ELSE dma[c]]

\* dma_write_count: the mode is latched when the enable bit rises, and an
\* immediate channel starts at once.  Clearing the bit neither stops a run
\* nor forgets a suspended transaction.
WriteCount ==
  /\ ~Stalled /\ writes < MaxWrites
  /\ \E c \in Channels, on \in BOOLEAN, m \in {"now", "card", "blank"},
       r \in BOOLEAN, n \in Counts :
       LET d == [dma[c] EXCEPT !.on = on, !.repeat = r, !.count = n]
           e == [d EXCEPT !.mode = m]
       IN  /\ dma' = [dma EXCEPT ![c] = IF dma[c].on \/ ~on THEN d
                                        ELSE IF m = "now" THEN Started(e) ELSE e]
           /\ plain' = (plain /\ ~Armed(c) /\ ~(on /\ m = "card"))
  /\ writes' = writes + 1
  /\ UNCHANGED <<card, slot, moved>>

\* The display asks for its channels.
BlankTrigger ==
  /\ Triggered("blank") # dma
  /\ dma' = Triggered("blank")
  /\ UNCHANGED <<card, slot, moved, plain, writes>>

\* nds_run_system_events: the card's one-shot event.
CardEvent ==
  /\ card.event # "none"
  /\ card' = IF card.event = "end"
             THEN [card EXCEPT !.event = "none", !.busy = FALSE]
             ELSE [card EXCEPT !.event = "none", !.ready = TRUE]
  /\ dma' = IF card.event = "end" THEN dma ELSE Triggered("card")
  /\ UNCHANGED <<slot, moved, plain, writes>>

\* nds_dma_run, channel c: as many units as the slice has room for, but one per
\* request in gamecard mode.  A finished transaction clears the enable bit
\* unless it repeats; a gamecard channel with units left is only suspended.
RunChannel(s, c) ==
  LET d == s.dma[c]
      room == IF d.mode = "card" THEN 1 ELSE s.room
      units == IF d.remaining < room THEN d.remaining ELSE room
      left == d.remaining - units
      port == d.mode = "card"
  IN  IF ~d.running \/ s.room = 0 THEN s
      ELSE [dma |-> [s.dma EXCEPT ![c] =
                       IF left > 0
                       THEN [d EXCEPT !.remaining = left, !.running = ~port]
                       ELSE [d EXCEPT !.remaining = 0, !.running = FALSE,
                                      !.progress = FALSE, !.on = d.repeat]],
            card |-> IF port THEN PortRead(s.card) ELSE s.card,
            moved |-> IF ~port THEN s.moved
                      ELSE Append(s.moved, IF s.card.ready /\ ~s.card.out
                                           THEN {s.card.pos} ELSE {}),
            room |-> s.room - units]

DmaRun ==
  /\ Stalled
  /\ \E b \in Budgets :
       LET s[c \in 0 .. Cardinality(Channels)] ==
             IF c = 0 THEN [dma |-> dma, card |-> card, moved |-> moved,
                            room |-> b]
             ELSE RunChannel(s[c - 1], c - 1)
           end == s[Cardinality(Channels)]
       IN  dma' = end.dma /\ card' = end.card /\ moved' = end.moved
  /\ UNCHANGED <<slot, plain, writes>>

DmaNext == \/ WriteRomctrl \/ CpuRead \/ WriteSlot \/ WriteCount
        \/ BlankTrigger \/ CardEvent \/ DmaRun

-----------------------------------------------------------------------------
\* A block read by one armed gamecard channel arrives complete and in order:
\* every word once, none read before it was ready, the channel done with the
\* card, whatever other channels do and however the slices cut their runs.
\* And no block is ever wedged: until it is over, or its start bit or
\* direction is rewritten, an event is due, a word waits, or it has finished.
CardDmaExact ==
  /\ plain =>
       /\ moved = [k \in 1 .. card.pos |-> {k - 1}]
       /\ \A c \in Channels : Armed(c) => dma[c].count = card.len
       /\ card.ready => Stalled
       /\ ~card.busy => \A c \in Channels : dma[c].mode = "card"
                                            => ~dma[c].progress
  /\ plain /\ card.busy => card.event # "none" \/ card.ready
  /\ card.pos <= card.len

-----------------------------------------------------------------------------
(***************************************************************************)
(* The gamecard's command protocol (src/runner/src/io.cpp): the raw, KEY1  *)
(* and normal command modes, the KEY1 cipher with its key schedule, and    *)
(* the secure area, which a decrypted dump is normalised back to the card  *)
(* side form and direct boot turns into plain text again.                  *)
(*                                                                         *)
(* A word has two bits (32 in the code), each of which plays the part of a *)
(* byte; the cipher runs Rounds rounds (16).  The ROM is a number of pages *)
(* of which the first Secure ones are the secure region (0x8000 bytes).    *)
(***************************************************************************)
CONSTANTS Rounds, Base,   \* Base: the key table of the ARM7 BIOS
          GameCodes, Pages, Secure,
          Dumps           \* secure areas: sequences of blocks

VARIABLES code,     \* the game code
          area,     \* the secure area as the card stores it
          dump,     \* the dump it was loaded from
          sched,    \* g_key1_schedule
          mode, answer  \* g_card_mode; the pages of the last response

Words == 0 .. 3
Blocks == Words \X Words
Marker == <<2, 2>>    \* 0xE7FFDEFF twice
Magic == <<1, 3>>     \* "encryObj"

-----------------------------------------------------------------------------
(* KEY1.                                                                   *)

XorWord(a, b) == 2 * (((a \div 2) + (b \div 2)) % 2) + ((a + b) % 2)

\* key1_f: one table per byte of the word, after the Rounds + 2 subkeys.
F(s, v) == (s[Rounds + 2 + (v \div 2)] + s[Rounds + 4 + (v % 2)]) % 4

Round(s, b, k) == LET mixed == XorWord(b[2], s[k])
                  IN  <<mixed, XorWord(F(s, mixed), b[1])>>
Encrypt(s, b) ==
  LET r[k \in 0 .. Rounds] == IF k = 0 THEN b ELSE Round(s, r[k - 1], k - 1)
  IN  <<XorWord(r[Rounds][2], s[Rounds]), XorWord(r[Rounds][1], s[Rounds + 1])>>
Decrypt(s, b) ==
  LET r[k \in 0 .. Rounds] == IF k = 0 THEN b
                              ELSE Round(s, r[k - 1], Rounds + 2 - k)
  IN  <<XorWord(r[Rounds][2], s[1]), XorWord(r[Rounds][1], s[0])>>

Swap(v) == (v % 2) * 2 + (v \div 2)

\* key1_apply: the key code is encrypted, mixed into the subkeys, and the whole
\* table is refilled two words at a time from a chain of encryptions.
Apply(k) ==
  LET upper == Encrypt(k.s, <<k.code[2], k.code[3]>>)
      lower == Encrypt(k.s, <<k.code[1], upper[1]>>)
      keys == <<lower[1], lower[2], upper[2]>>
      mixed == [i \in DOMAIN k.s |-> IF i < Rounds + 2
                                     THEN XorWord(k.s[i], Swap(keys[1 + (i % 2)]))
                                     ELSE k.s[i]]
      fill[n \in 0 .. (Rounds + 6) \div 2] ==
        IF n = 0 THEN [s |-> mixed, block |-> <<0, 0>>]
        ELSE LET f == fill[n - 1]
                 b == Encrypt(f.s, f.block)
             IN  [s |-> [f.s EXCEPT ![2 * n - 2] = b[2], ![2 * n - 1] = b[1]],
                  block |-> b]
  IN  [s |-> fill[(Rounds + 6) \div 2].s, code |-> keys]

\* key1_init at level 2 and at level 3.
Keyed2 == [c \in GameCodes |->
             Apply(Apply([s |-> Base, code |-> <<c, c \div 2, (c * 2) % 4>>]))]
Keyed3 == [c \in GameCodes |->
             Apply([Keyed2[c] EXCEPT !.code[2] = (@ * 2) % 4,
                                     !.code[3] = @ \div 2])]
Level2(c) == Keyed2[c].s
Level3(c) == Keyed3[c].s

-----------------------------------------------------------------------------
(* The secure area.                                                        *)

\* card_reencrypt_secure_area_if_needed: only a dump whose first block is the
\* post-decryption marker, and which is not filled with it, is encrypted.
Decrypted(d) == d[1] = Marker /\ d[3][1] # Marker[1]
Reencrypted(c, d) ==
  LET all == [i \in DOMAIN d |-> Encrypt(Level3(c), IF i = 1 THEN Magic ELSE d[i])]
  IN  [all EXCEPT ![1] = Encrypt(Level2(c), @)]

\* nds_cart_secure_area_plaintext: {} when the magic does not come out.
Plaintext(c, a) ==
  LET first == [a EXCEPT ![1] = Decrypt(Level2(c), @)]
      all == [i \in DOMAIN a |-> Decrypt(Level3(c), first[i])]
  IN  IF all[1] = Magic THEN {[all EXCEPT ![1] = Marker]} ELSE {}

\* nds_io_load_cartridge.
KeyInit ==
  /\ code \in GameCodes /\ dump \in Dumps
  /\ area = IF Decrypted(dump) THEN Reencrypted(code, dump) ELSE dump
  /\ sched = IF Decrypted(dump) THEN Level2(code) ELSE Base
  /\ mode = "raw" /\ answer = <<>>

\* Direct boot, before the guest runs, reads the plain secure area, which runs
\* over the schedule, and leaves the card where the firmware would have.
DirectBoot ==
  /\ mode = "raw" /\ answer = <<>>
  /\ Plaintext(code, area) # {}
  /\ mode' = "normal" /\ sched' = Level3(code)
  /\ UNCHANGED <<code, area, dump, answer>>

-----------------------------------------------------------------------------
(* card_prepare_response.                                                  *)

RawCommand ==
  /\ mode = "raw"
  /\ \/ /\ sched' = Level2(code) /\ mode' = "key1" /\ answer' = <<>>   \* 3C
     \/ /\ \E n \in 1 .. 2 :                        \* 00: the header, repeated
             answer' = [i \in 1 .. n |-> 0]
        /\ UNCHANGED <<sched, mode>>
  /\ UNCHANGED <<code, area, dump>>

\* In KEY1 mode the command is decoded with the current schedule; "secure"
\* reads a page of the secure area, "normal" leaves the mode.
Commands == [secure |-> <<2, 0>>, normal |-> <<3, 1>>, chip |-> <<1, 0>>]
Key1Command ==
  /\ mode = "key1"
  /\ \E b \in {Encrypt(Level2(code), Commands[c]) : c \in DOMAIN Commands} :
       LET decoded == Decrypt(sched, b)
       IN  /\ mode' = IF decoded[1] = 3 THEN "normal" ELSE mode
           /\ \E p \in 0 .. Secure - 1 :
                answer' = IF decoded[1] = 2 THEN <<p>> ELSE <<>>
  /\ UNCHANGED <<code, area, dump, sched>>

\* B7: the address is masked with the ROM size less one, and one inside the
\* secure region is moved behind it.
Bit(a, i) == (a \div 2 ^ i) % 2
Masked(a) ==
  LET low[i \in 0 .. Pages] ==
        IF i = 0 THEN 0
        ELSE low[i - 1] + 2 ^ (i - 1) * Bit(a, i - 1) * Bit(Pages - 1, i - 1)
  IN  low[Pages]
ReadPage(a) == IF Masked(a) < Secure THEN Secure ELSE Masked(a)
NormalRead ==
  /\ mode = "normal"
  /\ \E a \in 0 .. 2 * Pages : answer' = <<ReadPage(a)>>
  /\ UNCHANGED <<code, area, dump, sched, mode>>

KeyNext == DirectBoot \/ RawCommand \/ Key1Command \/ NormalRead

-----------------------------------------------------------------------------
\* What the BIOS and direct boot make of the card is what the dump held: the
\* plain text of a normalised dump is the dump itself with its marker, KEY1
\* commands encrypted with the game's key decode in KEY1 mode whatever has run
\* over the schedule before, and a card in normal mode no longer answers from
\* the secure region (key1_decrypt, nds_cart_secure_area_plaintext).
CardKeyExact ==
  /\ Decrypted(dump) => Plaintext(code, area) = {[dump EXCEPT ![1] = Marker]}
  /\ mode = "key1" => \A b \in Blocks :
                        Decrypt(sched, Encrypt(Level2(code), b)) = b
  /\ \A b \in Blocks : Decrypt(sched, Encrypt(sched, b)) = b
  /\ mode = "normal" => \A i \in DOMAIN answer : answer[i] >= Secure
=============================================================================
