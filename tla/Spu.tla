---------------------------------- MODULE Spu ----------------------------------
(* The sound unit (runner/src/spu.cpp): one playing channel with its prefetch *)
(* FIFO, one capture unit with its write-back FIFO, and the output ring the    *)
(* host drains.  Samples are abstracted to where they come from: a FIFO word   *)
(* holds the source offset it was fetched from, a captured byte the position   *)
(* it was recorded at.  Offsets and positions are in bytes, as in the code;    *)
(* the sample timer is scaled.                                                 *)
EXTENDS Integers, FiniteSets

CONSTANTS
    Formats,     \* 0 PCM8, 1 PCM16, 2 ADPCM, 3 PSG or noise
    Repeats,     \* cnt bits 27-28: 0 manual, 1 loop, 2 one-shot
    Loops, Lengths,   \* loop start and length registers
    Reloads,     \* timer reloads, below TimerTop
    CaptureLengths,
    OutputFrames,\* kOutputFrames
    MaxMixes,    \* bound on g_mix_count
    MaxChanges   \* bound on the changes below to one sound or one capture

TimerTop == 8    \* 16#10000#
TimerStep == 4   \* 512

VARIABLES
    ch,          \* a Channel; changes: writes since its start that gave it another
                 \* format, repeat mode, loop start or length
    heard,       \* offsets the channel consumed in this mix, with the position
    cap,         \* a Capture; changes: writes since its start that gave it other
                 \* registers; grown: at most its length rose by them
    stored,      \* words the capture unit wrote in this mix
    mixes,       \* g_mix_count
    out,         \* the output ring: [read, write, count]
    taken        \* mixes the host has drained or the ring has overwritten

vars == <<ch, heard, cap, stored, mixes, out, taken>>

(***************************************************************************)
(* The channel.                                                            *)
(***************************************************************************)

Total(c) == c.loop + c.length
Word(c, byte) == c.fifo[byte \div 4]

\* A mutant: a burst is always whole.
WholeBurst(c) == 16

\* buffer_data: how much is fetched, up to the end of the sound.  Below zero
\* is a length that wrapped, when a write has moved the end of a manual sound
\* behind its source: the loop then fetches until the source is at the end.
Burst(c) == IF c.source + 16 > Total(c) THEN Total(c) - c.source ELSE 16

\* buffer_data.
Buffered(c) ==
    LET ended == c.source >= Total(c)
        from == IF ended /\ c.repeat = 1 THEN c.loop ELSE c.source
        moved == [c EXCEPT !.source = from]
        burst == Burst(moved)
        \* How many words ago, at most eight, a wrapped burst wrote word w.
        Ago(w) == (((c.write + burst) \div 4 - 1 - w) % 8) + 1
    IN  IF ended /\ c.repeat = 2 THEN c
        ELSE [moved EXCEPT
                !.fifo = [w \in 0..7 |->
                            LET k == (w - (c.write \div 4)) % 8
                            IN  IF burst < 0 THEN Total(c) - 4 * Ago(w)
                                ELSE IF 4 * k < burst THEN from + 4 * k
                                ELSE @[w]],
                !.write = (@ + burst) % 32,
                !.source = from + burst,
                !.level = @ + burst]

\* fifo_read_value of n bytes; a level below zero is one that wrapped.
Consumed(c, n) ==
    LET after == [c EXCEPT !.read = (@ + n) % 32, !.level = @ - n]
    IN  IF after.level \in 0..16 THEN Buffered(after) ELSE after

\* Channel::start.
Started(c) ==
    LET clean == [c EXCEPT !.timer = c.reload, !.key = FALSE,
                           !.pos = IF c.format = 3 THEN -1 ELSE -3,
                           !.fifo = [w \in 0..7 |-> 0],
                           !.read = 0, !.write = 0, !.source = 0, !.level = 0]
    IN  IF c.format = 3 THEN clean ELSE Buffered(Buffered(clean))

Stopped(c) == [c EXCEPT !.on = FALSE]

\* What a position consumes: the channel after it, and the offsets heard.
Plain(c) == [ch |-> c, heard |-> {}]
Heard(c, n) ==
    [ch |-> Consumed(c, n),
     heard |-> {[pos |-> c.pos, at |-> Word(c, c.read) + (c.read % 4)]}]

\* Position at byte scale: what next_pcm8, next_pcm16 and next_adpcm compare
\* with loop + length.
ByteAt(format, pos) ==
    CASE format = 0 -> pos [] format = 1 -> 2 * pos [] format = 2 -> pos \div 2
PosAt(format, byte) ==
    CASE format = 0 -> byte [] format = 1 -> byte \div 2 [] format = 2 -> 2 * byte

\* next_pcm8, next_pcm16, next_adpcm, next_psg, next_noise.
Advanced(c0) ==
    LET c == [c0 EXCEPT !.pos = @ + 1]
        ends == c.format < 3 /\ ByteAt(c.format, c.pos) >= Total(c)
        looped == [c EXCEPT !.pos = PosAt(c.format, c.loop)]
        size == IF c.format = 1 THEN 2 ELSE 1
    IN  CASE c.format = 3 -> Plain(c)
          [] c.format \in {0, 1} ->
                CASE c.pos < 0 -> Plain(c)
                  [] c.pos >= 0 /\ ends /\ c.repeat = 1 -> Heard(looped, size)
                  [] c.pos >= 0 /\ ends /\ c.repeat = 2 -> Plain(Stopped(c))
                  [] OTHER -> Heard(c, size)
          [] OTHER ->
                CASE c.pos = 0 -> Heard(c, 4)
                  [] c.pos < 8 /\ c.pos # 0 -> Plain(c)
                  [] c.pos >= 8 /\ ends /\ c.repeat = 1 -> Heard(looped, 1)
                  [] c.pos >= 8 /\ ends /\ c.repeat = 2 -> Plain(Stopped(c))
                  [] c.pos >= 8 /\ ends /\ c.repeat = 0 -> Plain(c)
                  [] OTHER -> IF c.pos % 2 = 0 THEN Heard(c, 1) ELSE Plain(c)

\* The timer of run_type and of Capture::run: how many samples fall due.
Due(timer, reload) ==
    LET t == timer + TimerStep
    IN  IF t < TimerTop THEN 0 ELSE ((t - TimerTop) \div (TimerTop - reload)) + 1
TimerAfter(timer, reload) ==
    timer + TimerStep - Due(timer, reload) * (TimerTop - reload)

\* run_type: samples after the channel stopped itself read nothing more, for
\* only the outer test looks at the enable.
Ran(c) ==
    LET c1 == IF c.key THEN Started(c) ELSE c
        n == Due(c1.timer, c1.reload)
        step[i \in 0..n] ==
            IF i = 0 THEN Plain([c1 EXCEPT !.timer = TimerAfter(@, c1.reload)])
            ELSE LET s == Advanced(step[i - 1].ch)
                 IN  [s EXCEPT !.heard = @ \cup step[i - 1].heard]
    IN  IF ~c.on \/ (c.format < 3 /\ Total(c) < 16) THEN Plain(c) ELSE step[n]

(***************************************************************************)
(* The capture unit.                                                       *)
(***************************************************************************)

\* Capture::flush: at most four words, and no further than the buffer's end.
Flushed(k) ==
    LET whole == k.level \div 4
        left == IF k.write >= k.length THEN 1 ELSE (k.length - k.write) \div 4
        n == CHOOSE m \in {whole, left, 4} : \A o \in {whole, left, 4} : m <= o
        end == k.write + 4 * n
    IN  [cap |-> [k EXCEPT !.read = (@ + 4 * n) % 16, !.level = @ - 4 * n,
                           !.write = IF n > 0 /\ end >= k.length THEN 0 ELSE end],
         stored |-> {[to |-> k.write + 4 * i,
                      bytes |-> [b \in 0..3 |-> k.fifo[(k.read + 4 * i + b) % 16]]]
                        : i \in 0..(n - 1)}]

Kept(k) == [cap |-> k, stored |-> {}]
Then(s, more) == [cap |-> more.cap, stored |-> s.stored \cup more.stored]

\* One sample of Capture::run: write_value, then the end of the buffer.
Recorded(k) ==
    LET size == IF k.wide THEN 2 ELSE 1
        put == [k EXCEPT
                  !.fifo = [b \in 0..15 |->
                              LET d == (b - k.fill) % 16
                              IN  IF d < size THEN k.pos + d ELSE @[b]],
                  !.fill = (@ + size) % 16, !.level = @ + size]
        one == IF put.level >= 16 THEN Flushed(put) ELSE Kept(put)
        moved == [one EXCEPT !.cap.pos = @ + size]
        last == IF moved.cap.level >= 4 THEN Then(moved, Flushed(moved.cap)) ELSE moved
    IN  IF moved.cap.pos < k.length THEN moved
        ELSE IF k.once THEN [last EXCEPT !.cap.on = FALSE]
        ELSE [last EXCEPT !.cap.pos = 0]

\* Capture::run: it returns at the end of a one-shot buffer.
Captured(k) ==
    LET n == Due(k.timer, k.reload)
        step[i \in 0..n] ==
            IF i = 0 THEN Kept([k EXCEPT !.timer = TimerAfter(@, k.reload)])
            ELSE IF ~step[i - 1].cap.on THEN step[i - 1]
            ELSE LET s == Recorded(step[i - 1].cap)
                 IN  [s EXCEPT !.stored = @ \cup step[i - 1].stored]
    IN  IF k.on THEN step[n] ELSE Kept(k)

(***************************************************************************)
(* Steps.                                                                  *)
(***************************************************************************)

SilentChannel ==
    [on |-> FALSE, key |-> FALSE, format |-> 0, repeat |-> 0, loop |-> 0, length |-> 0,
     reload |-> 0, timer |-> 0, pos |-> 0, read |-> 0, write |-> 0, source |-> 0,
     level |-> 0, fifo |-> [w \in 0..7 |-> 0], changes |-> 0]
NoCapture ==
    [on |-> FALSE, wide |-> FALSE, once |-> FALSE, length |-> 4, reload |-> 0,
     timer |-> 0, pos |-> 0, read |-> 0, fill |-> 0, write |-> 0, level |-> 0,
     fifo |-> [b \in 0..15 |-> 0], changes |-> 0, grown |-> TRUE]

Init ==
    /\ ch = SilentChannel /\ heard = {}
    /\ cap = NoCapture /\ stored = {}
    /\ mixes = 0 /\ out = [read |-> 0, write |-> 0, count |-> 0] /\ taken = 0

\* output_push: a full ring gives up its oldest frame.
Pushed(o) ==
    [read |-> IF o.count = OutputFrames THEN (o.read + 1) % OutputFrames ELSE o.read,
     write |-> (o.write + 1) % OutputFrames,
     count |-> IF o.count = OutputFrames THEN o.count ELSE o.count + 1]

\* nds_tick_spu when a mix is due: every unit runs once.
Mix ==
    /\ mixes < MaxMixes
    /\ mixes' = mixes + 1
    /\ ch' = Ran(ch).ch /\ heard' = Ran(ch).heard
    /\ cap' = Captured(cap).cap /\ stored' = Captured(cap).stored
    /\ out' = Pushed(out)
    /\ taken' = IF out.count = OutputFrames THEN taken + 1 ELSE taken

Quiet == heard' = {} /\ stored' = {}

\* nds_spu_write to a channel's registers, the enable among them: they may be
\* written at any time, and only the enable's rising edge asks for a start,
\* which the next mix makes; until then nothing has been played.
Program(format, repeat, loop, length, reload) ==
    LET waiting == ~ch.on \/ ch.key
        same == <<ch.format, ch.repeat, ch.loop, ch.length>>
                    = <<format, repeat, loop, length>>
        changes == IF waiting THEN 0 ELSE IF same THEN ch.changes ELSE ch.changes + 1
    IN  /\ changes <= MaxChanges
        /\ ch' = [ch EXCEPT !.format = format, !.repeat = repeat, !.loop = loop,
                            !.length = length, !.reload = reload,
                            !.on = TRUE, !.key = waiting, !.changes = changes]
        /\ Quiet /\ UNCHANGED <<cap, mixes, out, taken>>

TurnOff ==
    /\ ch.on
    /\ ch' = Stopped(ch)
    /\ Quiet /\ UNCHANGED <<cap, mixes, out, taken>>

\* Capture::set_length, then set_cnt with the start bit, whose rising edge
\* starts the unit; a running one takes the new registers as they come.
ProgramCapture(wide, once, length, reload) ==
    /\ cap' = IF cap.on
              THEN [cap EXCEPT !.wide = wide, !.once = once, !.length = length,
                               !.reload = reload, !.changes = @ + 1,
                               !.grown = @ /\ cap.wide = wide /\ cap.length <= length]
              ELSE [NoCapture EXCEPT !.on = TRUE, !.wide = wide, !.once = once,
                                     !.length = length, !.reload = reload,
                                     !.timer = reload]
    /\ cap'.changes <= MaxChanges
    \* A 16-bit sample at the last byte of the FIFO would be stored past it:
    \* undefined behaviour, left out.
    /\ cap.on /\ wide => cap.fill % 2 = 0
    /\ Quiet /\ UNCHANGED <<ch, mixes, out, taken>>

TurnOffCapture ==
    /\ cap.on
    /\ cap' = [cap EXCEPT !.on = FALSE]
    /\ Quiet /\ UNCHANGED <<ch, mixes, out, taken>>

\* nds_spu_read_output.
Drain(n) ==
    /\ n <= out.count /\ n > 0
    /\ out' = [out EXCEPT !.read = (@ + n) % OutputFrames, !.count = @ - n]
    /\ taken' = taken + n
    /\ Quiet /\ UNCHANGED <<ch, cap, mixes>>

\* spu_savestate_import: the ring holds an abandoned timeline and is emptied.
LoadState ==
    /\ out.count # 0
    /\ out' = [read |-> 0, write |-> 0, count |-> 0]
    /\ taken' = mixes
    /\ Quiet /\ UNCHANGED <<ch, cap, mixes>>

Next ==
    \/ Mix
    \/ \E f \in Formats, r \in Repeats, l \in Loops, n \in Lengths, t \in Reloads :
           Program(f, r, l, n, t)
    \/ TurnOff
    \/ \E w, o \in BOOLEAN, n \in CaptureLengths, t \in Reloads :
           ProgramCapture(w, o, n, t)
    \/ TurnOffCapture
    \/ \E n \in {1, OutputFrames} : Drain(n)
    \/ LoadState

Spec == Init /\ [][Next]_vars

\* An ADPCM loop that starts inside the header rereads one byte of it as data
\* and leaves the FIFO out of step, so the properties below leave it out.
LoopsPastHeader == ch.format = 2 /\ ch.repeat = 1 => ch.loop >= 4

(* Through every refill, loop and end, and under any change of the timer, what *)
(* a position plays is the source byte of that position: prefetching ahead of  *)
(* a loop never plays the bytes after its end.  A sound whose format, mode or  *)
(* ends are written while it plays has no such promise, until it is restarted. *)
SamplesInOrder ==
    ch.changes = 0 /\ LoopsPastHeader => \A h \in heard :
        ch.repeat # 0 \/ ByteAt(ch.format, h.pos) < Total(ch)
            => h.at = ByteAt(ch.format, h.pos)

(* Each captured word lands at the position its samples were recorded at,      *)
(* whatever the buffer's length and the FIFO's, and within the buffer, also    *)
(* when the buffer is made longer meanwhile.                                   *)
CaptureInOrder ==
    cap.grown => \A s \in stored :
        s.to < cap.length /\ \A b \in 0..3 : s.bytes[b] = s.to + b

(* A sounding channel whose mode and ends are those it started with, and a     *)
(* running capture whose buffer was made longer at most, are states            *)
(* spu_savestate_validate accepts.  A channel left in manual mode past its end *)
(* is not; a sound made shorter, or a one-shot made longer after its prefetch  *)
(* ended, and a capture whose write position a shorter length leaves outside,  *)
(* need not be.  Whatever is written, the cursors of the channel's FIFO agree  *)
(* with its level.                                                             *)
CursorsAgree ==
    /\ ch.read < 32 /\ ch.write < 32 /\ ch.write % 4 = 0 /\ ch.source % 4 = 0
    /\ (ch.write - ch.read) % 32 = ch.level % 32
    /\ ch.timer < TimerTop
ChannelAccepted ==
    /\ CursorsAgree
    /\ ch.level \in 0..32 /\ ch.source <= Total(ch)
    /\ ch.format = 1 => ch.read % 2 = 0
    /\ ch.format = 2 /\ ch.pos < 8 => ch.read % 4 = 0
CaptureAccepted ==
    /\ cap.level \in 0..16
    /\ (cap.fill - cap.read) % 16 = cap.level % 16
    /\ cap.read % 4 = 0 /\ cap.write < cap.length
    /\ cap.wide => cap.fill % 2 = 0
PlayingIsAccepted ==
    /\ (ch.on /\ ~ch.key /\ ch.changes = 0 /\ ch.repeat # 0 /\ ch.format < 3
          /\ Total(ch) >= 16 /\ LoopsPastHeader) => ChannelAccepted
    /\ CursorsAgree
    /\ cap.on /\ cap.grown => CaptureAccepted

(* The ring's bookkeeping: every frame mixed is in the ring, drained, dropped  *)
(* or abandoned.                                                               *)
RingAccounted ==
    /\ taken + out.count = mixes
    /\ (out.write - out.read) % OutputFrames = out.count % OutputFrames

SpuExact == SamplesInOrder /\ CaptureInOrder /\ PlayingIsAccepted /\ RingAccounted

================================================================================
