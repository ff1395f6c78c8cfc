--------------------------------- MODULE Rtc -----------------------------------
(***************************************************************************)
(* The real-time clock (src/runner/src/io.cpp): a serial chip with BCD     *)
(* registers.  The guest clocks in a command byte and its argument bytes;  *)
(* the 32768 Hz tick carries through seconds, minutes, hours, days, months *)
(* and years and drives the chip's interrupt line.                         *)
(*                                                                         *)
(* Registers hold the code's BCD bytes.  Of the ticks within a second only *)
(* those the code tells apart are kept: the carry, tick 4 and tick 256.    *)
(***************************************************************************)
EXTENDS Naturals, Sequences

CONSTANTS DateBytes,   \* [1..7 -> SUBSET byte]: what the guest writes
          AlarmBytes,  \* bytes it writes to the alarm registers
          StartDates,  \* date and time at power-on (host clock or default)
          MaxBytes,    \* bytes the guest shifts in, seconds that pass
          MaxSeconds

VARIABLES dt,      \* g_rtc_datetime: year, month, day, weekday, hour, minute,
                   \* second; the PM flag is bit 6 of the hour
          h24,     \* status1 bit 1
          mode,    \* status2: bits 0-3, the INT1 function, and bit 6, alarm 2
          alarms,  \* alarm 1 and alarm 2: weekday, hour and minute bytes
          tick,    \* the last tick of the second counted
          flags,   \* g_rtc_irq_flag: a subset of {"minute", "int1", "int2"}
          port,    \* g_rtc_inpos and g_rtc_cmd of the transfer
          line,    \* an interrupt was requested from the ARM7
          used     \* bytes and seconds so far

vars == <<dt, h24, mode, alarms, tick, flags, port, line, used>>

NoAlarm == <<0, 0, 0>>
Functions == 0..8   \* from 8 on every value is the 32 kHz output

\* rtc_sync_host or the fixed default; the chip starts in 24-hour notation.
Init ==
  /\ dt \in StartDates
  /\ h24 = TRUE /\ mode = [int1 |-> 0, alarm2 |-> FALSE]
  /\ alarms = <<NoAlarm, NoAlarm>> /\ tick = 0 /\ flags = {}
  /\ port = [pos |-> 0, cmd |-> "none"] /\ line = FALSE
  /\ used = [bytes |-> 0, seconds |-> 0]

-----------------------------------------------------------------------------
(* BCD bytes.                                                              *)

Bcd(n) == (n \div 10) * 16 + (n % 10)
Num(b) == (b \div 16) * 10 + (b % 16)
Digits(b) == b % 16 < 10 /\ b \div 16 < 10

\* rtc_bcd_increment: the decimal carries, in a byte.
BcdIncrement(b) ==
  LET low == IF (b + 1) % 16 >= 10 THEN b + 7 ELSE b + 1
  IN  IF low >= 160 THEN (low + 96) % 256 ELSE low

\* rtc_bcd_sanitize.
Sanitize(b, lo, hi) == IF b < lo \/ b > hi \/ ~Digits(b) THEN lo ELSE b

Pm(b) == (b \div 64) % 2 = 1
Hour(b) == b % 64
HourByte(h, pm) == h + (IF pm THEN 64 ELSE 0)

-----------------------------------------------------------------------------
(* The calendar, from the year down: each level carries into the one above.*)

DaysInMonthOld(d) == IF Num(d[2]) = 2 THEN 40 ELSE 49
DaysInMonth(d) ==
  IF Num(d[2]) \in {1, 3, 5, 7, 8, 10, 12} THEN 49   \* 0x31
  ELSE IF Num(d[2]) # 2 THEN 48
  ELSE IF Num(d[1]) % 4 = 0 THEN 41 ELSE 40

CountMonth(d) ==
  IF BcdIncrement(d[2]) > 18
  THEN [d EXCEPT ![2] = 1, ![1] = BcdIncrement(@)]
  ELSE [d EXCEPT ![2] = BcdIncrement(@)]
CheckEndOfMonth(d) ==
  IF d[3] > DaysInMonth(d) THEN CountMonth([d EXCEPT ![3] = 1]) ELSE d
CountDay(d) ==
  CheckEndOfMonth([d EXCEPT ![3] = BcdIncrement(@), ![4] = (@ + 1) % 7])

\* rtc_count_hour: midnight and noon in the 24-hour and the 12-hour notation.
CountHour(d) ==
  LET h == BcdIncrement(Hour(d[5]))
      pm == Pm(d[5])
  IN  IF h24
      THEN IF h >= 36 THEN CountDay([d EXCEPT ![5] = 0])
           ELSE [d EXCEPT ![5] = HourByte(h, h >= 18)]
      ELSE IF h < 18 THEN [d EXCEPT ![5] = HourByte(h, pm)]
      ELSE IF pm THEN CountDay([d EXCEPT ![5] = 0])
      ELSE [d EXCEPT ![5] = 64]
CountMinute(d) ==
  IF BcdIncrement(d[6]) >= 96 THEN CountHour([d EXCEPT ![6] = 0])
  ELSE [d EXCEPT ![6] = BcdIncrement(@)]
Carries(d) == BcdIncrement(d[7]) >= 96
CountSecond(d) ==
  IF Carries(d) THEN CountMinute([d EXCEPT ![7] = 0])
  ELSE [d EXCEPT ![7] = BcdIncrement(@)]

-----------------------------------------------------------------------------
(* rtc_set_irq, rtc_clear_irq and rtc_process_irq.  An interrupt is asked  *)
(* of the ARM7 when the line rises from both functions being down (RCNT in *)
(* its RTC setting).  An event is a minute's carry, a tick or a write of   *)
(* status register 2.                                                      *)

Enabled(b) == b >= 128
Matches(a, d) == \A i \in 1..3 : Enabled(a[i]) => a[i] - 128 = d[i + 3]
Rises(old, new) == old \cap {"int1", "int2"} = {} /\ new \cap {"int1", "int2"} # {}
With(f, i, up) == IF up THEN f \cup {i} ELSE f \ {i}

Int1(f, d, m, event, t) ==
  CASE m.int1 = 0 -> IF event = "write" THEN f \ {"int1"} ELSE f
    \* the selected frequency: of the five dividers, the 1 Hz one
    [] m.int1 \in {1, 5} ->
         IF event = "write" \/ (event = "tick" /\ t \in {0, 16384})
         THEN With(f, "int1", alarms[1][3] % 2 = 1 /\ t # 16384) ELSE f
    [] m.int1 \in {2, 6, 3, 7} ->
         IF event = "carry" \/ (event = "write" /\ "minute" \in f)
         THEN f \cup {"int1"}
         ELSE IF \/ m.int1 = 3 /\ event = "tick" /\ d[7] = 48 /\ t = 0
                 \/ m.int1 = 7 /\ event = "tick" /\ d[7] = 0 /\ t = 256
              THEN f \ {"int1"} ELSE f
    [] m.int1 = 4 ->
         IF event = "carry" THEN With(f, "int1", Matches(alarms[1], d)) ELSE f
    [] m.int1 = 8 -> IF event = "tick" THEN f \ {"int1"} ELSE f

Int2(f, d, m, event) ==
  CASE m.alarm2 /\ event = "carry" -> With(f, "int2", Matches(alarms[2], d))
    [] ~m.alarm2 /\ event = "write" -> f \ {"int2"}
    [] OTHER -> f

Process(f, d, m, event, t) == Int2(Int1(f, d, m, event, t), d, m, event)

\* The 32 kHz output pulses the line in every tick.
Pulses(f) == mode.int1 = 8 /\ f \cap {"int1", "int2"} = {}

\* nds_tick_rtc: the tick that completes a second, ...
Second ==
  /\ tick = 16384 /\ used.seconds < MaxSeconds
  /\ dt' = CountSecond(dt)
  /\ LET carried == IF Carries(dt)
                    THEN Process(flags \cup {"minute"}, dt', mode, "carry", 0)
                    ELSE flags
     IN  /\ flags' = Process(carried, dt', mode, "tick", 0)
         /\ line' = (line \/ Rises(flags, carried) \/ Rises(carried, flags')
                          \/ Pulses(carried))
  /\ tick' = 0 /\ used' = [used EXCEPT !.seconds = @ + 1]
  /\ UNCHANGED <<h24, mode, alarms, port>>

\* ... and the ticks within it that the code tells apart.
Tick ==
  /\ tick # 16384
  /\ tick' = CASE tick = 0 -> 4 [] tick = 4 -> 256 [] tick = 256 -> 16384
  /\ LET f == IF tick' = 4 THEN flags \ {"minute"} ELSE flags
     IN  /\ flags' = Process(f, dt, mode, "tick", tick')
         /\ line' = (line \/ Rises(f, flags') \/ Pulses(f))
  /\ UNCHANGED <<dt, h24, mode, alarms, port, used>>

-----------------------------------------------------------------------------
(* The serial port: rtc_write, rtc_byte_in, rtc_cmd_write.                 *)

Shift == /\ used.bytes < MaxBytes
         /\ used' = [used EXCEPT !.bytes = @ + 1]
         /\ port' = [port EXCEPT !.pos = @ + 1]

\* After the select line rises the first byte is the command.
Command ==
  /\ port.pos = 0 /\ used.bytes < MaxBytes
  /\ \E c \in {"status1", "status2", "date", "time", "alarm1", "alarm2"} :
       port' = [pos |-> 1, cmd |-> c]
  /\ used' = [used EXCEPT !.bytes = @ + 1]
  /\ UNCHANGED <<dt, h24, mode, alarms, tick, flags, line>>

Deselect ==
  /\ port.pos > 0
  /\ port' = [pos |-> 0, cmd |-> "none"]
  /\ UNCHANGED <<dt, h24, mode, alarms, tick, flags, line, used>>

\* rtc_write_datetime: every byte is sanitised, and a day past the end of the
\* month carries at once.
WriteDate(n, b) ==
  CASE n = 1 -> [dt EXCEPT ![1] = Sanitize(b, 0, 153)]
    [] n = 2 -> [dt EXCEPT ![2] = Sanitize(b % 32, 1, 18)]
    [] n = 3 -> CheckEndOfMonth([dt EXCEPT ![3] = Sanitize(b % 64, 1, 49)])
    [] n = 4 -> [dt EXCEPT ![4] = Sanitize(b % 8, 0, 6)]
    [] n = 5 -> [dt EXCEPT ![5] = HourByte(Sanitize(b % 64, 0,
                                             IF h24 THEN 35 ELSE 17), Pm(b))]
    [] n \in {6, 7} -> [dt EXCEPT ![n] = Sanitize(b % 128, 0, 89)]

DateArgument ==
  /\ \/ port.cmd = "date" /\ port.pos \in 1..7
     \/ port.cmd = "time" /\ port.pos \in 1..3
  /\ LET n == IF port.cmd = "date" THEN port.pos ELSE port.pos + 4
     IN  \E b \in DateBytes[n] : dt' = WriteDate(n, b)
  /\ Shift
  /\ UNCHANGED <<h24, mode, alarms, tick, flags, line>>

\* Status register 1: a reset, and the change between hour notations.
Noon(h) == IF (h + 18) % 16 >= 10 THEN h + 24 ELSE h + 18
Morning(h) == IF (h - 18) % 16 >= 10 THEN h - 24 ELSE h - 18
HourIn(b, twentyfour) ==
  IF twentyfour
  THEN HourByte(Sanitize(IF Pm(b) THEN Noon(Hour(b)) ELSE Hour(b), 0, 35), Pm(b))
  ELSE HourByte(Sanitize(IF Hour(b) >= 18 THEN Morning(Hour(b)) ELSE Hour(b),
                         0, 17), Hour(b) >= 18)

ResetState ==
  /\ port.cmd = "status1" /\ port.pos = 1
  /\ dt' = <<0, 1, 1, 0, 0, 0, 0>> /\ h24' \in BOOLEAN
  /\ mode' = [int1 |-> 0, alarm2 |-> FALSE]
  /\ alarms' = <<NoAlarm, NoAlarm>> /\ flags' = {}
  /\ Shift
  /\ UNCHANGED <<tick, line>>

Notation ==
  /\ port.cmd = "status1" /\ port.pos = 1
  /\ h24' \in BOOLEAN
  /\ dt' = IF h24' # h24 THEN [dt EXCEPT ![5] = HourIn(@, h24')] ELSE dt
  /\ Shift
  /\ UNCHANGED <<mode, alarms, tick, flags, line>>

\* Status register 2 selects the interrupt functions and applies them.
Select ==
  /\ port.cmd = "status2" /\ port.pos = 1
  /\ \E f \in Functions, two \in BOOLEAN : mode' = [int1 |-> f, alarm2 |-> two]
  /\ flags' = Process(flags, dt, mode', "write", tick)
  /\ line' = (line \/ Rises(flags, flags'))
  /\ Shift
  /\ UNCHANGED <<dt, h24, alarms, tick>>

\* Alarm 1 takes one byte, its third, outside the modes with status2 bit 2.
ThreeBytes == (mode.int1 \div 4) % 2 = 1
AlarmArgument ==
  /\ \E b \in AlarmBytes :
       \/ /\ port.cmd = "alarm1" /\ port.pos \in (IF ThreeBytes THEN 1..3 ELSE {1})
          /\ alarms' = [alarms EXCEPT ![1][IF ThreeBytes THEN port.pos ELSE 3] = b]
       \/ /\ port.cmd = "alarm2" /\ port.pos \in 1..3
          /\ alarms' = [alarms EXCEPT ![2][port.pos] = b]
  /\ Shift
  /\ UNCHANGED <<dt, h24, mode, tick, flags, line>>

Next == \/ Second \/ Tick \/ Command \/ Deselect \/ DateArgument
        \/ ResetState \/ Notation \/ Select \/ AlarmArgument

Spec == Init /\ [][Next]_vars

-----------------------------------------------------------------------------
(* Properties.                                                             *)

Days(d) ==
  LET y == Num(d[1])
      m == Num(d[2])
      ends == <<0, 31, 59, 90, 120, 151, 181, 212, 243, 273, 304, 334>>
  IN  365 * y + (y + 3) \div 4 + ends[m]
      + (IF m > 2 /\ y % 4 = 0 THEN 1 ELSE 0) + Num(d[3]) - 1
HourOfDay(d, twentyfour) ==
  Num(Hour(d[5])) + (IF ~twentyfour /\ Pm(d[5]) THEN 12 ELSE 0)
SecondOfDay(d, twentyfour) ==
  (HourOfDay(d, twentyfour) * 60 + Num(d[6])) * 60 + Num(d[7])
Century == 36525

\* Every value the guest and the carries can leave in the registers is one a
\* savestate accepts (io_peripheral_savestate_validate): BCD digits, each
\* field in its range, the hour in the range of the current notation.
RtcAccepted ==
  /\ \A i \in {1, 2, 3, 6, 7} : Digits(dt[i])
  /\ dt[2] \in 1..18 /\ dt[3] \in 1..49 /\ dt[4] \in 0..6
  /\ Digits(Hour(dt[5])) /\ Hour(dt[5]) <= (IF h24 THEN 35 ELSE 17)
  /\ dt[6] <= 89 /\ dt[7] <= 89

\* Counting a second of a real date moves the calendar by exactly one second
\* through every carry, in both notations, and the weekday with the day; the
\* change of notation alone does not move the time.
RtcStep ==
  /\ Second /\ dt[3] <= DaysInMonth(dt) =>
       LET over == SecondOfDay(dt, h24) = 86399
       IN  /\ SecondOfDay(dt', h24) = (SecondOfDay(dt, h24) + 1) % 86400
           /\ Days(dt') = (Days(dt) + (IF over THEN 1 ELSE 0)) % Century
           /\ dt'[4] = (dt[4] + (IF over THEN 1 ELSE 0)) % 7
  /\ Notation => SecondOfDay(dt', h24') = SecondOfDay(dt, h24)
RtcExact == [][RtcStep]_vars
=============================================================================
