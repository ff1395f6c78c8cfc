--------------------------------- MODULE Spi -----------------------------------
(***************************************************************************)
(* The ARM7's SPI bus (src/runner/src/io.cpp): one data register in front  *)
(* of the power manager, the firmware flash and the touch screen.  SPICNT  *)
(* selects a device and says whether chip select survives the byte; each   *)
(* device keeps its own phase until its select is released.                *)
(*                                                                         *)
(* Selecting another device does not release the first.  What a device     *)
(* answers is left out; what it stores and its phase are kept.             *)
(***************************************************************************)
EXTENDS Naturals

CONSTANTS Cells,      \* firmware addresses, 0..n
          MaxPhase    \* bound: bytes of a transfer that are told apart

VARIABLES spi,  \* SPICNT: on, dev, keep, busy; due: completion event
          fw,   \* the flash: hold, cmd, pos, addr, data, dirty
          file, failed, detached,  \* the firmware file
          touched, \* since the image was loaded, a write has changed it
          pm,   \* the power manager: hold, index, off
          tsc   \* the touch screen's byte phase, g_tsc_datapos

vars == <<spi, fw, file, failed, detached, touched, pm, tsc>>

Contents == [Cells -> {0, 1}]

\* The image main.cpp keeps from the start: the file's contents with the
\* start-up patches (touch calibration, startup mode, nickname, MAC) on top, so
\* the file need not hold it.
StartImage == [a \in Cells |-> 0]

\* nds_io_reset, then nds_io_load_firmware of that image.
IdleBus == [on |-> FALSE, dev |-> "pm", keep |-> FALSE, busy |-> FALSE,
            due |-> FALSE]
Loaded == [hold |-> FALSE, cmd |-> "none", pos |-> 0, addr |-> 0,
           data |-> StartImage, dirty |-> FALSE]
IdlePower == [hold |-> FALSE, index |-> "control", off |-> FALSE]

Init ==
  /\ spi = IdleBus /\ fw = Loaded /\ pm = IdlePower /\ tsc = 0
  /\ file \in Contents /\ failed = FALSE /\ detached = FALSE /\ touched = FALSE

-----------------------------------------------------------------------------
(* The devices.                                                            *)

NextCell(a) == IF a + 1 \in Cells THEN a + 1 ELSE 0

\* fw_write.  The first byte after the select is the command; the flash model
\* takes a write (0x0A) without looking at its write-enable latch, so the
\* latch decides nothing and is left out.
FwByte(f, v) ==
  IF ~f.hold THEN [f EXCEPT !.hold = TRUE, !.cmd = v, !.pos = 1, !.addr = 0]
  ELSE IF f.cmd \notin {"READ", "WRITE"} THEN f
  ELSE IF f.pos = 1 THEN [f EXCEPT !.pos = 2, !.addr = v]
  ELSE IF f.cmd = "READ" THEN [f EXCEPT !.addr = NextCell(@)]
  ELSE [f EXCEPT !.addr = NextCell(@), !.data[f.addr] = v,
                 !.dirty = @ \/ f.data[f.addr] # v]

\* fw_release: the select's end is what saves a write.  What flushing does to
\* the mark and the file.
SavesOnDisable(f) == f.hold /\ f.cmd = "WRITE" /\ f.dirty /\ spi.keep
Saves(f) == f.hold /\ f.cmd = "WRITE" /\ f.dirty

FwReleased(f, ok) ==
  [fw |-> [f EXCEPT !.hold = FALSE, !.cmd = "none",
                    !.dirty = @ /\ ~(Saves(f) /\ ok /\ ~detached)],
   file |-> IF Saves(f) /\ ok /\ ~detached THEN f.data ELSE file,
   failed |-> IF Saves(f) /\ ~detached THEN ~ok ELSE failed]
FwKept(f) == [fw |-> f, file |-> file, failed |-> failed]

\* pm_write: an index byte, which may ask for a read, then data.  Writing the
\* power bit of the control register turns the console off: the scheduler runs
\* the guest no further (the rest of its slice is left out).
PmByte(p, index, off) ==
  IF ~p.hold THEN [p EXCEPT !.hold = TRUE, !.index = index]
  ELSE [p EXCEPT !.off = @ \/ (p.index = "control" /\ off)]

\* tsc_write: a control byte latches a conversion, which the two bytes after it
\* shift out; the counter runs on with every further byte.
TscByte(t, control) == IF control THEN 1 ELSE IF t < MaxPhase THEN t + 1 ELSE t

-----------------------------------------------------------------------------
(* The bus.                                                                *)

\* SPICNT write: clearing the enable releases the selected device, and only
\* that one.
WriteCnt ==
  /\ ~pm.off
  /\ \E on \in BOOLEAN, dev \in {"pm", "fw", "tsc"}, keep \in BOOLEAN,
       ok \in IF Saves(fw) THEN BOOLEAN ELSE {TRUE} :
       LET drops(d) == spi.on /\ ~on /\ spi.dev = d
           f == IF drops("fw") THEN FwReleased(fw, ok) ELSE FwKept(fw)
       IN  /\ spi' = [spi EXCEPT !.on = on, !.dev = dev, !.keep = keep]
           /\ fw' = f.fw /\ file' = f.file /\ failed' = f.failed
           /\ pm' = IF drops("pm") THEN [pm EXCEPT !.hold = FALSE] ELSE pm
           /\ tsc' = IF drops("tsc") THEN 0 ELSE tsc
  /\ UNCHANGED <<detached, touched>>

\* SPIDATA write, spi_transfer: dropped while busy; a byte without hold
\* releases the device after it.
Transfer(d) == spi.on /\ ~spi.busy /\ spi.dev = d /\ ~pm.off
Clocked == [spi EXCEPT !.busy = TRUE, !.due = TRUE]

TransferFirmware ==
  /\ Transfer("fw")
  /\ \E v \in IF fw.hold THEN Cells ELSE {"READ", "WRITE", "RDSR"},
       ok \in BOOLEAN :
       LET f == FwByte(fw, v)
           r == IF spi.keep THEN FwKept(f) ELSE FwReleased(f, ok)
       IN  /\ fw' = r.fw /\ file' = r.file /\ failed' = r.failed
           /\ touched' = (touched \/ f.data # fw.data)
  /\ spi' = Clocked
  /\ UNCHANGED <<detached, pm, tsc>>

TransferPower ==
  /\ Transfer("pm")
  /\ \E index \in {"control", "read"}, off \in BOOLEAN :
       LET p == PmByte(pm, index, off)
       IN  pm' = IF spi.keep THEN p ELSE [p EXCEPT !.hold = FALSE]
  /\ spi' = Clocked
  /\ UNCHANGED <<fw, file, failed, detached, touched, tsc>>

TransferTouch ==
  /\ Transfer("tsc")
  /\ \E control \in BOOLEAN :
       tsc' = IF spi.keep THEN TscByte(tsc, control) ELSE 0
  /\ spi' = Clocked
  /\ UNCHANGED <<fw, file, failed, detached, touched, pm>>

\* nds_run_system_events.
Done ==
  /\ spi.due
  /\ spi' = [spi EXCEPT !.due = FALSE, !.busy = FALSE]
  /\ UNCHANGED <<fw, file, failed, detached, touched, pm, tsc>>

\* nds_io_flush_firmware_save at exit.
Flush ==
  /\ fw.dirty /\ ~detached
  /\ \E ok \in BOOLEAN :
       /\ failed' = ~ok
       /\ file' = IF ok THEN fw.data ELSE file
       /\ fw' = [fw EXCEPT !.dirty = ~ok]
  /\ UNCHANGED <<spi, detached, touched, pm, tsc>>

\* nds_io_replace_firmware, on a debug client's command: the whole image, which
\* is written to the file at once, whatever the bus is doing.
ReplaceFirmware ==
  /\ \E d \in Contents, ok \in BOOLEAN :
       LET saved == ok /\ ~detached
       IN  /\ fw' = [fw EXCEPT !.data = d, !.dirty = ~saved]
           /\ file' = IF saved THEN d ELSE file
           /\ failed' = IF detached THEN failed ELSE ~ok
  /\ touched' = TRUE
  /\ UNCHANGED <<spi, detached, pm, tsc>>

\* io_peripheral_savestate_import.
LoadState ==
  /\ detached' = TRUE
  /\ \E d \in Contents : fw' = [fw EXCEPT !.data = d]
  /\ UNCHANGED <<spi, file, failed, touched, pm, tsc>>

\* A debug client's reset, boot() of main.cpp: a write in flight or still owed
\* to the file is forgotten, and so is what the file has been given; the image
\* of the start is back and counts as unwritten, and a detached session ends.
Reset ==
  /\ spi' = IdleBus /\ fw' = Loaded /\ pm' = IdlePower /\ tsc' = 0
  /\ detached' = FALSE /\ touched' = FALSE
  /\ UNCHANGED <<file, failed>>

Next == \/ WriteCnt \/ TransferFirmware \/ TransferPower \/ TransferTouch
        \/ Done \/ Flush \/ ReplaceFirmware \/ LoadState \/ Reset

-----------------------------------------------------------------------------
\* Once a write has changed the image, and until the next boot, the firmware
\* file holds what the flash holds whenever no write is in flight, however the
\* bus was switched between devices under a held select; only a failed file
\* write breaks the equality, and then a flush is still owed.  Before, memory
\* is the start-up image and nothing is owed, though the file may hold anything
\* else: what earlier boots saved, or what the start-up patches replaced.  A
\* session detached by a savestate never touches the file (fw_release,
\* nds_io_replace_firmware, nds_io_load_firmware).
FirmwareDurable ==
  ~detached =>
    /\ touched => /\ ~fw.hold /\ ~failed => file = fw.data
                  /\ file # fw.data => fw.dirty
    /\ ~touched => fw.data = StartImage /\ ~fw.dirty
=============================================================================
