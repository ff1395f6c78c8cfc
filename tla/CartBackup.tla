------------------------------ MODULE CartBackup -------------------------------
(***************************************************************************)
(* The AUXSPI controller (src/runner/src/io.cpp), the cartridge's backup   *)
(* chip behind it (src/runner/src/cart_backup.cpp) and its battery file.   *)
(* One byte at a time: AUXSPICNT says whether chip select stays asserted   *)
(* after it, the chip sees the byte's position in the transfer and whether *)
(* it is the last, and the last byte of a transfer writes changed contents *)
(* through to the file.                                                    *)
(*                                                                         *)
(* Addresses are one byte; the erased value is 0.                          *)
(***************************************************************************)
EXTENDS Naturals

CONSTANTS Kind,       \* "eeprom", "tiny" (512 bytes) or "flash"
          Infrared,   \* the cartridge has the IR front end
          Cells,      \* 0..n: the chip's addresses
          MaxBytes    \* bound on bytes clocked in one transfer

VARIABLES aux,   \* AUXSPICNT: enabled, spi (serial slot mode), keep, busy;
                 \* due: the completion event; hold, pos of the transfer
          chip,  \* cmd, addr, wel (write-enable latch), sram, dirty
          ircmd, \* g_cart_ir_cmd
          file,  \* contents of the battery file
          detached,   \* a loaded savestate has detached the file
          failed,     \* the last attempt to write it failed
          cut         \* a transfer lost its chip select without a last byte

vars == <<aux, chip, ircmd, file, detached, failed, cut>>

Blank == [a \in Cells |-> 1]
Commands == {"WRSR", "WRITE", "PWRITE", "READ", "WRDI", "RDSR", "WREN", "ERASE"}

Init ==
  /\ aux = [on |-> FALSE, spi |-> FALSE, keep |-> FALSE, busy |-> FALSE,
            due |-> FALSE, hold |-> FALSE, pos |-> 0]
  /\ chip = [cmd |-> "none", addr |-> 0, wel |-> FALSE, sram |-> Blank,
             dirty |-> FALSE]
  /\ file = Blank
  /\ ircmd = 0 /\ detached = FALSE /\ failed = FALSE /\ cut = FALSE

-----------------------------------------------------------------------------
(* The chip.                                                               *)

Put(c, a, v) ==
  IF c.wel /\ c.sram[a] # v THEN [c EXCEPT !.sram[a] = v, !.dirty = TRUE] ELSE c
NextCell(a) == IF a + 1 \in Cells THEN a + 1 ELSE 0

\* The data bytes of a write command: the address advances even without the
\* latch, and the latch falls with the last byte.  Page program (0x02) of a
\* flash chip clears the byte.
Program(c, v, pos) ==
  IF pos = 1 THEN [c EXCEPT !.addr = v]
  ELSE [Put(c, c.addr, IF Kind = "flash" /\ c.cmd = "WRITE" THEN 0 ELSE v)
        EXCEPT !.addr = NextCell(@)]
Unlatched(c, last) == IF last THEN [c EXCEPT !.wel = FALSE] ELSE c

Erased(c) ==
  IF ~c.wel THEN c
  ELSE [c EXCEPT !.sram = [a \in Cells |-> 0],
                 !.dirty = @ \/ \E a \in Cells : c.sram[a] # 0]

\* eeprom_spi_write, eeprom_tiny_spi_write and flash_spi_write after the
\* command byte.
Argument(c, v, pos, last) ==
  CASE c.cmd = "WRSR" /\ Kind # "flash" ->
         IF pos = 1 THEN [c EXCEPT !.wel = FALSE] ELSE c
    [] c.cmd = "WRITE" \/ (c.cmd = "PWRITE" /\ Kind # "eeprom") ->
         Unlatched(Program(c, v, pos), last)
    [] c.cmd = "READ" ->
         [c EXCEPT !.addr = IF pos = 1 THEN v ELSE NextCell(@)]
    [] c.cmd = "ERASE" /\ Kind = "flash" ->
         Unlatched(IF pos = 1 THEN Erased([c EXCEPT !.addr = v]) ELSE c, last)
    [] OTHER -> c

\* nds_cart_backup_spi_write: WREN and WRDI act on the command byte and leave
\* the command of the transfer before in place.
ChipByte(c, v, pos, last) ==
  IF pos > 0 THEN Argument(c, v, pos, last)
  ELSE CASE v = "WREN" -> [c EXCEPT !.wel = TRUE]
         [] v = "WRDI" -> [c EXCEPT !.wel = FALSE]
         [] OTHER -> [c EXCEPT !.cmd = v, !.addr = 0]

\* What the chip is given at position pos of the transfer: a command, then an
\* address and data.  Behind the IR front end everything comes one byte later.
Inputs(pos) ==
  IF Infrared /\ pos = 0 THEN {0, 8}
  ELSE IF pos = (IF Infrared THEN 1 ELSE 0) THEN Commands ELSE Cells

-----------------------------------------------------------------------------
(* The controller.                                                         *)

\* auxspi_write_cnt: leaving serial mode while the select is held drops it.
Dropped(on, spi) == aux.spi /\ aux.keep /\ ~spi
WriteCnt ==
  /\ \E on \in BOOLEAN, spi \in BOOLEAN, keep \in BOOLEAN :
       /\ aux' = [aux EXCEPT !.on = on, !.spi = spi, !.keep = keep,
                             !.hold = @ /\ ~Dropped(on, spi)]
       /\ cut' = (cut \/ (aux.hold /\ Dropped(on, spi) /\ chip.dirty))
  /\ UNCHANGED <<chip, ircmd, file, detached, failed>>

\* The file is written when the last byte leaves the chip changed, and the
\* mark is cleared only when that succeeded.
Flushed(c, ok) ==
  IF ~c.dirty \/ detached THEN [chip |-> c, file |-> file, failed |-> failed]
  ELSE IF ok THEN [chip |-> [c EXCEPT !.dirty = FALSE], file |-> c.sram,
                   failed |-> FALSE]
  ELSE [chip |-> c, file |-> file, failed |-> TRUE]

\* auxspi_write_data, cart_spi_write and cart_sram_spi_write.  The position is
\* counted while the select is held; a byte with it released is the last.
WriteData ==
  /\ aux.on /\ aux.spi /\ ~aux.busy
  /\ LET pos == IF aux.hold THEN aux.pos + 1 ELSE 0
         last == ~aux.keep
         shift == IF Infrared THEN 1 ELSE 0
         passes == pos >= shift /\ (Infrared => ircmd = 0)
     IN  /\ pos < MaxBytes
         /\ \E v \in Inputs(pos), ok \in BOOLEAN :
              LET c == IF passes THEN ChipByte(chip, v, pos - shift, last)
                       ELSE chip
                  f == IF passes /\ last THEN Flushed(c, ok)
                       ELSE [chip |-> c, file |-> file, failed |-> failed]
              IN  /\ chip' = f.chip /\ file' = f.file /\ failed' = f.failed
                  /\ cut' = (cut /\ f.chip.dirty)
                  /\ ircmd' = IF Infrared /\ pos = 0 THEN v ELSE ircmd
         /\ aux' = [aux EXCEPT !.busy = TRUE, !.due = TRUE, !.pos = pos,
                               !.hold = aux.keep]
  /\ UNCHANGED detached

\* nds_run_system_events.
Done ==
  /\ aux.due
  /\ aux' = [aux EXCEPT !.due = FALSE, !.busy = FALSE]
  /\ UNCHANGED <<chip, ircmd, file, detached, failed, cut>>

\* The flush at exit, or on a debugger's command.
Flush ==
  /\ chip.dirty
  /\ \E ok \in BOOLEAN :
       LET f == Flushed(chip, ok)
       IN  /\ chip' = f.chip /\ file' = f.file /\ failed' = f.failed
           /\ cut' = (cut /\ f.chip.dirty)
  /\ UNCHANGED <<aux, ircmd, detached>>

\* io_peripheral_savestate_import: other contents, and the file is left alone
\* from here on.
LoadState ==
  /\ ~detached
  /\ detached' = TRUE
  /\ \E s \in [Cells -> {0, 1}], d \in BOOLEAN :
       chip' = [chip EXCEPT !.sram = s, !.dirty = d]
  /\ UNCHANGED <<aux, ircmd, file, failed, cut>>

\* nds_io_reset: the protocol state goes, the contents stay.
Reset ==
  /\ aux' = [on |-> FALSE, spi |-> FALSE, keep |-> FALSE, busy |-> FALSE,
             due |-> FALSE, hold |-> FALSE, pos |-> 0]
  /\ chip' = [chip EXCEPT !.cmd = "none", !.addr = 0, !.wel = FALSE]
  /\ ircmd' = 0
  /\ cut' = (cut \/ (aux.hold /\ chip.dirty))
  /\ UNCHANGED <<file, detached, failed>>

Next == WriteCnt \/ WriteData \/ Done \/ Flush \/ LoadState \/ Reset

-----------------------------------------------------------------------------
\* Between transfers nothing the game has saved is at risk: unless the file
\* could not be written, or chip select was withdrawn mid-transfer, the battery
\* file holds exactly the chip's contents; and contents that differ from it
\* are always still marked for the flush at exit.  A session detached by a
\* savestate never touches the file (cart_sram_spi_write, Flushed).
BackupDurable ==
  /\ ~detached /\ ~aux.hold /\ ~cut /\ ~failed => file = chip.sram
  /\ ~detached /\ file # chip.sram => chip.dirty
=============================================================================
