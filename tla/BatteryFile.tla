------------------------------ MODULE BatteryFile -----------------------------
(***************************************************************************)
(* The two files that outlive the process (battery_save.cpp,               *)
(* firmware_state.cpp): the cartridge's battery save and the mutable       *)
(* firmware image.  Both are loaded only at their exact size and replaced  *)
(* by renaming a flushed temporary.  They differ at boot: a battery file   *)
(* that is missing or has another size leaves blank memory and the run     *)
(* goes on, while a missing firmware file is seeded and one of another     *)
(* size stops the run.  The process may die between any two steps.         *)
(***************************************************************************)
EXTENDS Naturals

CONSTANTS Kind,      \* "battery" or "firmware"
          MaxStore   \* stores of the guest, numbered from 1

\* File contents: nothing, a file of another size, part of an image, or an
\* image, 0 the blank or seed one and i the one after the i-th store.
Content(state, i) == [state |-> state, image |-> i]
Missing == Content("missing", 0)
Foreign == Content("foreign", 0)
Partial == Content("partial", 0)
Image(i) == Content("whole", i)

VARIABLES disk,     \* the file
          temporary,
          memory,   \* the image in the chip
          stores,
          dirty,
          step      \* "off", "running", "writing", "exiting" or "refused"

vars == <<disk, temporary, memory, stores, dirty, step>>

Init ==
  /\ disk \in {Missing, Foreign, Image(0)}
  /\ temporary = Missing
  /\ memory = Image(0)
  /\ stores = 0
  /\ dirty = FALSE
  /\ step = "off"

\* nds_battery_save_load_exact reads a file of the exact size only.
Loadable(c) == c.state = "whole"

BootLoaded ==
  /\ step = "off" /\ Loadable(disk)
  /\ memory' = disk /\ dirty' = FALSE /\ step' = "running"
  /\ UNCHANGED <<disk, temporary, stores>>

\* nds_io_load_cartridge: blank memory, nothing written.
BootBlank ==
  /\ step = "off" /\ Kind = "battery" /\ ~Loadable(disk)
  /\ memory' = Image(0) /\ dirty' = FALSE /\ step' = "running"
  /\ UNCHANGED <<disk, temporary, stores>>

\* nds_firmware_state_load_or_seed: the seed is written through the same
\* temporary; an error there stops the run.
BootSeed ==
  /\ step = "off" /\ Kind = "firmware" /\ disk = Missing
  /\ \/ /\ disk' = Image(0) /\ temporary' = Missing
        /\ memory' = Image(0) /\ dirty' = FALSE /\ step' = "running"
     \/ /\ temporary' \in {Missing, Partial, Image(0)}
        /\ step' = "refused"
        /\ UNCHANGED <<disk, memory, dirty>>
  /\ UNCHANGED stores

BootRefused ==
  /\ step = "off" /\ Kind = "firmware" /\ disk \in {Foreign, Partial}
  /\ step' = "refused"
  /\ UNCHANGED <<disk, temporary, memory, stores, dirty>>

Store ==
  /\ step = "running" /\ stores < MaxStore
  /\ stores' = stores + 1
  /\ memory' = Image(stores + 1)
  /\ dirty' = TRUE
  /\ UNCHANGED <<disk, temporary, step>>

\* Write and flush the temporary; a failure leaves what it has written.
FlushWrite ==
  /\ step \in {"running", "exiting"} /\ dirty
  /\ \/ temporary' = memory /\ step' = "writing"
     \/ temporary' = Partial /\ UNCHANGED step
  /\ UNCHANGED <<disk, memory, stores, dirty>>

FlushRename ==
  /\ step = "writing"
  /\ \/ disk' = temporary /\ temporary' = Missing /\ dirty' = FALSE
     \/ UNCHANGED <<disk, temporary, dirty>>
  /\ step' = "running"
  /\ UNCHANGED <<memory, stores>>

\* An orderly exit flushes once more before the process ends.
Exit ==
  /\ step = "running"
  /\ step' = IF dirty THEN "exiting" ELSE "off"
  /\ UNCHANGED <<disk, temporary, memory, stores, dirty>>

\* The process dies, or gives up after a failed last flush.
Die ==
  /\ step \in {"running", "writing", "exiting"}
  /\ step' = "off"
  /\ \/ UNCHANGED temporary
     \/ step = "exiting" /\ temporary' = Partial
  /\ UNCHANGED <<disk, memory, stores, dirty>>

Next == \/ BootLoaded \/ BootBlank \/ BootSeed \/ BootRefused \/ Store
        \/ FlushWrite \/ FlushRename \/ Exit \/ Die

\* The file is never left with part of an image, and whenever the chip is
\* clean what the guest last stored is in the file, at the next boot too
\* (nds_battery_save_write_atomic).
FileWhole ==
  /\ disk # Partial
  /\ step = "running" /\ ~dirty /\ memory # Image(0) => disk = memory
=============================================================================
