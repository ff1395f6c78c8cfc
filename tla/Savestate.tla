------------------------------ MODULE Savestate -------------------------------
(***************************************************************************)
(* Savestate transactions (savestate.cpp, savestate_slots.cpp): a save     *)
(* exports every owner of core state, validates the snapshot and replaces  *)
(* the slot file through a synced temporary; a load validates the decoded  *)
(* snapshot, imports it owner by owner and imports the previous core again *)
(* when an owner fails.  Transactions run on the scheduler's thread between *)
(* rounds, so a load is one step; the steps of a save are separated only   *)
(* for the power cuts between them.  A refusal by the eligibility hook     *)
(* (NetworkGuard) changes nothing.                                         *)
(*                                                                         *)
(* An owner's state is the number of the round that produced it.  Two      *)
(* owners carry more: io the index byte of the power-management SPI device *)
(* and peripherals the last write to the backup chip and whether the       *)
(* session is detached from the battery file.                              *)
(***************************************************************************)
EXTENDS Naturals, Sequences

CONSTANTS MaxRound,    \* rounds and boots
          IndexBytes,  \* index bytes the guest sends: "write", "read" (bit 7)
          Builds       \* build ids of the processes that share the slot file

VARIABLES round,     \* the newest round
          core,      \* what each owner holds
          build,     \* the running process's build id
          halted,    \* scheduler_terminal_halt_all
          slot,      \* the slot file the directory names: {} or {a file}
          durable,   \* the slot file the directory names after a power cut
          temp,      \* the temporary file: {} or {a file}
          saving,    \* the step of atomic_write_file in progress
          battery,   \* the backup write the battery file holds
          history,   \* rounds in the host's traces and counters
          \* history of the runs, read by the properties only
          session,   \* "boot", or "historical" after a load
          kept,      \* the newest backup write of the boot sessions
          promised   \* files a reader may find in the slot

stateVars == <<round, core, build, halted, battery, history, session, kept>>
fileVars == <<slot, durable, temp, saving, promised>>
vars == <<stateVars, fileVars>>

\* The order import_core_state applies the owners in.
Owners == <<"bus", "cp15", "runtime", "spu", "io", "peripherals", "vram",
            "gpu2d", "gpu3d", "scheduler">>
OwnerSet == {Owners[i] : i \in 1 .. Len(Owners)}

\* The machine after round r.
Machine(r, index, backup, detached) ==
  [o \in OwnerSet |->
     [at |-> r,
      index |-> IF o = "io" THEN index ELSE "none",
      backup |-> IF o = "peripherals" THEN backup ELSE 0,
      detached |-> o = "peripherals" /\ detached]]

Init ==
  /\ round = 1
  /\ core = Machine(1, "write", 0, FALSE)
  /\ build \in Builds
  /\ halted = FALSE
  /\ slot = {} /\ durable = {} /\ temp = {} /\ promised = {}
  /\ saving = "idle"
  /\ battery = 0 /\ kept = 0
  /\ history = {1}
  /\ session = "boot"

-----------------------------------------------------------------------------
(* Rounds of the guest.                                                    *)

Flushed(machine, was) ==
  IF machine["peripherals"].detached THEN was
  ELSE machine["peripherals"].backup

\* A round may read or write a power-management register and may store to the
\* backup chip, which flushes at the end of the transfer.
Round ==
  /\ round < MaxRound /\ ~halted /\ saving = "idle"
  /\ \E index \in IndexBytes \cup {core["io"].index},
        backup \in {core["peripherals"].backup, round + 1} :
       LET machine == Machine(round + 1, index, backup,
                              core["peripherals"].detached)
       IN  /\ core' = machine
           /\ battery' = Flushed(machine, battery)
           /\ kept' = IF session = "boot" THEN backup ELSE kept
  /\ round' = round + 1
  /\ history' = history \cup {round + 1}
  /\ UNCHANGED <<build, halted, session, fileVars>>

-----------------------------------------------------------------------------
(* Save.                                                                   *)

\* What an owner's validator refuses of the states the model tells apart: the
\* power-management index must be below 8, so not a read's.
Accepts(owner, state) == owner = "io" => state.index # "read"
Valid(machine) == \A o \in OwnerSet : Accepts(o, machine[o])

\* Export, validate, encode, open and write the temporary.
SaveBegin ==
  /\ saving = "idle" /\ ~halted
  /\ Valid(core)
  /\ temp' = {[machine |-> core, build |-> build, whole |-> FALSE]}
  /\ saving' = "written"
  /\ promised' = promised \cup {[machine |-> core, build |-> build,
                                 whole |-> TRUE]}
  /\ UNCHANGED <<stateVars, slot, durable>>

SaveSync ==
  /\ saving = "written"
  /\ temp' = {[f EXCEPT !.whole = TRUE] : f \in temp}
  /\ saving' = "synced"
  /\ UNCHANGED <<stateVars, slot, durable, promised>>

SaveRename ==
  /\ saving = "synced"
  /\ slot' = temp
  /\ temp' = {}
  /\ saving' = "renamed"
  /\ UNCHANGED <<stateVars, durable, promised>>

SaveSyncDirectory ==
  /\ saving = "renamed"
  /\ durable' = slot
  /\ saving' = "idle"
  /\ promised' = slot
  /\ UNCHANGED <<stateVars, slot, temp>>

\* Writing, syncing or renaming fails: the temporary is removed.  Syncing the
\* directory fails: the save is reported failed though the slot is replaced.
SaveFails ==
  /\ saving # "idle"
  /\ temp' = {}
  /\ saving' = "idle"
  /\ UNCHANGED <<stateVars, slot, durable, promised>>

-----------------------------------------------------------------------------
(* Load.                                                                   *)

\* gpu3d rebuilds the frame after applying the device and fails when the
\* compute renderer does; the flag stays set, so it fails in the rollback too.
Fails(owner, state, broken) ==
  \/ ~Accepts(owner, state)
  \/ owner = "gpu3d" /\ broken

Imports(new, broken) ==
  \A o \in OwnerSet : ~Fails(o, new[o], broken)

\* The core after importing `new' over `old', up to the first owner to fail.
Imported(old, new, broken) ==
  [o \in OwnerSet |->
     LET i == CHOOSE k \in 1 .. Len(Owners) : Owners[k] = o
         reached == \A k \in 1 .. i - 1 :
                      ~Fails(Owners[k], new[Owners[k]], broken)
     IN  IF reached /\ Accepts(o, new[o]) THEN new[o] ELSE old[o]]

AsSaved(machine) == machine

\* Whatever the file says, the loaded session is detached.
Detached(machine) == [machine EXCEPT !["peripherals"].detached = TRUE]

NotRolledBack(middle, previous, broken) == middle

\* The previous core is imported over what the failed import left.
RolledBack(middle, previous, broken) == Imported(middle, previous, broken)

\* load_file, the identity checks, validation, and the import with rollback.
LoadCore(f, broken) ==
  LET loaded == Detached(f.machine)
      middle == Imported(core, loaded, broken)
  IN  /\ f.whole /\ f.build = build /\ Valid(loaded)
      /\ \/ /\ Imports(loaded, broken)
            /\ core' = middle
            /\ session' = "historical"
            /\ UNCHANGED halted
         \/ /\ ~Imports(loaded, broken)
            /\ core' = RolledBack(middle, core, broken)
            /\ halted' = TRUE
            /\ UNCHANGED session

\* A load that succeeds clears every trace and counter of the host.
ResetHistory(loaded) == IF loaded THEN {} ELSE history

\* A slot command: the slot must exist.
Load ==
  /\ saving = "idle" /\ ~halted
  /\ \E f \in slot, broken \in BOOLEAN :
       /\ LoadCore(f, broken)
       /\ history' = ResetHistory(Imports(Detached(f.machine), broken))
  /\ UNCHANGED <<round, build, battery, kept, fileVars>>

-----------------------------------------------------------------------------
(* The process ends: orderly, by a crash, or by a power cut, which may     *)
(* take a rename back and lose what was not synced.  The next process may  *)
(* be another build and boots from the battery file.                       *)

Boot ==
  /\ round < MaxRound
  /\ temp' = {} /\ saving' = "idle"
  /\ build' \in Builds
  /\ round' = round + 1
  /\ core' = Machine(round + 1, "write", battery, FALSE)
  /\ history' = {round + 1}
  /\ session' = "boot"
  /\ halted' = FALSE
  /\ UNCHANGED <<battery, kept, promised>>

Restart == Boot /\ UNCHANGED <<slot, durable>>

PowerCut ==
  /\ Boot
  /\ \E s \in {slot, durable} : slot' = s /\ durable' = s

Next == \/ Round \/ SaveBegin \/ SaveSync \/ SaveRename \/ SaveSyncDirectory
        \/ SaveFails \/ Load \/ Restart \/ PowerCut

Spec == Init /\ [][Next]_vars

-----------------------------------------------------------------------------
\* A load installs the whole saved machine or leaves the previous one: the
\* owners always hold the same round (nds_savestate_load_core's rollback).
WholeMachine == \A o, p \in OwnerSet : core[o].at = core[p].at

\* Loading an old state never changes the battery file: it holds the newest
\* backup write of the sessions that booted from it (the detached flags).
BatteryIsNotHistorical == battery = kept

\* The slot file is always a complete savestate, the last one reported saved
\* or one attempted since, across crashes and power cuts (atomic_write_file).
SlotAtomic == \A f \in slot : f.whole /\ f \in promised

\* The host's traces never mix the rounds of two timelines: they hold no round
\* newer than a loaded machine (nds_savestate_reset_host_history).
HistoryOfOneTimeline ==
  \A r \in history : r <= core["scheduler"].at
=============================================================================
