------------------------------ MODULE NvOptions ------------------------------
(***************************************************************************)
(* The NV options of src/misc/f_nv_options.c: the working copy in          *)
(* g_ptrNvSpace and two blocks in flash, written by amd_crb_flash_byte_    *)
(* write of src/drivers/amd_crb_drivers_spiFlash.c.  Both blocks lie in    *)
(* one 4 KB sector, so changing a bit from 0 to 1 in either erases both.   *)
(*                                                                         *)
(* f_nv_options_save runs in the system work queue ("work", a cooperative  *)
(* thread that nothing but a power loss interrupts) and in the shell       *)
(* ("shell", preempted by everything else).  One step is one flash         *)
(* operation.                                                              *)
(***************************************************************************)
EXTENDS Integers

CONSTANTS
  Values,            \* contents of the platform specific option fields
  Default,           \* SET_NV_OPTIONS_TO_DEFAULT
  NONE,              \* an erased byte range, or the CRC 0xFF of unsaved defaults
  Shell,             \* built with CONFIG_NVOPTION_SHELL
  LossWhileErased,   \* power may fail between a sector's erase and its program
  FlashErrors        \* flash operations may report an error

ASSUME ValueAssumption == Default \in Values /\ NONE \notin Values
ASSUME BuildAssumption == {Shell, LossWhileErased, FlashErrors} \subseteq BOOLEAN

VARIABLES
  ram,         \* the option fields of g_ptrNvSpace
  crc,         \* the options its crc8_alg0 and crc8_alg1 were computed from
  hasUpdate,
  ecReset,     \* g_ecResetAfterSetOptions
  active,      \* _s_activeBlock
  flash,       \* the two blocks at _s_blkLocation
  sectorBuf,   \* sector_buffer of amd_crb_flash_byte_write
  saver,       \* where each thread is in f_nv_options_save
  saved,       \* history: some save has run to its end
  past         \* history: the options that were ever in use

vars == <<ram, crc, hasUpdate, ecReset, active, flash, sectorBuf, saver, saved, past>>
-----------------------------------------------------------------------------
(* Blocks.                                                                 *)

Savers == {"work", "shell"}
Blk == {0, 1}

Block == [magic : BOOLEAN, val : Values \cup {NONE}, crc : Values \cup {NONE}]

Erased == [magic |-> FALSE, val |-> NONE, crc |-> NONE]

\* A direct write over bits that were already 0.
Garbled == [magic |-> TRUE, val |-> NONE, crc |-> Default]

\* Bug: the magic word alone makes a block valid.
Valid_NoCrc(b) == b.magic

Valid(b) == b.magic /\ b.val \in Values /\ b.crc = b.val
-----------------------------------------------------------------------------
(* Loading, which after a restart searches from block 0.                   *)

LoadedBlock(f) == IF ~Valid(f[0]) /\ Valid(f[1]) THEN 1 ELSE 0

Stored(f) == IF Valid(f[LoadedBlock(f)]) THEN f[LoadedBlock(f)].val ELSE Default

Idle == [at |-> "idle", step |-> "block", blk |-> 0, data |-> Erased]

Boot ==
  /\ active' = LoadedBlock(flash)
  /\ ram' = Stored(flash)
  /\ hasUpdate' = ~Valid(flash[LoadedBlock(flash)])
  /\ crc' = IF hasUpdate' THEN NONE ELSE ram'
  /\ ecReset' = FALSE
  /\ saver' = [p \in Savers |-> Idle]
  /\ UNCHANGED <<flash, sectorBuf, saved, past>>

\* Power is lost, or the EC is reset, and comes back.
PowerLoss ==
  /\ LossWhileErased \/ \A p \in Savers : saver[p].at # "program"
  /\ Boot
-----------------------------------------------------------------------------
(* Setting an option.                                                      *)

\* The work queue does not yield while it saves.
WorkIdle == saver["work"].at = "idle"

SetNvOptions(v) ==
  /\ WorkIdle /\ ram # v
  /\ ram' = v /\ hasUpdate' = TRUE /\ past' = past \cup {v}
  /\ UNCHANGED <<crc, active, flash, sectorBuf, saver, saved>>

SetOption == \E v \in Values : SetNvOptions(v) /\ UNCHANGED ecReset

\* The CPU type is an option too, but changing it asks for a reset.
SetCpuType == \E v \in Values : SetNvOptions(v) /\ ecReset' = TRUE
-----------------------------------------------------------------------------
(* Saving.                                                                 *)

MayRun(p) == p = "work" \/ (Shell /\ WorkIdle)

Goto(p, where) == saver' = [saver EXCEPT ![p] = [@ EXCEPT !.at = where]]

\* Bug: the CRC of the previous contents is kept.
SaveBegin_StaleCrc(p) ==
  /\ MayRun(p) /\ saver[p].at = "idle" /\ hasUpdate
  /\ active' = (active + 1) % 2
  /\ saver' = [saver EXCEPT ![p] = [Idle EXCEPT !.at = "read", !.blk = active']]
  /\ UNCHANGED <<ram, crc, hasUpdate, ecReset, flash, sectorBuf, saved, past>>

\* f_nv_options_save up to its first flash access.
SaveBegin(p) ==
  /\ MayRun(p) /\ saver[p].at = "idle" /\ hasUpdate
  /\ active' = (active + 1) % 2
  /\ crc' = ram
  /\ saver' = [saver EXCEPT ![p] = [Idle EXCEPT !.at = "read", !.blk = active']]
  /\ UNCHANGED <<ram, hasUpdate, ecReset, flash, sectorBuf, saved, past>>

\* What the pending access is to leave in its block: the working copy, or the
\* block with its magic word set to 0xFFFFFFFF.
NewData(p) ==
  IF saver[p].step = "block" THEN [magic |-> TRUE, val |-> ram, crc |-> crc]
                             ELSE [flash[saver[p].blk] EXCEPT !.magic = FALSE]

\* Whether writing new over old needs bits that go from 0 to 1.  Two different
\* option values may differ in either direction.
NeedErase(p, old, new) ==
  IF saver[p].step = "magic" THEN {old.magic}
  ELSE IF old \in {Erased, new} THEN {FALSE} ELSE BOOLEAN

\* amd_crb_flash_byte_write: read the sector and choose how to write.
ReadSector(p) ==
  /\ MayRun(p) /\ saver[p].at = "read"
  /\ LET b == saver[p].blk
     IN \E erase \in NeedErase(p, flash[b], NewData(p)) :
          /\ saver' = [saver EXCEPT ![p] =
                         [@ EXCEPT !.at = IF erase THEN "erase" ELSE "direct",
                                   !.data = IF erase THEN Erased ELSE NewData(p)]]
          /\ sectorBuf' = IF erase THEN [flash EXCEPT ![b] = NewData(p)] ELSE flash
  /\ UNCHANGED <<ram, crc, hasUpdate, ecReset, active, flash, saved, past>>

EraseSector(p) ==
  /\ MayRun(p) /\ saver[p].at = "erase"
  /\ flash' = [b \in Blk |-> Erased]
  /\ Goto(p, "program")
  /\ UNCHANGED <<ram, crc, hasUpdate, ecReset, active, sectorBuf, saved, past>>

\* Bug: the magic word erased is that of the block just written.
AccessDone_SameBlock(p) ==
  IF saver[p].step = "block"
  THEN /\ saver' = [saver EXCEPT ![p] = [Idle EXCEPT !.at = "read", !.step = "magic",
                                           !.blk = saver[p].blk]]
       /\ hasUpdate' = FALSE
  ELSE Goto(p, "end") /\ UNCHANGED hasUpdate

\* Bug: hasUpdate is not cleared after the write.
AccessDone_StillPending(p) ==
  /\ IF saver[p].step = "block"
     THEN saver' = [saver EXCEPT ![p] = [Idle EXCEPT !.at = "read", !.step = "magic",
                                           !.blk = (saver[p].blk + 1) % 2]]
     ELSE Goto(p, "end")
  /\ UNCHANGED hasUpdate

\* After the block comes the other block's magic word; hasUpdate is cleared in
\* between.  Whether the access failed makes no difference.
AccessDone(p) ==
  IF saver[p].step = "block"
  THEN /\ saver' = [saver EXCEPT ![p] = [Idle EXCEPT !.at = "read", !.step = "magic",
                                           !.blk = (saver[p].blk + 1) % 2]]
       /\ hasUpdate' = FALSE
  ELSE Goto(p, "end") /\ UNCHANGED hasUpdate

ProgramSector(p) ==
  /\ MayRun(p) /\ saver[p].at = "program"
  /\ flash' = sectorBuf
  /\ AccessDone(p)
  /\ UNCHANGED <<ram, crc, ecReset, active, sectorBuf, saved, past>>

\* Only bits from 1 to 0: the source is still the working copy, which may have
\* changed since the sector was read.
DirectWrite(p) ==
  /\ MayRun(p) /\ saver[p].at = "direct"
  /\ LET b == saver[p].blk
         new == NewData(p)
     IN flash' = [flash EXCEPT ![b] =
                    IF flash[b] = Erased \/ new = saver[p].data THEN new ELSE Garbled]
  /\ AccessDone(p)
  /\ UNCHANGED <<ram, crc, ecReset, active, sectorBuf, saved, past>>

\* An access that reports an error; f_nv_options_save only logs it.
FlashError(p) ==
  /\ FlashErrors /\ MayRun(p) /\ saver[p].at \in {"read", "erase", "program", "direct"}
  /\ AccessDone(p)
  /\ UNCHANGED <<ram, crc, ecReset, active, flash, sectorBuf, saved, past>>

\* The end of f_nv_options_save, with the reset that a CPU type change asked for.
SaveEnd(p) ==
  /\ MayRun(p) /\ saver[p].at = "end" /\ ~ecReset
  /\ saved' = TRUE
  /\ saver' = [saver EXCEPT ![p] = Idle]
  /\ UNCHANGED <<ram, crc, hasUpdate, ecReset, active, flash, sectorBuf, past>>

SaveReset(p) == MayRun(p) /\ saver[p].at = "end" /\ ecReset /\ Boot
-----------------------------------------------------------------------------
Init ==
  /\ flash = [b \in Blk |-> Erased] /\ sectorBuf = flash
  /\ active = 0 /\ ram = Default /\ crc = NONE /\ hasUpdate = TRUE
  /\ ecReset = FALSE /\ saved = FALSE /\ past = {Default}
  /\ saver = [p \in Savers |-> Idle]

Save(p) == \/ SaveBegin(p) \/ ReadSector(p) \/ EraseSector(p) \/ ProgramSector(p)
           \/ DirectWrite(p) \/ FlashError(p) \/ SaveEnd(p) \/ SaveReset(p)

Next == \/ SetOption \/ SetCpuType \/ PowerLoss
        \/ \E p \in Savers : Save(p)

Spec == Init /\ [][Next]_vars

\* nvoption_timer submits the save every 2 s and the work queue runs it.
FairSpec == Spec /\ WF_vars(Save("work"))
-----------------------------------------------------------------------------
(* Properties.                                                             *)

TypeOK ==
  /\ ram \in Values /\ crc \in Values \cup {NONE}
  /\ {hasUpdate, ecReset, saved} \subseteq BOOLEAN
  /\ active \in Blk /\ past \subseteq Values
  /\ flash \in [Blk -> Block] /\ sectorBuf \in [Blk -> Block]
  /\ saver \in [Savers -> [at : {"idle", "read", "erase", "program", "direct", "end"},
                           step : {"block", "magic"}, blk : Blk, data : Block]]

NoSave == \A p \in Savers : saver[p].at = "idle"

\* f_nv_options_save: with no update pending and no save under way, a restart
\* would load exactly the options in use.
Durable == NoSave /\ ~hasUpdate => Stored(flash) = ram

\* "Save NV options to storage" (nvoption_service.c), "Call it when nvram data
\* need to save after restart" (f_nv_options_save): once the options were saved, flash
\* holds a valid block whenever no save is under way.
KeepsACopy == saved /\ NoSave => \E b \in Blk : Valid(flash[b])

\* Whatever fails or overlaps, a restart never brings up options that were not
\* in use as a whole at some time: _nvram_checkCrc rejects every mixture.
NeverInvented == Stored(flash) \in past

\* Its inductive invariant: every block that is valid, in flash or waiting in the
\* sector buffer, holds options that were in use.
Known(b) == Valid(b) => b.val \in past

KnownInv ==
  /\ ram \in past /\ Default \in past
  /\ \A b \in Blk : Known(flash[b]) /\ Known(sectorBuf[b])

\* "Need to reboot system after NV option saved" (AcpiSwitchHandler_SW04): the
\* reset at the end of a save brings the options back as they were set.
ResetKeepsOptions == [][\A p \in Savers : SaveReset(p) => ram' = ram]_vars

\* What a restart would find, with the erase and program of a sector as one step.
Contents == IF \E p \in Savers : saver[p].at = "program" THEN sectorBuf ELSE flash

Register == INSTANCE NvRegister WITH mem <- ram, store <- Stored(Contents)

\* The two-block scheme is an atomic register: a save takes effect at one
\* instant, and a restart finds the options before or after it, nothing else.
AtomicSave == Register!RSpec

\* With power stable every change reaches the flash, and the reset it asked for
\* happens.
ChangesReachFlash ==
  <>[][~PowerLoss]_vars => (hasUpdate \/ ecReset) ~> (~hasUpdate /\ ~ecReset)
=============================================================================
