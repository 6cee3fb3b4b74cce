------------------------------ MODULE MCStores ------------------------------
(***************************************************************************)
(* TLC instance of the stores in flash, the monotonic counter, the RPMC    *)
(* emulation and the NV options with atomic sector writes, and of the      *)
(* out-of-band messages that RPMC requests travel in.  A behaviour         *)
(* exercises one of them, chosen at the start.                             *)
(***************************************************************************)
EXTENDS NvOptions, Rpmc, RpmcRom, OobManager

VARIABLE unit

StoresInit ==
  unit \in {"rom", "rpmc", "nv", "oob"} /\ RomInit /\ RpmcInit /\ Init /\ OobInit

StoresNext ==
  \/ unit = "rom"  /\ RomNext  /\ UNCHANGED <<unit, rpmcVars, vars, oobVars>>
  \/ unit = "rpmc" /\ RpmcNext /\ UNCHANGED <<unit, romVars, vars, oobVars>>
  \/ unit = "nv"   /\ Next     /\ UNCHANGED <<unit, romVars, rpmcVars, oobVars>>
  \/ unit = "oob"  /\ OobNext  /\ UNCHANGED <<unit, romVars, rpmcVars, vars>>

StoresSpec ==
  /\ StoresInit /\ [][StoresNext]_<<unit, romVars, rpmcVars, vars, oobVars>>
  /\ WF_vars(unit = "nv" /\ Save("work"))
-----------------------------------------------------------------------------
(* NvOptions *)
\* With power stable every change of an option reaches the flash in the end.
OptionsReachFlash == unit = "nv" => ChangesReachFlash
=============================================================================
