----------------------------- MODULE MCFaults ------------------------------
(***************************************************************************)
(* TLC instance of two parts with safety properties only and many states:  *)
(* the NV options with two savers and every flash fault, and the power     *)
(* button.  They share no state, so a behaviour exercises one of them,     *)
(* chosen at the start.                                                    *)
(***************************************************************************)
EXTENDS NvOptions, PwrBtn

VARIABLE unit

FaultsInit ==
  /\ unit \in {"nv", "button"}
  /\ Init /\ ButtonInit
  /\ unit # "button" => ~held

FaultsNext ==
  \/ unit = "nv"     /\ Next       /\ UNCHANGED <<unit, buttonVars>>
  \/ unit = "button" /\ ButtonNext /\ UNCHANGED <<unit, vars>>

FaultsSpec == FaultsInit /\ [][FaultsNext]_<<unit, vars, buttonVars>>
=============================================================================
