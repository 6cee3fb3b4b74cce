----------------------------- MODULE NvRegister -----------------------------
(***************************************************************************)
(* What the NV options promise: a working copy that is set at any time, a  *)
(* stored copy that changes only by taking over the whole working copy in  *)
(* one step, and a restart that begins from the stored copy.               *)
(***************************************************************************)
CONSTANT Values
VARIABLES mem, store

rvars == <<mem, store>>

RInit == mem = store /\ store \in Values

Set == mem' \in Values /\ UNCHANGED store

Commit == store' = mem /\ UNCHANGED mem

Restart == mem' = store /\ UNCHANGED store

RNext == Set \/ Commit \/ Restart

RSpec == RInit /\ [][RNext]_rvars
=============================================================================
