---------------------------- MODULE MonoCounter ----------------------------
(***************************************************************************)
(* What the counter store of src/drivers/oob_rpmc_rom.c promises: a pair   *)
(* of cycle and value that survives power failures and only moves on, by   *)
(* one value within a cycle or to the start of the next cycle.             *)
(***************************************************************************)
EXTENDS Integers

CONSTANTS ValueMod, CycleMod

VARIABLE count

Start == [cycle |-> 0, value |-> 0]

Restarted(c) == [cycle |-> (c.cycle + 1) % CycleMod, value |-> 0]

Successor(c) ==
  IF c.value + 1 < ValueMod THEN [c EXCEPT !.value = @ + 1] ELSE Restarted(c)

Init == count = Start

Next == count' \in {Successor(count), Restarted(count)}

Spec == Init /\ [][Next]_count
=============================================================================
