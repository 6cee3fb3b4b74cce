------------------------------ MODULE Debounce ------------------------------
(***************************************************************************)
(* The debouncing of input pins of src/app/peripheral_management/          *)
(* periphmgmt.c, with the pin interrupts of the board's board_periph.c.    *)
(*                                                                         *)
(* periph_thread registers a handler for every pin, then sleeps on a       *)
(* semaphore until an interrupt starts a debounce, and from then on looks  *)
(* at all pins once per period.  Interrupts and thread share the fields of *)
(* inputBuffer_lst without a lock, so each access of the thread that an    *)
(* interrupt can separate from the next is a step of its own.              *)
(***************************************************************************)
EXTENDS Integers

CONSTANTS
  NPins,     \* inputBuffer_lst_len
  Reload,    \* the debounce count of every pin, in periods
  CntMod     \* 2^8: the width of deb_cnt

ASSUME PinAssumption == NPins \in Nat \ {0}
ASSUME CountAssumption == CntMod \in Nat \ {0} /\ Reload \in 0 .. CntMod - 1

VARIABLES
  level,        \* the pins as the outside world drives them
  irq,          \* an edge is latched in the interrupt controller
  debouncing, deb_cnt, prev_level,     \* fields of inputBuffer_lst
  ongoing,      \* debouncing_ongoing
  sem,          \* gpio_debounce_lock, at most 1
  slpReady,     \* the thread's vote for deep sleep
  pc, i,        \* where the thread is, and at which pin
  cnt, lvl      \* its copies of deb_cnt and of the pin level

pins == <<debouncing, deb_cnt, prev_level>>
vars == <<level, irq, debouncing, deb_cnt, prev_level, ongoing, sem, slpReady,
          pc, i, cnt, lvl>>

Pin == 1 .. NPins

Registering == {"arm", "regRead", "regStore"}
Scanning == {"load", "store", "test", "clear", "zero", "read", "notify", "count"}

Init ==
  /\ level \in [Pin -> BOOLEAN]
  /\ irq = [p \in Pin |-> FALSE]
  /\ debouncing = [p \in Pin |-> FALSE]
  /\ deb_cnt = [p \in Pin |-> Reload]
  /\ prev_level \in [Pin -> BOOLEAN]
  /\ ongoing = 0 /\ sem = 0 /\ slpReady = TRUE
  /\ pc = "arm" /\ i = 1 /\ cnt = 0 /\ lvl = FALSE
-----------------------------------------------------------------------------
(* The outside world and the interrupts.                                   *)

\* Both edges are latched once the interrupts are configured.
Change(p) ==
  /\ level' = [level EXCEPT ![p] = ~@]
  /\ irq' = [irq EXCEPT ![p] = @ \/ pc # "arm"]
  /\ UNCHANGED <<pins, ongoing, sem, slpReady, pc, i, cnt, lvl>>

\* The pin callbacks of board_periph.c and periph_setup_sem.
Isr(p) ==
  /\ irq[p]
  /\ irq' = [irq EXCEPT ![p] = FALSE]
  /\ debouncing' = [debouncing EXCEPT ![p] = TRUE]
  /\ deb_cnt' = [deb_cnt EXCEPT ![p] = Reload]
  /\ slpReady' = FALSE
  /\ sem' = 1
  /\ UNCHANGED <<level, prev_level, ongoing, pc, i, cnt, lvl>>
-----------------------------------------------------------------------------
(* Initialisation: interrupts first, then one handler after the other.     *)

\* periph_register_gpio_cb_vector
Arm ==
  /\ pc = "arm" /\ pc' = "regRead"
  /\ UNCHANGED <<level, irq, pins, ongoing, sem, slpReady, i, cnt, lvl>>

\* periph_register_debounce_handler
RegisterRead ==
  /\ pc = "regRead" /\ pc' = "regStore"
  /\ lvl' = level[i]
  /\ UNCHANGED <<level, irq, pins, ongoing, sem, slpReady, i, cnt>>

RegisterStore ==
  /\ pc = "regStore"
  /\ prev_level' = [prev_level EXCEPT ![i] = lvl]
  /\ IF i < NPins THEN i' = i + 1 /\ pc' = "regRead" ELSE i' = i /\ pc' = "wait"
  /\ UNCHANGED <<level, irq, debouncing, deb_cnt, ongoing, sem, slpReady, cnt, lvl>>
-----------------------------------------------------------------------------
(* The loop of periph_thread and debounce_pins.                            *)

\* k_sem_take
Take ==
  /\ pc = "wait" /\ sem = 1
  /\ sem' = 0 /\ slpReady' = FALSE /\ pc' = "sleep"
  /\ UNCHANGED <<level, irq, pins, ongoing, i, cnt, lvl>>

\* k_msleep has elapsed.
Period ==
  /\ pc = "sleep" /\ pc' = "load"
  /\ ongoing' = 0 /\ i' = 1
  /\ UNCHANGED <<level, irq, pins, sem, slpReady, cnt, lvl>>

Load ==
  /\ pc = "load"
  /\ IF debouncing[i] THEN cnt' = deb_cnt[i] /\ pc' = "store"
                      ELSE cnt' = cnt /\ pc' = "count"
  /\ UNCHANGED <<level, irq, pins, ongoing, sem, slpReady, i, lvl>>

\* deb_cnt is unsigned.
Decremented(c) == IF c = 0 THEN CntMod - 1 ELSE c - 1

Store ==
  /\ pc = "store" /\ pc' = "test"
  /\ cnt' = Decremented(cnt)
  /\ deb_cnt' = [deb_cnt EXCEPT ![i] = cnt']
  /\ UNCHANGED <<level, irq, debouncing, prev_level, ongoing, sem, slpReady, i, lvl>>

\* Bug: an unsigned counter is tested for having fallen below zero.
Test_BelowZero ==
  /\ pc = "test"
  /\ \E c \in {cnt, deb_cnt[i]} : pc' = IF c < 0 THEN "clear" ELSE "count"
  /\ UNCHANGED <<level, irq, pins, ongoing, sem, slpReady, i, cnt, lvl>>

\* The compiler may test the value it has just stored, or read it again.
Test ==
  /\ pc = "test"
  /\ \E c \in {cnt, deb_cnt[i]} : pc' = IF c = 0 THEN "clear" ELSE "count"
  /\ UNCHANGED <<level, irq, pins, ongoing, sem, slpReady, i, cnt, lvl>>

Clear ==
  /\ pc = "clear" /\ pc' = "zero"
  /\ debouncing' = [debouncing EXCEPT ![i] = FALSE]
  /\ UNCHANGED <<level, irq, deb_cnt, prev_level, ongoing, sem, slpReady, i, cnt, lvl>>

\* deb_cnt = 0 repeats the value just found there, so the compiler may drop it.
Zero ==
  /\ pc = "zero" /\ pc' = "read"
  /\ \E c \in {0, deb_cnt[i]} : deb_cnt' = [deb_cnt EXCEPT ![i] = c]
  /\ UNCHANGED <<level, irq, debouncing, prev_level, ongoing, sem, slpReady, i, cnt, lvl>>

Read ==
  /\ pc = "read" /\ pc' = "notify"
  /\ lvl' = level[i]
  /\ UNCHANGED <<level, irq, pins, ongoing, sem, slpReady, i, cnt>>

\* The handler is called with lvl if that is not the level it already knows.
Notify ==
  /\ pc = "notify" /\ pc' = "count"
  /\ prev_level' = [prev_level EXCEPT ![i] = lvl]
  /\ UNCHANGED <<level, irq, debouncing, deb_cnt, ongoing, sem, slpReady, i, cnt, lvl>>

Count ==
  /\ pc = "count"
  /\ ongoing' = IF debouncing[i] THEN ongoing + 1 ELSE ongoing
  /\ IF i < NPins THEN i' = i + 1 /\ pc' = "load" ELSE i' = i /\ pc' = "check"
  /\ UNCHANGED <<level, irq, pins, sem, slpReady, cnt, lvl>>

\* Bug: the vote is given after every pass.
Check_VoteEachPass ==
  /\ pc = "check"
  /\ slpReady' = TRUE
  /\ pc' = IF ongoing > 0 THEN "sleep" ELSE "wait"
  /\ UNCHANGED <<level, irq, pins, ongoing, sem, i, cnt, lvl>>

\* Bug: interrupts taken during the scan are forgotten (k_sem_reset).
Check_ResetSem ==
  /\ pc = "check"
  /\ IF ongoing > 0 THEN pc' = "sleep" /\ slpReady' = slpReady
                    ELSE pc' = "wait" /\ slpReady' = TRUE
  /\ sem' = 0
  /\ UNCHANGED <<level, irq, pins, ongoing, i, cnt, lvl>>

\* is_debouncing, and the vote at the end of the loop.
Check ==
  /\ pc = "check"
  /\ IF ongoing > 0 THEN pc' = "sleep" /\ slpReady' = slpReady
                    ELSE pc' = "wait" /\ slpReady' = TRUE
  /\ UNCHANGED <<level, irq, pins, ongoing, sem, i, cnt, lvl>>

Thread ==
  \/ Arm \/ RegisterRead \/ RegisterStore
  \/ Take \/ Period \/ Load \/ Store \/ Test \/ Clear \/ Zero \/ Read \/ Notify
  \/ Count \/ Check

Next == Thread \/ (\E p \in Pin : Change(p)) \/ (\E p \in Pin : Isr(p))

Spec == Init /\ [][Next]_vars

\* The thread is scheduled, and a latched interrupt is taken.
FairSpec == Spec /\ WF_vars(Thread) /\ \A p \in Pin : WF_vars(Isr(p))
-----------------------------------------------------------------------------
(* Properties.                                                             *)

TypeOK ==
  /\ level \in [Pin -> BOOLEAN] /\ irq \in [Pin -> BOOLEAN]
  /\ debouncing \in [Pin -> BOOLEAN] /\ prev_level \in [Pin -> BOOLEAN]
  /\ deb_cnt \in [Pin -> 0 .. CntMod - 1] /\ cnt \in 0 .. CntMod - 1
  /\ ongoing \in Nat /\ sem \in {0, 1} /\ slpReady \in BOOLEAN
  /\ pc \in Registering \cup Scanning \cup {"wait", "sleep", "check"}
  /\ i \in Pin /\ lvl \in BOOLEAN

\* While the thread is blocked on the semaphore and nobody has given it, every
\* pin handler knows its pin's level, or the edge is still latched as an
\* interrupt: no interleaving of interrupts with the initialisation and with
\* the unlocked scan of debounce_pins loses a level change.
NothingMissed ==
  pc = "wait" /\ sem = 0 => \A p \in Pin : prev_level[p] = level[p] \/ irq[p]

\* The thread does not vote for deep sleep from the moment it takes the
\* semaphore until no pin is debouncing, so k_msleep never turns into a sleep
\* in which the debounce counters stand still.
NoVoteWhileDebouncing == slpReady => pc \in Registering \cup {"wait"}

\* When the pins stop changing every handler learns the final level, whatever
\* the races did to the counters (a lost reload, or a wrap below zero).
Delivered == <>[][FALSE]_level => <>[](prev_level = level)
-----------------------------------------------------------------------------
(* The inductive invariant of NothingMissed.                               *)

\* The thread is about to learn the level of pin p, or holds it in lvl.
InHand(p) ==
  \/ pc = "arm"
  \/ pc = "regRead" /\ p >= i
  \/ pc = "regStore" /\ p > i
  \/ pc \in {"zero", "read"} /\ p = i
  \/ pc \in {"regStore", "notify"} /\ p = i /\ lvl = level[p]

\* The handler of pin p knows its level, and is not about to be told another.
Known(p) == prev_level[p] = level[p] /\ ~(pc \in {"regStore", "notify"} /\ p = i)

Noticed(p) == Known(p) \/ irq[p] \/ debouncing[p] \/ InHand(p)

\* A pin that is debouncing will be looked at again.
Watched(p) ==
  debouncing[p] =>
    \/ sem = 1
    \/ pc = "sleep"
    \/ pc \in Scanning /\ p >= i
    \/ pc \in Scanning \cup {"check"} /\ ongoing > 0

ScanInv ==
  /\ pc = "arm" => i = 1
  /\ pc \in {"store", "test", "clear"} => debouncing[i]

DebounceInv == TypeOK /\ ScanInv /\ \A p \in Pin : Noticed(p) /\ Watched(p)
=============================================================================
