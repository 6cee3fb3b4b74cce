---------------------------- MODULE RpmcLedger ----------------------------
(***************************************************************************)
(* What the host may rely on of the replay-protected counter of            *)
(* src/drivers/oob_rpmc_msg.c once it is in the mission state: the answers *)
(* it gets form one ledger.  The ledger has one key for ever, which can be *)
(* acknowledged only before anything else is; and the values from which    *)
(* increases are acknowledged under that key grow from one to the next.    *)
(* Answers may get lost, so that a value may be missing.                   *)
(***************************************************************************)
EXTENDS Naturals

CONSTANTS
  Keys,     \* mission root keys
  Values    \* values of the counter

VARIABLES
  owner,    \* the key of the ledger, in a set
  values    \* the values an acknowledged increase started from

ledgerVars == <<owner, values>>

LedgerInit == owner = {} /\ values = {}

AckKey(k) == owner = {} /\ owner' = {k} /\ UNCHANGED values

AckIncrease(k, v) ==
  /\ owner \subseteq {k}
  /\ \A w \in values : w < v
  /\ owner' = {k} /\ values' = values \cup {v}

LedgerNext == \E k \in Keys : AckKey(k) \/ \E v \in Values : AckIncrease(k, v)

LedgerSpec == LedgerInit /\ [][LedgerNext]_ledgerVars
=============================================================================
