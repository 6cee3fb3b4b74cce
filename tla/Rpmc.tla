-------------------------------- MODULE Rpmc --------------------------------
(***************************************************************************)
(* The replay-protected monotonic counter service the SoC reaches over     *)
(* eSPI OOB messages: src/drivers/oob_rpmc_msg.c, with the root key store  *)
(* of src/drivers/oob_rpmc_rom.c.  One counter; the others are the same.   *)
(*                                                                         *)
(* The counter's own store is a register that a write replaces in one      *)
(* step: RpmcRom shows the two-block store to be one.  The root key store  *)
(* is modelled here: one block of records, written downwards, erased when  *)
(* it is full.  A signature is right when its key is; requests may be      *)
(* lost, delayed, reordered and repeated; power may fail in any flash      *)
(* operation.                                                              *)
(***************************************************************************)
EXTENDS Integers, FiniteSets

CONSTANTS
  Kdv,        \* the default keys of the two algorithms
  RootKeys,   \* mission root keys
  KeyData,    \* MC_KeyData of Update-HMAC-Key
  KeyCells,   \* RPMC_ROM_BLOCK_SIZE / sizeof(struct rt_data)
  MaxCount,   \* bound: the host stops increasing here
  NoKey       \* an erased root key

VARIABLES
  rkr, mcs, hkr,   \* st_rkr, st_mc, st_hkr: initialised or not
  root,            \* root_key
  hmac,            \* hmac_key: the root key and the key data it was derived from
  val,             \* mc_value
  keys,            \* flash: the records of the root key block
  rtAddr, rootk,   \* rt_addr and rootk, the store's view of it
  romCt,           \* flash: the counter
  step,            \* position in the handler: "idle", "erase", "key", "count", "reply"
  req,             \* the request being handled
  acked            \* history: the mission key and the increases since, acknowledged

rpmcVars == <<rkr, mcs, hkr, root, hmac, val, keys, rtAddr, rootk, romCt, step, req, acked>>
dev == <<rkr, mcs, hkr, root, hmac, val>>
rom == <<keys, rtAddr, rootk, romCt>>
-----------------------------------------------------------------------------
AnyKey == Kdv \cup RootKeys
Hmac(k, d) == [root |-> k, data |-> d]
NoHmac == Hmac(NoKey, NoKey)

WriteRoot(k) == [op |-> "root", key |-> k, sig |-> NoHmac, value |-> 0]
UpdateHmac(h) == [op |-> "hmac", key |-> NoKey, sig |-> h, value |-> 0]
Increase(h, v) == [op |-> "increase", key |-> NoKey, sig |-> h, value |-> v]
NoReq == [op |-> "none", key |-> NoKey, sig |-> NoHmac, value |-> 0]

\* Requests that may arrive: all that a host can have issued so far, a repeated or
\* delayed one included.
Requests ==
  {WriteRoot(k) : k \in AnyKey}
    \cup {UpdateHmac(Hmac(k, d)) : k \in AnyKey, d \in KeyData}
    \cup {Increase(Hmac(k, d), v) : k \in AnyKey, d \in KeyData, v \in 0 .. val}
-----------------------------------------------------------------------------
(* The root key store.                                                     *)

NoAddr == -1
Cell == 0 .. KeyCells - 1
Empty == "empty"
Broken == "broken"

\* A record can be told from an erased and from a broken one.
KeysDistinct ==
  /\ KeyCells \in Nat /\ KeyCells > 0
  /\ AnyKey \cap {NoKey, Empty, Broken} = {}
ASSUME KeyAssumption == KeysDistinct
ASSUME CountAssumption == MaxCount \in Nat

Lowest(S) == CHOOSE a \in S : \A b \in S : a <= b
Used(m) == {a \in Cell : m[a] # Empty}
Whole(m) == {a \in Cell : m[a] \in AnyKey}
ErasedKeys == [a \in Cell |-> Empty]

\* Bug: the scan takes the oldest record.
FoundKey_Oldest(m) ==
  IF Whole(m) = {} THEN NoKey ELSE m[CHOOSE a \in Whole(m) : \A b \in Whole(m) : a >= b]

\* _rt_init: the newest whole record, from the lowest address up.
FoundKey(m) == IF Whole(m) = {} THEN NoKey ELSE m[Lowest(Whole(m))]
FoundAddr(m) == IF Whole(m) = {} THEN NoAddr ELSE Lowest(Used(m))

NextAddr == IF rtAddr \in {NoAddr, 0} THEN KeyCells - 1 ELSE rtAddr - 1
-----------------------------------------------------------------------------
(* Power-up: rom_rpmc_data_init and _context_preload.                      *)

Preload(m, c) ==
  /\ root' = FoundKey(m) /\ val' = c
  /\ rkr' = (FoundKey(m) \notin Kdv \cup {NoKey})
  /\ mcs' = (FoundKey(m) # NoKey)
  /\ hkr' = FALSE /\ hmac' = NoHmac

\* A block with nothing but broken records is erased by _rt_init.
Scanned(m) == IF Whole(m) = {} THEN ErasedKeys ELSE m

RpmcInit ==
  /\ rkr = FALSE /\ mcs = FALSE /\ hkr = FALSE
  /\ root = NoKey /\ hmac = NoHmac /\ val = 0
  /\ keys = ErasedKeys /\ rtAddr = NoAddr /\ rootk = NoKey /\ romCt = 0
  /\ step = "idle" /\ req = NoReq /\ acked = {}

\* What a power failure may leave of the flash operation in flight.
KeyRemains ==
  CASE step = "erase" -> {m \in [Cell -> AnyKey \cup {Empty, Broken}] :
                            \A a \in Cell : m[a] \in {keys[a], Empty, Broken}}
    [] step = "key" -> {[keys EXCEPT ![NextAddr] = k] : k \in {Empty, Broken, req.key}}
    [] OTHER -> {keys}

CountRemains == IF step = "count" THEN {romCt, val} ELSE {romCt}

RpmcPowerLoss ==
  /\ \E m \in KeyRemains, c \in CountRemains :
       /\ Preload(m, c)
       /\ keys' = Scanned(m) /\ rtAddr' = FoundAddr(m) /\ rootk' = FoundKey(m)
       /\ romCt' = c
  /\ step' = "idle" /\ req' = NoReq
  /\ UNCHANGED acked
-----------------------------------------------------------------------------
(* The services.                                                           *)

\* An answer that reports an error.
Refuse(r) == req' = r /\ step' = "idle" /\ UNCHANGED <<dev, rom, acked>>

\* rc_write_root_k_service and rom_rpmc_rt_access
WriteRootKey(r) ==
  /\ r.op = "root" /\ ~rkr
  /\ rkr' = (r.key \notin Kdv)
  /\ mcs' = TRUE
  /\ val' = IF mcs THEN val ELSE 0
  /\ hkr' = FALSE
  /\ root' = r.key /\ hmac' = Hmac(r.key, NoKey)
  /\ req' = r
  /\ step' = IF rootk = r.key THEN "count" ELSE IF rtAddr = 0 THEN "erase" ELSE "key"
  /\ UNCHANGED <<rom, acked>>

\* _rt_program
EraseKeys ==
  /\ step = "erase" /\ keys' = ErasedKeys /\ step' = "key"
  /\ UNCHANGED <<dev, rtAddr, rootk, romCt, req, acked>>

WriteKey ==
  /\ step = "key"
  /\ keys' = [keys EXCEPT ![NextAddr] = IF @ = Empty THEN req.key ELSE Broken]
  /\ rtAddr' = NextAddr /\ rootk' = req.key
  /\ step' = "count"
  /\ UNCHANGED <<dev, romCt, req, acked>>

\* rc_update_hmac_k_service: the key is derived from the root key, or from the
\* default key of the request's algorithm.
UpdateHmacKey(r) ==
  /\ r.op = "hmac" /\ mcs
  /\ IF rkr THEN r.sig.root = root ELSE r.sig.root \in Kdv
  /\ hkr' = TRUE /\ hmac' = r.sig
  /\ req' = r /\ step' = "reply"
  /\ UNCHANGED <<rkr, mcs, root, val, rom, acked>>

\* Bug: the value the host gave is not compared.
IncreaseMc_NoCompare(r) ==
  /\ r.op = "increase" /\ mcs /\ hkr
  /\ r.sig = hmac
  /\ val < MaxCount
  /\ val' = val + 1
  /\ req' = r /\ step' = "count"
  /\ UNCHANGED <<rkr, mcs, hkr, root, hmac, rom, acked>>

\* rc_increase_mc_service
IncreaseMc(r) ==
  /\ r.op = "increase" /\ mcs /\ hkr
  /\ r.sig = hmac /\ r.value = val
  /\ val < MaxCount
  /\ val' = val + 1
  /\ req' = r /\ step' = "count"
  /\ UNCHANGED <<rkr, mcs, hkr, root, hmac, rom, acked>>

\* Bug: the answer does not wait for the flash.
WriteCount_Later == step = "count" /\ step' = "reply" /\ UNCHANGED <<dev, rom, req, acked>>

\* rom_rpmc_mc_access
WriteCount ==
  /\ step = "count" /\ romCt' = val /\ step' = "reply"
  /\ UNCHANGED <<dev, keys, rtAddr, rootk, req, acked>>

Reply ==
  /\ step = "reply" /\ step' = "idle"
  /\ acked' = IF rkr /\ req.op # "hmac" THEN acked \cup {req} ELSE acked
  /\ UNCHANGED <<dev, rom, req>>

Refused(r) ==
  CASE r.op = "root" -> rkr
    [] r.op = "hmac" -> ~mcs \/ IF rkr THEN r.sig.root # root ELSE r.sig.root \notin Kdv
    [] r.op = "increase" -> ~mcs \/ ~hkr \/ r.sig # hmac \/ r.value # val

\* oob_rc_msg_proc
MsgProc ==
  /\ step = "idle"
  /\ \E r \in Requests :
       \/ WriteRootKey(r) \/ UpdateHmacKey(r) \/ IncreaseMc(r)
       \/ Refused(r) /\ Refuse(r)
-----------------------------------------------------------------------------
RpmcNext == MsgProc \/ EraseKeys \/ WriteKey \/ WriteCount \/ Reply \/ RpmcPowerLoss

RpmcSpec == RpmcInit /\ [][RpmcNext]_rpmcVars
-----------------------------------------------------------------------------
RpmcTypeOK ==
  /\ rkr \in BOOLEAN /\ mcs \in BOOLEAN /\ hkr \in BOOLEAN
  /\ root \in AnyKey \cup {NoKey} /\ rootk \in AnyKey \cup {NoKey}
  /\ val \in 0 .. MaxCount /\ romCt \in 0 .. MaxCount
  /\ keys \in [Cell -> AnyKey \cup {Empty, Broken}]
  /\ rtAddr \in Cell \cup {NoAddr}
  /\ step \in {"idle", "erase", "key", "count", "reply"}

\* The key an acknowledgement was given under.
OwnerKey(r) == IF r.op = "root" THEN r.key ELSE r.sig.root

AckedValues == {r.value : r \in {a \in acked : a.op = "increase"}}

Ledger == INSTANCE RpmcLedger
            WITH Keys <- RootKeys, Values <- 0 .. MaxCount,
                 owner <- {OwnerKey(r) : r \in acked}, values <- AckedValues

\* In the mission state every answer is given under the one mission key, and an increase
\* from a given value is acknowledged at most once and after all smaller ones, however
\* often requests are repeated or delayed, and whatever restarts lie between: no two
\* sessions of the host are told that they own the same value.
OneLedger == Ledger!LedgerSpec

\* The counter in flash is only ever asked to count by one, or to begin again at 0 as long
\* as nothing was acknowledged in the mission state: what RpmcRom expects of its caller.
CountsByOne ==
  [][romCt' # romCt => romCt' = romCt + 1 \/ (romCt' = 0 /\ acked = {})]_rpmcVars

\* A mission root key that was acknowledged is the one every later power-up finds,
\* and it cannot be replaced.
MissionKeyKept ==
  \A r \in acked : r.op = "root" => rkr /\ root = r.key /\ FoundKey(keys) = r.key

\* An increase acknowledged in the mission state is in flash: no restart brings the
\* counter back to that value.
AckedIncreaseKept == \A r \in acked : r.op = "increase" => romCt > r.value
=============================================================================
