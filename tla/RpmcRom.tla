------------------------------ MODULE RpmcRom ------------------------------
(***************************************************************************)
(* The flash store of one monotonic counter, src/drivers/oob_rpmc_rom.c:   *)
(* two blocks of records written from the highest address down, a block    *)
(* left behind erased later by a work item, and the scan at power-up.      *)
(*                                                                         *)
(* oobmngr_thread writes, the system work queue erases; both are           *)
(* cooperative and the flash driver serialises their operations, so one    *)
(* step is one flash operation.  Power may fail in any of them: a record   *)
(* is then torn, a block partly erased.  Addresses count records from      *)
(* base_addr; CRC equality is the record being whole.                      *)
(***************************************************************************)
EXTENDS Integers

CONSTANTS
  Cells,          \* records in a block: RPMC_ROM_BLOCK_SIZE / sizeof(struct mc_data)
  ValueMod,       \* 2^32
  CycleMod,       \* 2^16
  WrapOffset,     \* RPMC_ROM_BLOCK_SIZE / 2
  LossWhileBare   \* power may fail between _mc_program's two erases and its write

ASSUME CellAssumption == Cells \in Nat /\ Cells > 1
ASSUME RangeAssumption ==
  /\ {ValueMod, CycleMod, WrapOffset} \subseteq Nat
  /\ ValueMod > 1 /\ WrapOffset >= 2 * Cells /\ CycleMod >= 2 * WrapOffset + 2 * Cells
ASSUME LossAssumption == LossWhileBare \in BOOLEAN

VARIABLES
  mem,      \* the records of both blocks
  addr,     \* ct_addr
  ct,       \* u32_ct, the cached counter
  cycle,    \* ct_cycle
  pend,     \* post_work.erase_addr
  timer,    \* rom_timer and rom_work: "off", "armed", "work", "erasing"
  pc,       \* position of oobmngr_thread: "boot", "idle", "erase", "write"
  todo,     \* blocks it still has to erase
  arg,      \* the value it is writing
  bare      \* history: it has erased both blocks and not written yet

romVars == <<mem, addr, ct, cycle, pend, timer, pc, todo, arg, bare>>
-----------------------------------------------------------------------------
(* Records.                                                                *)

Unset == -1
Addr == 0 .. 2 * Cells - 1

\* An address that is not set is 0, outside the store.
BlockOf(a) == IF a = Unset THEN Unset ELSE IF a < Cells THEN 0 ELSE 1
CellsOf(b) == {a \in Addr : BlockOf(a) = b}

Blank == [st |-> "empty", value |-> 0, cycle |-> 0]
Torn == [st |-> "broken", value |-> 0, cycle |-> 0]
Record(v, c) == [st |-> "ok", value |-> v, cycle |-> c]
Records == {Blank, Torn}
             \cup {Record(v, c) : v \in 0 .. ValueMod - 1, c \in 0 .. CycleMod - 1}

LowestOf(S) == CHOOSE a \in S : \A b \in S : a <= b

Occupied(m, b) == {a \in CellsOf(b) : m[a].st # "empty"}
Good(m, b) == {a \in CellsOf(b) : m[a].st = "ok"}
Latest(m, b) == m[LowestOf(Good(m, b))]

ErasedBlock(m, b) == [a \in Addr |-> IF BlockOf(a) = b THEN Blank ELSE m[a]]

\* What a power failure may leave of an erase: each record kept, gone or garbled.
PartlyErased(m, b) ==
  {[a \in Addr |-> IF BlockOf(a) # b \/ fate[a] = "kept" THEN m[a]
                   ELSE IF fate[a] = "gone" THEN Blank ELSE Torn] :
     fate \in [CellsOf(b) -> {"kept", "gone", "garbled"}]}
-----------------------------------------------------------------------------
(* The scan at power-up, _mc_init.                                         *)

\* Bug: the cycle decides alone, and a wrapped one is taken for an old one.
Supersedes_NoWrap(cur, fd) ==
  \/ fd.cycle = cur.cycle /\ fd.value <= cur.value
  \/ fd.cycle < cur.cycle

Supersedes(cur, fd) ==
  LET wrapped == cur.cycle < WrapOffset /\ fd.cycle > CycleMod - 1 - WrapOffset
      behind == cur.cycle > CycleMod - 1 - WrapOffset /\ fd.cycle < WrapOffset
  IN  \/ fd.cycle = cur.cycle /\ fd.value <= cur.value
      \/ ~wrapped /\ ~behind /\ fd.cycle < cur.cycle
      \/ wrapped

WithData(m) == {b \in {0, 1} : Good(m, b) # {}}

Chosen(m) ==
  IF WithData(m) = {0, 1}
  THEN IF Supersedes(Latest(m, 1), Latest(m, 0)) THEN 1 ELSE 0
  ELSE CHOOSE b \in WithData(m) : TRUE

\* Blocks that hold nothing but broken records, and the older of two blocks.
BootErases(m) ==
  {b \in {0, 1} : Occupied(m, b) # {} /\ Good(m, b) = {}}
    \cup (IF WithData(m) = {0, 1} THEN {1 - Chosen(m)} ELSE {})

\* Bug: the address found is that of the newest valid record, not of a torn one before it.
FoundCtAddr_Good(m) ==
  IF WithData(m) = {} THEN Unset ELSE LowestOf(Good(m, Chosen(m)))

FoundCtAddr(m) ==
  IF WithData(m) = {} THEN Unset ELSE LowestOf(Occupied(m, Chosen(m)))

Found(m) ==
  IF WithData(m) = {} THEN [value |-> 0, cycle |-> 0]
  ELSE [value |-> Latest(m, Chosen(m)).value, cycle |-> Latest(m, Chosen(m)).cycle]

Scan(m) ==
  /\ mem' = m
  /\ addr' = FoundCtAddr(m)
  /\ ct' = Found(m).value /\ cycle' = Found(m).cycle
  /\ todo' = BootErases(m)
  /\ pc' = IF todo' = {} THEN "idle" ELSE "boot"
  /\ pend' = Unset /\ timer' = "off" /\ arg' = 0 /\ bare' = FALSE

RomInit ==
  /\ mem = [a \in Addr |-> Blank]
  /\ addr = Unset /\ ct = 0 /\ cycle = 0
  /\ todo = {} /\ pc = "idle"
  /\ pend = Unset /\ timer = "off" /\ arg = 0 /\ bare = FALSE

BootErase ==
  /\ pc = "boot"
  /\ \E b \in todo :
       /\ mem' = ErasedBlock(mem, b)
       /\ todo' = todo \ {b}
       /\ pc' = IF todo' = {} THEN "idle" ELSE "boot"
  /\ UNCHANGED <<addr, ct, cycle, pend, timer, arg, bare>>
-----------------------------------------------------------------------------
(* Writing, rom_rpmc_mc_access and _mc_program.                            *)

NextCtAddr == IF addr \in {Unset, 0} THEN 2 * Cells - 1 ELSE addr - 1

\* The write goes to the other block.
Leaves == addr # Unset /\ (addr = 0 \/ NextCtAddr = Cells - 1)

\* Bug: an erase that is still pending is forgotten.
Program_DropPending(v) ==
  /\ pc = "idle" /\ timer # "erasing" /\ v # ct
  /\ addr' = NextCtAddr
  /\ arg' = v
  /\ pend' = IF Leaves THEN addr ELSE pend
  /\ timer' = IF Leaves THEN "armed" ELSE timer
  /\ pc' = "write"
  /\ UNCHANGED <<mem, ct, cycle, todo, bare>>

Program(v) ==
  /\ pc = "idle" /\ timer # "erasing" /\ v # ct
  /\ addr' = NextCtAddr
  /\ arg' = v
  /\ IF Leaves /\ pend # Unset
     THEN /\ todo' = {BlockOf(addr), BlockOf(pend)} /\ pc' = "erase" /\ bare' = TRUE
          /\ UNCHANGED <<pend, timer>>
     ELSE /\ pend' = IF Leaves THEN addr ELSE pend
          /\ timer' = IF Leaves THEN "armed" ELSE timer
          /\ pc' = "write"
          /\ UNCHANGED <<todo, bare>>
  /\ UNCHANGED <<mem, ct, cycle>>

\* rc_increase_mc_service
IncreaseCount == Program((ct + 1) % ValueMod)

\* rc_write_root_k_service provisions a counter that was in use before.
Provision == Program(0)

\* The block left, then the one pending; the work item may have erased that one in
\* between, and then the second erase goes to address 0.
ProgramErase ==
  /\ pc = "erase" /\ timer # "erasing"
  /\ LET left == 1 - BlockOf(addr) IN
       IF left \in todo
       THEN mem' = ErasedBlock(mem, left) /\ todo' = todo \ {left}
       ELSE mem' = ErasedBlock(mem, BlockOf(pend)) /\ todo' = {}
  /\ pc' = IF todo' = {} THEN "write" ELSE "erase"
  /\ pend' = IF todo' = {} THEN Unset ELSE pend
  /\ UNCHANGED <<addr, ct, cycle, timer, arg, bare>>

\* Bits that are already 0 stay 0.
Written(old, new) == IF old = Blank THEN new ELSE Torn

NextCycle == IF arg = 0 THEN (cycle + 1) % CycleMod ELSE cycle

Write ==
  /\ pc = "write" /\ timer # "erasing"
  /\ mem' = [mem EXCEPT ![addr] = Written(@, Record(arg, NextCycle))]
  /\ ct' = arg /\ cycle' = NextCycle
  /\ pc' = "idle" /\ bare' = FALSE
  /\ UNCHANGED <<addr, pend, timer, todo, arg>>
-----------------------------------------------------------------------------
(* The deferred erase.                                                     *)

\* The first write to a block follows the start of the timer at once, not after
\* RPMC_ROM_WORK_POST_DELAY_MS (3 s).  Likewise a submitted work item is taken to run
\* before the increases fill a whole block and arm the timer again.
JustArmed == pc = "write" /\ addr \in {Cells - 1, 2 * Cells - 1}

TimerCallback ==
  /\ timer = "armed" /\ ~JustArmed /\ timer' = "work"
  /\ UNCHANGED <<mem, addr, ct, cycle, pend, pc, todo, arg, bare>>

PostWorkBegin ==
  /\ timer = "work"
  /\ timer' = IF pend = Unset THEN "off" ELSE "erasing"
  /\ UNCHANGED <<mem, addr, ct, cycle, pend, pc, todo, arg, bare>>

PostWorkErase ==
  /\ timer = "erasing"
  /\ mem' = ErasedBlock(mem, BlockOf(pend))
  /\ pend' = Unset /\ timer' = "off"
  /\ UNCHANGED <<addr, ct, cycle, pc, todo, arg, bare>>
-----------------------------------------------------------------------------
(* Power failures.                                                         *)

\* What the flash operation in flight may leave behind.
Remains ==
  CASE timer = "erasing" -> PartlyErased(mem, BlockOf(pend))
    [] timer # "erasing" /\ pc = "write" ->
         {[mem EXCEPT ![addr] = r] :
            r \in {mem[addr], Torn, Written(mem[addr], Record(arg, NextCycle))}}
    [] timer # "erasing" /\ pc \in {"boot", "erase"} ->
         UNION {PartlyErased(mem, b) : b \in todo}
    [] OTHER -> {mem}

RomPowerLoss ==
  /\ LossWhileBare \/ ~bare
  /\ \E m \in Remains : Scan(m)
-----------------------------------------------------------------------------
RomNext ==
  \/ BootErase \/ IncreaseCount \/ Provision \/ ProgramErase \/ Write
  \/ TimerCallback \/ PostWorkBegin \/ PostWorkErase \/ RomPowerLoss

RomSpec == RomInit /\ [][RomNext]_romVars
-----------------------------------------------------------------------------
RomTypeOK ==
  /\ mem \in [Addr -> Records]
  /\ addr \in Addr \cup {Unset} /\ pend \in Addr \cup {Unset}
  /\ ct \in 0 .. ValueMod - 1 /\ arg \in 0 .. ValueMod - 1 /\ cycle \in 0 .. CycleMod - 1
  /\ timer \in {"off", "armed", "work", "erasing"}
  /\ pc \in {"boot", "idle", "erase", "write"}
  /\ todo \in SUBSET {0, 1} /\ bare \in BOOLEAN

\* A record is only ever written where _mc_program expects erased flash, whatever
\* torn records and half-erased blocks earlier power failures have left.
WritesErased == pc = "write" => mem[addr] = Blank

\* What the next power-up finds; while both blocks are erased, what RAM still holds.
Count == IF bare THEN [value |-> ct, cycle |-> cycle] ELSE Found(mem)

Mono == INSTANCE MonoCounter WITH count <- Count

\* Through torn records, half-done erases and restarts the counter that a power-up
\* finds never goes back and never skips: the store implements MonoCounter.
CounterMonotonic == Mono!Spec

\* At rest the cached counter is the one the next power-up finds.
CacheStored == pc = "idle" => Found(mem) = [value |-> ct, cycle |-> cycle]
=============================================================================
