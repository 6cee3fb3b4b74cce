---------------------------- MODULE RpmcRomProofs ----------------------------
(***************************************************************************)
(* The flash store of the monotonic counter, for every size of its blocks  *)
(* and every width of its numbers: records are written to erased flash     *)
(* only, the cached counter is the one a power-up finds, and the store     *)
(* implements MonoCounter.                                                 *)
(***************************************************************************)
EXTENDS RpmcRom, WellFoundedInduction, TLAPS

Contents == [Addr -> Records]
-----------------------------------------------------------------------------
(* Addresses, blocks and records.                                          *)

LEMMA Constants ==
  /\ Cells \in Nat /\ Cells > 1
  /\ ValueMod \in Nat /\ CycleMod \in Nat /\ WrapOffset \in Nat
  /\ ValueMod > 1 /\ WrapOffset >= 2 * Cells /\ CycleMod >= 2 * WrapOffset + 2 * Cells
  /\ CycleMod > 1
BY CellAssumption, RangeAssumption

LEMMA Blocks ==
  ASSUME NEW a \in Addr
  PROVE  /\ a \in Int /\ 0 <= a /\ a < 2 * Cells /\ a # Unset
         /\ BlockOf(a) = IF a < Cells THEN 0 ELSE 1
         /\ BlockOf(a) \in {0, 1} /\ 1 - BlockOf(a) \in {0, 1}
BY Constants DEF Addr, Unset, BlockOf

LEMMA LeastNumber ==
  ASSUME NEW S, S \subseteq Nat, S # {}
  PROVE  \E x \in S : \A y \in S : x <= y
<1> DEFINE R == {ss \in Nat \X Nat : ss[1] < ss[2]}
<1>1. IsWellFoundedOn(R, Nat)
  BY NatLessThanWellFounded, Zenon DEF OpToRel
<1> HIDE DEF R
<1>2. PICK x \in S : \A y \in S : ~ (<<y, x>> \in R)
  BY <1>1, WFMin, Zenon
<1>3. \A y \in S : ~(y < x)
  BY <1>2 DEF R
<1> QED
  BY <1>3

LEMMA LowestIsLeast ==
  ASSUME NEW S, S \subseteq Addr, S # {}
  PROVE  LowestOf(S) \in S /\ \A b \in S : LowestOf(S) <= b
<1>1. S \subseteq Nat
  BY Constants DEF Addr
<1>2. \E a \in S : \A b \in S : a <= b
  BY <1>1, LeastNumber
<1> QED
  BY <1>2 DEF LowestOf

\* The 16-bit and 32-bit increments.
LEMMA Increment ==
  ASSUME NEW M \in Nat, M > 1, NEW n \in 0 .. M - 1
  PROVE  /\ (n + 1) % M = IF n + 1 < M THEN n + 1 ELSE 0
         /\ (n + 1) % M \in 0 .. M - 1
<1>1. CASE n + 1 < M
  BY <1>1
<1>2. CASE n + 1 = M
  BY <1>2
<1> QED
  BY <1>1, <1>2

\* What distinguishes the kinds of records.
LEMMA Kinds ==
  /\ Blank.st = "empty" /\ Torn.st = "broken" /\ Blank # Torn
  /\ \A v, c : Record(v, c).st = "ok" /\ Record(v, c).value = v /\ Record(v, c).cycle = c
  /\ \A r \in Records : r.st = "empty" <=> r = Blank
  /\ \A r \in Records : r.st = "ok" =>
       /\ r.value \in 0 .. ValueMod - 1 /\ r.cycle \in 0 .. CycleMod - 1
       /\ r = Record(r.value, r.cycle)
BY DEF Blank, Torn, Record, Records

LEMMA ErasedContents ==
  ASSUME NEW m \in Contents, NEW b
  PROVE  /\ ErasedBlock(m, b) \in Contents
         /\ \A a \in Addr : ErasedBlock(m, b)[a] = IF BlockOf(a) = b THEN Blank ELSE m[a]
BY DEF ErasedBlock, Contents, Records

LEMMA PartlyErasedContents ==
  ASSUME NEW m \in Contents, NEW b, NEW m2 \in PartlyErased(m, b)
  PROVE  /\ m2 \in Contents
         /\ \A a \in Addr : BlockOf(a) # b => m2[a] = m[a]
         /\ \A a \in Addr : m2[a] \in {m[a], Blank, Torn}
<1>1. PICK fate \in [CellsOf(b) -> {"kept", "gone", "garbled"}] :
        m2 = [a \in Addr |-> IF BlockOf(a) # b \/ fate[a] = "kept" THEN m[a]
                             ELSE IF fate[a] = "gone" THEN Blank ELSE Torn]
  BY DEF PartlyErased
<1> QED
  BY <1>1 DEF Contents, Records

LEMMA RemainsContents ==
  ASSUME RomTypeOK, NEW m \in Remains
  PROVE  m \in Contents
<1>1. mem \in Contents /\ Torn \in Records /\ Record(arg, NextCycle) \in Records
  BY Constants, Increment DEF RomTypeOK, Contents, Records, NextCycle
<1>2. CASE timer = "erasing"
  BY <1>1, <1>2, PartlyErasedContents DEF Remains
<1>3. CASE timer # "erasing" /\ pc = "write"
  <2>1. PICK r \in {mem[addr], Torn, Written(mem[addr], Record(arg, NextCycle))} :
          m = [mem EXCEPT ![addr] = r]
    BY <1>3 DEF Remains
  <2>2. addr \in Addr => r \in Records
    BY <1>1, <2>1 DEF Written, Contents
  <2> QED
    BY <1>1, <2>1, <2>2 DEF Contents
<1>4. CASE timer # "erasing" /\ pc \in {"boot", "erase"}
  BY <1>1, <1>4, PartlyErasedContents DEF Remains
<1>5. CASE timer # "erasing" /\ pc = "idle"
  BY <1>1, <1>5 DEF Remains
<1> QED
  BY <1>2, <1>3, <1>4, <1>5 DEF RomTypeOK
-----------------------------------------------------------------------------
(* Which cells are erased, at every position of the thread.                *)

IsTop(a) == a \in {Cells - 1, 2 * Cells - 1}

BlankBlock(m, b) == \A a \in CellsOf(b) : m[a] = Blank

BlankBelow(m, a) == \A b \in CellsOf(BlockOf(a)) : b < a => m[b] = Blank

\* At rest: erased below the last record, and the other block erased or waiting for it.
RestLayout ==
  /\ addr = Unset => pc = "idle" /\ pend = Unset /\ BlankBlock(mem, 0) /\ BlankBlock(mem, 1)
  /\ addr # Unset =>
       /\ BlankBelow(mem, addr)
       /\ pend = Unset => BlankBlock(mem, 1 - BlockOf(addr))
       /\ pend # Unset => BlockOf(pend) = 1 - BlockOf(addr)

WriteLayout ==
  /\ mem[addr] = Blank
  /\ bare => pend = Unset /\ BlankBlock(mem, 0) /\ BlankBlock(mem, 1)
  /\ IsTop(addr) /\ ~bare /\ pend # Unset => timer = "armed"

BootLayout ==
  /\ pend = Unset /\ timer = "off"
  /\ addr = Unset => \A b \in {0, 1} \ todo : BlankBlock(mem, b)
  /\ addr # Unset => /\ BlankBelow(mem, addr)
                     /\ BlockOf(addr) \notin todo
                     /\ 1 - BlockOf(addr) \notin todo => BlankBlock(mem, 1 - BlockOf(addr))

EraseLayout ==
  /\ bare /\ IsTop(addr)
  /\ BlockOf(addr) \in todo
  /\ 1 - BlockOf(addr) \notin todo => BlankBlock(mem, 1 - BlockOf(addr))
  /\ pend = Unset => BlankBlock(mem, BlockOf(addr))
  /\ pend # Unset => BlockOf(pend) = BlockOf(addr)

Layout ==
  /\ timer = "erasing" => pend # Unset
  /\ bare => pc \in {"erase", "write"}
  /\ pc \in {"idle", "write"} => RestLayout
  /\ pc = "write" => WriteLayout
  /\ pc = "boot" => BootLayout
  /\ pc = "erase" => EraseLayout

LEMMA ScanResult ==
  ASSUME NEW m \in Contents
  PROVE  /\ Found(m) \in [value : 0 .. ValueMod - 1, cycle : 0 .. CycleMod - 1]
         /\ WithData(m) = {} => FoundCtAddr(m) = Unset
         /\ WithData(m) # {} =>
              /\ Chosen(m) \in WithData(m)
              /\ FoundCtAddr(m) \in Addr /\ BlockOf(FoundCtAddr(m)) = Chosen(m)
              /\ BlankBelow(m, FoundCtAddr(m))
              /\ LowestOf(Good(m, Chosen(m))) \in Good(m, Chosen(m))
<1>1. CASE WithData(m) = {}
  BY <1>1, Constants DEF Found, FoundCtAddr
<1>2. CASE WithData(m) # {}
  <2> DEFINE f == Chosen(m)
  <2>1. f \in WithData(m)
    BY <1>2 DEF Chosen, WithData
  <2>2. Good(m, f) # {} /\ Good(m, f) \subseteq Occupied(m, f) /\ Occupied(m, f) \subseteq Addr
    BY <2>1 DEF WithData, Good, Occupied, CellsOf
  <2>3. LowestOf(Good(m, f)) \in Good(m, f)
    BY <2>2, LowestIsLeast
  <2>4. /\ LowestOf(Occupied(m, f)) \in Occupied(m, f)
        /\ \A b \in Occupied(m, f) : LowestOf(Occupied(m, f)) <= b
    BY <2>2, LowestIsLeast
  <2>5. FoundCtAddr(m) = LowestOf(Occupied(m, f))
    BY <1>2 DEF FoundCtAddr
  <2>6. FoundCtAddr(m) \in Addr /\ BlockOf(FoundCtAddr(m)) = f
    BY <2>4, <2>5 DEF Occupied, CellsOf
  <2>7. ASSUME NEW b \in CellsOf(f), b < FoundCtAddr(m)
        PROVE  m[b] = Blank
    <3>1. b \in Addr /\ b \notin Occupied(m, f)
      BY <2>4, <2>5, <2>6, <2>7, Blocks DEF CellsOf
    <3> QED
      BY <2>7, <3>1, Kinds DEF Occupied, Contents
  <2>8. Latest(m, f).value \in 0 .. ValueMod - 1 /\ Latest(m, f).cycle \in 0 .. CycleMod - 1
    BY <2>3, Kinds DEF Latest, Good, CellsOf, Contents
  <2> QED
    BY <1>2, <2>1, <2>3, <2>6, <2>7, <2>8 DEF BlankBelow, Found
<1> QED
  BY <1>1, <1>2

\* A block that the scan does not have erased, and does not choose, is erased already.
LEMMA ScanErases ==
  ASSUME NEW m \in Contents, NEW b \in {0, 1}, b \notin BootErases(m),
         WithData(m) # {} => b # Chosen(m)
  PROVE  BlankBlock(m, b)
<1>1. Good(m, b) = {}
  <2>1. SUFFICES ASSUME Good(m, b) # {} PROVE FALSE
    OBVIOUS
  <2>2. b \in WithData(m)
    BY <2>1 DEF WithData
  <2>3. Chosen(m) \in WithData(m) /\ Chosen(m) = 1 - b
    BY <2>2, ScanResult DEF WithData
  <2> QED
    BY <2>2, <2>3 DEF BootErases, WithData
<1>2. Occupied(m, b) = {}
  BY <1>1 DEF BootErases
<1> QED
  BY <1>2, Kinds DEF BlankBlock, Occupied, CellsOf, Contents

LEMMA ScanLayout ==
  ASSUME NEW m \in Contents, Scan(m)
  PROVE  RomTypeOK' /\ Layout'
<1>1. /\ mem' = m /\ addr' = FoundCtAddr(m)
      /\ todo' = BootErases(m) /\ pc' = IF todo' = {} THEN "idle" ELSE "boot"
      /\ pend' = Unset /\ timer' = "off" /\ arg' = 0 /\ bare' = FALSE
      /\ ct' = Found(m).value /\ cycle' = Found(m).cycle
  BY DEF Scan
<1>2. RomTypeOK'
  <2>1. Found(m).value \in 0 .. ValueMod - 1 /\ Found(m).cycle \in 0 .. CycleMod - 1
    BY ScanResult
  <2>2. WithData(m) = {0, 1} => 1 - Chosen(m) \in {0, 1}
    BY DEF Chosen
  <2>3. BootErases(m) \in SUBSET {0, 1}
    BY <2>2 DEF BootErases
  <2>4. FoundCtAddr(m) \in Addr \cup {Unset}
    BY ScanResult
  <2>5. pc' \in {"boot", "idle", "erase", "write"} /\ timer' \in {"off", "armed", "work", "erasing"}
    BY <1>1
  <2>6. arg' \in 0 .. ValueMod - 1 /\ pend' \in Addr \cup {Unset}
    BY <1>1, Constants
  <2>7. mem' \in [Addr -> Records] /\ addr' \in Addr \cup {Unset} /\ todo' \in SUBSET {0, 1}
    BY <1>1, <2>3, <2>4 DEF Contents
  <2>8. bare' \in BOOLEAN
    BY <1>1, Zenon
  <2> QED
    BY <1>1, <2>1, <2>5, <2>6, <2>7, <2>8 DEF RomTypeOK
<1>3. CASE WithData(m) = {}
  <2>1. addr' = Unset
    BY <1>1, <1>3, ScanResult
  <2>2. \A b \in {0, 1} : b \notin todo' => BlankBlock(m, b)
    BY <1>1, <1>3, ScanErases
  <2> QED
    BY <1>1, <1>2, <2>1, <2>2 DEF Layout, RestLayout, WriteLayout, BootLayout, EraseLayout, BlankBlock
<1>4. CASE WithData(m) # {}
  <2>1. /\ addr' \in Addr /\ addr' # Unset /\ BlankBelow(m, addr') /\ BlockOf(addr') = Chosen(m)
        /\ Chosen(m) \in {0, 1} /\ Good(m, Chosen(m)) # {}
    BY <1>1, <1>4, ScanResult, Blocks DEF WithData
  <2>2. BlockOf(addr') \notin todo'
    BY <1>1, <2>1 DEF BootErases
  <2>3. 1 - BlockOf(addr') \notin todo' => BlankBlock(m, 1 - BlockOf(addr'))
    BY <1>1, <1>4, <2>1, ScanErases
  <2> QED
    BY <1>1, <1>2, <2>1, <2>2, <2>3
    DEF Layout, RestLayout, WriteLayout, BootLayout, EraseLayout, BlankBlock, BlankBelow
<1> QED
  BY <1>3, <1>4

\* Layout and types, over the actions.
LayoutInv == RomTypeOK /\ Layout

USE DEF LayoutInv

LEMMA BootEraseLayout ==
  ASSUME LayoutInv, BootErase
  PROVE  LayoutInv'
<1>1. PICK b \in todo :
        /\ mem' = ErasedBlock(mem, b) /\ todo' = todo \ {b}
        /\ pc' = IF todo' = {} THEN "idle" ELSE "boot"
  BY DEF BootErase
<1>2. pc = "boot" /\ UNCHANGED <<addr, ct, cycle, pend, timer, arg, bare>> /\ BootLayout
  BY DEF BootErase, Layout
<1>3. b \in {0, 1} /\ mem' \in Contents
      /\ \A a \in Addr : mem'[a] = IF BlockOf(a) = b THEN Blank ELSE mem[a]
  BY <1>1, ErasedContents DEF RomTypeOK, Contents
<1>4. RomTypeOK'
  BY <1>1, <1>2, <1>3 DEF RomTypeOK, Contents
<1>5. \A g : g = b \/ BlankBlock(mem, g) => BlankBlock(mem', g)
  BY <1>3 DEF BlankBlock, CellsOf
<1>6. addr # Unset => BlankBelow(mem', addr)
  BY <1>2, <1>3 DEF BlankBelow, CellsOf, BootLayout
<1>7. addr = Unset => \A g \in {0, 1} \ todo' : BlankBlock(mem', g)
  BY <1>1, <1>2, <1>5 DEF BootLayout
<1>8. addr # Unset /\ 1 - BlockOf(addr) \notin todo' => BlankBlock(mem', 1 - BlockOf(addr))
  BY <1>1, <1>2, <1>5 DEF BootLayout
<1>9. BootLayout'
  BY <1>1, <1>2, <1>6, <1>7, <1>8 DEF BootLayout, BlankBlock, BlankBelow
<1>10. todo' = {} => RestLayout'
  BY <1>1, <1>2, <1>6, <1>7, <1>8 DEF BootLayout, RestLayout, BlankBlock, BlankBelow
<1> QED
  BY <1>1, <1>2, <1>4, <1>9, <1>10 DEF Layout

\* Where the next record goes.
LEMMA NextCtAddrFacts ==
  ASSUME addr \in Addr
  PROVE  /\ NextCtAddr \in Addr
         /\ Leaves => IsTop(NextCtAddr) /\ BlockOf(NextCtAddr) = 1 - BlockOf(addr)
         /\ ~Leaves => /\ NextCtAddr = addr - 1 /\ BlockOf(NextCtAddr) = BlockOf(addr)
                       /\ ~IsTop(NextCtAddr)
<1>1. addr # Unset /\ addr \in Int /\ 0 <= addr /\ addr < 2 * Cells
  BY Blocks
<1> QED
  BY <1>1, Constants DEF NextCtAddr, Leaves, IsTop, Addr, BlockOf, Unset

LEMMA FirstCtAddr ==
  ASSUME addr = Unset
  PROVE  NextCtAddr = 2 * Cells - 1 /\ NextCtAddr \in Addr /\ IsTop(NextCtAddr)
         /\ BlockOf(NextCtAddr) = 1 /\ ~Leaves
BY Constants DEF NextCtAddr, Leaves, IsTop, Addr, BlockOf, Unset

\* Blocks 0 and 1 are the block of an address and the other one.
LEMMA BothBlocks ==
  ASSUME NEW m, NEW a \in Addr
  PROVE  /\ BlankBlock(m, BlockOf(a)) /\ BlankBlock(m, 1 - BlockOf(a))
              <=> BlankBlock(m, 0) /\ BlankBlock(m, 1)
         /\ BlankBlock(m, BlockOf(a)) => m[a] = Blank /\ BlankBelow(m, a)
         /\ IsTop(a) /\ BlankBelow(m, a) /\ m[a] = Blank => BlankBlock(m, BlockOf(a))
<1>1. BlockOf(a) = 0 \/ BlockOf(a) = 1
  BY Blocks
<1>2. BlankBlock(m, BlockOf(a)) => m[a] = Blank /\ BlankBelow(m, a)
  BY DEF BlankBlock, BlankBelow, CellsOf
<1>3. ASSUME IsTop(a), NEW b \in CellsOf(BlockOf(a))
      PROVE  b <= a
  BY <1>3, Constants DEF CellsOf, Addr, BlockOf, IsTop, Unset
<1>4. ASSUME IsTop(a), BlankBelow(m, a), m[a] = Blank, NEW b \in CellsOf(BlockOf(a))
      PROVE  m[b] = Blank
  <2>1. b = a \/ b < a
    BY <1>3, <1>4, Blocks DEF CellsOf
  <2> QED
    BY <1>4, <2>1 DEF BlankBelow
<1> QED
  BY <1>1, <1>2, <1>4 DEF BlankBlock

LEMMA ProgramLayout ==
  ASSUME LayoutInv, NEW v \in 0 .. ValueMod - 1, Program(v)
  PROVE  LayoutInv'
<1>1. /\ pc = "idle" /\ timer # "erasing" /\ addr' = NextCtAddr /\ arg' = v
      /\ mem' = mem /\ ct' = ct /\ cycle' = cycle
  BY DEF Program
<1>2. RestLayout /\ ~bare /\ addr \in Addr \cup {Unset}
  BY <1>1 DEF Layout, RomTypeOK
<1>3. CASE addr = Unset
  <2>1. /\ pend' = pend /\ timer' = timer /\ pc' = "write" /\ todo' = todo /\ bare' = bare
        /\ pend = Unset /\ BlankBlock(mem, 0) /\ BlankBlock(mem, 1)
    BY <1>2, <1>3, FirstCtAddr DEF Program, RestLayout
  <2>2. addr' \in Addr /\ addr' # Unset /\ BlockOf(addr') = 1
    BY <1>1, <1>3, FirstCtAddr, Blocks
  <2>3. mem[addr'] = Blank /\ BlankBelow(mem, addr')
    BY <2>1, <2>2, BothBlocks
  <2>4. RomTypeOK'
    BY <1>1, <2>1, <2>2 DEF RomTypeOK
  <2>5. RestLayout' /\ WriteLayout'
    BY <1>1, <1>2, <2>1, <2>2, <2>3 DEF RestLayout, WriteLayout, BlankBlock, BlankBelow
  <2> QED
    BY <1>1, <1>2, <2>1, <2>4, <2>5 DEF Layout
<1>4. CASE addr # Unset /\ ~Leaves
  <2>1. pend' = pend /\ timer' = timer /\ pc' = "write" /\ todo' = todo /\ bare' = bare
    BY <1>4 DEF Program
  <2>2. /\ addr \in Addr /\ addr' \in Addr /\ addr' # Unset /\ addr' = addr - 1
        /\ BlockOf(addr') = BlockOf(addr) /\ ~IsTop(addr')
    BY <1>1, <1>2, <1>4, NextCtAddrFacts, Blocks
  <2>3. mem[addr'] = Blank /\ BlankBelow(mem, addr')
    BY <1>2, <1>4, <2>2, Blocks DEF RestLayout, BlankBelow, CellsOf
  <2>4. RomTypeOK'
    BY <1>1, <2>1, <2>2 DEF RomTypeOK
  <2>5. RestLayout' /\ WriteLayout'
    BY <1>1, <1>2, <1>4, <2>1, <2>2, <2>3 DEF RestLayout, WriteLayout, BlankBlock, BlankBelow
  <2> QED
    BY <1>1, <1>2, <2>1, <2>4, <2>5 DEF Layout
<1>5. CASE addr # Unset /\ Leaves /\ pend = Unset
  <2>1. pend' = addr /\ timer' = "armed" /\ pc' = "write" /\ todo' = todo /\ bare' = bare
    BY <1>5 DEF Program
  <2>2. /\ addr \in Addr /\ addr' \in Addr /\ addr' # Unset
        /\ BlockOf(addr') = 1 - BlockOf(addr) /\ BlockOf(addr) = 1 - BlockOf(addr')
    BY <1>1, <1>2, <1>5, NextCtAddrFacts, Blocks
  <2>3. mem[addr'] = Blank /\ BlankBelow(mem, addr')
    BY <1>2, <1>5, <2>2, BothBlocks DEF RestLayout
  <2>4. RomTypeOK'
    BY <1>1, <2>1, <2>2 DEF RomTypeOK
  <2>5. RestLayout' /\ WriteLayout'
    BY <1>1, <1>2, <1>5, <2>1, <2>2, <2>3 DEF RestLayout, WriteLayout, BlankBlock, BlankBelow
  <2> QED
    BY <1>1, <1>2, <2>1, <2>4, <2>5 DEF Layout
<1>6. CASE addr # Unset /\ Leaves /\ pend # Unset
  <2>1. /\ todo' = {BlockOf(addr), BlockOf(pend)} /\ pc' = "erase" /\ bare' = TRUE
        /\ pend' = pend /\ timer' = timer
    BY <1>6 DEF Program
  <2>2. /\ addr \in Addr /\ addr' \in Addr /\ IsTop(addr') /\ BlockOf(addr) \in {0, 1}
        /\ BlockOf(addr') = 1 - BlockOf(addr) /\ BlockOf(pend) = BlockOf(addr')
    BY <1>1, <1>2, <1>6, NextCtAddrFacts, Blocks DEF RestLayout
  <2>3. RomTypeOK'
    BY <1>1, <2>1, <2>2 DEF RomTypeOK
  <2>4. EraseLayout'
    BY <1>6, <2>1, <2>2 DEF EraseLayout, IsTop
  <2> QED
    BY <1>1, <2>1, <2>3, <2>4 DEF Layout
<1> QED
  BY <1>3, <1>4, <1>5, <1>6

LEMMA ProgramEraseLayout ==
  ASSUME LayoutInv, ProgramErase
  PROVE  LayoutInv'
<1> DEFINE left == 1 - BlockOf(addr)
<1>1. /\ pc = "erase" /\ timer # "erasing"
      /\ UNCHANGED <<addr, ct, cycle, timer, arg, bare>>
      /\ pc' = IF todo' = {} THEN "write" ELSE "erase"
      /\ pend' = IF todo' = {} THEN Unset ELSE pend
  BY DEF ProgramErase
<1>2. EraseLayout /\ mem \in Contents /\ addr \in Addr /\ addr # Unset
  <2>1. EraseLayout
    BY <1>1 DEF Layout
  <2>2. addr # Unset
    BY <2>1, Constants DEF EraseLayout, IsTop, Unset
  <2> QED
    BY <2>1, <2>2 DEF RomTypeOK, Contents
<1>3. left \in {0, 1} /\ BlockOf(addr) \in {0, 1} /\ left # BlockOf(addr)
  BY <1>2, Blocks
<1>4. CASE left \in todo
  <2>1. mem' = ErasedBlock(mem, left) /\ todo' = todo \ {left} /\ BlockOf(addr) \in todo'
    BY <1>2, <1>3, <1>4 DEF ProgramErase, EraseLayout
  <2>2. mem' \in Contents /\ \A a \in Addr : mem'[a] = IF BlockOf(a) = left THEN Blank ELSE mem[a]
    BY <1>2, <2>1, ErasedContents
  <2>3. BlankBlock(mem', left) /\ \A b : BlankBlock(mem, b) => BlankBlock(mem', b)
    BY <2>2 DEF BlankBlock, CellsOf
  <2>4. RomTypeOK'
    BY <1>1, <2>1, <2>2 DEF RomTypeOK, Contents
  <2>5. pc' = "erase" /\ pend' = pend
    BY <1>1, <2>1
  <2>6. EraseLayout'
    BY <1>1, <1>2, <2>1, <2>3, <2>5 DEF EraseLayout, BlankBlock, IsTop
  <2> QED
    BY <1>1, <2>4, <2>5, <2>6 DEF Layout
<1>5. CASE left \notin todo
  <2>1. /\ mem' = ErasedBlock(mem, BlockOf(pend)) /\ todo' = {} /\ pc' = "write" /\ pend' = Unset
        /\ BlankBlock(mem, left)
    BY <1>1, <1>2, <1>5 DEF ProgramErase, EraseLayout
  <2>2. /\ mem' \in Contents
        /\ \A a \in Addr : mem'[a] = IF BlockOf(a) = BlockOf(pend) THEN Blank ELSE mem[a]
    BY <1>2, <2>1, ErasedContents
  <2>3. BlankBlock(mem', left) /\ BlankBlock(mem', BlockOf(addr))
    BY <1>2, <2>1, <2>2 DEF BlankBlock, CellsOf, EraseLayout
  <2>4. BlankBlock(mem', 0) /\ BlankBlock(mem', 1) /\ mem'[addr] = Blank /\ BlankBelow(mem', addr)
    BY <1>2, <2>3, BothBlocks
  <2>5. RomTypeOK'
    BY <1>1, <2>1, <2>2 DEF RomTypeOK, Contents
  <2>6. RestLayout' /\ WriteLayout'
    BY <1>1, <1>2, <2>1, <2>3, <2>4
    DEF RestLayout, WriteLayout, EraseLayout, BlankBlock, BlankBelow
  <2> QED
    BY <1>1, <2>1, <2>5, <2>6 DEF Layout
<1> QED
  BY <1>4, <1>5

LEMMA WriteKeepsLayout ==
  ASSUME LayoutInv, Write
  PROVE  LayoutInv'
<1>1. /\ pc = "write" /\ timer # "erasing" /\ pc' = "idle" /\ bare' = FALSE
      /\ ct' = arg /\ cycle' = NextCycle
      /\ UNCHANGED <<addr, pend, timer, todo, arg>>
      /\ mem' = [mem EXCEPT ![addr] = Written(mem[addr], Record(arg, NextCycle))]
  BY DEF Write
<1>2. RestLayout /\ WriteLayout
  BY <1>1 DEF Layout
<1>3. addr # Unset /\ addr \in Addr /\ mem \in Contents
  BY <1>1, <1>2 DEF RestLayout, RomTypeOK, Contents
<1>4. Record(arg, NextCycle) \in Records /\ NextCycle \in 0 .. CycleMod - 1
  BY Constants, Increment DEF RomTypeOK, Records, NextCycle
<1>5. mem' \in Contents /\ \A a \in Addr : a # addr => mem'[a] = mem[a]
  BY <1>1, <1>2, <1>3, <1>4 DEF Contents, Written, WriteLayout
<1>6. BlankBelow(mem', addr)
      /\ (BlankBlock(mem, 1 - BlockOf(addr)) => BlankBlock(mem', 1 - BlockOf(addr)))
  BY <1>2, <1>3, <1>5, Blocks DEF BlankBelow, BlankBlock, CellsOf, RestLayout
<1>7. RomTypeOK'
  BY <1>1, <1>4, <1>5 DEF RomTypeOK, Contents
<1>8. RestLayout'
  BY <1>1, <1>2, <1>3, <1>6 DEF RestLayout, BlankBelow, BlankBlock
<1> QED
  BY <1>1, <1>7, <1>8 DEF Layout

LEMMA TimerLayout ==
  ASSUME LayoutInv, TimerCallback \/ PostWorkBegin
  PROVE  LayoutInv'
<1>1. UNCHANGED <<mem, addr, ct, cycle, pend, pc, todo, arg, bare>>
  BY DEF TimerCallback, PostWorkBegin
<1>2. timer' \in {"off", "work", "erasing"} /\ (timer' = "erasing" => pend # Unset)
  BY DEF TimerCallback, PostWorkBegin
<1>3. RomTypeOK'
  BY <1>1, <1>2 DEF RomTypeOK
<1>4. pc = "boot" => FALSE
  BY DEF TimerCallback, PostWorkBegin, Layout, BootLayout
<1>5. pc = "write" => WriteLayout'
  BY <1>1 DEF TimerCallback, PostWorkBegin, JustArmed, Layout, WriteLayout, BlankBlock, IsTop
<1>6. pc \in {"idle", "write"} => RestLayout'
  BY <1>1 DEF Layout, RestLayout, BlankBlock, BlankBelow
<1>7. pc = "erase" => EraseLayout'
  BY <1>1 DEF Layout, EraseLayout, BlankBlock, IsTop
<1> QED
  BY <1>1, <1>2, <1>3, <1>4, <1>5, <1>6, <1>7 DEF Layout

LEMMA PostWorkEraseLayout ==
  ASSUME LayoutInv, PostWorkErase
  PROVE  LayoutInv'
<1>1. /\ timer = "erasing" /\ mem' = ErasedBlock(mem, BlockOf(pend))
      /\ pend' = Unset /\ timer' = "off" /\ UNCHANGED <<addr, ct, cycle, pc, todo, arg, bare>>
  BY DEF PostWorkErase
<1>2. pend # Unset /\ mem \in Contents /\ pc # "boot"
  BY <1>1 DEF Layout, BootLayout, RomTypeOK, Contents
<1>3. /\ mem' \in Contents
      /\ \A a \in Addr : mem'[a] = IF BlockOf(a) = BlockOf(pend) THEN Blank ELSE mem[a]
  BY <1>1, <1>2, ErasedContents
<1>4. BlankBlock(mem', BlockOf(pend)) /\ \A b : BlankBlock(mem, b) => BlankBlock(mem', b)
  BY <1>3 DEF BlankBlock, CellsOf
<1>5. \A a : BlankBelow(mem, a) => BlankBelow(mem', a)
  BY <1>3 DEF BlankBelow, CellsOf
<1>6. RomTypeOK'
  BY <1>1, <1>3 DEF RomTypeOK, Contents
<1>7. pc \in {"idle", "write"} => RestLayout'
  BY <1>1, <1>2, <1>4, <1>5 DEF Layout, RestLayout, BlankBlock, BlankBelow
<1>8. pc = "write" => WriteLayout'
  BY <1>1, <1>2, <1>3, <1>4 DEF Layout, RestLayout, WriteLayout, BlankBlock, RomTypeOK
<1>9. pc = "erase" => EraseLayout'
  BY <1>1, <1>2, <1>4 DEF Layout, EraseLayout, BlankBlock, IsTop
<1> QED
  BY <1>1, <1>2, <1>6, <1>7, <1>8, <1>9 DEF Layout

LEMMA PowerLossLayout ==
  ASSUME LayoutInv, RomPowerLoss
  PROVE  LayoutInv'
<1>1. PICK m \in Remains : Scan(m)
  BY DEF RomPowerLoss
<1> QED
  BY <1>1, RemainsContents, ScanLayout

LEMMA LayoutInit ==
  ASSUME RomInit
  PROVE  LayoutInv
<1>1. mem \in Contents /\ \A b : BlankBlock(mem, b)
  BY DEF RomInit, Contents, Records, BlankBlock, CellsOf
<1>2. bare \in BOOLEAN
  BY Zenon DEF RomInit
<1>3. RomTypeOK
  BY <1>1, <1>2, Constants DEF RomInit, RomTypeOK, Contents
<1> QED
  BY <1>1, <1>3 DEF RomInit, Layout, RestLayout

LEMMA LayoutStep ==
  ASSUME LayoutInv, [RomNext]_romVars
  PROVE  LayoutInv'
<1>1. CASE BootErase
  BY <1>1, BootEraseLayout
<1>2. CASE IncreaseCount \/ Provision
  <2>1. (ct + 1) % ValueMod \in 0 .. ValueMod - 1 /\ 0 \in 0 .. ValueMod - 1
    BY Constants, Increment DEF RomTypeOK
  <2> QED
    BY <1>2, <2>1, ProgramLayout DEF IncreaseCount, Provision
<1>3. CASE ProgramErase
  BY <1>3, ProgramEraseLayout
<1>4. CASE Write
  BY <1>4, WriteKeepsLayout
<1>5. CASE TimerCallback \/ PostWorkBegin
  BY <1>5, TimerLayout
<1>6. CASE PostWorkErase
  BY <1>6, PostWorkEraseLayout
<1>7. CASE RomPowerLoss
  BY <1>7, PowerLossLayout
<1>8. CASE UNCHANGED romVars
  BY <1>8 DEF romVars, RomTypeOK, Layout, RestLayout, WriteLayout, BootLayout, EraseLayout,
              BlankBlock, BlankBelow, IsTop
<1> QED
  BY <1>1, <1>2, <1>3, <1>4, <1>5, <1>6, <1>7, <1>8 DEF RomNext

\* Records go to erased flash only, for every size of the blocks, wherever power fails
\* in the erases and writes of _mc_program, _mc_init and the deferred work.
THEOREM WritesErasedHolds == RomSpec => []WritesErased
<1>1. LayoutInv => WritesErased
  BY DEF Layout, WriteLayout, WritesErased
<1> QED
  BY <1>1, LayoutInit, LayoutStep, PTL DEF RomSpec
-----------------------------------------------------------------------------
(* Which record is the newest.                                             *)

Offset(a) == IF a < Cells THEN a ELSE a - Cells

\* Records between a and the newest one possible, when the newest is in block f.
Pos(a, f) == Offset(a) + (IF BlockOf(a) = f THEN 0 ELSE Cells)

\* Record r was written before the count v of cycle c, at most k cycles ago.
Behind(r, v, c, k) ==
  LET d == IF r.cycle <= c THEN c - r.cycle ELSE c - r.cycle + CycleMod
  IN  d <= k /\ (d = 0 => r.value < v)

\* Block f holds the count v of cycle c, and every other record is older.
Newest(m, f, v, c) ==
  \E x \in Good(m, f) :
    /\ m[x] = Record(v, c)
    /\ \A b \in Addr \ {x} : m[b].st = "ok" =>
         Pos(x, f) < Pos(b, f) /\ Behind(m[b], v, c, Pos(b, f) - Pos(x, f))

\* The block of the last record written.
Current == IF pc = "write" /\ IsTop(addr) THEN 1 - BlockOf(addr) ELSE BlockOf(addr)


LEMMA Positions ==
  ASSUME NEW a \in Addr, NEW f \in {0, 1}
  PROVE  /\ Offset(a) \in 0 .. Cells - 1
         /\ Pos(a, f) \in Int /\ 0 <= Pos(a, f) /\ Pos(a, f) <= 2 * Cells - 1
         /\ BlockOf(a) = f => Pos(a, f) = Offset(a)
         /\ BlockOf(a) # f => Pos(a, f) = Offset(a) + Cells
BY Blocks, Constants DEF Offset, Pos

\* _mc_init prefers the newer of two records of the store, across the wrap of the cycle.
LEMMA SupersedesNewer ==
  ASSUME NEW r \in Records, r.st = "ok", NEW v \in 0 .. ValueMod - 1, NEW c \in 0 .. CycleMod - 1,
         NEW k \in Int, k <= 2 * Cells - 1, Behind(r, v, c, k)
  PROVE  Supersedes(Record(v, c), r) /\ ~Supersedes(r, Record(v, c))
<1>1. /\ r.value \in 0 .. ValueMod - 1 /\ r.cycle \in 0 .. CycleMod - 1
      /\ Record(v, c).value = v /\ Record(v, c).cycle = c
  BY Kinds
<1> QED
  BY <1>1, Constants DEF Supersedes, Behind

\* The scan finds the newest record.
LEMMA NewestFound ==
  ASSUME NEW m \in Contents, NEW f \in {0, 1}, NEW v \in 0 .. ValueMod - 1,
         NEW c \in 0 .. CycleMod - 1, Newest(m, f, v, c)
  PROVE  /\ WithData(m) # {} /\ Chosen(m) = f
         /\ Found(m) = [value |-> v, cycle |-> c]
<1>1. PICK x \in Good(m, f) :
        /\ m[x] = Record(v, c)
        /\ \A b \in Addr \ {x} : m[b].st = "ok" =>
             Pos(x, f) < Pos(b, f) /\ Behind(m[b], v, c, Pos(b, f) - Pos(x, f))
  BY DEF Newest
<1>2. f \in WithData(m) /\ x \in Addr /\ BlockOf(x) = f
  BY DEF WithData, Good, CellsOf
<1>3. ASSUME NEW b \in Good(m, f)
      PROVE  x <= b
  <2>1. b \in Addr /\ BlockOf(b) = f /\ m[b].st = "ok"
    BY <1>3 DEF Good, CellsOf
  <2>2. CASE b # x
    <3>1. Pos(x, f) < Pos(b, f)
      BY <1>1, <2>1, <2>2
    <3> QED
      BY <1>2, <2>1, <3>1, Blocks, Constants DEF Pos, Offset
  <2> QED
    BY <1>2, <2>2, Blocks
<1>4. LowestOf(Good(m, f)) = x
  <2>1. LowestOf(Good(m, f)) \in Good(m, f) /\ LowestOf(Good(m, f)) <= x
    BY LowestIsLeast DEF Good, CellsOf
  <2> QED
    BY <1>2, <1>3, <2>1, Blocks DEF Good, CellsOf
<1>5. Latest(m, f) = Record(v, c)
  BY <1>1, <1>4 DEF Latest
<1>6. ASSUME WithData(m) # {0, 1}
      PROVE  Chosen(m) = f
  <2>1. WithData(m) = {f}
    BY <1>2, <1>6 DEF WithData
  <2> QED
    BY <1>6, <2>1 DEF Chosen
<1>7. ASSUME WithData(m) = {0, 1}
      PROVE  Chosen(m) = f
  <2> DEFINE g == 1 - f
             y == LowestOf(Good(m, g))
  <2>1. g \in {0, 1} /\ g # f /\ Good(m, g) # {}
    BY <1>7 DEF WithData
  <2>2. y \in Good(m, g)
    BY <2>1, LowestIsLeast DEF Good, CellsOf
  <2>3. y \in Addr /\ m[y].st = "ok" /\ y # x
    BY <1>2, <2>1, <2>2 DEF Good, CellsOf
  <2>4. Behind(m[y], v, c, Pos(y, f) - Pos(x, f))
    BY <1>1, <2>3
  <2>5. Pos(y, f) - Pos(x, f) \in Int /\ Pos(y, f) - Pos(x, f) <= 2 * Cells - 1
    BY <1>2, <2>3, Positions, Constants
  <2>6. m[y] \in Records
    BY <2>3 DEF Contents
  <2>7. Supersedes(Record(v, c), m[y]) /\ ~Supersedes(m[y], Record(v, c))
    BY <2>3, <2>4, <2>5, <2>6, SupersedesNewer
  <2> QED
    BY <1>5, <1>7, <2>7 DEF Chosen, Latest
<1>8. Chosen(m) = f
  BY <1>6, <1>7
<1> QED
  BY <1>2, <1>5, <1>8, Kinds DEF Found

\* Losing or tearing records leaves the newest one the newest, if it is kept itself.
LEMMA NewestKept ==
  ASSUME NEW m \in Contents, NEW m2 \in Contents, NEW f, NEW v, NEW c, Newest(m, f, v, c),
         \A a \in Addr : m2[a].st = "ok" => m2[a] = m[a],
         \A a \in CellsOf(f) : m2[a] = m[a] \/ m[a].st # "ok"
  PROVE  Newest(m2, f, v, c)
<1>1. PICK x \in Good(m, f) :
        /\ m[x] = Record(v, c)
        /\ \A b \in Addr \ {x} : m[b].st = "ok" =>
             Pos(x, f) < Pos(b, f) /\ Behind(m[b], v, c, Pos(b, f) - Pos(x, f))
  BY DEF Newest
<1>2. x \in Good(m2, f) /\ m2[x] = Record(v, c)
  BY <1>1, Kinds DEF Good
<1>3. \A b \in Addr \ {x} : m2[b].st = "ok" =>
        Pos(x, f) < Pos(b, f) /\ Behind(m2[b], v, c, Pos(b, f) - Pos(x, f))
  BY <1>1
<1> QED
  BY <1>2, <1>3 DEF Newest

\* The count after v of cycle c.
NextCount(v, c, v2, c2) ==
  \/ v2 = 0 /\ c2 = (c + 1) % CycleMod
  \/ v2 = v + 1 /\ c2 = c

\* One count later a record is at most one cycle further behind.
LEMMA BehindNext ==
  ASSUME NEW r \in Records, r.st = "ok",
         NEW v \in 0 .. ValueMod - 1, NEW c \in 0 .. CycleMod - 1,
         NEW v2 \in 0 .. ValueMod - 1, NEW c2 \in 0 .. CycleMod - 1, NextCount(v, c, v2, c2),
         NEW k \in Int, NEW k2 \in Int, k <= 2 * Cells - 1, k < k2, 0 < k2,
         r = Record(v, c) \/ Behind(r, v, c, k)
  PROVE  Behind(r, v2, c2, k2)
<1>1. r.value \in 0 .. ValueMod - 1 /\ r.cycle \in 0 .. CycleMod - 1
  BY Kinds
<1>2. (c + 1) % CycleMod = IF c + 1 < CycleMod THEN c + 1 ELSE 0
  BY Constants, Increment
<1>3. CASE r = Record(v, c)
  <2>1. r.value = v /\ r.cycle = c
    BY <1>3, Kinds
  <2> QED
    BY <1>1, <1>2, <2>1, Constants DEF Behind, NextCount
<1>4. CASE Behind(r, v, c, k)
  BY <1>1, <1>2, <1>4, Constants DEF Behind, NextCount
<1> QED
  BY <1>3, <1>4

\* A record written after the newest one is the newest, in its own block.
LEMMA NewestAdded ==
  ASSUME NEW m \in Contents, NEW a \in Addr, NEW f \in {0, 1},
         NEW v \in 0 .. ValueMod - 1, NEW c \in 0 .. CycleMod - 1, Newest(m, f, v, c),
         NEW v2 \in 0 .. ValueMod - 1, NEW c2 \in 0 .. CycleMod - 1, NextCount(v, c, v2, c2),
         m[a] = Blank,
         \/ BlockOf(a) = f /\ BlankBelow(m, a)
         \/ BlockOf(a) = 1 - f /\ IsTop(a) /\ BlankBlock(m, BlockOf(a)),
         NEW m2, m2 = [m EXCEPT ![a] = Record(v2, c2)]
  PROVE  Newest(m2, BlockOf(a), v2, c2)
<1> DEFINE g == BlockOf(a)
<1>1. PICK x \in Good(m, f) :
        /\ m[x] = Record(v, c)
        /\ \A b \in Addr \ {x} : m[b].st = "ok" =>
             Pos(x, f) < Pos(b, f) /\ Behind(m[b], v, c, Pos(b, f) - Pos(x, f))
  BY DEF Newest
<1>2. x \in Addr /\ BlockOf(x) = f /\ m[x].st = "ok" /\ g \in {0, 1}
  BY <1>1, Blocks DEF Good, CellsOf
<1>3. m2[a] = Record(v2, c2) /\ \A b \in Addr \ {a} : m2[b] = m[b]
  BY DEF Contents
<1>4. a \in Good(m2, g)
  BY <1>3, Kinds DEF Good, CellsOf
<1>5. ASSUME NEW b \in Addr \ {a}, m2[b].st = "ok"
      PROVE  Pos(a, g) < Pos(b, g) /\ Behind(m2[b], v2, c2, Pos(b, g) - Pos(a, g))
  <2> DEFINE k == Pos(b, f) - Pos(x, f)
             k2 == Pos(b, g) - Pos(a, g)
  <2>1. m2[b] = m[b] /\ m[b] \in Records /\ m[b].st = "ok" /\ m[b] # Blank
    BY <1>3, <1>5, Kinds DEF Contents
  <2>2. b = x \/ (Pos(x, f) < Pos(b, f) /\ Behind(m[b], v, c, k))
    BY <1>1, <2>1
  <2>3. BlockOf(a) = f => ~(BlockOf(b) = f /\ b < a) /\ ~(x < a)
    BY <1>1, <1>2, <2>1, Kinds DEF BlankBelow, BlankBlock, CellsOf, Good
  <2>4. BlockOf(a) # f => BlockOf(b) = f /\ IsTop(a)
    BY <2>1, Blocks DEF BlankBlock, CellsOf
  <2>5. x # a
    BY <1>2, Kinds
  <2>6. k \in Int /\ k2 \in Int /\ k <= 2 * Cells - 1
    BY <1>2, Positions, Constants
  <2>7. k < k2 /\ 0 < k2
    <3>1. CASE BlockOf(a) = f
      BY <1>2, <1>5, <2>2, <2>3, <2>5, <3>1, Blocks, Constants DEF Pos, Offset
    <3>2. CASE BlockOf(a) # f
      BY <1>2, <2>2, <2>4, <3>2, Blocks, Constants DEF Pos, Offset, IsTop
    <3> QED
      BY <3>1, <3>2
  <2>8. Behind(m[b], v2, c2, k2)
    BY <1>1, <2>1, <2>2, <2>6, <2>7, BehindNext
  <2>9. Pos(a, g) \in Int /\ Pos(b, g) \in Int
    BY <1>2, Positions
  <2> QED
    BY <2>1, <2>7, <2>8, <2>9
<1> QED
  BY <1>3, <1>4, <1>5 DEF Newest

\* The first record of all is the newest.
LEMMA NewestFirst ==
  ASSUME NEW m \in Contents, NEW a \in Addr, WithData(m) = {}, NEW v2, NEW c2,
         NEW m2, m2 = [m EXCEPT ![a] = Record(v2, c2)]
  PROVE  Newest(m2, BlockOf(a), v2, c2)
<1>1. \A b \in Addr : m[b].st # "ok"
  BY Blocks DEF WithData, Good, CellsOf
<1>2. m2[a] = Record(v2, c2) /\ \A b \in Addr \ {a} : m2[b] = m[b]
  BY DEF Contents
<1>3. a \in Good(m2, BlockOf(a))
  BY <1>2, Kinds DEF Good, CellsOf
<1> QED
  BY <1>1, <1>2, <1>3 DEF Newest
-----------------------------------------------------------------------------
(* The cached counter is the newest record.                                *)

\* The records say v of cycle c: none at all, or the newest one is in block f.
Holds(m, f, v, c) ==
  \/ WithData(m) = {} /\ v = 0 /\ c = 0
  \/ f \in {0, 1} /\ Newest(m, f, v, c)

CacheInv ==
  /\ pc \in {"erase", "write"} => arg \in {0, (ct + 1) % ValueMod}
  /\ ~bare => Holds(mem, Current, ct, cycle)

StoreInv == LayoutInv /\ CacheInv

LEMMA HoldsFound ==
  ASSUME NEW m \in Contents, NEW f, NEW v \in 0 .. ValueMod - 1, NEW c \in 0 .. CycleMod - 1,
         Holds(m, f, v, c)
  PROVE  /\ Found(m) = [value |-> v, cycle |-> c]
         /\ WithData(m) # {} => Chosen(m) = f
<1>1. CASE WithData(m) = {} /\ v = 0 /\ c = 0
  BY <1>1 DEF Found
<1>2. CASE f \in {0, 1} /\ Newest(m, f, v, c)
  BY <1>2, NewestFound
<1> QED
  BY <1>1, <1>2 DEF Holds

LEMMA HoldsKept ==
  ASSUME NEW m \in Contents, NEW m2 \in Contents, NEW f, NEW v, NEW c, Holds(m, f, v, c),
         \A a \in Addr : m2[a].st = "ok" => m2[a] = m[a],
         \A a \in CellsOf(f) : m2[a] = m[a] \/ m[a].st # "ok"
  PROVE  Holds(m2, f, v, c)
<1>1. CASE WithData(m) = {} /\ v = 0 /\ c = 0
  <2>1. WithData(m2) = {}
    BY <1>1 DEF WithData, Good, CellsOf
  <2> QED
    BY <1>1, <2>1 DEF Holds
<1>2. CASE f \in {0, 1} /\ Newest(m, f, v, c)
  BY <1>2, NewestKept DEF Holds
<1> QED
  BY <1>1, <1>2 DEF Holds

\* A power-up finds the count that the records hold.
LEMMA HoldsScan ==
  ASSUME NEW m \in Contents, NEW f, NEW v \in 0 .. ValueMod - 1, NEW c \in 0 .. CycleMod - 1,
         Holds(m, f, v, c), Scan(m)
  PROVE  StoreInv' /\ ct' = v /\ cycle' = c
<1>1. LayoutInv'
  BY ScanLayout
<1>2. /\ mem' = m /\ addr' = FoundCtAddr(m) /\ bare' = FALSE /\ pc' \in {"idle", "boot"}
      /\ ct' = v /\ cycle' = c
  BY HoldsFound DEF Scan
<1>3. Current' = BlockOf(addr')
  BY <1>2 DEF Current, IsTop
<1>4. Holds(m, BlockOf(addr'), v, c)
  <2>1. CASE WithData(m) = {}
    <3>1. Found(m) = [value |-> v, cycle |-> c] /\ Found(m) = [value |-> 0, cycle |-> 0]
      BY <2>1, HoldsFound DEF Found
    <3>2. v = 0 /\ c = 0
      BY <3>1
    <3> QED
      BY <2>1, <3>2 DEF Holds
  <2>2. CASE WithData(m) # {}
    <3>1. BlockOf(addr') = f
      BY <1>2, <2>2, HoldsFound, ScanResult
    <3> QED
      BY <3>1
  <2> QED
    BY <2>1, <2>2
<1>5. CacheInv'
  BY <1>2, <1>3, <1>4 DEF CacheInv
<1> QED
  BY <1>1, <1>2, <1>5 DEF StoreInv

\* What Write leaves behind, whether or not power fails right after it.
LEMMA HoldsWritten ==
  ASSUME StoreInv, pc = "write",
         NEW m2, m2 = [mem EXCEPT ![addr] = Written(mem[addr], Record(arg, NextCycle))]
  PROVE  /\ Holds(m2, BlockOf(addr), arg, NextCycle) /\ m2 \in Contents
         /\ arg \in 0 .. ValueMod - 1 /\ NextCycle \in 0 .. CycleMod - 1
         /\ NextCount(ct, cycle, arg, NextCycle)
<1>1. /\ mem \in Contents /\ addr \in Addr /\ mem[addr] = Blank
      /\ RestLayout /\ WriteLayout /\ BlankBelow(mem, addr)
  BY DEF StoreInv, Layout, RestLayout, WriteLayout, RomTypeOK, Contents
<1>2. /\ arg \in 0 .. ValueMod - 1 /\ ct \in 0 .. ValueMod - 1
      /\ cycle \in 0 .. CycleMod - 1 /\ NextCycle \in 0 .. CycleMod - 1
      /\ arg \in {0, (ct + 1) % ValueMod}
  BY Constants, Increment DEF StoreInv, RomTypeOK, NextCycle, CacheInv
<1>3. NextCount(ct, cycle, arg, NextCycle)
  <2>1. (ct + 1) % ValueMod = IF ct + 1 < ValueMod THEN ct + 1 ELSE 0
    BY <1>2, Constants, Increment
  <2> QED
    BY <1>2, <2>1 DEF NextCount, NextCycle
<1>4. m2 = [mem EXCEPT ![addr] = Record(arg, NextCycle)] /\ m2 \in Contents
  BY <1>1, <1>2 DEF Written, Contents, Records
<1>5. BlockOf(addr) \in {0, 1} /\ 1 - BlockOf(addr) \in {0, 1}
  BY <1>1, Blocks
<1>6. CASE WithData(mem) = {}
  BY <1>1, <1>2, <1>3, <1>4, <1>5, <1>6, NewestFirst DEF Holds
<1>7. CASE WithData(mem) # {}
  <2>1. ~bare
    BY <1>1, <1>7, Kinds DEF WriteLayout, BlankBlock, WithData, Good
  <2>2. Current \in {0, 1} /\ Newest(mem, Current, ct, cycle)
    BY <1>7, <2>1 DEF StoreInv, CacheInv, Holds
  <2>3. \/ BlockOf(addr) = Current /\ BlankBelow(mem, addr)
        \/ BlockOf(addr) = 1 - Current /\ IsTop(addr) /\ BlankBlock(mem, BlockOf(addr))
    BY <1>1, <1>5, BothBlocks DEF Current
  <2>4. Newest(m2, BlockOf(addr), arg, NextCycle)
    BY <1>1, <1>2, <1>3, <1>4, <2>2, <2>3, NewestAdded
  <2> QED
    BY <1>2, <1>3, <1>4, <1>5, <2>4 DEF Holds
<1> QED
  BY <1>6, <1>7

LEMMA WriteStores ==
  ASSUME StoreInv, Write
  PROVE  StoreInv'
<1>1. /\ pc = "write" /\ ct' = arg /\ cycle' = NextCycle /\ pc' = "idle" /\ bare' = FALSE
      /\ mem' = [mem EXCEPT ![addr] = Written(mem[addr], Record(arg, NextCycle))]
      /\ addr' = addr
  BY DEF Write
<1>2. Holds(mem', BlockOf(addr), arg, NextCycle)
  BY <1>1, HoldsWritten
<1>3. Current' = BlockOf(addr)
  BY <1>1 DEF Current, IsTop
<1> QED
  BY <1>1, <1>2, <1>3, WriteKeepsLayout DEF StoreInv, CacheInv

LEMMA ProgramStores ==
  ASSUME StoreInv, NEW v \in {0, (ct + 1) % ValueMod}, Program(v)
  PROVE  StoreInv'
<1>1. v \in 0 .. ValueMod - 1
  BY Constants, Increment DEF StoreInv, RomTypeOK
<1>2. LayoutInv'
  BY <1>1, ProgramLayout DEF StoreInv
<1>3. /\ pc = "idle" /\ arg' = v /\ mem' = mem /\ ct' = ct /\ cycle' = cycle
      /\ addr' = NextCtAddr /\ Current = BlockOf(addr)
  BY DEF Program, Current
<1>4. ASSUME ~bare'
      PROVE  Holds(mem, Current', ct, cycle)
  <2>1. pc' = "write" /\ ~bare
    BY <1>3, <1>4 DEF Program, StoreInv, Layout
  <2>2. Holds(mem, BlockOf(addr), ct, cycle)
    BY <1>3, <2>1 DEF StoreInv, CacheInv
  <2>3. CASE addr = Unset
    BY <2>2, <2>3 DEF Holds, BlockOf, Unset
  <2>4. CASE addr # Unset
    <3>1. addr \in Addr
      BY <2>4 DEF StoreInv, RomTypeOK
    <3>2. BlockOf(addr) \in {0, 1}
      BY <3>1, Blocks
    <3>3. Current' = BlockOf(addr)
      BY <1>3, <2>1, <3>1, <3>2, NextCtAddrFacts DEF Current, IsTop
    <3> QED
      BY <2>2, <3>3
  <2> QED
    BY <2>3, <2>4
<1> QED
  BY <1>2, <1>3, <1>4 DEF StoreInv, CacheInv

\* Erasing the block that is not the current one.
LEMMA EraseOther ==
  ASSUME NEW m \in Contents, NEW f, NEW b, b # f, NEW v, NEW c, Holds(m, f, v, c)
  PROVE  /\ Holds(ErasedBlock(m, b), f, v, c)
         /\ \A m2 \in PartlyErased(m, b) : Holds(m2, f, v, c)
<1>1. Holds(ErasedBlock(m, b), f, v, c)
  <2> DEFINE e == ErasedBlock(m, b)
  <2>1. e \in Contents /\ \A a \in Addr : e[a] = IF BlockOf(a) = b THEN Blank ELSE m[a]
    BY ErasedContents
  <2>2. \A a \in Addr : e[a].st = "ok" => e[a] = m[a]
    BY <2>1, Kinds
  <2>3. \A a \in CellsOf(f) : e[a] = m[a]
    BY <2>1 DEF CellsOf
  <2> HIDE DEF e
  <2> QED
    BY <2>1, <2>2, <2>3, HoldsKept DEF e
<1>2. ASSUME NEW m2 \in PartlyErased(m, b)
      PROVE  Holds(m2, f, v, c)
  <2>1. /\ m2 \in Contents /\ \A a \in Addr : BlockOf(a) # b => m2[a] = m[a]
        /\ \A a \in Addr : m2[a] \in {m[a], Blank, Torn}
    BY PartlyErasedContents
  <2>2. \A a \in Addr : m2[a].st = "ok" => m2[a] = m[a]
    BY <2>1, Kinds
  <2>3. \A a \in CellsOf(f) : m2[a] = m[a]
    BY <2>1 DEF CellsOf
  <2> QED
    BY <2>1, <2>2, <2>3, HoldsKept
<1> QED
  BY <1>1, <1>2

\* The erase of a boot and the deferred one never touch the current block.
LEMMA OtherBlock ==
  ASSUME StoreInv, ~bare
  PROVE  /\ pc = "boot" => \A b \in todo : b # Current
         /\ timer = "erasing" => BlockOf(pend) # Current
<1>1. ASSUME pc = "boot", NEW b \in todo
      PROVE  b # Current
  BY <1>1 DEF StoreInv, Layout, BootLayout, Current, RomTypeOK, BlockOf, Unset
<1>2. ASSUME timer = "erasing"
      PROVE  BlockOf(pend) # Current
  <2>1. pend # Unset /\ pc \in {"idle", "write"}
    BY <1>2 DEF StoreInv, Layout, BootLayout, EraseLayout, RomTypeOK
  <2>2. addr # Unset /\ BlockOf(pend) = 1 - BlockOf(addr)
    BY <2>1 DEF StoreInv, Layout, RestLayout
  <2>3. ~(pc = "write" /\ IsTop(addr))
    BY <1>2, <2>1 DEF StoreInv, Layout, WriteLayout
  <2>4. BlockOf(addr) \in {0, 1}
    BY <2>2, Blocks DEF StoreInv, RomTypeOK
  <2> QED
    BY <2>2, <2>3, <2>4 DEF Current
<1> QED
  BY <1>1, <1>2

LEMMA EraseStores ==
  ASSUME StoreInv, BootErase \/ PostWorkErase
  PROVE  StoreInv'
<1>1. LayoutInv'
  BY BootEraseLayout, PostWorkEraseLayout DEF StoreInv
<1>2. UNCHANGED <<addr, ct, cycle, arg, bare>> /\ mem \in Contents
  BY DEF BootErase, PostWorkErase, StoreInv, RomTypeOK, Contents
<1>3. Current' = Current /\ (pc' \in {"erase", "write"} => pc' = pc)
  BY <1>2 DEF BootErase, PostWorkErase, Current, IsTop
<1>4. ASSUME ~bare
      PROVE  Holds(mem', Current, ct, cycle)
  <2>1. PICK b : b # Current /\ mem' = ErasedBlock(mem, b)
    BY <1>4, OtherBlock DEF BootErase, PostWorkErase
  <2>2. Holds(mem, Current, ct, cycle)
    BY <1>4 DEF StoreInv, CacheInv
  <2> QED
    BY <1>2, <2>1, <2>2, EraseOther
<1> QED
  BY <1>1, <1>2, <1>3, <1>4 DEF StoreInv, CacheInv

\* After a power failure the count is the one before, or the one being written.
LEMMA PowerLossStores ==
  ASSUME ~LossWhileBare, StoreInv, RomPowerLoss
  PROVE  /\ StoreInv'
         /\ \/ ct' = ct /\ cycle' = cycle
            \/ pc = "write" /\ ct' = arg /\ cycle' = NextCycle
<1>1. PICK m \in Remains : Scan(m)
  BY DEF RomPowerLoss
<1>2. /\ ~bare /\ mem \in Contents /\ m \in Contents
      /\ ct \in 0 .. ValueMod - 1 /\ cycle \in 0 .. CycleMod - 1
      /\ Holds(mem, Current, ct, cycle)
  BY RemainsContents DEF RomPowerLoss, StoreInv, CacheInv, RomTypeOK, Contents
<1>3. Holds(m, Current, ct, cycle) => StoreInv' /\ ct' = ct /\ cycle' = cycle
  BY <1>1, <1>2, HoldsScan
<1>4. CASE timer = "erasing"
  <2>1. m \in PartlyErased(mem, BlockOf(pend)) /\ BlockOf(pend) # Current
    BY <1>1, <1>2, <1>4, OtherBlock DEF Remains
  <2> QED
    BY <1>2, <1>3, <2>1, EraseOther
<1>5. CASE timer # "erasing" /\ pc = "write"
  <2>1. PICK r \in {mem[addr], Torn, Written(mem[addr], Record(arg, NextCycle))} :
          m = [mem EXCEPT ![addr] = r]
    BY <1>1, <1>5 DEF Remains
  <2>2. addr \in Addr /\ mem[addr] = Blank
    BY <1>5 DEF StoreInv, Layout, RestLayout, WriteLayout, RomTypeOK
  <2>3. CASE r = Written(mem[addr], Record(arg, NextCycle))
    <3>1. /\ Holds(m, BlockOf(addr), arg, NextCycle)
          /\ arg \in 0 .. ValueMod - 1 /\ NextCycle \in 0 .. CycleMod - 1
      BY <1>5, <2>1, <2>3, HoldsWritten
    <3> QED
      BY <1>1, <1>2, <1>5, <3>1, HoldsScan
  <2>4. CASE r \in {mem[addr], Torn}
    <3>1. m[addr].st # "ok" /\ \A a \in Addr : a # addr => m[a] = mem[a]
      BY <1>2, <2>1, <2>2, <2>4, Kinds DEF Contents
    <3>2. \A a \in CellsOf(Current) : m[a] = mem[a] \/ mem[a].st # "ok"
      BY <2>2, <3>1, Kinds DEF CellsOf
    <3>3. \A a \in Addr : m[a].st = "ok" => m[a] = mem[a]
      BY <3>1
    <3> QED
      BY <1>2, <1>3, <3>2, <3>3, HoldsKept
  <2> QED
    BY <2>1, <2>3, <2>4
<1>6. CASE timer # "erasing" /\ pc = "boot"
  <2>1. PICK b \in todo : m \in PartlyErased(mem, b)
    BY <1>1, <1>6 DEF Remains
  <2>2. b # Current
    BY <1>2, <1>6, OtherBlock
  <2> QED
    BY <1>2, <1>3, <2>1, <2>2, EraseOther
<1>7. CASE timer # "erasing" /\ pc = "idle"
  BY <1>1, <1>2, <1>3, <1>7 DEF Remains
<1>8. pc # "erase"
  BY <1>2 DEF StoreInv, Layout, EraseLayout
<1> QED
  BY <1>4, <1>5, <1>6, <1>7, <1>8 DEF StoreInv, RomTypeOK

LEMMA StoreInit ==
  ASSUME RomInit
  PROVE  StoreInv
<1>1. WithData(mem) = {}
  BY Kinds DEF RomInit, WithData, Good, CellsOf
<1> QED
  BY <1>1, LayoutInit DEF RomInit, StoreInv, CacheInv, Holds

LEMMA StoreStep ==
  ASSUME ~LossWhileBare, StoreInv, [RomNext]_romVars
  PROVE  StoreInv'
<1>1. CASE BootErase \/ PostWorkErase
  BY <1>1, EraseStores
<1>2. CASE IncreaseCount \/ Provision
  BY <1>2, ProgramStores DEF IncreaseCount, Provision
<1>3. CASE ProgramErase
  <2>1. bare' /\ arg' = arg /\ ct' = ct /\ pc = "erase"
    BY <1>3 DEF ProgramErase, StoreInv, Layout, EraseLayout
  <2> QED
    BY <1>3, <2>1, ProgramEraseLayout DEF StoreInv, CacheInv
<1>4. CASE Write
  BY <1>4, WriteStores
<1>5. CASE TimerCallback \/ PostWorkBegin
  <2>1. UNCHANGED <<mem, addr, ct, cycle, pc, arg, bare>>
    BY <1>5 DEF TimerCallback, PostWorkBegin
  <2>2. Current' = Current
    BY <2>1 DEF Current, IsTop
  <2> QED
    BY <1>5, <2>1, <2>2, TimerLayout DEF StoreInv, CacheInv
<1>6. CASE RomPowerLoss
  BY <1>6, PowerLossStores
<1>7. CASE UNCHANGED romVars
  <2>1. UNCHANGED <<mem, addr, ct, cycle, pc, arg, bare>>
    BY <1>7 DEF romVars
  <2>2. Current' = Current
    BY <2>1 DEF Current, IsTop
  <2> QED
    BY <1>7, <2>1, <2>2, LayoutStep DEF StoreInv, CacheInv
<1> QED
  BY <1>1, <1>2, <1>3, <1>4, <1>5, <1>6, <1>7 DEF RomNext

LEMMA StoreInvariant ==
  ASSUME ~LossWhileBare
  PROVE  RomSpec => []StoreInv
BY StoreInit, StoreStep, PTL DEF RomSpec

LEMMA CountIsCached ==
  ASSUME StoreInv
  PROVE  Count = [value |-> ct, cycle |-> cycle]
<1>1. CASE bare
  BY <1>1 DEF Count
<1>2. CASE ~bare
  <2>1. /\ mem \in Contents /\ ct \in 0 .. ValueMod - 1 /\ cycle \in 0 .. CycleMod - 1
        /\ Holds(mem, Current, ct, cycle)
    BY <1>2 DEF StoreInv, CacheInv, RomTypeOK, Contents
  <2>2. Found(mem) = [value |-> ct, cycle |-> cycle]
    BY <2>1, HoldsFound
  <2> QED
    BY <1>2, <2>2 DEF Count
<1> QED
  BY <1>1, <1>2

\* At rest the counter that rom_rpmc_mc_access has cached is the one that _mc_init
\* would find in the flash, for every size of the blocks, across torn records and the
\* wrap of the cycle number.
THEOREM CacheStoredHolds ==
  ASSUME ~LossWhileBare
  PROVE  RomSpec => []CacheStored
<1>1. StoreInv => CacheStored
  <2>1. ASSUME StoreInv, pc = "idle"
        PROVE  Found(mem) = [value |-> ct, cycle |-> cycle]
    <3>1. ~bare
      BY <2>1 DEF StoreInv, Layout
    <3> QED
      BY <2>1, <3>1, CountIsCached DEF Count
  <2> QED
    BY <2>1 DEF CacheStored
<1> QED
  BY <1>1, StoreInvariant, PTL

LEMMA StepCounts ==
  ASSUME ~LossWhileBare, StoreInv, [RomNext]_romVars
  PROVE  [Mono!Next]_Count
<1>1. Count = [value |-> ct, cycle |-> cycle] /\ Count' = [value |-> ct', cycle |-> cycle']
  <2>1. StoreInv'
    BY StoreStep
  <2>2. CASE bare'
    BY <2>2, CountIsCached DEF Count
  <2>3. CASE ~bare'
    <3>1. /\ mem' \in Contents /\ ct' \in 0 .. ValueMod - 1 /\ cycle' \in 0 .. CycleMod - 1
          /\ Holds(mem', Current', ct', cycle')
      BY <2>1, <2>3 DEF StoreInv, CacheInv, RomTypeOK, Contents
    <3>2. Found(mem') = [value |-> ct', cycle |-> cycle']
      BY <3>1, HoldsFound
    <3> QED
      BY <2>3, <3>2, CountIsCached DEF Count
  <2> QED
    BY <2>2, <2>3
<1>2. \/ ct' = ct /\ cycle' = cycle
      \/ pc = "write" /\ ct' = arg /\ cycle' = NextCycle
  <2>1. CASE RomPowerLoss
    BY <2>1, PowerLossStores
  <2>2. CASE Write
    BY <2>2 DEF Write
  <2>3. CASE ~RomPowerLoss /\ ~Write
    BY <2>3 DEF RomNext, romVars, BootErase, IncreaseCount, Provision, Program, ProgramErase,
                TimerCallback, PostWorkBegin, PostWorkErase
  <2> QED
    BY <2>1, <2>2, <2>3
<1>3. CASE ct' = ct /\ cycle' = cycle
  BY <1>1, <1>3
<1>4. CASE pc = "write" /\ ct' = arg /\ cycle' = NextCycle
  <2>1. NextCount(ct, cycle, arg, NextCycle) /\ arg \in 0 .. ValueMod - 1
    BY <1>4, HoldsWritten
  <2>2. ct \in 0 .. ValueMod - 1
    BY DEF StoreInv, RomTypeOK
  <2>3. CASE arg = 0 /\ NextCycle = (cycle + 1) % CycleMod
    <3>1. Count' = Mono!Restarted(Count)
      BY <1>1, <1>4, <2>3 DEF Mono!Restarted
    <3> QED
      BY <3>1 DEF Mono!Next
  <2>4. CASE arg = ct + 1 /\ NextCycle = cycle
    <3>1. Count.value + 1 < ValueMod /\ [Count EXCEPT !.value = @ + 1] = Count'
      BY <1>1, <1>4, <2>1, <2>2, <2>4, Constants
    <3>2. Count' = Mono!Successor(Count)
      BY <3>1 DEF Mono!Successor
    <3> QED
      BY <3>2 DEF Mono!Next
  <2> QED
    BY <2>1, <2>3, <2>4 DEF NextCount
<1> QED
  BY <1>2, <1>3, <1>4

\* The two blocks implement MonoCounter: the count a power-up finds never goes back
\* and never skips a value, through every failure of power outside the window in
\* which _mc_program has erased both blocks.
THEOREM CounterMonotonicHolds ==
  ASSUME ~LossWhileBare
  PROVE  RomSpec => CounterMonotonic
<1>1. RomInit => Mono!Init
  <2> SUFFICES ASSUME RomInit PROVE Mono!Init
    OBVIOUS
  <2>1. Count = [value |-> ct, cycle |-> cycle] /\ ct = 0 /\ cycle = 0
    BY StoreInit, CountIsCached DEF RomInit
  <2> QED
    BY <2>1 DEF Mono!Init, Mono!Start
<1>2. StoreInv /\ [RomNext]_romVars => [Mono!Next]_Count
  BY StepCounts
<1> QED
  BY <1>1, <1>2, StoreInvariant, PTL DEF RomSpec, CounterMonotonic, Mono!Spec
=============================================================================
