-------------------------- MODULE NvOptionsProofs --------------------------
(***************************************************************************)
(* With saves only from the work queue, flash that reports no errors and   *)
(* power that does not fail inside an erase and program pair, the two      *)
(* blocks implement an atomic register, for any set of option contents.    *)
(* The argument (SaveInv): while a block is written the CRC belongs to the *)
(* options in use, and the other block's magic word is only cleared once   *)
(* the block just written holds exactly those options.                     *)
(*                                                                         *)
(* Without any of these three assumptions a block that _nvram_checkCrc     *)
(* accepts still holds options that were in use (KnownInv of NvOptions).   *)
(***************************************************************************)
EXTENDS NvOptions, TLAPS

Quiet == ~Shell /\ ~LossWhileErased /\ ~FlashErrors

w == saver["work"]

Other(b) == (b + 1) % 2

\* The block that holds the options in use, as a save writes it.
Current == [magic |-> TRUE, val |-> ram, crc |-> ram]

\* Where the save stands and what flash and sector buffer hold then.
BlockStep ==
  w.at # "idle" /\ w.step = "block" =>
    /\ w.at # "end"
    /\ w.at = "erase" => sectorBuf = [flash EXCEPT ![w.blk] = Current]
    /\ w.at = "program" => sectorBuf[w.blk] = Current
    /\ w.at = "direct" => w.data = Current

MagicStep ==
  w.at # "idle" /\ w.step = "magic" =>
    /\ ~hasUpdate
    /\ w.at \in {"read", "erase", "direct", "end"} => flash[Other(w.blk)] = Current
    /\ w.at \in {"direct", "end"} => ~flash[w.blk].magic
    /\ w.at = "direct" => w.data = flash[w.blk]
    /\ w.at \in {"erase", "program"} =>
         sectorBuf[Other(w.blk)] = Current /\ ~sectorBuf[w.blk].magic

SaveInv ==
  /\ saver["shell"] = Idle
  /\ w.at # "idle" => crc = ram
  /\ BlockStep /\ MagicStep
  /\ w.at = "idle" /\ ~hasUpdate => Stored(flash) = ram

-----------------------------------------------------------------------------
(* What a restart finds.                                                   *)

\* A valid block that is the only one is the one that is loaded (f_nv_options_load).
LEMMA OnlyValid ==
  ASSUME NEW f \in [Blk -> Block], NEW b \in Blk, NEW v \in Values,
         f[b] = [magic |-> TRUE, val |-> v, crc |-> v], ~f[Other(b)].magic
  PROVE  Stored(f) = v
  BY DEF Stored, LoadedBlock, Valid, Blk, Other, Block

\* Writing a block of the options v leaves what a restart finds or makes it v.
LEMMA WriteBlock ==
  ASSUME NEW f \in [Blk -> Block], NEW g \in [Blk -> Block], NEW b \in Blk, NEW v \in Values,
         g = [f EXCEPT ![b] = [magic |-> TRUE, val |-> v, crc |-> v]]
  PROVE  Stored(g) \in {Stored(f), v}
  BY DEF Stored, LoadedBlock, Valid, Blk, Block

\* A restart finds one of the possible contents.
LEMMA StoredType ==
  ASSUME NEW f \in [Blk -> Block]
  PROVE  Stored(f) \in Values
  BY ValueAssumption DEF Stored, LoadedBlock, Valid, Blk, Block
-----------------------------------------------------------------------------
(* Types.                                                                  *)

\* The two contents of a block that no save writes are blocks.
LEMMA ErasedType == Erased \in Block /\ Garbled \in Block
  BY ValueAssumption DEF Erased, Garbled, Block

\* Replacing one entry by a value of the range keeps the function's type.
LEMMA ExceptType ==
  ASSUME NEW S, NEW R, NEW f \in [S -> R], NEW p \in S, NEW r \in R
  PROVE  [f EXCEPT ![p] = r] \in [S -> R]
  OBVIOUS

\* Every step keeps the types.
LEMMA TypeInductive == TypeOK /\ [Next]_vars => TypeOK'
<1> SUFFICES ASSUME TypeOK, [Next]_vars PROVE TypeOK'
  OBVIOUS
<1> DEFINE At == {"idle", "read", "erase", "program", "direct", "end"}
           Rec == [at : At, step : {"block", "magic"}, blk : Blk, data : Block]
<1>i. Idle \in Rec
  BY ErasedType DEF Idle, Blk
<1>s. saver \in [Savers -> Rec]
  BY DEF TypeOK
<1>r. \A p \in Savers : \A x \in At, d \in Block :
        /\ [saver EXCEPT ![p] = [@ EXCEPT !.at = x]] \in [Savers -> Rec]
        /\ [saver EXCEPT ![p] = [@ EXCEPT !.at = x, !.data = d]] \in [Savers -> Rec]
  <2> SUFFICES ASSUME NEW p \in Savers, NEW x \in At, NEW d \in Block
               PROVE  /\ [saver EXCEPT ![p] = [@ EXCEPT !.at = x]] \in [Savers -> Rec]
                      /\ [saver EXCEPT ![p] = [@ EXCEPT !.at = x, !.data = d]]
                           \in [Savers -> Rec]
    OBVIOUS
  <2>1. PICK r \in Rec : r = saver[p]
    BY <1>s
  <2>2. [r EXCEPT !.at = x] \in Rec
    OBVIOUS
  <2>3. [r EXCEPT !.at = x, !.data = d] \in Rec
    OBVIOUS
  <2>4. [saver[p] EXCEPT !.at = x] \in Rec /\ [saver[p] EXCEPT !.at = x, !.data = d] \in Rec
    BY <2>1, <2>2, <2>3
  <2> HIDE DEF Rec
  <2> QED
    BY <2>4, <1>s, ExceptType
<1>g. \A b \in Blk : (b + 1) % 2 \in Blk
  BY DEF Blk
<1>n. \A p \in Savers : NewData(p) \in Block
  BY DEF NewData, TypeOK, Block, Savers
<1>b. Boot => TypeOK'
  <2> SUFFICES ASSUME Boot PROVE TypeOK'
    OBVIOUS
  <2>1. ram' \in Values /\ active' \in Blk /\ hasUpdate' \in BOOLEAN
    BY StoredType DEF Boot, TypeOK, LoadedBlock, Blk, Valid
  <2>2. crc' \in Values \cup {NONE}
    BY <2>1 DEF Boot
  <2>3. saver' \in [Savers -> Rec]
    BY <1>i DEF Boot
  <2> QED
    BY <2>1, <2>2, <2>3 DEF Boot, TypeOK
<1>a. \A p \in Savers : AccessDone(p) => saver' \in [Savers -> Rec] /\ hasUpdate' \in BOOLEAN
  <2> SUFFICES ASSUME NEW p \in Savers, AccessDone(p)
               PROVE  saver' \in [Savers -> Rec] /\ hasUpdate' \in BOOLEAN
    OBVIOUS
  <2>1. [Idle EXCEPT !.at = "read", !.step = "magic", !.blk = (saver[p].blk + 1) % 2] \in Rec
    BY <1>i, <1>g DEF TypeOK
  <2>2. hasUpdate' \in BOOLEAN
    BY DEF AccessDone, TypeOK
  <2>3. saver' = [saver EXCEPT ![p] =
                    [Idle EXCEPT !.at = "read", !.step = "magic", !.blk = (saver[p].blk + 1) % 2]]
        \/ saver' = [saver EXCEPT ![p] = [@ EXCEPT !.at = "end"]]
    BY DEF AccessDone, Goto
  <2>4. saver' \in [Savers -> Rec]
    <3>1. CASE saver' = [saver EXCEPT ![p] = [@ EXCEPT !.at = "end"]]
      BY <3>1, <1>r, ErasedType
    <3> HIDE DEF Rec
    <3> QED
      BY <3>1, <2>1, <2>3, <1>s, ExceptType
  <2> QED
    BY <2>2, <2>4
<1>1. CASE UNCHANGED vars
  BY <1>1 DEF vars, TypeOK
<1>2. CASE SetOption \/ SetCpuType
  BY <1>2 DEF SetOption, SetCpuType, SetNvOptions, TypeOK
<1>3. CASE PowerLoss
  BY <1>3, <1>b DEF PowerLoss
<1>4. ASSUME NEW p \in Savers, Save(p) PROVE TypeOK'
  <2>1. CASE SaveBegin(p)
    <3>1. active' \in Blk
      BY <2>1, <1>g DEF SaveBegin, TypeOK
    <3>2. [Idle EXCEPT !.at = "read", !.blk = active'] \in Rec
      BY <3>1, <1>i
    <3> QED
      BY <2>1, <3>1, <3>2 DEF SaveBegin, TypeOK
  <2>2. CASE ReadSector(p)
    <3>1. PICK erase \in NeedErase(p, flash[saver[p].blk], NewData(p)) :
            /\ saver' = [saver EXCEPT ![p] =
                           [@ EXCEPT !.at = IF erase THEN "erase" ELSE "direct",
                                     !.data = IF erase THEN Erased ELSE NewData(p)]]
            /\ sectorBuf' = IF erase THEN [flash EXCEPT ![saver[p].blk] = NewData(p)] ELSE flash
      BY <2>2 DEF ReadSector
    <3>2. saver' \in [Savers -> Rec]
      <4>1. CASE erase
        BY <4>1, <3>1, <1>r, ErasedType
      <4>2. CASE ~erase
        BY <4>2, <3>1, <1>n, <1>r
      <4> QED
        BY <4>1, <4>2
    <3>3. sectorBuf' \in [Blk -> Block]
      BY <3>1, <1>n DEF TypeOK
    <3> QED
      BY <2>2, <3>2, <3>3 DEF ReadSector, TypeOK
  <2>3. CASE EraseSector(p)
    BY <2>3, <1>r, ErasedType DEF EraseSector, Goto, TypeOK
  <2>4. CASE ProgramSector(p)
    BY <2>4, <1>a DEF ProgramSector, TypeOK
  <2>5. CASE DirectWrite(p)
    <3>1. flash' \in [Blk -> Block]
      BY <2>5, <1>n, ErasedType DEF DirectWrite, TypeOK
    <3> QED
      BY <2>5, <3>1, <1>a DEF DirectWrite, TypeOK
  <2>6. CASE FlashError(p)
    BY <2>6, <1>a DEF FlashError, TypeOK
  <2>7. CASE SaveEnd(p)
    BY <2>7, <1>i DEF SaveEnd, TypeOK
  <2>8. CASE SaveReset(p)
    BY <2>8, <1>b DEF SaveReset
  <2> QED
    BY <1>4, <2>1, <2>2, <2>3, <2>4, <2>5, <2>6, <2>7, <2>8 DEF Save
<1> QED
  BY <1>1, <1>2, <1>3, <1>4 DEF Next

\* The NV options keep their types, with any failure and any overlap of saves.
THEOREM TypeCorrect == Spec => []TypeOK
<1>1. ASSUME Init PROVE TypeOK
  <2>1. flash \in [Blk -> Block] /\ sectorBuf \in [Blk -> Block]
    BY <1>1, ErasedType DEF Init
  <2>2. Idle \in [at : {"idle", "read", "erase", "program", "direct", "end"},
                  step : {"block", "magic"}, blk : Blk, data : Block]
    BY ErasedType DEF Idle, Blk
  <2> QED
    BY <1>1, <2>1, <2>2, ValueAssumption DEF Init, TypeOK, Blk
<1> QED
  BY <1>1, TypeInductive, PTL DEF Spec
-----------------------------------------------------------------------------
(* Whatever fails: no options are invented.                                *)

\* A write of the working copy gives a block of options in use; clearing a magic
\* word gives none that is valid.
LEMMA NewDataKnown ==
  ASSUME TypeOK, KnownInv, NEW p \in Savers
  PROVE  Known(NewData(p))
<1>1. CASE saver[p].step = "block"
  BY <1>1 DEF NewData, Known, Valid, KnownInv
<1>2. CASE saver[p].step = "magic"
  <2>1. flash[saver[p].blk] \in Block
    BY DEF TypeOK
  <2>2. NewData(p).magic = FALSE
    BY <1>2, <2>1 DEF NewData, Block
  <2> QED
    BY <2>2 DEF Known, Valid
<1> QED
  BY <1>1, <1>2 DEF TypeOK

\* A restart loads options that were in use, or the defaults.
LEMMA StoredKnown ==
  ASSUME TypeOK, KnownInv
  PROVE  Stored(flash) \in past
<1>1. Known(flash[0]) /\ Known(flash[1]) /\ Default \in past
  BY DEF KnownInv, Blk
<1> QED
  BY <1>1 DEF Known, Stored, LoadedBlock

\* Every step, failing, interrupted or overlapping another save, keeps every
\* valid block one of options that were in use.
LEMMA KnownInductive == TypeOK /\ KnownInv /\ [Next]_vars => KnownInv'
<1> SUFFICES ASSUME TypeOK, KnownInv, [Next]_vars PROVE KnownInv'
  OBVIOUS
<1>e. Known(Erased) /\ Known(Garbled)
  BY ValueAssumption DEF Known, Valid, Erased, Garbled
<1>b. Boot => KnownInv'
  BY StoredKnown DEF Boot, KnownInv, Known
<1>1. CASE UNCHANGED vars
  BY <1>1 DEF vars, KnownInv, Known
<1>2. CASE SetOption \/ SetCpuType
  <2>1. ram' \in past' /\ past \subseteq past' /\ UNCHANGED <<flash, sectorBuf>>
    BY <1>2 DEF SetOption, SetCpuType, SetNvOptions
  <2> QED
    BY <2>1 DEF KnownInv, Known
<1>3. CASE PowerLoss
  BY <1>3, <1>b DEF PowerLoss
<1>4. ASSUME NEW p \in Savers, Save(p) PROVE KnownInv'
  <2>1. CASE SaveBegin(p) \/ FlashError(p) \/ SaveEnd(p)
    BY <2>1 DEF SaveBegin, FlashError, SaveEnd, KnownInv, Known
  <2>2. CASE ReadSector(p)
    <3>1. sectorBuf' \in {[flash EXCEPT ![saver[p].blk] = NewData(p)], flash}
          /\ UNCHANGED <<ram, flash, past>>
      BY <2>2 DEF ReadSector
    <3>2. \A b \in Blk : sectorBuf'[b] \in {NewData(p), flash[b]}
      BY <3>1 DEF TypeOK
    <3>3. \A b \in Blk : Known(sectorBuf'[b])
      BY <3>2, NewDataKnown DEF KnownInv
    <3> QED
      BY <3>1, <3>3 DEF KnownInv, Known
  <2>3. CASE EraseSector(p)
    BY <2>3, <1>e DEF EraseSector, KnownInv, Known
  <2>4. CASE ProgramSector(p)
    BY <2>4 DEF ProgramSector, KnownInv, Known
  <2>5. CASE DirectWrite(p)
    <3>1. \A b \in Blk : flash'[b] \in {NewData(p), Garbled, flash[b]}
      BY <2>5 DEF DirectWrite, TypeOK
    <3>2. \A b \in Blk : Known(flash'[b])
      BY <3>1, <1>e, NewDataKnown DEF KnownInv
    <3>3. UNCHANGED <<ram, sectorBuf, past>>
      BY <2>5 DEF DirectWrite
    <3> QED
      BY <3>2, <3>3 DEF KnownInv, Known
  <2>6. CASE SaveReset(p)
    BY <2>6, <1>b DEF SaveReset
  <2> QED
    BY <1>4, <2>1, <2>2, <2>3, <2>4, <2>5, <2>6 DEF Save
<1> QED
  BY <1>1, <1>2, <1>3, <1>4 DEF Next

\* With any flash error, any loss of power and saves that overlap, a restart
\* (f_nv_options_load) brings up only options that were in use as a whole.
THEOREM NeverInventedHolds == Spec => []NeverInvented
<1>1. Init => KnownInv
  BY ValueAssumption DEF Init, KnownInv, Known, Valid, Erased, Blk
<1>2. TypeOK /\ KnownInv => NeverInvented
  BY StoredKnown DEF NeverInvented
<1> QED
  BY <1>1, <1>2, KnownInductive, TypeCorrect, PTL DEF Spec
-----------------------------------------------------------------------------
(* The save.                                                               *)

\* A restart establishes the invariant: nothing is under way, and the options
\* are those in flash unless the defaults are waiting to be saved.
LEMMA BootSaves ==
  ASSUME TypeOK, Boot
  PROVE  SaveInv'
<1>1. saver'["shell"] = Idle /\ w' = Idle
  BY DEF Boot, w, Savers
<1>2. ~hasUpdate' => Stored(flash') = ram'
  BY DEF Boot
<1> QED
  BY <1>1, <1>2 DEF SaveInv, BlockStep, MagicStep, Idle, w

\* Clearing a magic word that is clear already changes nothing.
LEMMA MagicCleared ==
  ASSUME NEW b \in Block, ~b.magic
  PROVE  [b EXCEPT !.magic = FALSE] = b
<1>1. b.magic = FALSE
  BY DEF Block
<1> QED
  BY <1>1 DEF Block

\* Every step of the work queue's save, and every change and restart around it,
\* keeps the invariant.
LEMMA SaveInductive ==
  ASSUME Quiet
  PROVE  TypeOK /\ SaveInv /\ [Next]_vars => SaveInv'
<1> SUFFICES ASSUME TypeOK, SaveInv, [Next]_vars PROVE SaveInv'
  OBVIOUS
<1>w. w \in [at : {"idle", "read", "erase", "program", "direct", "end"},
            step : {"block", "magic"}, blk : Blk, data : Block]
  BY DEF TypeOK, w, Savers
<1>g. \A b \in Blk : Other(b) \in Blk /\ Other(b) # b /\ Other(Other(b)) = b
  BY DEF Blk, Other
<1>1. CASE UNCHANGED vars
  BY <1>1 DEF vars, SaveInv, BlockStep, MagicStep, Current, w
<1>2. CASE SetOption \/ SetCpuType
  BY <1>2 DEF SetOption, SetCpuType, SetNvOptions, WorkIdle, SaveInv, BlockStep, MagicStep, w
<1>3. CASE PowerLoss
  BY <1>3, BootSaves DEF PowerLoss
<1>4. ASSUME NEW p \in Savers, Save(p) PROVE SaveInv'
  <2>p. p = "work"
    BY <1>4, Quiet DEF Quiet, Save, MayRun, SaveBegin, ReadSector, EraseSector,
       ProgramSector, DirectWrite, FlashError, SaveEnd, SaveReset
  <2>e. \A x : saver' = [saver EXCEPT ![p] = x] => w' = x /\ saver'["shell"] = Idle
    BY <2>p DEF TypeOK, w, Savers, SaveInv
  <2>a. ASSUME AccessDone(p), w.at # "idle"
        PROVE  /\ saver'["shell"] = Idle /\ w'.step = "magic" /\ ~hasUpdate'
               /\ w.step = "block" => w'.at = "read" /\ w'.blk = Other(w.blk)
               /\ w.step = "magic" => w'.at = "end" /\ w'.blk = w.blk
    <3>1. CASE saver[p].step = "block"
      <4>1. w' = [Idle EXCEPT !.at = "read", !.step = "magic", !.blk = Other(w.blk)]
            /\ saver'["shell"] = Idle /\ ~hasUpdate'
        BY <2>a, <3>1, <2>e, <2>p DEF AccessDone, Other, w
      <4>2. w'.at = "read" /\ w'.step = "magic" /\ w'.blk = Other(w.blk)
        BY <4>1 DEF Idle
      <4> QED
        BY <4>1, <4>2, <3>1, <2>p DEF w
    <3>2. CASE saver[p].step = "magic"
      <4>1. w' = [w EXCEPT !.at = "end"] /\ saver'["shell"] = Idle /\ hasUpdate' = hasUpdate
        BY <2>a, <3>2, <2>e, <2>p DEF AccessDone, Goto, w
      <4>2. ~hasUpdate
        BY <2>a, <3>2, <2>p DEF SaveInv, MagicStep, w
      <4> QED
        BY <4>1, <4>2, <3>2, <2>p, <1>w DEF w
    <3> QED
      BY <3>1, <3>2, <1>w, <2>p DEF w
  <2>n. w.at # "idle" =>
          NewData(p) = IF w.step = "block" THEN Current ELSE [flash[w.blk] EXCEPT !.magic = FALSE]
    BY <2>p DEF NewData, Current, SaveInv, w
  <2>f. w.blk \in Blk /\ Other(w.blk) \in Blk /\ flash[w.blk] \in Block
        /\ Other(w.blk) # w.blk /\ Other(Other(w.blk)) = w.blk
    BY <1>w, <1>g DEF TypeOK
  <2>1. CASE SaveBegin(p)
    <3>1. w' = [Idle EXCEPT !.at = "read", !.blk = active'] /\ saver'["shell"] = Idle
      BY <2>1, <2>e DEF SaveBegin
    <3>2. w'.at = "read" /\ w'.step = "block"
      BY <3>1 DEF Idle
    <3> QED
      BY <2>1, <3>1, <3>2 DEF SaveBegin, SaveInv, BlockStep, MagicStep
  <2>2. CASE ReadSector(p)
    <3>1. PICK erase \in NeedErase(p, flash[w.blk], NewData(p)) :
            /\ saver' = [saver EXCEPT ![p] =
                           [@ EXCEPT !.at = IF erase THEN "erase" ELSE "direct",
                                     !.data = IF erase THEN Erased ELSE NewData(p)]]
            /\ sectorBuf' = IF erase THEN [flash EXCEPT ![w.blk] = NewData(p)] ELSE flash
      BY <2>2, <2>p DEF ReadSector, w
    <3>2. w' = [w EXCEPT !.at = IF erase THEN "erase" ELSE "direct",
                         !.data = IF erase THEN Erased ELSE NewData(p)]
          /\ saver'["shell"] = Idle
      BY <3>1, <2>e, <2>p DEF w
    <3>3. /\ w'.at = (IF erase THEN "erase" ELSE "direct") /\ w'.step = w.step
          /\ w'.blk = w.blk /\ (~erase => w'.data = NewData(p))
      BY <3>2, <1>w
    <3>4. w.at = "read" /\ UNCHANGED <<ram, crc, hasUpdate, flash>>
      BY <2>2, <2>p DEF ReadSector, w
    <3>5. CASE w.step = "block"
      <4>1. NewData(p) = Current /\ Current' = Current
        BY <2>n, <3>4, <3>5 DEF Current
      <4>2. CASE erase
        BY <3>1, <3>2, <3>3, <3>4, <3>5, <4>1, <4>2 DEF SaveInv, BlockStep, MagicStep
      <4>3. CASE ~erase
        BY <3>1, <3>2, <3>3, <3>4, <3>5, <4>1, <4>3 DEF SaveInv, BlockStep, MagicStep
      <4> QED
        BY <4>2, <4>3
    <3>6. CASE w.step = "magic"
      <4>1. erase = flash[w.blk].magic
        BY <3>1, <3>6, <2>p DEF NeedErase, w
      <4>2. ~erase => NewData(p) = flash[w.blk]
        BY <4>1, <2>n, <2>f, <3>4, <3>6, MagicCleared
      <4>3. erase => sectorBuf'[Other(w.blk)] = Current /\ ~sectorBuf'[w.blk].magic
        <5>1. NewData(p).magic = FALSE
          BY <2>n, <2>f, <3>4, <3>6 DEF Block
        <5> QED
          BY <5>1, <3>1, <3>4, <3>6, <2>f DEF SaveInv, MagicStep, TypeOK
      <4> QED
        BY <3>2, <3>3, <3>4, <3>6, <4>1, <4>2, <4>3 DEF SaveInv, BlockStep, MagicStep, Current
    <3> QED
      BY <3>5, <3>6, <1>w
  <2>3. CASE EraseSector(p)
    <3>1. w' = [w EXCEPT !.at = "program"] /\ saver'["shell"] = Idle /\ w.at = "erase"
      BY <2>3, <2>e, <2>p DEF EraseSector, Goto, w
    <3>2. w'.at = "program" /\ w'.step = w.step /\ w'.blk = w.blk
      BY <3>1, <1>w
    <3>3. w.step = "block" => sectorBuf[w.blk] = Current
      BY <3>1, <2>f DEF SaveInv, BlockStep, TypeOK
    <3> QED
      BY <2>3, <3>1, <3>2, <3>3 DEF EraseSector, SaveInv, BlockStep, MagicStep, Current
  <2>4. CASE ProgramSector(p)
    <3>1. w.at = "program" /\ flash' = sectorBuf /\ AccessDone(p) /\ UNCHANGED <<ram, crc>>
      BY <2>4, <2>p DEF ProgramSector, w
    <3> QED
      BY <3>1, <2>a, <2>f, <1>w DEF SaveInv, BlockStep, MagicStep, Current
  <2>5. CASE DirectWrite(p)
    <3>1. /\ w.at = "direct" /\ AccessDone(p) /\ UNCHANGED <<ram, crc>>
          /\ flash' = [flash EXCEPT ![w.blk] =
                          IF flash[w.blk] = Erased \/ NewData(p) = w.data
                          THEN NewData(p) ELSE Garbled]
      BY <2>5, <2>p DEF DirectWrite, w
    <3>2. CASE w.step = "block"
      <4>1. flash'[w.blk] = Current
        BY <3>1, <3>2, <2>n, <2>f DEF SaveInv, BlockStep, TypeOK
      <4> QED
        BY <3>1, <3>2, <4>1, <2>a, <2>f DEF SaveInv, BlockStep, MagicStep, Current
    <3>3. CASE w.step = "magic"
      <4>1. NewData(p) = flash[w.blk]
        BY <3>1, <3>3, <2>n, <2>f, MagicCleared DEF SaveInv, MagicStep
      <4>2. flash' = flash
        BY <3>1, <3>3, <4>1, <2>f DEF SaveInv, MagicStep, TypeOK
      <4> QED
        BY <3>1, <3>3, <4>2, <2>a, <2>f DEF SaveInv, BlockStep, MagicStep, Current
    <3> QED
      BY <3>2, <3>3, <1>w
  <2>6. CASE FlashError(p)
    BY <2>6, Quiet DEF FlashError, Quiet
  <2>7. CASE SaveEnd(p)
    <3>1. w' = Idle /\ saver'["shell"] = Idle /\ w.at = "end"
      BY <2>7, <2>e, <2>p DEF SaveEnd, w
    <3>2. flash[Other(w.blk)] = Current /\ ~flash[w.blk].magic
      BY <3>1, <1>w DEF SaveInv, BlockStep, MagicStep
    <3>3. Stored(flash) = ram
      BY <3>2, <2>f, OnlyValid DEF Current, TypeOK
    <3> QED
      BY <2>7, <3>1, <3>3 DEF SaveEnd, SaveInv, BlockStep, MagicStep, Idle
  <2>8. CASE SaveReset(p)
    BY <2>8, BootSaves DEF SaveReset
  <2> QED
    BY <1>4, <2>1, <2>2, <2>3, <2>4, <2>5, <2>6, <2>7, <2>8 DEF Save
<1> QED
  BY <1>1, <1>2, <1>3, <1>4 DEF Next

\* The invariant of the work queue's save.
LEMMA SaveInvariant ==
  ASSUME Quiet
  PROVE  Spec => [](TypeOK /\ SaveInv)
<1>1. Init => SaveInv
  BY DEF Init, SaveInv, BlockStep, MagicStep, w, Idle, Savers
<1>2. TypeOK /\ SaveInv /\ [Next]_vars => SaveInv'
  BY SaveInductive
<1> QED
  BY <1>1, <1>2, TypeCorrect, PTL DEF Spec

\* Options that are not marked as changed are the ones a restart would load
\* (f_nv_options_save and f_nv_options_load), for any set of contents.
THEOREM DurableHolds ==
  ASSUME Quiet
  PROVE  Spec => []Durable
<1>1. TypeOK /\ SaveInv => Durable
  BY DEF SaveInv, Durable, NoSave, Savers, w
<1> QED
  BY <1>1, SaveInvariant, PTL

\* The reset after a save brings the options back as they were set.
THEOREM ResetKeepsOptionsHolds ==
  ASSUME Quiet
  PROVE  Spec => ResetKeepsOptions
<1>1. TypeOK /\ SaveInv /\ [Next]_vars =>
        [\A p \in Savers : SaveReset(p) => ram' = ram]_vars
  <2> SUFFICES ASSUME TypeOK, SaveInv, NEW p \in Savers, SaveReset(p) PROVE ram' = ram
    OBVIOUS
  <2>1. p = "work" /\ w.at = "end"
    BY Quiet DEF SaveReset, MayRun, Quiet, w
  <2>2. flash[Other(w.blk)] = Current /\ ~flash[w.blk].magic
    BY <2>1 DEF SaveInv, BlockStep, MagicStep, TypeOK, w, Savers
  <2>3. w.blk \in Blk /\ Other(w.blk) \in Blk /\ Other(Other(w.blk)) = w.blk
    BY DEF TypeOK, w, Savers, Blk, Other
  <2>4. Stored(flash) = ram
    BY <2>2, <2>3, OnlyValid DEF Current, TypeOK
  <2> QED
    BY <2>4 DEF SaveReset, Boot
<1> QED
  BY <1>1, SaveInvariant, PTL DEF Spec, ResetKeepsOptions

\* One step of the two blocks is one step of the register, or none.
LEMMA StepImplements ==
  ASSUME Quiet
  PROVE  TypeOK /\ SaveInv /\ SaveInv' /\ TypeOK' /\ [Next]_vars =>
           [Register!RNext]_(Register!rvars)
<1> SUFFICES ASSUME TypeOK, TypeOK', SaveInv, SaveInv', [Next]_vars
             PROVE  [Register!RNext]_(Register!rvars)
  OBVIOUS
<1> DEFINE Copy == Stored(Contents)
<1> USE DEF Register!RNext, Register!rvars, Register!Set, Register!Commit, Register!Restart
<1>w. w \in [at : {"idle", "read", "erase", "program", "direct", "end"},
            step : {"block", "magic"}, blk : Blk, data : Block]
  BY DEF TypeOK, w, Savers
<1>f. w.blk \in Blk /\ Other(w.blk) \in Blk /\ flash[w.blk] \in Block
      /\ Other(w.blk) # w.blk /\ Other(Other(w.blk)) = w.blk
  BY <1>w DEF Blk, Other, TypeOK
<1>c. Contents = (IF w.at = "program" THEN sectorBuf ELSE flash)
  BY DEF Contents, Savers, w, SaveInv, Idle
<1>d. Contents' = (IF w'.at = "program" THEN sectorBuf' ELSE flash')
  BY DEF Contents, Savers, w, SaveInv, Idle
<1>b. Boot /\ w.at # "program" => ram' = Copy /\ Copy' = Copy
  <2> SUFFICES ASSUME Boot, w.at # "program" PROVE ram' = Copy /\ Copy' = Copy
    OBVIOUS
  <2>1. w'.at = "idle"
    BY DEF Boot, w, Idle, Savers
  <2> QED
    BY <1>c, <1>d, <2>1 DEF Boot
<1>1. CASE UNCHANGED vars
  BY <1>1 DEF vars, Contents
<1>2. CASE SetOption \/ SetCpuType
  <2>1. ram' \in Values /\ Contents' = Contents
    BY <1>2 DEF SetOption, SetCpuType, SetNvOptions, Contents
  <2> QED
    BY <2>1
<1>3. CASE PowerLoss
  <2>1. w.at # "program" /\ Boot
    BY <1>3, Quiet DEF PowerLoss, Quiet, w, Savers
  <2> QED
    BY <2>1, <1>b
<1>4. ASSUME NEW p \in Savers, Save(p) PROVE [Register!RNext]_(Register!rvars)
  <2>p. p = "work"
    BY <1>4, Quiet DEF Quiet, Save, MayRun, SaveBegin, ReadSector, EraseSector,
       ProgramSector, DirectWrite, FlashError, SaveEnd, SaveReset
  <2>e. \A x : saver' = [saver EXCEPT ![p] = x] => w' = x
    BY <2>p DEF TypeOK, w, Savers
  <2>a. AccessDone(p) => w'.at # "program"
    BY <2>e, <1>w, <2>p DEF AccessDone, Goto, Idle, w
  <2>u. ASSUME w.at # "program", w'.at # "program", UNCHANGED <<ram, flash>>
        PROVE  [Register!RNext]_(Register!rvars)
    BY <2>u, <1>c, <1>d
  <2>1. CASE SaveBegin(p)
    <3>1. w'.at = "read" /\ w.at = "idle"
      BY <2>1, <2>e, <2>p DEF SaveBegin, Idle, w
    <3> QED
      BY <2>1, <2>u, <3>1 DEF SaveBegin
  <2>2. CASE ReadSector(p)
    <3>1. w'.at # "program" /\ w.at = "read"
      BY <2>2, <2>e, <2>p, <1>w DEF ReadSector, w
    <3> QED
      BY <2>2, <2>u, <3>1 DEF ReadSector
  <2>3. CASE EraseSector(p)
    <3>1. w.at = "erase" /\ w' = [w EXCEPT !.at = "program"]
          /\ UNCHANGED <<ram, sectorBuf>>
      BY <2>3, <2>e, <2>p DEF EraseSector, Goto, w
    <3>2. w'.at = "program"
      BY <3>1, <1>w
    <3>3. Copy = Stored(flash) /\ Copy' = Stored(sectorBuf)
      BY <3>1, <3>2, <1>c, <1>d
    <3>4. CASE w.step = "block"
      <4>1. Stored(sectorBuf) \in {Stored(flash), ram}
        BY <3>1, <3>4, <1>f, WriteBlock DEF SaveInv, BlockStep, Current, TypeOK
      <4> QED
        BY <4>1, <3>1, <3>3
    <3>5. CASE w.step = "magic"
      <4>1. sectorBuf[Other(w.blk)] = Current /\ ~sectorBuf[w.blk].magic
        BY <3>1, <3>5 DEF SaveInv, MagicStep
      <4>2. Stored(sectorBuf) = ram
        BY <4>1, <1>f, OnlyValid DEF Current, TypeOK
      <4> QED
        BY <4>2, <3>1, <3>3
    <3> QED
      BY <3>4, <3>5, <1>w
  <2>4. CASE ProgramSector(p)
    <3>1. w.at = "program" /\ w'.at # "program" /\ flash' = sectorBuf /\ ram' = ram
      BY <2>4, <2>a, <2>p DEF ProgramSector, w
    <3> QED
      BY <3>1, <1>c, <1>d
  <2>5. CASE DirectWrite(p)
    <3>1. /\ w.at = "direct" /\ w'.at # "program" /\ UNCHANGED <<ram, crc>>
          /\ flash' = [flash EXCEPT ![w.blk] =
                          IF flash[w.blk] = Erased \/ NewData(p) = w.data
                          THEN NewData(p) ELSE Garbled]
      BY <2>5, <2>a, <2>p DEF DirectWrite, w
    <3>n. NewData(p) = IF w.step = "block" THEN Current
                       ELSE [flash[w.blk] EXCEPT !.magic = FALSE]
      BY <3>1, <2>p DEF NewData, Current, SaveInv, w
    <3>2. Copy = Stored(flash) /\ Copy' = Stored(flash')
      BY <3>1, <1>c, <1>d
    <3>3. CASE w.step = "block"
      <4>1. flash' = [flash EXCEPT ![w.blk] = Current]
        BY <3>1, <3>3, <3>n DEF SaveInv, BlockStep
      <4>2. Stored(flash') \in {Stored(flash), ram}
        BY <4>1, <1>f, WriteBlock DEF Current, TypeOK
      <4> QED
        BY <4>2, <3>1, <3>2
    <3>4. CASE w.step = "magic"
      <4>1. NewData(p) = flash[w.blk]
        BY <3>1, <3>4, <3>n, <1>f, MagicCleared DEF SaveInv, MagicStep
      <4>2. flash' = flash
        BY <3>1, <3>4, <4>1, <1>f DEF SaveInv, MagicStep, TypeOK
      <4> QED
        BY <4>2, <3>1, <3>2
    <3> QED
      BY <3>3, <3>4, <1>w
  <2>6. CASE FlashError(p)
    BY <2>6, Quiet DEF FlashError, Quiet
  <2>7. CASE SaveEnd(p)
    <3>1. w' = Idle /\ w.at = "end"
      BY <2>7, <2>e, <2>p DEF SaveEnd, w
    <3> QED
      BY <2>7, <2>u, <3>1 DEF SaveEnd, Idle
  <2>8. CASE SaveReset(p)
    <3>1. w.at # "program" /\ Boot
      BY <2>8, <2>p DEF SaveReset, w
    <3> QED
      BY <3>1, <1>b
  <2> QED
    BY <1>4, <2>1, <2>2, <2>3, <2>4, <2>5, <2>6, <2>7, <2>8 DEF Save
<1> QED
  BY <1>1, <1>2, <1>3, <1>4 DEF Next

\* The two blocks implement the atomic register: f_nv_options_save takes effect
\* at one instant and a restart finds the options before or after it.
THEOREM AtomicSaveHolds ==
  ASSUME Quiet
  PROVE  Spec => AtomicSave
<1>1. Init => Register!RInit
  <2> SUFFICES ASSUME Init PROVE Register!RInit
    OBVIOUS
  <2>1. Contents = flash /\ Stored(flash) = Default
    BY DEF Init, Contents, Savers, Idle, Stored, LoadedBlock, Valid, Erased, Blk
  <2> QED
    BY <2>1, ValueAssumption DEF Init, Register!RInit
<1>2. TypeOK /\ SaveInv /\ (TypeOK /\ SaveInv)' /\ [Next]_vars =>
        [Register!RNext]_(Register!rvars)
  BY StepImplements
<1> QED
  BY <1>1, <1>2, SaveInvariant, PTL DEF Spec, AtomicSave, Register!RSpec
=============================================================================
