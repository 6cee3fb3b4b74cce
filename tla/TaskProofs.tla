----------------------------- MODULE TaskProofs -----------------------------
(***************************************************************************)
(* Proofs about two tasks of the EC that poll.  Debounce: for any number   *)
(* of pins, any debounce count and any width of the counters.  Battery:    *)
(* the charger is off when the thread rests with charging disabled or      *)
(* given up, and no counter passes its limit, for every debounce, error    *)
(* limit and repetition count.                                             *)
(***************************************************************************)
EXTENDS Debounce, Battery, TLAPS
-----------------------------------------------------------------------------
(* The debouncer, Debounce.                                                *)

\* deb_cnt-- stays within the width of deb_cnt.
LEMMA DecrementedType ==
  ASSUME NEW c \in 0 .. CntMod - 1
  PROVE  Decremented(c) \in 0 .. CntMod - 1
BY CountAssumption DEF Decremented

\* Every step of the pins, the interrupts and the thread keeps the types; the
\* counters stay within their width.
LEMMA TypeStep == TypeOK /\ [Next]_vars => TypeOK'
<1> SUFFICES ASSUME TypeOK, [Next]_vars PROVE TypeOK'
  OBVIOUS
<1> USE DEF TypeOK, pins, Registering, Scanning
<1>1. CASE \E p \in Pin : Change(p)
  BY <1>1 DEF Change
<1>2. CASE \E p \in Pin : Isr(p)
  <2> PICK p \in Pin : Isr(p)
    BY <1>2
  <2>1. Reload \in 0 .. CntMod - 1
    BY CountAssumption
  <2>2. deb_cnt' = [deb_cnt EXCEPT ![p] = Reload]
    BY DEF Isr
  <2>3. deb_cnt' \in [Pin -> 0 .. CntMod - 1]
    BY <2>1, <2>2
  <2> QED
    BY <2>3 DEF Isr
<1>3. CASE Arm
  BY <1>3 DEF Arm
<1>4. CASE RegisterRead
  BY <1>4 DEF RegisterRead
<1>5. CASE RegisterStore
  BY <1>5, PinAssumption DEF RegisterStore, Pin
<1>6. CASE Take
  BY <1>6 DEF Take
<1>7. CASE Period
  BY <1>7, PinAssumption DEF Period, Pin
<1>8. CASE Load
  BY <1>8 DEF Load
<1>9. CASE Store
  <2>1. Decremented(cnt) \in 0 .. CntMod - 1
    BY DecrementedType
  <2> QED
    BY <1>9, <2>1 DEF Store
<1>10. CASE Test
  BY <1>10 DEF Test
<1>11. CASE Clear
  BY <1>11 DEF Clear
<1>12. CASE Zero
  BY <1>12, CountAssumption DEF Zero
<1>13. CASE Read
  BY <1>13 DEF Read
<1>14. CASE Notify
  BY <1>14 DEF Notify
<1>15. CASE Count
  BY <1>15, PinAssumption DEF Count, Pin
<1>16. CASE Check
  BY <1>16 DEF Check
<1>17. CASE UNCHANGED vars
  BY <1>17 DEF vars
<1> QED
  BY <1>1, <1>2, <1>3, <1>4, <1>5, <1>6, <1>7, <1>8, <1>9, <1>10, <1>11, <1>12,
     <1>13, <1>14, <1>15, <1>16, <1>17 DEF Next, Thread

\* The thread starts in a state with the right types.
LEMMA InitType == Init => TypeOK
<1> SUFFICES ASSUME Init PROVE TypeOK
  OBVIOUS
<1>1. 0 \in 0 .. CntMod - 1 /\ Reload \in 0 .. CntMod - 1
  BY CountAssumption
<1>2. deb_cnt \in [Pin -> 0 .. CntMod - 1] /\ cnt \in 0 .. CntMod - 1
  BY <1>1 DEF Init
<1>3. 1 \in Pin
  BY PinAssumption DEF Pin
<1>4. irq \in [Pin -> BOOLEAN] /\ debouncing \in [Pin -> BOOLEAN]
  BY DEF Init
<1> QED
  BY <1>2, <1>3, <1>4 DEF Init, TypeOK, Registering, Scanning

\* TypeOK holds in every state: in particular a debounce counter never leaves
\* its width, although a race lets it be decremented below zero.
THEOREM TypeCorrect == Spec => []TypeOK
<1> QED
  BY InitType, TypeStep, PTL DEF Spec

\* The thread votes for deep sleep only while it waits or initialises.
THEOREM NoVoteWhileDebouncingHolds == Spec => []NoVoteWhileDebouncing
<1>1. Init => NoVoteWhileDebouncing
  BY DEF Init, NoVoteWhileDebouncing, Registering
<1>2. TypeOK /\ NoVoteWhileDebouncing /\ [Next]_vars => NoVoteWhileDebouncing'
  <2> SUFFICES ASSUME TypeOK, NoVoteWhileDebouncing, [Next]_vars
               PROVE  NoVoteWhileDebouncing'
    OBVIOUS
  <2> QED
    BY DEF NoVoteWhileDebouncing, TypeOK, Next, Thread, vars, Registering, Change, Isr,
         Arm, RegisterRead, RegisterStore, Take, Period, Load, Store, Test, Clear,
         Zero, Read, Notify, Count, Check
<1> QED
  BY <1>1, <1>2, TypeCorrect, PTL DEF Spec

\* The thread clears a pin's debounce only after it found it debouncing.
LEMMA ScanStep == TypeOK /\ ScanInv /\ [Next]_vars => ScanInv'
<1> SUFFICES ASSUME TypeOK, ScanInv, [Next]_vars PROVE ScanInv'
  OBVIOUS
<1> QED
  BY DEF ScanInv, TypeOK, Next, Thread, vars, pins, Registering, Change, Isr, Arm,
       RegisterRead, RegisterStore, Take, Period, Load, Store, Test, Clear,
       Zero, Read, Notify, Count, Check

\* Every step keeps the invariant: a change is latched, being debounced or in
\* the thread's hands, and a debounced pin will be looked at again.
LEMMA InvStep == DebounceInv /\ [Next]_vars => DebounceInv'
<1> SUFFICES ASSUME DebounceInv, [Next]_vars PROVE DebounceInv'
  OBVIOUS
<1>t. TypeOK /\ ScanInv /\ TypeOK' /\ ScanInv'
  BY TypeStep, ScanStep DEF DebounceInv
<1> SUFFICES ASSUME NEW p \in Pin PROVE Noticed(p)' /\ Watched(p)'
  BY <1>t DEF DebounceInv
<1>p. Noticed(p) /\ Watched(p)
  BY DEF DebounceInv
<1>i. /\ i \in Pin /\ p \in Int /\ i \in Int /\ NPins \in Int /\ p >= 1 /\ p <= NPins
      /\ ongoing \in Nat
  BY <1>t, PinAssumption DEF TypeOK, Pin
<1> USE <1>t, <1>p, <1>i DEF Noticed, Known, InHand, Watched, pins, Scanning
<1>1. CASE \E q \in Pin : Change(q)
  <2> PICK q \in Pin : Change(q)
    BY <1>1
  <2> QED
    BY DEF Change, TypeOK
<1>2. CASE \E q \in Pin : Isr(q)
  BY <1>2 DEF Isr, TypeOK
<1>3. CASE Arm
  BY <1>3 DEF Arm, ScanInv
<1>4. CASE RegisterRead
  BY <1>4 DEF RegisterRead
<1>5. CASE RegisterStore
  <2>1. prev_level' = [prev_level EXCEPT ![i] = lvl]
    BY <1>5 DEF RegisterStore
  <2>2. IF p = i THEN prev_level'[p] = lvl ELSE prev_level'[p] = prev_level[p]
    BY <2>1 DEF TypeOK
  <2>3. (prev_level[p] = level[p] /\ p # i) \/ (lvl = level[p] /\ p = i)
           => prev_level'[p] = level'[p]
    BY <1>5, <2>2, Zenon DEF RegisterStore
  <2>4. Noticed(p)'
    BY <1>5, <2>3 DEF RegisterStore
  <2>5. Watched(p)'
    BY <1>5 DEF RegisterStore
  <2> QED
    BY <2>4, <2>5
<1>6. CASE Take
  BY <1>6 DEF Take
<1>7. CASE Period
  BY <1>7 DEF Period
<1>8. CASE Load
  BY <1>8 DEF Load
<1>9. CASE Store
  BY <1>9 DEF Store
<1>10. CASE Test
  BY <1>10 DEF Test
<1>11. CASE Clear
  BY <1>11 DEF Clear, TypeOK
<1>12. CASE Zero
  BY <1>12 DEF Zero
<1>13. CASE Read
  BY <1>13 DEF Read
<1>14. CASE Notify
  <2>1. prev_level' = [prev_level EXCEPT ![i] = lvl]
    BY <1>14 DEF Notify
  <2>2. IF p = i THEN prev_level'[p] = lvl ELSE prev_level'[p] = prev_level[p]
    BY <2>1 DEF TypeOK
  <2>3. (prev_level[p] = level[p] /\ p # i) \/ (lvl = level[p] /\ p = i)
           => prev_level'[p] = level'[p]
    BY <1>14, <2>2, Zenon DEF Notify
  <2>4. Noticed(p)'
    BY <1>14, <2>3 DEF Notify
  <2>5. Watched(p)'
    BY <1>14 DEF Notify
  <2> QED
    BY <2>4, <2>5
<1>15. CASE Count
  BY <1>15 DEF Count
<1>16. CASE Check
  BY <1>16 DEF Check
<1>17. CASE UNCHANGED vars
  BY <1>17 DEF vars
<1> QED
  BY <1>1, <1>2, <1>3, <1>4, <1>5, <1>6, <1>7, <1>8, <1>9, <1>10, <1>11, <1>12,
     <1>13, <1>14, <1>15, <1>16, <1>17 DEF Next, Thread

\* No interleaving of pin interrupts with the thread loses a level change: when
\* the thread is blocked and the semaphore is not given, every handler knows its
\* pin's level or the edge is still latched.
THEOREM NothingMissedHolds == Spec => []NothingMissed
<1>1. Init => DebounceInv
  BY InitType DEF Init, DebounceInv, ScanInv, Noticed, Known, InHand, Watched
<1>2. DebounceInv => NothingMissed
  BY DEF DebounceInv, NothingMissed, Noticed, Known, InHand, Watched, Scanning
<1> QED
  BY <1>1, <1>2, InvStep, PTL DEF Spec
-----------------------------------------------------------------------------
(* The battery, Battery.                                                   *)

Rest == {"DISABLE", "DEAD"}

\* The charger follows oldChgSt, the copy that board_smtbty_doCharge compares with, and
\* not the status it shares with app_smtbty_proc, which a removal resets in mid-pass.
Off == told /\ lost = 0 /\ oldChgSt \in Rest => ~chg

ChargerInv ==
  /\ lost \in Nat
  /\ batPc \in {"idle", "detect"} => chgSt = oldChgSt
  /\ chgSt = oldChgSt \/ chgSt = "DISABLE"
  /\ Off

LEMMA ChargerInit == BatteryInit => ChargerInv
BY DEF BatteryInit, ChargerInv, Off

\* What a write to the charger can do, missed or not.
LEMMA ChargerWrite ==
  ASSUME NEW on \in BOOLEAN, lost \in Nat, SetCharger(on)
  PROVE  lost' \in Nat /\ (lost' = 0 => lost = 0 /\ chg' = on)
BY DEF SetCharger

LEMMA ChargerKept ==
  ASSUME NoCharger
  PROVE  chg' = chg /\ lost' = lost /\ told' = told
BY DEF NoCharger, chgVars

LEMMA DisableStep ==
  ASSUME ChargerInv, Disable
  PROVE  ChargerInv'
<1>1. chgSt' = "DISABLE" /\ oldChgSt' = "DISABLE"
  BY DEF Disable, Finish
<1>2. CASE SetCharger(FALSE)
  BY <1>1, <1>2, ChargerWrite DEF ChargerInv, Off
<1>3. CASE oldChgSt = "DISABLE" /\ NoCharger
  BY <1>1, <1>3, ChargerKept DEF ChargerInv, Off, Rest
<1> QED
  BY <1>2, <1>3 DEF Disable

LEMMA DetectStep ==
  ASSUME ChargerInv, Detect
  PROVE  ChargerInv'
<1>1. chgSt = oldChgSt /\ oldChgSt' = oldChgSt
  BY DEF ChargerInv, Detect
<1>2. CASE Attach
  BY <1>1, <1>2, ChargerKept DEF Attach, ChargerInv, Off
<1>3. CASE Detach
  BY <1>1, <1>3, ChargerWrite DEF Detach, ChargerInv, Off
<1>4. ASSUME NEW answer, StillAbsent(answer) PROVE ChargerInv'
  <2>1. chgSt' = chgSt /\ (SetCharger(FALSE) \/ NoCharger)
    BY <1>4 DEF StillAbsent
  <2>2. CASE SetCharger(FALSE)
    BY <1>1, <2>1, <2>2, ChargerWrite DEF ChargerInv, Off
  <2>3. CASE NoCharger
    BY <1>1, <2>1, <2>3, ChargerKept DEF ChargerInv, Off
  <2> QED
    BY <2>1, <2>2, <2>3
<1>5. ASSUME NEW answer, StillConnected(answer) PROVE ChargerInv'
  BY <1>1, <1>5, ChargerKept DEF StillConnected, ChargerInv, Off
<1> QED
  BY <1>2, <1>3, <1>4, <1>5 DEF Detect

LEMMA DecideStep ==
  ASSUME ChargerInv, Decide
  PROVE  ChargerInv'
<1>1. CASE StayDead
  <2>1. chgSt = oldChgSt /\ UNCHANGED <<chgSt, oldChgSt, chg, lost, told>>
    BY <1>1 DEF StayDead, ChargerInv, stVars, chgVars
  <2> QED
    BY <2>1 DEF ChargerInv, Off
<1>2. CASE GiveUp
  BY <1>2, ChargerWrite DEF GiveUp, Finish, ChargerInv, Off
<1>3. CASE Reactivate
  <2>1. chgSt = "REACTIVATING" /\ oldChgSt = "REACTIVATING"
    BY <1>3 DEF Reactivate, ChargerInv
  <2>2. SetCharger(TRUE) \/ NoCharger
    BY <1>3 DEF Reactivate
  <2>3. chgSt' = oldChgSt' /\ oldChgSt' \in {"PRE_CHARGE", "REACTIVATING"}
    BY <1>3, <2>1 DEF Reactivate, Finish, stVars
  <2>4. lost' \in Nat
    BY <2>2, ChargerWrite, ChargerKept DEF ChargerInv
  <2> QED
    BY <2>3, <2>4 DEF ChargerInv, Off, Rest
<1>4. CASE Look
  <2>1. CASE Disable
    BY <2>1, DisableStep
  <2>2. CASE batPc' = "status" /\ NoCharger /\ UNCHANGED stVars
    BY <2>2, ChargerKept DEF ChargerInv, Off, stVars
  <2> QED
    BY <1>4, <2>1, <2>2 DEF Look
<1> QED
  BY <1>1, <1>2, <1>3, <1>4 DEF Decide

LEMMA StatusStep ==
  ASSUME ChargerInv, Status
  PROVE  ChargerInv'
<1>1. CASE Disable
  BY <1>1, DisableStep
<1>2. CASE /\ SetCharger(TRUE) \/ NoCharger
           /\ \E new \in {"REACTIVATING", "NORMAL", "PRE_CHARGE"} : Finish(new)
  <2>1. lost' \in Nat
    BY <1>2, ChargerWrite, ChargerKept DEF ChargerInv
  <2> QED
    BY <1>2, <2>1 DEF Finish, ChargerInv, Off, Rest
<1> QED
  BY <1>1, <1>2 DEF Status

LEMMA ChargerStep == ChargerInv /\ [BatteryNext]_batteryVars => ChargerInv'
<1> SUFFICES ASSUME ChargerInv, [BatteryNext]_batteryVars PROVE ChargerInv'
  OBVIOUS
<1>1. CASE Begin
  BY <1>1 DEF Begin, ChargerInv, Off, stVars, chgVars
<1>2. CASE Refresh
  BY <1>2 DEF Refresh, ChargerInv, Off, stVars, chgVars
<1>3. CASE UNCHANGED <<chgVars, stVars, batPc>>
  BY <1>3 DEF ChargerInv, Off, stVars, chgVars
<1> QED
  BY <1>1, <1>2, <1>3, DetectStep, DecideStep, StatusStep
  DEF BatteryNext, Step, Fit, PlugAc, Alarm, Expire, Freeze, Unfreeze, firmware, batteryVars,
      chgVars, stVars

\* board_smtbty_doCharge with the removal of a battery between its passes and lost
\* writes: at rest, a status that ends charging goes with a charger that is off.
THEOREM DisabledMeansOffHolds == BatterySpec => []DisabledMeansOff
<1>1. ChargerInv => DisabledMeansOff
  BY DEF ChargerInv, Off, Rest, DisabledMeansOff
<1> QED
  BY ChargerInit, ChargerStep, <1>1, PTL DEF BatterySpec
-----------------------------------------------------------------------------
(* The counters.                                                           *)

LEMMA FlagStep == BatteryFlags /\ [BatteryNext]_batteryVars => BatteryFlags'
<1> SUFFICES ASSUME BatteryFlags, [BatteryNext]_batteryVars PROVE BatteryFlags'
  OBVIOUS
<1> USE DEF BatteryFlags, ChgStatus, envVars, chgVars, detectVars, btyVars, stVars, firmware
<1>1. ASSUME NEW found \in BOOLEAN, NEW answer, Pull(found, answer) PROVE fresh' \in BOOLEAN
  BY <1>1 DEF Pull
<1>2. ASSUME NEW on \in BOOLEAN, SetCharger(on) \/ NoCharger
      PROVE  chg' \in BOOLEAN /\ told' \in BOOLEAN
  BY <1>2 DEF SetCharger, NoCharger
<1>3. CASE Detect
  <2>1. chg' \in BOOLEAN /\ told' \in BOOLEAN
    BY <1>2, <1>3 DEF Detect, Attach, Detach, StillAbsent, StillConnected
  <2>2. fresh' \in BOOLEAN
    BY <1>1, <1>3 DEF Detect
  <2>3. connected' \in BOOLEAN /\ present' \in BOOLEAN
    BY <1>3 DEF Detect, Attach, Detach, StillAbsent, StillConnected
  <2>4. /\ chgSt' \in {chgSt, "DISABLE"} /\ batPc' \in {"idle", "refresh"}
        /\ UNCHANGED <<bat, ac, stop, ready, oldChgSt>>
    BY <1>3 DEF Detect, Attach, Detach, StillAbsent, StillConnected
  <2> QED
    BY <2>1, <2>2, <2>3, <2>4
<1>4. CASE Decide
  <2>1. CASE StayDead
    BY <1>4, <2>1 DEF Decide, StayDead
  <2>2. CASE GiveUp
    BY <1>2, <1>4, <2>2 DEF Decide, GiveUp, Finish
  <2>3. CASE Reactivate
    BY <1>2, <1>4, <2>3 DEF Decide, Reactivate, Finish
  <2>4. CASE Look
    BY <1>1, <1>2, <1>4, <2>4 DEF Decide, Look, Disable, Finish
  <2> QED
    BY <1>4, <2>1, <2>2, <2>3, <2>4 DEF Decide
<1>5. CASE Status
  BY <1>2, <1>5 DEF Status, Disable, Finish
<1>6. CASE Begin \/ Refresh
  BY <1>6 DEF Begin, Refresh
<1>7. CASE Fit \/ PlugAc \/ Alarm \/ Expire \/ Freeze \/ Unfreeze
  <2>1. /\ bat' \in BOOLEAN /\ ac' \in BOOLEAN /\ stop' \in BOOLEAN /\ ready' \in BOOLEAN
        /\ fresh' \in BOOLEAN
    <3>1. CASE Fit
      BY <3>1, Zenon DEF Fit
    <3>2. CASE PlugAc \/ Alarm
      BY <3>2, Zenon DEF PlugAc, Alarm
    <3>3. CASE Expire \/ Freeze \/ Unfreeze
      BY <3>3, Zenon DEF Expire, Freeze, Unfreeze
    <3> QED
      BY <1>7, <3>1, <3>2, <3>3
  <2>2. UNCHANGED <<chg, told, connected, present, chgSt, oldChgSt, batPc>>
    BY <1>7 DEF Fit, PlugAc, Alarm, Expire, Freeze, Unfreeze
  <2> QED
    BY <2>1, <2>2
<1>8. CASE UNCHANGED batteryVars
  BY <1>8 DEF batteryVars
<1> QED
  BY <1>3, <1>4, <1>5, <1>6, <1>7, <1>8 DEF BatteryNext, Step

\* The answers counted by an earlier reactivation are forgotten before the next begins.
AnswersInv == chgSt = "REACTIVATING" \/ batPc = "status" => resp <= RespLimit

LEMMA PullCounters ==
  ASSUME BatteryCounters, NEW found \in BOOLEAN, NEW answer, Pull(found, answer)
  PROVE  detach' \in 0 .. DetachDebounce /\ pinDeb' \in 0 .. PinDebounce
BY BatteryAssumption DEF Pull, BatteryCounters, detectVars

LEMMA ErrorsCounted ==
  ASSUME BatteryCounters, NEW answer
  PROVE  Errors(answer) \in 0 .. ErrLimit + 1 /\ PullErrors(answer) \in 0 .. ErrLimit + 1
BY BatteryAssumption DEF Errors, PullErrors, BatteryCounters

LEMMA WritesCounted ==
  ASSUME BatteryCounters, NEW on, SetCharger(on) \/ NoCharger
  PROVE  lost' \in 0 .. MaxLost
BY BatteryAssumption DEF SetCharger, NoCharger, chgVars, BatteryCounters

LEMMA DisableCounters ==
  ASSUME BatteryCounters, Disable
  PROVE  /\ lost' \in 0 .. MaxLost /\ skipped' \in 0 .. DisableEvery + 1
         /\ chgSt' = "DISABLE" /\ batPc' = "idle"
<1>1. lost' \in 0 .. MaxLost
  BY WritesCounted DEF Disable
<1>2. chgSt' = "DISABLE" /\ batPc' = "idle"
  BY DEF Disable, Finish
<1>3. skipped' = 0 \/ (~(skipped > DisableEvery) /\ skipped' = skipped + 1)
  BY DEF Disable
<1>4. DisableEvery \in Nat
  BY BatteryAssumption
<1> QED
  BY <1>1, <1>2, <1>3, <1>4, BatteryAssumption DEF BatteryCounters

LEMMA CounterStep ==
  ASSUME BatteryCounters, AnswersInv, [BatteryNext]_batteryVars
  PROVE  BatteryCounters' /\ AnswersInv'
<1> USE BatteryAssumption
<1>1. CASE Detect
  <2>1. UNCHANGED <<react, resp, skipped>>
    BY <1>1 DEF Detect, reactVars
  <2>2. detach' \in 0 .. DetachDebounce /\ pinDeb' \in 0 .. PinDebounce
    BY <1>1, PullCounters DEF Detect
  <2>3. errs' \in 0 .. ErrLimit + 1
    <3>1. errs' = 0 \/ \E answer \in PullAnswers : errs' = PullErrors(answer)
      BY <1>1 DEF Detect, Attach, Detach, StillAbsent, StillConnected
    <3> QED
      BY <3>1, ErrorsCounted
  <2>4. lost' \in 0 .. MaxLost
    BY <1>1, WritesCounted DEF Detect, Attach, Detach, StillAbsent, StillConnected
  <2>5. absent' \in 0 .. AbsentEvery + 1
    <3>1. absent' = absent \/ absent' = 0 \/ (~(absent > AbsentEvery) /\ absent' = absent + 1)
      BY <1>1 DEF Detect, Attach, Detach, StillAbsent, StillConnected
    <3> QED
      BY <3>1 DEF BatteryCounters
  <2>6. chgSt' \in {chgSt, "DISABLE"} /\ batPc' # "status"
    BY <1>1 DEF Detect, Attach, Detach, StillAbsent, StillConnected
  <2> QED
    BY <2>1, <2>2, <2>3, <2>4, <2>5, <2>6 DEF BatteryCounters, AnswersInv
<1>2. CASE Decide
  <2>1. absent' = absent
    BY <1>2 DEF Decide
  <2>2. CASE StayDead
    BY <2>1, <2>2 DEF StayDead, BatteryCounters, AnswersInv, chgVars, detectVars, stVars, reactVars
  <2>3. CASE GiveUp
    <3>1. lost' \in 0 .. MaxLost
      BY <2>3, WritesCounted DEF GiveUp
    <3> QED
      BY <2>1, <2>3, <3>1 DEF GiveUp, Finish, BatteryCounters, AnswersInv, detectVars, reactVars
  <2>4. CASE Reactivate
    <3>1. lost' \in 0 .. MaxLost
      BY <2>4, WritesCounted DEF Reactivate
    <3>2. errs' \in 0 .. ErrLimit + 1
      BY <2>4, ErrorsCounted DEF Reactivate, BatteryCounters
    <3>3. resp' \in 0 .. RespLimit + 1
      <4>1. resp \in 0 .. RespLimit
        BY <2>4 DEF Reactivate, BatteryCounters, AnswersInv
      <4>2. resp' \in {resp, resp + 1, 0}
        BY <2>4 DEF Reactivate
      <4> QED
        BY <4>1, <4>2
    <3>4. react' \in 0 .. ReactLimit + 1
      BY <2>4 DEF Reactivate, BatteryCounters
    <3>5. batPc' = "idle" /\ (chgSt' = "REACTIVATING" => ~(resp' > RespLimit))
      BY <2>4 DEF Reactivate, Finish
    <3>6. AnswersInv'
      BY <3>3, <3>5 DEF AnswersInv
    <3> QED
      BY <2>1, <2>4, <3>1, <3>2, <3>3, <3>4, <3>6 DEF Reactivate, BatteryCounters, detectVars
  <2>5. CASE Look
    <3>1. react' = 0 /\ resp' = 0
      BY <2>5 DEF Look
    <3>2. detach' \in 0 .. DetachDebounce /\ pinDeb' \in 0 .. PinDebounce
      BY <2>5, PullCounters DEF Look
    <3>3. errs' \in 0 .. ErrLimit + 1
      BY <2>5, ErrorsCounted DEF Look
    <3>4. lost' \in 0 .. MaxLost /\ skipped' \in 0 .. DisableEvery + 1
      BY <2>5, WritesCounted, DisableCounters DEF Look, BatteryCounters
    <3> QED
      BY <2>1, <3>1, <3>2, <3>3, <3>4 DEF BatteryCounters, AnswersInv
  <2> QED
    BY <1>2, <2>2, <2>3, <2>4, <2>5 DEF Decide
<1>3. CASE Status
  <2>1. batPc = "status" /\ UNCHANGED <<detach, pinDeb, react, resp, absent>>
    BY <1>3 DEF Status, detectVars, reactVars
  <2>2. errs' \in 0 .. ErrLimit + 1
    BY <1>3, ErrorsCounted DEF Status
  <2>3. lost' \in 0 .. MaxLost /\ skipped' \in 0 .. DisableEvery + 1
    BY <1>3, WritesCounted, DisableCounters DEF Status, BatteryCounters
  <2> QED
    BY <2>1, <2>2, <2>3 DEF BatteryCounters, AnswersInv
<1>4. CASE Refresh
  <2>1. errs' \in 0 .. ErrLimit + 1
    BY <1>4, ErrorsCounted DEF Refresh
  <2> QED
    BY <1>4, <2>1 DEF Refresh, BatteryCounters, AnswersInv, chgVars, detectVars, stVars, reactVars
<1>5. CASE Begin
  BY <1>5 DEF Begin, BatteryCounters, AnswersInv, chgVars, detectVars, stVars, reactVars
<1>6. CASE Fit \/ PlugAc \/ Alarm \/ Expire \/ Freeze \/ Unfreeze
  BY <1>6 DEF Fit, PlugAc, Alarm, Expire, Freeze, Unfreeze, firmware, BatteryCounters, AnswersInv,
     chgVars, detectVars, stVars, reactVars
<1>7. CASE UNCHANGED batteryVars
  BY <1>7 DEF batteryVars, BatteryCounters, AnswersInv
<1> QED
  BY <1>1, <1>2, <1>3, <1>4, <1>5, <1>6, <1>7 DEF BatteryNext, Step

\* Every counter of app_smtbty.c, board_smtbty.c and dev_smtbty.c stops at its limit,
\* however batteries come, go and fail to answer: none of them can wrap.
THEOREM BatteryTypeCorrect == BatterySpec => []BatteryTypeOK
<1> DEFINE Inv == BatteryFlags /\ BatteryCounters /\ AnswersInv
<1>1. BatteryInit => BatteryFlags
  BY DEF BatteryInit, BatteryFlags, ChgStatus
<1>2. BatteryInit => BatteryCounters /\ AnswersInv
  BY BatteryAssumption DEF BatteryInit, BatteryCounters, AnswersInv
<1>3. Inv /\ [BatteryNext]_batteryVars => Inv'
  BY FlagStep, CounterStep
<1>4. Inv => BatteryTypeOK
  BY DEF BatteryTypeOK
<1> QED
  BY <1>1, <1>2, <1>3, <1>4, PTL DEF BatterySpec
=============================================================================
