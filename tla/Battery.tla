------------------------------ MODULE Battery ------------------------------
(***************************************************************************)
(* Detecting and charging the battery: src/app/battery_management/         *)
(* app_smtbty.c, with the callbacks that the board's board_smtbty.c        *)
(* registers and the error counter of src/drivers/dev_smtbty.c.            *)
(*                                                                         *)
(* One pass of batterymgmt_thread is five steps, one for each group of     *)
(* battery reads that a single answer stands for; everything else may      *)
(* happen in between.  A fitted battery may fail to answer; writes to the  *)
(* charger may fail MaxLost times.  Charging voltage and current, reported *)
(* flags and LEDs are data.                                                *)
(***************************************************************************)
EXTENDS Integers

CONSTANTS
  DetachDebounce,   \* __F_BTY_DETACH_DEBOUNCE__, 5
  PinDebounce,      \* __F_BTY_PIN_PRESENT_DEBOUNCE__, 2
  ErrLimit,         \* continuous errors before a battery is reactivated, 0x120
  ReactLimit,       \* passes of reactivation before a battery is dead, 1800
  ReactEvery,       \* passes between two attempts of it, 20
  RespLimit,        \* answers that end it, 10
  DisableEvery,     \* passes between two repeated disables while connected, 20
  AbsentEvery,      \* the same without a battery, 200
  MaxLost           \* bound: failed writes to the charger

ASSUME BatteryAssumption ==
  /\ {DetachDebounce, PinDebounce, ErrLimit, ReactLimit, RespLimit} \subseteq Nat
  /\ {DisableEvery, AbsentEvery, MaxLost} \subseteq Nat /\ ReactEvery \in Nat \ {0}

VARIABLES
  bat,              \* a battery is fitted; BAT_PRSNT_N shows it
  ac,               \* g_ChgAcOK
  stop,             \* the battery's status asks to end charging
  ready,            \* g_batteryIsReadyToGo, and the system is above G3
  chg, lost,        \* the charger is enabled; the writes it has missed
  told,             \* history: the charger has been told whether to charge
  fresh,            \* _btyI2CRefreshTimeStamp runs
  detach, pinDeb,   \* _btyDetachDebounce, _btyPinPresentDebounce
  errs,             \* continuousErrCount, up to ErrLimit + 1
  connected,        \* btyFlag.f.connected
  present,          \* g_batPresentFlag
  chgSt, oldChgSt,  \* _s_smtbty_chgSt, and oldChgSt of board_smtbty_doCharge
  react, resp,      \* _s_smtbty_reactivingCounter, _s_smtbty_batteryResponseCounter
  skipped, absent,  \* __s_skippedChgDisLoops, u8skippedLoops
  batPc             \* "idle", "detect", "refresh", "decide", "status"

envVars == <<bat, ac, stop, ready>>
chgVars == <<chg, lost, told>>
detectVars == <<fresh, detach, pinDeb>>
btyVars == <<connected, present>>
stVars == <<chgSt, oldChgSt>>
reactVars == <<react, resp>>
batteryVars == <<bat, ac, stop, ready, chg, lost, told, fresh, detach, pinDeb, errs, connected,
                 present, chgSt, oldChgSt, react, resp, skipped, absent, batPc>>

ChgStatus == {"DISABLE", "NORMAL", "PRE_CHARGE", "REACTIVATING", "DEAD"}

\* app_smtbty_init and app_smtbty_start; nobody has told the charger anything yet.
BatteryInit ==
  /\ bat \in BOOLEAN /\ ac \in BOOLEAN /\ stop = FALSE /\ ready = TRUE
  /\ chg \in BOOLEAN /\ lost = 0 /\ told = FALSE
  /\ fresh = FALSE /\ detach = 0 /\ pinDeb = 0 /\ errs = 0
  /\ connected = FALSE /\ present = FALSE
  /\ chgSt = "DISABLE" /\ oldChgSt = "DISABLE" /\ react = 0 /\ resp = 0
  /\ skipped = 0 /\ absent = 0 /\ batPc = "idle"
-----------------------------------------------------------------------------
(* The charger, and reads from the battery.                                *)

\* board_smtbty_ChgEnable, board_smtbty_ChgDisable: nobody looks at the result.
SetCharger(on) ==
  \/ chg' = on /\ told' = TRUE /\ UNCHANGED lost
  \/ lost < MaxLost /\ lost' = lost + 1 /\ UNCHANGED <<chg, told>>

NoCharger == UNCHANGED chgVars

\* Whether the battery answers, and the error counter after it did or did not.
Answers == IF bat THEN BOOLEAN ELSE {FALSE}
Errors(answer) == IF answer THEN 0 ELSE IF errs > ErrLimit THEN errs ELSE errs + 1

\* board_battery_pullBtyI2cInterface; an answer is needed only when it is read.
Pull(found, answer) ==
  \/ fresh /\ found /\ answer /\ UNCHANGED detectVars
  \/ /\ ~fresh /\ answer /\ found
     /\ fresh' = TRUE /\ detach' = DetachDebounce /\ UNCHANGED pinDeb
  \/ /\ ~fresh /\ ~answer /\ detach > 0 /\ found
     /\ detach' = detach - 1 /\ UNCHANGED <<fresh, pinDeb>>
  \/ LET seen == IF bat THEN pinDeb ELSE 0 IN
     /\ ~fresh /\ ~answer /\ detach = 0
     /\ found = (seen >= PinDebounce)
     /\ pinDeb' = IF found THEN seen ELSE seen + 1
     /\ UNCHANGED <<fresh, detach>>

\* The values of answer that Pull can meet, and the error counter after it.
PullAnswers == IF fresh THEN {TRUE} ELSE Answers
PullErrors(answer) == IF fresh THEN errs ELSE Errors(answer)
-----------------------------------------------------------------------------
(* batterymgmt_thread and app_smtbty_proc.                                 *)

Begin ==
  /\ batPc = "idle" /\ ready
  /\ batPc' = "detect"
  /\ UNCHANGED <<envVars, chgVars, detectVars, errs, btyVars, stVars, reactVars, skipped,
                 absent>>

\* A battery is found where there was none: board_smtbty_onBtyAttach.
Attach ==
  /\ ~connected
  /\ connected' = TRUE /\ present' = TRUE /\ chgSt' = "DISABLE" /\ errs' = 0
  /\ NoCharger /\ batPc' = "refresh" /\ UNCHANGED absent

\* board_smtbty_onBtyDetach
Detach ==
  /\ connected
  /\ connected' = FALSE /\ present' = FALSE /\ chgSt' = "DISABLE" /\ errs' = 0
  /\ SetCharger(FALSE) /\ batPc' = "refresh" /\ UNCHANGED absent

\* Bug: without a battery there is nothing to disable.
StillAbsent_Skip(answer) ==
  /\ ~connected
  /\ UNCHANGED <<btyVars, chgSt, chgVars, absent>>
  /\ errs' = PullErrors(answer) /\ batPc' = "idle"

StillAbsent(answer) ==
  /\ ~connected
  /\ IF absent > AbsentEvery THEN SetCharger(FALSE) /\ absent' = 0
                             ELSE NoCharger /\ absent' = absent + 1
  /\ UNCHANGED <<btyVars, chgSt>>
  /\ errs' = PullErrors(answer) /\ batPc' = "idle"

StillConnected(answer) ==
  /\ connected
  /\ UNCHANGED <<btyVars, chgSt, absent>>
  /\ NoCharger
  /\ errs' = PullErrors(answer) /\ batPc' = "refresh"

Detect ==
  /\ batPc = "detect"
  /\ \E answer \in PullAnswers, found \in BOOLEAN :
       /\ Pull(found, answer)
       /\ IF found THEN Attach \/ StillConnected(answer)
                   ELSE Detach \/ StillAbsent(answer)
  /\ UNCHANGED <<envVars, oldChgSt, reactVars, skipped>>

\* The registers that are read periodically.
Refresh ==
  /\ batPc = "refresh" /\ batPc' = "decide"
  /\ \E answer \in Answers : errs' = Errors(answer)
  /\ UNCHANGED <<envVars, chgVars, detectVars, btyVars, stVars, reactVars, skipped, absent>>
-----------------------------------------------------------------------------
(* board_smtbty_doCharge.                                                  *)

\* _endof_doCharge, with the flags and notifications of the rest of the pass.
Finish(new) == chgSt' = new /\ oldChgSt' = new /\ batPc' = "idle"

\* Bug: the status it shares with app_smtbty_proc in place of its own copy.
Disable_SharedStatus ==
  /\ IF chgSt # "DISABLE" \/ skipped > DisableEvery
       THEN SetCharger(FALSE) /\ skipped' = 0
       ELSE NoCharger /\ skipped' = skipped + 1
  /\ Finish("DISABLE")

\* A status that ends charging is written to the charger when it is new, and
\* again from time to time.
Disable ==
  /\ IF oldChgSt # "DISABLE" \/ skipped > DisableEvery
       THEN SetCharger(FALSE) /\ skipped' = 0
       ELSE NoCharger /\ skipped' = skipped + 1
  /\ Finish("DISABLE")

StayDead ==
  /\ chgSt = "DEAD"
  /\ batPc' = "idle"
  /\ UNCHANGED <<chgVars, detectVars, errs, stVars, reactVars, skipped>>

GiveUp ==
  /\ chgSt = "REACTIVATING" /\ react > ReactLimit
  /\ SetCharger(FALSE) /\ Finish("DEAD")
  /\ UNCHANGED <<detectVars, errs, reactVars, skipped>>

\* Every ReactEvery-th pass enables the charger and asks for an answer.
Reactivate ==
  /\ chgSt = "REACTIVATING" /\ react <= ReactLimit
  /\ IF react % ReactEvery = 0
       THEN /\ SetCharger(TRUE)
            /\ \E answer \in Answers :
                 resp' = (IF answer THEN resp + 1 ELSE 0) /\ errs' = Errors(answer)
       ELSE NoCharger /\ UNCHANGED <<resp, errs>>
  /\ IF resp' > RespLimit
       THEN Finish("PRE_CHARGE") /\ UNCHANGED react
       ELSE react' = react + 1 /\ batPc' = "idle" /\ UNCHANGED stVars
  /\ UNCHANGED <<detectVars, skipped>>

\* Is there a battery, and power to charge it with?
Look ==
  /\ chgSt \notin {"DEAD", "REACTIVATING"}
  /\ react' = 0 /\ resp' = 0
  /\ \E answer \in PullAnswers, found \in BOOLEAN :
       /\ Pull(found, answer)
       /\ errs' = PullErrors(answer)
       /\ IF (found \/ present) /\ ac
            THEN batPc' = "status" /\ NoCharger /\ UNCHANGED <<stVars, skipped>>
            ELSE Disable

Decide ==
  /\ batPc = "decide"
  /\ StayDead \/ GiveUp \/ Reactivate \/ Look
  /\ UNCHANGED <<envVars, btyVars, absent>>

\* What the status, if it could be read, and the charge throttle make of it.
Status ==
  /\ batPc = "status"
  /\ \E answer \in Answers, throttled \in BOOLEAN :
       /\ errs' = Errors(answer)
       /\ IF (answer /\ stop) \/ throttled THEN Disable
          ELSE /\ IF answer THEN SetCharger(TRUE) ELSE NoCharger
               /\ IF errs' > ErrLimit THEN Finish("REACTIVATING")
                  ELSE \E new \in {"NORMAL", "PRE_CHARGE"} :
                         (new = "PRE_CHARGE" => answer) /\ Finish(new)
               /\ UNCHANGED skipped
  /\ UNCHANGED <<envVars, detectVars, btyVars, reactVars, absent>>
-----------------------------------------------------------------------------
(* The outside world.                                                      *)

firmware == <<chgVars, detectVars, errs, btyVars, stVars, reactVars, skipped, absent, batPc>>

Fit == bat' = ~bat /\ stop' = FALSE /\ UNCHANGED <<ac, ready, firmware>>
PlugAc == ac' = ~ac /\ UNCHANGED <<bat, stop, ready, firmware>>
Alarm == bat /\ stop' = ~stop /\ UNCHANGED <<bat, ac, ready, firmware>>

\* The recheck delay is over.
Expire ==
  /\ fresh /\ fresh' = FALSE
  /\ UNCHANGED <<envVars, chgVars, detach, pinDeb, errs, btyVars, stVars, reactVars, skipped,
                 absent, batPc>>

\* app_smtbty_frozen, when S0 is entered, and its timer
Freeze == ready /\ ready' = FALSE /\ UNCHANGED <<bat, ac, stop, firmware>>
Unfreeze == ~ready /\ ready' = TRUE /\ UNCHANGED <<bat, ac, stop, firmware>>

Step == Detect \/ Refresh \/ Decide \/ Status

BatteryNext == Begin \/ Step \/ Fit \/ PlugAc \/ Alarm \/ Expire \/ Freeze \/ Unfreeze

BatterySpec == BatteryInit /\ [][BatteryNext]_batteryVars

\* Passes go on, and a timer that runs expires.  S0 is entered far less often
\* than a pass begins.
BatteryFairSpec ==
  /\ BatterySpec
  /\ SF_batteryVars(Begin) /\ WF_batteryVars(Step)
  /\ WF_batteryVars(Expire) /\ WF_batteryVars(Unfreeze)
-----------------------------------------------------------------------------
(* Properties.                                                             *)

BatteryFlags ==
  /\ bat \in BOOLEAN /\ ac \in BOOLEAN /\ stop \in BOOLEAN /\ ready \in BOOLEAN
  /\ chg \in BOOLEAN /\ told \in BOOLEAN /\ fresh \in BOOLEAN
  /\ connected \in BOOLEAN /\ present \in BOOLEAN
  /\ chgSt \in ChgStatus /\ oldChgSt \in ChgStatus
  /\ batPc \in {"idle", "detect", "refresh", "decide", "status"}

\* Every counter stops at its limit: the debounces, the error count, the attempts and
\* answers of a reactivation, and the passes skipped between two repeated disables.
BatteryCounters ==
  /\ lost \in 0 .. MaxLost /\ detach \in 0 .. DetachDebounce /\ pinDeb \in 0 .. PinDebounce
  /\ errs \in 0 .. ErrLimit + 1
  /\ react \in 0 .. ReactLimit + 1 /\ resp \in 0 .. RespLimit + 1
  /\ skipped \in 0 .. DisableEvery + 1 /\ absent \in 0 .. AbsentEvery + 1

BatteryTypeOK == BatteryFlags /\ BatteryCounters

\* A battery that is taken out for good ends charging for good: neither the
\* recheck delay, the debounces, a reactivation that keeps enabling the charger
\* for an empty slot, nor a disable that the charger missed leaves it enabled.
RemovalStopsCharging == <>[]~bat => <>[]~chg

\* The charger is off when the thread rests with charging disabled or the battery
\* given up, once it has been told anything and unless it has missed a write:
\* the writes that doCharge leaves out because its status has not changed are
\* not needed, however batteries came and went in the meantime.
DisabledMeansOff ==
  batPc = "idle" /\ chgSt \in {"DISABLE", "DEAD"} /\ told /\ lost = 0 => ~chg
=============================================================================
