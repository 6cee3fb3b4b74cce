------------------------------ MODULE PowerSeq ------------------------------
(***************************************************************************)
(* The power sequencer of the EC (app/power_sequencing/app_pseq.c): one    *)
(* cooperative thread that runs a stage machine driven by a one-shot       *)
(* timer, and the callers that write its state behind its back: the eSPI   *)
(* SLP_Sx virtual-wire callback, the THERMTRIP# interrupt, the hot-bag,    *)
(* Type-C and manageability requests, and the power button.                *)
(*                                                                         *)
(* The thread is split at the points where an interrupt or a thread that   *)
(* runs while it waits (I2C, logging) can come in between:                 *)
(*   idle -> run -> (set -> update -> commit | reject) -> tail             *)
(*        -> post -> mon -> idle                                           *)
(* Delays are abstracted to "not elapsed yet": the timer may fire at any   *)
(* moment after it was started.  Input pins are sampled when they are read.*)
(***************************************************************************)
EXTENDS Integers

CONSTANTS
  BoardDorne,    \* built with BRD_MDS_DORNE or BRD_MDS_AERIS
  MemPMIC,       \* brdId_supportMemPMIC()
  IsPEO,         \* BRDID_isPEO
  SlpVwires,     \* the host sends SLP_S3/S4/S5 as eSPI virtual wires
  VrReads,       \* what board_vrCfg_vr_init() may return (needs a G3 cycle)
  AcReads,       \* what "AC present or S5 always on" may read as
  PgReads,       \* what SYSTEM_S5_PG may read as
  SlpWaitLimit,  \* polls before the S0 entry is given up (2000 in the code)
  S5ToG3Delay,   \* POWER_SEQ_S5_TO_G3_DELAY (10000 in the code)
  VrRetries,     \* G3 cycles granted to the VR configuration (3 in the code)
  Requesters     \* who else calls into the sequencer

ASSUME BoardAssumption ==
  /\ {BoardDorne, MemPMIC, IsPEO, SlpVwires} \subseteq BOOLEAN
  /\ VrReads \subseteq BOOLEAN /\ VrReads # {}
  /\ AcReads \subseteq BOOLEAN /\ AcReads # {}
  /\ PgReads \subseteq BOOLEAN /\ PgReads # {}
ASSUME BoundAssumption ==
  /\ SlpWaitLimit \in Nat
  /\ S5ToG3Delay \in Nat
  /\ VrRetries \in Nat

VARIABLES
  current_state, next_state,  \* enum system_power_state
  next_stage,                 \* enum system_power_seq_stage
  g_pwrSeqDelay,              \* "not zero"
  g_pwrSeqExpired,
  timer,                      \* _s_pseqDelayTimerId is running
  sleepReady,                 \* TASK_STASTUS_SLEEP_READY of this task
  slpS35WaitCnt, gotoG3WaitCnt, vrNeedG3_cnt, pwrStHadS3, init_espi,
  high,                       \* the output pins driven high
  slp,                        \* the SLP_Sx# inputs the APU asserts
  posted,                     \* a power-button edge waits for the probe
  vciFlag, bootReason, usbcBoot, resetting,
  pc, todo,                   \* where the thread is; what its stage has left
  pgSeen,                     \* history: power good read since the rails came up
  handler                     \* history: the last transition handler that ran

apiVars   == <<next_stage, g_pwrSeqDelay, timer, sleepReady>>
stateVars == <<current_state, next_state, pwrStHadS3, handler>>
pinVars   == <<high, slp, pgSeen>>
cntVars   == <<slpS35WaitCnt, vrNeedG3_cnt, init_espi>>
bootVars  == <<vciFlag, bootReason, usbcBoot, resetting>>
vars == <<apiVars, stateVars, pinVars, cntVars, bootVars, g_pwrSeqExpired,
          gotoG3WaitCnt, posted, pc, todo>>

-----------------------------------------------------------------------------
NONE == "none"

SystemState == {"INIT", "G3", "S0_R", "S0", "S3", "S4", "S5"}

Stage == {"POWER_INIT", "SETUP_GPIO_DEFAULT", "ENTER_TO_G3",
  "FROM_G3_TO_S5", "PWRGD_ASSERTED", "RELEASE_RSMRST",
  "FROM_G3_TO_S0", "PWRGD_ASSERTED_IN_DC_MODE", "RELEASE_RSMRST_IN_DC_MODE",
  "FROM_S5_TO_G3", "FROM_S5_TO_G3_Part2", "FROM_S5_TO_G3_Part3",
  "FROM_S5S3_TO_S0", "FROM_S3_TO_S0", "TRANSFERED_INTO_S0",
  "FROM_S0_TO_S3S5", "FROM_S0_TO_S5", "FROM_S0_TO_S5_MEM_PMIC", "GOING_TO_S5",
  "FORCE_RESET", "FORCE_RESET_Part1", "FORCE_RESET_Part2",
  "FORCE_RESET_G3_TO_S5", "FORCE_RESET_PWRGD_ASSERTED",
  "FORCE_G3", "FORCE_G3_Part1", "FORCE_G3_Part2", "FORCE_G3_Part3"}

NO_CHANGE == "STATE_NO_CHANGE"

Rails == {"EC_S5_PWREN", "EC_1V8_S5_EN"}
Pins == Rails \cup {"RSMRST_N", "EC_SLP_S5_N", "EC_SLP_S3_S0A3_N"}

SlpLines == {"SLP_S3", "SLP_S5"}
SLP_S3_ASSERT == "SLP_S3" \in slp
SLP_S5_ASSERT == "SLP_S5" \in slp

\* The pin each board type drops first and second on the way down (the Dorne
\* and Aeris boards swap them to work around an over-voltage trip).
FirstOff  == IF BoardDorne THEN "EC_SLP_S5_N" ELSE "EC_SLP_S3_S0A3_N"
SecondOff == IF BoardDorne THEN "EC_SLP_S3_S0A3_N" ELSE "EC_SLP_S5_N"

-----------------------------------------------------------------------------
\* app_pseq_nextStep: one slot for the stage, one timer, no lock.
NextStep(next) ==
  /\ next_stage' = IF next = NO_CHANGE THEN next_stage ELSE next
  /\ g_pwrSeqDelay' = TRUE
  /\ timer' = TRUE
  /\ sleepReady' = FALSE

\* app_pseq_delayCallback
DelayCallback ==
  /\ ~resetting
  /\ timer
  /\ timer' = FALSE
  /\ g_pwrSeqExpired' = TRUE
  /\ UNCHANGED <<next_stage, g_pwrSeqDelay, sleepReady, stateVars, pinVars,
                 cntVars, bootVars, gotoG3WaitCnt, posted, pc, todo>>

-----------------------------------------------------------------------------
(* The thread: woken every millisecond, it runs the due stage.             *)

ThreadAt(p) == ~resetting /\ pc = p

Wake ==
  /\ ThreadAt("idle")
  /\ IF g_pwrSeqExpired
     THEN g_pwrSeqDelay' = FALSE /\ g_pwrSeqExpired' = FALSE /\ pc' = "run"
     ELSE UNCHANGED <<g_pwrSeqDelay, g_pwrSeqExpired>> /\ pc' = "post"
  /\ UNCHANGED <<next_stage, timer, sleepReady, stateVars, pinVars, cntVars,
                 bootVars, gotoG3WaitCnt, posted, todo>>

\* What every stage does: write its pins, then leave the power status to set
\* (or NONE) and the next stage to ask for (or NONE) to the steps below.
\* Losing RSMRST# or a rail puts the APU, external to this code, back to rest
\* with both SLP lines asserted.
RunStage(stage, off, on, st, nx) ==
  /\ ThreadAt("run")
  /\ next_stage = stage
  /\ high' = (high \ off) \cup on
  /\ slp' = IF off \cap (Rails \cup {"RSMRST_N"}) # {} THEN SlpLines ELSE slp
  /\ todo' = [st |-> st, nx |-> nx]
  /\ pc' = IF st # NONE THEN "set" ELSE IF nx # NONE THEN "tail" ELSE "post"
  /\ UNCHANGED <<apiVars, stateVars, bootVars, g_pwrSeqExpired, gotoG3WaitCnt,
                 posted>>

\* A stage that only writes pins and moves on.
PlainStage(stage, off, on, st, nx) ==
  /\ RunStage(stage, off, on, st, nx)
  /\ pgSeen' = (pgSeen /\ off \cap Rails = {})
  /\ UNCHANGED cntVars

\* A stage that turns the rails on and polls SYSTEM_S5_PG every millisecond.
PowerGoodStage(stage, off, nx) ==
  \E pg \in PgReads :
    /\ RunStage(stage, off, Rails, NONE, IF pg THEN nx ELSE NO_CHANGE)
    /\ pgSeen' = (pgSeen \/ pg)
    /\ UNCHANGED cntVars

PowerInit        == PlainStage("POWER_INIT", {}, {}, NONE, "SETUP_GPIO_DEFAULT")
SetupGpioDefault == PlainStage("SETUP_GPIO_DEFAULT", {}, {}, NONE, "ENTER_TO_G3")
EnterToG3        == PlainStage("ENTER_TO_G3", {}, {}, "G3", NONE)

\* G3 -> S5
FromG3ToS5    == PowerGoodStage("FROM_G3_TO_S5", {}, "PWRGD_ASSERTED")
PwrgdAsserted == PlainStage("PWRGD_ASSERTED", {"RSMRST_N"}, Rails, NONE,
                            "RELEASE_RSMRST")

\* Mutant: the retries are not counted.
VrInit_NoCount(need) ==
  /\ init_espi' = TRUE
  /\ UNCHANGED <<vrNeedG3_cnt, slpS35WaitCnt, pgSeen>>

\* The VR configuration and the one-time eSPI initialisation come before the
\* release; a VR that was reprogrammed asks for a G3 cycle, a few times.
VrInit(need) ==
  /\ vrNeedG3_cnt' = IF need /\ vrNeedG3_cnt < VrRetries THEN vrNeedG3_cnt + 1 ELSE 0
  /\ init_espi' = TRUE
  /\ UNCHANGED <<slpS35WaitCnt, pgSeen>>

ReleaseRsmrst ==
  \E need \in VrReads :
    /\ VrInit(need)
    /\ IF need /\ vrNeedG3_cnt < VrRetries
       THEN RunStage("RELEASE_RSMRST", {}, {}, NONE, "FROM_S5_TO_G3")
       ELSE RunStage("RELEASE_RSMRST", {}, {"RSMRST_N"}, "S5",
                     IF IsPEO THEN "FROM_S5S3_TO_S0" ELSE NONE)

\* G3 -> S0
FromG3ToS0          == PowerGoodStage("FROM_G3_TO_S0", {"RSMRST_N"},
                                      "PWRGD_ASSERTED_IN_DC_MODE")
PwrgdAssertedInDc   == PlainStage("PWRGD_ASSERTED_IN_DC_MODE", {}, Rails, NONE,
                                  "RELEASE_RSMRST_IN_DC_MODE")
ReleaseRsmrstInDc ==
  \E need \in VrReads :
    /\ VrInit(need)
    /\ IF need /\ vrNeedG3_cnt < VrRetries
       THEN RunStage("RELEASE_RSMRST_IN_DC_MODE", {}, {}, NONE, "FORCE_RESET")
       ELSE RunStage("RELEASE_RSMRST_IN_DC_MODE", {}, {"RSMRST_N"}, NONE,
                     "FROM_S5S3_TO_S0")

\* S5 -> G3
FromS5ToG3      == PlainStage("FROM_S5_TO_G3",
                              {"EC_SLP_S5_N", "EC_SLP_S3_S0A3_N", "RSMRST_N"}, {},
                              NONE, "FROM_S5_TO_G3_Part2")
FromS5ToG3Part2 == PlainStage("FROM_S5_TO_G3_Part2", {"EC_1V8_S5_EN"}, {}, NONE,
                              "FROM_S5_TO_G3_Part3")
FromS5ToG3Part3 == PlainStage("FROM_S5_TO_G3_Part3", {"EC_S5_PWREN"}, {}, "G3", NONE)

\* S5/S3 -> S0: pulse the FCH power button, then poll the SLP lines.
FromS5S3ToS0 == PlainStage("FROM_S5S3_TO_S0", {}, {}, NONE, "FROM_S3_TO_S0")

SlpReleased ==
  /\ ~SLP_S3_ASSERT /\ ~SLP_S5_ASSERT
  /\ RunStage("FROM_S3_TO_S0", {}, {"EC_SLP_S5_N", "EC_SLP_S3_S0A3_N"}, "S0_R",
              "TRANSFERED_INTO_S0")
  /\ slpS35WaitCnt' = 0
  /\ UNCHANGED <<vrNeedG3_cnt, init_espi, pgSeen>>

\* Mutant: the limit resets the counter and goes on polling.
SlpStillAsserted_NoTimeout ==
  /\ SLP_S3_ASSERT \/ SLP_S5_ASSERT
  /\ RunStage("FROM_S3_TO_S0", {}, {}, NONE, NO_CHANGE)
  /\ slpS35WaitCnt' = IF slpS35WaitCnt + 1 > SlpWaitLimit THEN 0 ELSE slpS35WaitCnt + 1
  /\ UNCHANGED <<vrNeedG3_cnt, init_espi, pgSeen>>

SlpStillAsserted ==
  /\ SLP_S3_ASSERT \/ SLP_S5_ASSERT
  /\ IF slpS35WaitCnt + 1 > SlpWaitLimit
     THEN /\ slpS35WaitCnt' = 0
          /\ RunStage("FROM_S3_TO_S0", {}, {}, NONE, "FROM_S0_TO_S3S5")
     ELSE /\ slpS35WaitCnt' = slpS35WaitCnt + 1
          /\ RunStage("FROM_S3_TO_S0", {}, {}, NONE, NO_CHANGE)
  /\ UNCHANGED <<vrNeedG3_cnt, init_espi, pgSeen>>

TransferedIntoS0 == PlainStage("TRANSFERED_INTO_S0", {}, {}, "S0", NONE)

\* S0 -> S3/S5
FromS0ToS3S5 ==
  \/ SLP_S5_ASSERT /\ PlainStage("FROM_S0_TO_S3S5", {}, {}, NONE, "FROM_S0_TO_S5")
  \/ ~SLP_S5_ASSERT /\ PlainStage("FROM_S0_TO_S3S5", {"EC_SLP_S3_S0A3_N"}, {}, "S3", NONE)

\* Mutant: the pins go down in the wrong order.
FromS0ToS5_Swapped == PlainStage("FROM_S0_TO_S5", {SecondOff}, {}, NONE,
                                 IF MemPMIC THEN "FROM_S0_TO_S5_MEM_PMIC" ELSE "GOING_TO_S5")

FromS0ToS5 == PlainStage("FROM_S0_TO_S5", {FirstOff}, {}, NONE,
                         IF MemPMIC THEN "FROM_S0_TO_S5_MEM_PMIC" ELSE "GOING_TO_S5")
FromS0ToS5MemPmic ==
  \E pmicGood \in BOOLEAN :
    PlainStage("FROM_S0_TO_S5_MEM_PMIC", {}, {}, NONE,
               IF pmicGood THEN NO_CHANGE ELSE "GOING_TO_S5")
\* Mutant: the state is not updated.
GoingToS5_NoStatus == PlainStage("GOING_TO_S5", {SecondOff}, {}, NONE, NONE)

GoingToS5 == PlainStage("GOING_TO_S5", {SecondOff}, {}, "S5", NONE)

\* S0 -> G3 -> S0
ForceReset      == PlainStage("FORCE_RESET", {FirstOff}, {}, NONE, "FORCE_RESET_Part1")
ForceResetPart1 == PlainStage("FORCE_RESET_Part1", {SecondOff, "EC_S5_PWREN"}, {}, NONE,
                              "FORCE_RESET_Part2")
ForceResetPart2 == PlainStage("FORCE_RESET_Part2", {"EC_1V8_S5_EN", "RSMRST_N"}, {}, "G3",
                              "FORCE_RESET_G3_TO_S5")
ForceResetG3ToS5 == PowerGoodStage("FORCE_RESET_G3_TO_S5", {},
                                   "FORCE_RESET_PWRGD_ASSERTED")
ForceResetPwrgdAsserted == PlainStage("FORCE_RESET_PWRGD_ASSERTED", {}, {"RSMRST_N"},
                                      "S5", "FROM_S5S3_TO_S0")

\* Mutants: the APU is not put into reset; the second run pin stays up; the
\* S5 rail is left on.
ForceG3Part1_NoReset == PlainStage("FORCE_G3_Part1", {SecondOff}, {}, NONE,
                                   "FORCE_G3_Part2")
ForceG3Part1_RunOn == PlainStage("FORCE_G3_Part1", {"RSMRST_N"}, {}, NONE,
                                 "FORCE_G3_Part2")
ForceG3Part3_RailOn == PlainStage("FORCE_G3_Part3", {}, {}, "G3", "ENTER_TO_G3")

\* Sx -> G3
ForceG3      == PlainStage("FORCE_G3", {FirstOff}, {}, NONE, "FORCE_G3_Part1")
ForceG3Part1 == PlainStage("FORCE_G3_Part1", {SecondOff, "RSMRST_N"}, {}, NONE,
                           "FORCE_G3_Part2")
ForceG3Part2 == PlainStage("FORCE_G3_Part2", {"EC_1V8_S5_EN"}, {}, NONE, "FORCE_G3_Part3")
ForceG3Part3 == PlainStage("FORCE_G3_Part3", {"EC_S5_PWREN"}, {}, "G3", "ENTER_TO_G3")

StateMachine ==
  \/ PowerInit \/ SetupGpioDefault \/ EnterToG3
  \/ FromG3ToS5 \/ PwrgdAsserted \/ ReleaseRsmrst
  \/ FromG3ToS0 \/ PwrgdAssertedInDc \/ ReleaseRsmrstInDc
  \/ FromS5ToG3 \/ FromS5ToG3Part2 \/ FromS5ToG3Part3
  \/ FromS5S3ToS0 \/ SlpReleased \/ SlpStillAsserted \/ TransferedIntoS0
  \/ FromS0ToS3S5 \/ FromS0ToS5 \/ FromS0ToS5MemPmic \/ GoingToS5
  \/ ForceReset \/ ForceResetPart1 \/ ForceResetPart2
  \/ ForceResetG3ToS5 \/ ForceResetPwrgdAsserted
  \/ ForceG3 \/ ForceG3Part1 \/ ForceG3Part2 \/ ForceG3Part3

-----------------------------------------------------------------------------
(* app_pseq_setPwrStatus and app_pseq_update, in the steps an interrupt can *)
(* separate: note the request, run the handler, commit whatever next_state  *)
(* holds by then.                                                           *)

Idle == [st |-> NONE, nx |-> NONE]

\* The status is dealt with: ask for the next stage, or be done.
StatusDone ==
  IF todo.nx = NONE THEN pc' = "post" /\ todo' = Idle
                    ELSE pc' = "tail" /\ todo' = todo

\* Mutant: the state is committed before its handler runs.
SetPwrStatus_Early ==
  /\ ThreadAt("set")
  /\ next_state' = todo.st
  /\ current_state' = todo.st
  /\ IF next_state # todo.st /\ todo.st # current_state
     THEN pc' = "update" /\ todo' = todo
     ELSE StatusDone
  /\ UNCHANGED <<apiVars, pwrStHadS3, handler, pinVars, cntVars,
                 bootVars, g_pwrSeqExpired, gotoG3WaitCnt, posted>>

SetPwrStatus ==
  /\ ThreadAt("set")
  /\ next_state' = todo.st
  /\ IF next_state # todo.st /\ todo.st # current_state
     THEN pc' = "update" /\ todo' = todo
     ELSE StatusDone
  /\ UNCHANGED <<apiVars, current_state, pwrStHadS3, handler, pinVars, cntVars,
                 bootVars, g_pwrSeqExpired, gotoG3WaitCnt, posted>>

\* From which states each app_pseq_transitionTo... handler reports success.
ValidFrom(st) ==
  CASE st = "S0" -> {"G3", "S5", "S3", "S0_R"}
    [] st = "S3" -> {"S0", "G3", "S5"}
    [] st = "S5" -> {"S3", "S0", "G3"}
    [] st = "G3" -> {"S3", "S0", "S5", "INIT"}
    [] OTHER     -> SystemState

\* Mutant: the S0 handler votes for sleep as well.
Update_S0Votes ==
  /\ ThreadAt("update")
  /\ handler' = next_state
  /\ pwrStHadS3' = (next_state = "S3" \/ (next_state = "S0" /\ pwrStHadS3))
  /\ IF next_state = "G3" /\ vciFlag
     THEN NextStep("FROM_G3_TO_S0") /\ vciFlag' = FALSE
     ELSE /\ sleepReady' = (next_state # "S0_R")
          /\ UNCHANGED <<next_stage, g_pwrSeqDelay, timer, vciFlag>>
  /\ pc' = IF current_state \in ValidFrom(next_state) THEN "commit" ELSE "reject"
  /\ UNCHANGED <<current_state, next_state, pinVars, cntVars, bootReason, usbcBoot,
                 resetting, g_pwrSeqExpired, gotoG3WaitCnt, posted, todo>>

\* The handler of next_state runs whether or not the transition is valid.
Update ==
  /\ ThreadAt("update")
  /\ handler' = next_state
  /\ pwrStHadS3' = (next_state = "S3" \/ (next_state = "S0" /\ pwrStHadS3))
  /\ IF next_state = "G3" /\ vciFlag
     THEN NextStep("FROM_G3_TO_S0") /\ vciFlag' = FALSE
     ELSE /\ sleepReady' = (next_state \in {"S3", "S4", "S5", "G3"})
          /\ UNCHANGED <<next_stage, g_pwrSeqDelay, timer, vciFlag>>
  /\ pc' = IF current_state \in ValidFrom(next_state) THEN "commit" ELSE "reject"
  /\ UNCHANGED <<current_state, next_state, pinVars, cntVars, bootReason, usbcBoot,
                 resetting, g_pwrSeqExpired, gotoG3WaitCnt, posted, todo>>

CommitState ==
  /\ \/ ThreadAt("commit") /\ current_state' = next_state /\ UNCHANGED next_state
     \/ ThreadAt("reject") /\ next_state' = current_state /\ UNCHANGED current_state
  /\ StatusDone
  /\ UNCHANGED <<apiVars, pwrStHadS3, handler, pinVars, cntVars, bootVars,
                 g_pwrSeqExpired, gotoG3WaitCnt, posted>>

StageTail ==
  /\ ThreadAt("tail")
  /\ NextStep(todo.nx)
  /\ pc' = "post"
  /\ todo' = Idle
  /\ UNCHANGED <<stateVars, pinVars, cntVars, bootVars, g_pwrSeqExpired,
                 gotoG3WaitCnt, posted>>

-----------------------------------------------------------------------------
(* After the stage: nothing but a sleep veto while a stage is pending, else *)
(* the deferred power-button edges and the state monitor.                   *)

\* smchost_pwrbtn_post_handler for a falling edge; in S0 and S0_R the edge
\* goes to the FCH and leaves the sequencer alone.
PwrBtnFalling ==
  \/ current_state \in {"S3", "S4", "S5"} /\ NextStep("FROM_S5S3_TO_S0")
  \/ current_state = "G3" /\ NextStep("FROM_G3_TO_S0")
  \/ current_state \in {"INIT", "S0_R", "S0"} /\ UNCHANGED apiVars

\* Mutant: no veto while a stage is pending.
PostBusy_NoVeto ==
  /\ ThreadAt("post")
  /\ g_pwrSeqDelay
  /\ pc' = "idle"
  /\ UNCHANGED <<apiVars, stateVars, pinVars, cntVars,
                 bootVars, g_pwrSeqExpired, gotoG3WaitCnt, posted, todo>>

PostBusy ==
  /\ ThreadAt("post")
  /\ g_pwrSeqDelay
  /\ sleepReady' = FALSE
  /\ pc' = "idle"
  /\ UNCHANGED <<next_stage, g_pwrSeqDelay, timer, stateVars, pinVars, cntVars,
                 bootVars, g_pwrSeqExpired, gotoG3WaitCnt, posted, todo>>

\* smchost_pwrbtn_post_signal_probe; which of the stored edges it replays is
\* the subject of module PwrBtn.
PostProbe ==
  /\ ThreadAt("post")
  /\ ~g_pwrSeqDelay
  /\ posted' = FALSE
  /\ (posted /\ PwrBtnFalling) \/ UNCHANGED apiVars
  /\ pc' = "mon"
  /\ UNCHANGED <<stateVars, pinVars, cntVars, bootVars, g_pwrSeqExpired,
                 gotoG3WaitCnt, todo>>

\* app_pseq_stateMonitor, one alternative per state it looks at.
Monitor(states) ==
  /\ ThreadAt("mon")
  /\ current_state \in states
  /\ pc' = "idle"
  /\ UNCHANGED <<stateVars, pinVars, cntVars, vciFlag, usbcBoot, resetting,
                 g_pwrSeqExpired, posted, todo>>

MonitorQuiet ==
  /\ Monitor({"INIT", "S0_R"})
  /\ gotoG3WaitCnt' = S5ToG3Delay
  /\ UNCHANGED <<apiVars, bootReason>>

\* In G3, AC brings the board to S5; a boot reason left in BRAM outranks it.
MonitorG3 ==
  /\ Monitor({"G3"})
  /\ gotoG3WaitCnt' = S5ToG3Delay
  /\ bootReason' = NONE
  /\ \E ac \in AcReads :
       \/ bootReason = "NV_OPTION" /\ NextStep("FROM_G3_TO_S0")
       \/ bootReason = "BIOS_WDT" /\ NextStep("FROM_G3_TO_S5")
       \/ bootReason = NONE /\ ac /\ NextStep("FROM_G3_TO_S5")
       \/ bootReason = NONE /\ ~ac /\ UNCHANGED apiVars

MonitorS0 ==
  /\ Monitor({"S0"})
  /\ gotoG3WaitCnt' = S5ToG3Delay
  /\ \/ SLP_S3_ASSERT /\ NextStep("FROM_S0_TO_S3S5")
     \/ ~SLP_S3_ASSERT /\ UNCHANGED apiVars
  /\ UNCHANGED bootReason

\* S5 is looked at last, in case the two lines arrive out of order.
MonitorS3 ==
  /\ Monitor({"S3"})
  /\ gotoG3WaitCnt' = S5ToG3Delay
  /\ \/ SLP_S5_ASSERT /\ NextStep("FROM_S0_TO_S5")
     \/ ~SLP_S5_ASSERT /\ ~SLP_S3_ASSERT /\ NextStep("FROM_S3_TO_S0")
     \/ ~SLP_S5_ASSERT /\ SLP_S3_ASSERT /\ UNCHANGED apiVars
  /\ UNCHANGED bootReason

MonitorS4S5 ==
  /\ Monitor({"S4", "S5"})
  /\ UNCHANGED bootReason
  /\ IF slp = {}
     THEN NextStep("FROM_S3_TO_S0") /\ UNCHANGED gotoG3WaitCnt
     ELSE \E ac \in AcReads :
            \/ /\ ac
               /\ gotoG3WaitCnt' = S5ToG3Delay
               /\ UNCHANGED apiVars
            \/ /\ ~ac /\ gotoG3WaitCnt > 1
               /\ gotoG3WaitCnt' = gotoG3WaitCnt - 1
               /\ sleepReady' = FALSE
               /\ UNCHANGED <<next_stage, g_pwrSeqDelay, timer>>
            \/ /\ ~ac /\ gotoG3WaitCnt <= 1
               /\ gotoG3WaitCnt' = 0
               /\ NextStep("FROM_S5_TO_G3")

Thread == \/ Wake \/ StateMachine
          \/ SetPwrStatus \/ Update \/ CommitState \/ StageTail
          \/ PostBusy \/ PostProbe
          \/ MonitorQuiet \/ MonitorG3 \/ MonitorS0 \/ MonitorS3 \/ MonitorS4S5

-----------------------------------------------------------------------------
(* The others.  A request only ever reaches the sequencer through NextStep. *)

OtherVars == <<stateVars, pinVars, cntVars, g_pwrSeqExpired, gotoG3WaitCnt, pc, todo>>

Request(who, stage) ==
  /\ ~resetting
  /\ who \in Requesters
  /\ NextStep(stage)
  /\ UNCHANGED <<OtherVars, posted>>

\* THERMTRIP# is ignored unless both SLP lines are released.
Thermtrip == slp = {} /\ Request("thermtrip", "FORCE_G3") /\ UNCHANGED bootVars

\* Hot bag (PMF heartbeat timer, thermal thread, MP2 notification): DC only.
HotBag == FALSE \in AcReads /\ Request("hotbag", "FORCE_G3") /\ UNCHANGED bootVars

\* The Type-C task locks a low battery in G3, once per boot.  A cooperative
\* thread cannot come in before the due stage has touched the hardware.
UsbcLowCap ==
  /\ usbcBoot
  /\ pc # "run"
  /\ usbcBoot' = FALSE
  /\ Request("usbc", "FORCE_G3")
  /\ UNCHANGED <<vciFlag, bootReason, resetting>>

\* The manageability timer powers the system on if it is in S5 right then.
ManOsAutoPwrOn ==
  /\ current_state = "S5"
  /\ Request("manos", "FROM_S5S3_TO_S0")
  /\ UNCHANGED bootVars

\* smchost_pwrbtn_handler, falling edge: handled at once unless a stage is
\* pending, else stored.
PwrBtnPress ==
  /\ ~resetting
  /\ "button" \in Requesters
  /\ pc # "run"
  /\ \/ ~g_pwrSeqDelay /\ PwrBtnFalling /\ UNCHANGED posted
     \/ g_pwrSeqDelay /\ posted' = TRUE /\ UNCHANGED apiVars
  /\ UNCHANGED <<OtherVars, bootVars>>

\* app_pseq_slp_handler, called from the eSPI virtual-wire interrupt.
SlpVwire(st) ==
  /\ ~resetting
  /\ SlpVwires /\ init_espi
  /\ next_state' = st
  /\ UNCHANGED <<apiVars, current_state, pwrStHadS3, handler, pinVars, cntVars,
                 bootVars, g_pwrSeqExpired, gotoG3WaitCnt, posted, pc, todo>>
SlpVwireAssert   == \E st \in {"S3", "S4", "S5"} : SlpVwire(st)
SlpVwireDeassert == current_state \in {"S5", "S4", "G3", "S3"} /\ SlpVwire("S0")

\* The APU, external, drives its SLP lines while it is out of reset.
ApuSlp ==
  /\ ~resetting
  /\ "RSMRST_N" \in high
  /\ slp' \in SUBSET SlpLines
  /\ slp' # slp
  /\ UNCHANGED <<apiVars, stateVars, high, pgSeen, cntVars, bootVars,
                 g_pwrSeqExpired, gotoG3WaitCnt, posted, pc, todo>>

\* EC resets, for every call that ends in sys_reboot: a 16 s button press or a
\* firmware version mismatch drop the 1.8 V rail for the second before the
\* reboot (app_btn_ecReset); saving an NV option that needs a reset and the
\* debug port drop everything and leave a boot reason.
EcReset(who, off, reason) ==
  /\ ~resetting
  /\ who \in Requesters
  /\ resetting' = TRUE
  /\ high' = high \ off
  /\ pgSeen' = FALSE
  /\ bootReason' = reason
  /\ UNCHANGED <<apiVars, stateVars, slp, cntVars, vciFlag, usbcBoot,
                 g_pwrSeqExpired, gotoG3WaitCnt, posted, pc, todo>>
BtnEcReset == EcReset("longpress", {"EC_1V8_S5_EN"}, bootReason)
NvOptionReset == EcReset("nvoption", Pins, "NV_OPTION")
DebugReset == EcReset("debug", Pins, "BIOS_WDT")

\* Power-on and every reboot: the board initialisation has driven the pins low
\* and app_pseq_task_init has asked for POWER_INIT.
Reboot ==
  /\ resetting
  /\ resetting' = FALSE
  /\ current_state' = "INIT" /\ next_state' = "INIT"
  /\ handler' = "INIT" /\ pwrStHadS3' = FALSE
  /\ NextStep("POWER_INIT")
  /\ g_pwrSeqExpired' = FALSE
  /\ slpS35WaitCnt' = 0 /\ gotoG3WaitCnt' = 0
  /\ vrNeedG3_cnt' = 0 /\ init_espi' = FALSE
  /\ high' = {} /\ slp' = SlpLines /\ pgSeen' = FALSE
  /\ posted' = FALSE
  /\ vciFlag' \in BOOLEAN /\ usbcBoot' = TRUE /\ UNCHANGED bootReason
  /\ pc' = "idle" /\ todo' = Idle

Environment == \/ Thermtrip \/ HotBag \/ UsbcLowCap \/ ManOsAutoPwrOn \/ PwrBtnPress
               \/ SlpVwireAssert \/ SlpVwireDeassert \/ ApuSlp
               \/ BtnEcReset \/ NvOptionReset \/ DebugReset \/ Reboot

Init ==
  /\ current_state = "INIT" /\ next_state = "INIT"
  /\ handler = "INIT" /\ pwrStHadS3 = FALSE
  /\ next_stage = "POWER_INIT"
  /\ g_pwrSeqDelay = TRUE /\ timer = TRUE /\ sleepReady = FALSE
  /\ g_pwrSeqExpired = FALSE
  /\ slpS35WaitCnt = 0 /\ gotoG3WaitCnt = 0
  /\ vrNeedG3_cnt = 0 /\ init_espi = FALSE
  /\ high = {} /\ slp = SlpLines /\ pgSeen = FALSE
  /\ posted = FALSE
  /\ vciFlag \in BOOLEAN /\ usbcBoot = TRUE /\ resetting = FALSE
  /\ bootReason \in {NONE, "NV_OPTION", "BIOS_WDT"}
  /\ pc = "idle" /\ todo = Idle

Next == Thread \/ DelayCallback \/ Environment

Spec == Init /\ [][Next]_vars

\* The thread sleeps one millisecond at a time, and the other cooperative
\* threads all block again; a started kernel timer always expires.
FairSpec == Spec /\ WF_vars(Thread) /\ WF_vars(DelayCallback) /\ WF_vars(Reboot)
-----------------------------------------------------------------------------
(* Properties.                                                             *)

DataTypes ==
  /\ current_state \in SystemState /\ next_state \in SystemState
  /\ handler \in SystemState
  /\ next_stage \in Stage
  /\ slpS35WaitCnt \in 0..SlpWaitLimit
  /\ gotoG3WaitCnt \in 0..S5ToG3Delay
  /\ vrNeedG3_cnt \in 0..VrRetries
  /\ high \subseteq Pins /\ slp \subseteq SlpLines
  /\ bootReason \in {NONE, "NV_OPTION", "BIOS_WDT"}
  /\ pc \in {"idle", "run", "set", "update", "commit", "reject", "tail", "post", "mon"}
  /\ todo \in [st : SystemState \cup {NONE}, nx : Stage \cup {NONE, NO_CHANGE}]
  /\ pc = "set" => todo.st # NONE
  /\ pc = "tail" => todo.nx # NONE

FlagTypes ==
  /\ g_pwrSeqDelay \in BOOLEAN /\ g_pwrSeqExpired \in BOOLEAN /\ timer \in BOOLEAN
  /\ sleepReady \in BOOLEAN /\ pwrStHadS3 \in BOOLEAN /\ init_espi \in BOOLEAN
  /\ posted \in BOOLEAN /\ vciFlag \in BOOLEAN /\ usbcBoot \in BOOLEAN
  /\ resetting \in BOOLEAN /\ pgSeen \in BOOLEAN

\* Every variable keeps to the values the code gives it; the wait counter
\* never passes its limit and the VR counter never passes its retries.
TypeOK == DataTypes /\ FlagTypes

\* The APU is out of reset (RSMRST_N high) only while both S5 rails are on and
\* power good was read since they were last switched on, whatever requests
\* cut into the sequence (app_pseq_StateMachine).
RailOrder ==
  "RSMRST_N" \in high /\ ~resetting => Rails \subseteq high /\ pgSeen

\* The S0 and memory rails (EC_SLP_S3_S0A3_N, EC_SLP_S5_N) are enabled only on top
\* of the S5 rails, also when a forced G3 cuts into a start.
RunRailOrder ==
  high \cap {"EC_SLP_S5_N", "EC_SLP_S3_S0A3_N"} # {} /\ ~resetting => Rails \subseteq high

\* Except on the boards that swap them on purpose, the S0 rails never outlive
\* the memory rails.
PowerDownOrder ==
  "EC_SLP_S3_S0A3_N" \in high /\ ~BoardDorne => "EC_SLP_S5_N" \in high

\* The thread never goes back to sleep with a stage pending that nothing will run,
\* or with a stage pending and its deep-sleep vote still given: the timer runs or has
\* expired unseen, also when a request restarted it between the expiry and the stage.
NoSleepWhilePending ==
  pc = "idle" /\ g_pwrSeqDelay => ~sleepReady /\ (timer \/ g_pwrSeqExpired)

\* Settled in S0 every rail is on and the APU is out of reset: no request that
\* was lost or cut short leaves the code believing in S0 with power missing.
S0Settled ==
  pc = "idle" /\ ~g_pwrSeqDelay /\ current_state = "S0" /\ ~resetting => high = Pins

\* Settled in G3 everything is off, whichever requests met on the way there.
G3Settled ==
  pc = "idle" /\ ~g_pwrSeqDelay /\ current_state = "G3" /\ ~resetting => high = {}

\* The deep-sleep vote is never given in S0: what the handlers and stages on the way
\* there voted is taken back before the sequencer rests.
S0Awake == pc = "idle" /\ current_state = "S0" => ~sleepReady

EntryHandled ==
  current_state' # current_state /\ ~resetting =>
    handler = current_state' /\ current_state \in ValidFrom(current_state')

\* A state is entered only by way of its own transition handler ("go to power
\* state and call the correspending handler", app_pseq_setPwrStatus), and only from
\* a state for which that handler reports success.
StateEntryHandled == [][EntryHandled]_vars

\* "1.8V_ALW ... should be ready when system enters S5" (powersequence.rst).
S5RailsReady ==
  pc = "idle" /\ ~g_pwrSeqDelay /\ current_state = "S5" /\ ~resetting
    => Rails \subseteq high

\* The requests eventually stop coming.
Requests == Thermtrip \/ HotBag \/ UsbcLowCap \/ ManOsAutoPwrOn \/ PwrBtnPress
Quiescent == <>[][~Requests]_vars

\* With AC and good rails the APU always comes out of reset again, even if the
\* VR configuration keeps asking for G3 cycles and whatever was forced before; only
\* S0_R, which no monitor watches, keeps the board off.
PowerReturns ==
  Quiescent => ("RSMRST_N" \notin high ~> "RSMRST_N" \in high \/ current_state = "S0_R")

\* Waiting for the APU to release its SLP lines ends, also when it never does.
S0EntryResolves == next_stage = "FROM_S3_TO_S0" ~> next_stage # "FROM_S3_TO_S0"

\* A forced power-off asked for while the thread sleeps is carried out.
ForceG3Honoured ==
  Quiescent => (next_stage = "FORCE_G3" /\ pc = "idle" ~> high = {})

\* "need to force G3": the same for a request at any moment.
ForceG3NotLost == Quiescent => (next_stage = "FORCE_G3" ~> high = {})

\* "Sx -> G3 -(if has AC)-> S5": with AC a forced G3 is left again.
ForceG3Recovers == next_stage = "FORCE_G3_Part3" ~> "RSMRST_N" \in high
=============================================================================
