--------------------------- MODULE PowerSeqProofs ---------------------------
(***************************************************************************)
(* The power sequencer keeps its types and its rail order for every board, *)
(* every bound and every set of requesters.  The argument: a stage is only *)
(* ever pending in a pin state in which running it is safe (StageSafe), a  *)
(* fact that survives any request because the requests name stages that    *)
(* are safe everywhere.                                                    *)
(***************************************************************************)
EXTENDS PowerSeq, TLAPS

\* Stages that come after power good was read with the rails on.
AfterPowerGood == {"PWRGD_ASSERTED", "RELEASE_RSMRST", "PWRGD_ASSERTED_IN_DC_MODE",
                   "RELEASE_RSMRST_IN_DC_MODE", "FORCE_RESET_PWRGD_ASSERTED"}

\* Stages that come after both run pins were dropped and the APU held in reset.
BothOff == {"FROM_S5_TO_G3_Part2", "FROM_S5_TO_G3_Part3",
            "FORCE_G3_Part2", "FORCE_G3_Part3", "FORCE_RESET_Part2"}

\* Stages that come after the first run pin was dropped.
OneOff == {"FROM_S0_TO_S5_MEM_PMIC", "GOING_TO_S5", "FORCE_RESET_Part1",
           "FORCE_G3_Part1"}

\* Stages that are entered with the APU in reset.
ResetHeld == BothOff \cup {"FORCE_RESET", "FORCE_RESET_Part1"}

\* What holds of the pins while stage s is the one to run.
StageSafe(s) ==
  /\ s \in AfterPowerGood => Rails \subseteq high /\ pgSeen
  /\ s \in BothOff => "EC_SLP_S5_N" \notin high /\ "EC_SLP_S3_S0A3_N" \notin high
  /\ s \in OneOff => FirstOff \notin high
  /\ s \in ResetHeld => "RSMRST_N" \notin high

\* On the DC path RSMRST# is low until the release stage itself raised it and
\* has its successor to ask for.
DcHeld ==
  /\ /\ next_stage \in {"PWRGD_ASSERTED_IN_DC_MODE", "RELEASE_RSMRST_IN_DC_MODE"}
     /\ pc # "tail" \/ todo.nx = NO_CHANGE
     => "RSMRST_N" \notin high
  /\ todo.nx \in {"PWRGD_ASSERTED_IN_DC_MODE", "RELEASE_RSMRST_IN_DC_MODE"}
       => "RSMRST_N" \notin high

PowerInv ==
  /\ PowerDownOrder
  /\ ~resetting =>
       /\ RailOrder /\ RunRailOrder
       /\ "RSMRST_N" \notin high => slp = SlpLines
       /\ StageSafe(next_stage) /\ StageSafe(todo.nx)
       /\ DcHeld

-----------------------------------------------------------------------------
(* Types.                                                                  *)

\* Whatever a stage is given, it leaves the types alone (app_pseq_StateMachine).
LEMMA RunStageTypes ==
  ASSUME TypeOK, NEW stage, NEW off, NEW on \in SUBSET Pins,
         NEW st \in SystemState \cup {NONE}, NEW nx \in Stage \cup {NONE, NO_CHANGE},
         RunStage(stage, off, on, st, nx),
         slpS35WaitCnt' \in 0..SlpWaitLimit, vrNeedG3_cnt' \in 0..VrRetries,
         init_espi' \in BOOLEAN, pgSeen' \in BOOLEAN
  PROVE  TypeOK'
  BY DEF TypeOK, DataTypes, FlagTypes, RunStage, apiVars, stateVars, bootVars

\* A stage that only writes pins and posts its successor keeps the types.
LEMMA PlainStageTypes ==
  ASSUME TypeOK, NEW stage, NEW off, NEW on \in SUBSET Pins,
         NEW st \in SystemState \cup {NONE}, NEW nx \in Stage \cup {NONE, NO_CHANGE},
         PlainStage(stage, off, on, st, nx)
  PROVE  TypeOK'
<1>1. /\ RunStage(stage, off, on, st, nx)
      /\ slpS35WaitCnt' \in 0..SlpWaitLimit /\ vrNeedG3_cnt' \in 0..VrRetries
      /\ init_espi' \in BOOLEAN
  BY DEF PlainStage, TypeOK, DataTypes, FlagTypes, cntVars
<1>2. pgSeen' \in BOOLEAN
  BY DEF PlainStage
<1> QED
  BY <1>1, <1>2, RunStageTypes

\* A stage that waits for power good keeps the types.
LEMMA PowerGoodStageTypes ==
  ASSUME TypeOK, NEW stage, NEW off, NEW nx \in Stage,
         PowerGoodStage(stage, off, nx)
  PROVE  TypeOK'
<1>1. PICK pg \in PgReads :
        /\ RunStage(stage, off, Rails, NONE, IF pg THEN nx ELSE NO_CHANGE)
        /\ pgSeen' = (pgSeen \/ pg)
        /\ UNCHANGED cntVars
  BY DEF PowerGoodStage
<1>2. /\ slpS35WaitCnt' \in 0..SlpWaitLimit /\ vrNeedG3_cnt' \in 0..VrRetries
      /\ init_espi' \in BOOLEAN
  BY <1>1 DEF TypeOK, DataTypes, FlagTypes, cntVars
<1>3. pgSeen' \in BOOLEAN
  BY <1>1
<1>4. /\ Rails \in SUBSET Pins
      /\ NONE \in SystemState \cup {NONE}
      /\ (IF pg THEN nx ELSE NO_CHANGE) \in Stage \cup {NONE, NO_CHANGE}
  BY DEF Pins
<1> QED
  BY <1>1, <1>2, <1>3, <1>4, RunStageTypes

\* app_pseq_StateMachine keeps the types, one step per stage.
LEMMA StateMachineTypes ==
  ASSUME TypeOK, StateMachine
  PROVE  TypeOK'
<1> USE BoundAssumption
<1> DEFINE S == SystemState \cup {NONE}
           N == Stage \cup {NONE, NO_CHANGE}
<1>a. /\ {} \in SUBSET Pins /\ Rails \in SUBSET Pins /\ {"RSMRST_N"} \in SUBSET Pins
      /\ {"EC_SLP_S5_N", "EC_SLP_S3_S0A3_N"} \in SUBSET Pins
  BY DEF Pins
<1>b. /\ NONE \in S /\ "G3" \in S /\ "S5" \in S /\ "S3" \in S /\ "S0" \in S /\ "S0_R" \in S
      /\ NONE \in N /\ NO_CHANGE \in N /\ Stage \subseteq N
  BY DEF SystemState
<1>1. CASE PowerInit
  BY <1>a, <1>b, <1>1, PlainStageTypes DEF PowerInit, Stage
<1>2. CASE SetupGpioDefault
  BY <1>a, <1>b, <1>2, PlainStageTypes DEF SetupGpioDefault, Stage
<1>3. CASE EnterToG3
  BY <1>a, <1>b, <1>3, PlainStageTypes DEF EnterToG3
<1>4. CASE FromG3ToS5
  BY <1>4, PowerGoodStageTypes DEF FromG3ToS5, Stage
<1>5. CASE PwrgdAsserted
  BY <1>a, <1>b, <1>5, PlainStageTypes DEF PwrgdAsserted, Stage
<1>6. CASE ReleaseRsmrst
  <2>1. PICK need \in VrReads :
          /\ VrInit(need)
          /\ IF need /\ vrNeedG3_cnt < VrRetries
             THEN RunStage("RELEASE_RSMRST", {}, {}, NONE, "FROM_S5_TO_G3")
             ELSE RunStage("RELEASE_RSMRST", {}, {"RSMRST_N"}, "S5",
                           IF IsPEO THEN "FROM_S5S3_TO_S0" ELSE NONE)
    BY <1>6 DEF ReleaseRsmrst
  <2>2. /\ slpS35WaitCnt' \in 0..SlpWaitLimit /\ vrNeedG3_cnt' \in 0..VrRetries
        /\ init_espi' \in BOOLEAN /\ pgSeen' \in BOOLEAN
    BY <2>1 DEF VrInit, TypeOK, DataTypes, FlagTypes
  <2>3. "FROM_S5_TO_G3" \in N /\ (IF IsPEO THEN "FROM_S5S3_TO_S0" ELSE NONE) \in N
    BY DEF Stage
  <2>4. CASE need /\ vrNeedG3_cnt < VrRetries
    BY <1>a, <1>b, <2>1, <2>2, <2>3, <2>4, RunStageTypes
  <2>5. CASE ~(need /\ vrNeedG3_cnt < VrRetries)
    BY <1>a, <1>b, <2>1, <2>2, <2>3, <2>5, RunStageTypes
  <2> QED
    BY <2>4, <2>5
<1>7. CASE FromG3ToS0
  BY <1>7, PowerGoodStageTypes DEF FromG3ToS0, Stage
<1>8. CASE PwrgdAssertedInDc
  BY <1>a, <1>b, <1>8, PlainStageTypes DEF PwrgdAssertedInDc, Stage
<1>9. CASE ReleaseRsmrstInDc
  <2>1. PICK need \in VrReads :
          /\ VrInit(need)
          /\ IF need /\ vrNeedG3_cnt < VrRetries
             THEN RunStage("RELEASE_RSMRST_IN_DC_MODE", {}, {}, NONE, "FORCE_RESET")
             ELSE RunStage("RELEASE_RSMRST_IN_DC_MODE", {}, {"RSMRST_N"}, NONE,
                           "FROM_S5S3_TO_S0")
    BY <1>9 DEF ReleaseRsmrstInDc
  <2>2. /\ slpS35WaitCnt' \in 0..SlpWaitLimit /\ vrNeedG3_cnt' \in 0..VrRetries
        /\ init_espi' \in BOOLEAN /\ pgSeen' \in BOOLEAN
    BY <2>1 DEF VrInit, TypeOK, DataTypes, FlagTypes
  <2>3. "FORCE_RESET" \in N /\ "FROM_S5S3_TO_S0" \in N
    BY DEF Stage
  <2>4. CASE need /\ vrNeedG3_cnt < VrRetries
    BY <1>a, <1>b, <2>1, <2>2, <2>3, <2>4, RunStageTypes
  <2>5. CASE ~(need /\ vrNeedG3_cnt < VrRetries)
    BY <1>a, <1>b, <2>1, <2>2, <2>3, <2>5, RunStageTypes
  <2> QED
    BY <2>4, <2>5
<1>10. CASE FromS5ToG3 \/ FromS5ToG3Part2 \/ FromS5ToG3Part3
  BY <1>a, <1>b, <1>10, PlainStageTypes
     DEF FromS5ToG3, FromS5ToG3Part2, FromS5ToG3Part3, Stage
<1>11. CASE FromS5S3ToS0 \/ TransferedIntoS0
  BY <1>a, <1>b, <1>11, PlainStageTypes DEF FromS5S3ToS0, TransferedIntoS0, Stage
<1>12. CASE SlpReleased
  <2>1. /\ slpS35WaitCnt' \in 0..SlpWaitLimit /\ vrNeedG3_cnt' \in 0..VrRetries
        /\ init_espi' \in BOOLEAN /\ pgSeen' \in BOOLEAN /\ "TRANSFERED_INTO_S0" \in N
    BY <1>12 DEF SlpReleased, TypeOK, DataTypes, FlagTypes, Stage
  <2> QED
    BY <1>a, <1>b, <1>12, <2>1, RunStageTypes DEF SlpReleased
<1>13. CASE SlpStillAsserted
  <2>1. /\ slpS35WaitCnt' \in 0..SlpWaitLimit /\ vrNeedG3_cnt' \in 0..VrRetries
        /\ init_espi' \in BOOLEAN /\ pgSeen' \in BOOLEAN /\ "FROM_S0_TO_S3S5" \in N
    BY <1>13 DEF SlpStillAsserted, TypeOK, DataTypes, FlagTypes, Stage
  <2> QED
    BY <1>a, <1>b, <1>13, <2>1, RunStageTypes DEF SlpStillAsserted
<1>14. CASE FromS0ToS3S5
  BY <1>a, <1>b, <1>14, PlainStageTypes DEF FromS0ToS3S5, Stage
<1>15. CASE FromS0ToS5
  <2>1. (IF MemPMIC THEN "FROM_S0_TO_S5_MEM_PMIC" ELSE "GOING_TO_S5") \in N
    BY DEF Stage
  <2> QED
    BY <1>a, <1>b, <1>15, <2>1, PlainStageTypes DEF FromS0ToS5
<1>16. CASE FromS0ToS5MemPmic
  <2>1. PICK pmicGood \in BOOLEAN :
          PlainStage("FROM_S0_TO_S5_MEM_PMIC", {}, {}, NONE,
                     IF pmicGood THEN NO_CHANGE ELSE "GOING_TO_S5")
    BY <1>16 DEF FromS0ToS5MemPmic
  <2>2. (IF pmicGood THEN NO_CHANGE ELSE "GOING_TO_S5") \in N
    BY DEF Stage
  <2> QED
    BY <1>a, <1>b, <2>1, <2>2, PlainStageTypes
<1>17. CASE GoingToS5
  BY <1>a, <1>b, <1>17, PlainStageTypes DEF GoingToS5
<1>18. CASE ForceReset \/ ForceResetPart1 \/ ForceResetPart2
  BY <1>a, <1>b, <1>18, PlainStageTypes
     DEF ForceReset, ForceResetPart1, ForceResetPart2, Stage
<1>19. CASE ForceResetG3ToS5
  BY <1>19, PowerGoodStageTypes DEF ForceResetG3ToS5, Stage
<1>20. CASE ForceResetPwrgdAsserted
  BY <1>a, <1>b, <1>20, PlainStageTypes DEF ForceResetPwrgdAsserted, Stage
<1>21. CASE ForceG3 \/ ForceG3Part1 \/ ForceG3Part2 \/ ForceG3Part3
  BY <1>a, <1>b, <1>21, PlainStageTypes
     DEF ForceG3, ForceG3Part1, ForceG3Part2, ForceG3Part3, Stage
<1> QED
  BY <1>1, <1>2, <1>3, <1>4, <1>5, <1>6, <1>7, <1>8, <1>9, <1>10, <1>11, <1>12,
     <1>13, <1>14, <1>15, <1>16, <1>17, <1>18, <1>19, <1>20, <1>21 DEF StateMachine

\* Every step keeps the types of the states, stages, counters and pins.
LEMMA DataTypesInductive == TypeOK /\ [Next]_vars => DataTypes'
<1> SUFFICES ASSUME TypeOK, [Next]_vars PROVE DataTypes'
  OBVIOUS
<1> USE BoundAssumption
<1> USE DEF apiVars, stateVars, pinVars, cntVars, bootVars
<1>1. CASE UNCHANGED vars
  BY <1>1 DEF TypeOK, DataTypes, vars
<1>2. CASE Wake
  BY <1>2 DEF TypeOK, DataTypes, Wake, ThreadAt
<1>3. CASE StateMachine
  BY <1>3, StateMachineTypes DEF TypeOK
<1>4. CASE SetPwrStatus
  <2>1. todo.st \in SystemState
    BY <1>4 DEF SetPwrStatus, ThreadAt, TypeOK, DataTypes
  <2> QED
    BY <1>4, <2>1 DEF TypeOK, DataTypes, SetPwrStatus, ThreadAt, StatusDone, Idle
<1>5. CASE Update
  BY <1>5 DEF TypeOK, DataTypes, Update, ThreadAt, NextStep, Stage, NO_CHANGE
<1>6. CASE CommitState
  BY <1>6 DEF TypeOK, DataTypes, CommitState, ThreadAt, StatusDone, Idle
<1>7. CASE StageTail
  BY <1>7 DEF TypeOK, DataTypes, StageTail, ThreadAt, NextStep, Idle
<1>8. CASE PostBusy
  BY <1>8 DEF TypeOK, DataTypes, PostBusy, ThreadAt
<1>9. CASE PostProbe
  BY <1>9 DEF TypeOK, DataTypes, PostProbe, ThreadAt, PwrBtnFalling, NextStep, Stage, NO_CHANGE
<1>10. CASE MonitorQuiet \/ MonitorG3 \/ MonitorS0 \/ MonitorS3 \/ MonitorS4S5
  BY <1>10 DEF TypeOK, DataTypes, MonitorQuiet, MonitorG3, MonitorS0, MonitorS3, MonitorS4S5,
               Monitor, ThreadAt, NextStep, Stage, NO_CHANGE
<1>11. CASE DelayCallback
  BY <1>11 DEF TypeOK, DataTypes, DelayCallback
<1>12. CASE Thermtrip \/ HotBag \/ UsbcLowCap \/ ManOsAutoPwrOn
  BY <1>12 DEF TypeOK, DataTypes, Thermtrip, HotBag, UsbcLowCap, ManOsAutoPwrOn, Request, OtherVars,
               NextStep, Stage, NO_CHANGE
<1>13. CASE PwrBtnPress
  BY <1>13 DEF TypeOK, DataTypes, PwrBtnPress, PwrBtnFalling, OtherVars, NextStep, Stage, NO_CHANGE
<1>14. CASE SlpVwireAssert \/ SlpVwireDeassert
  BY <1>14 DEF TypeOK, DataTypes, SlpVwireAssert, SlpVwireDeassert, SlpVwire, SystemState
<1>15. CASE ApuSlp
  BY <1>15 DEF TypeOK, DataTypes, ApuSlp
<1>16. CASE BtnEcReset \/ NvOptionReset \/ DebugReset
  BY <1>16 DEF TypeOK, DataTypes, BtnEcReset, NvOptionReset, DebugReset, EcReset
<1>17. CASE Reboot
  BY <1>17 DEF TypeOK, DataTypes, Reboot, NextStep, Stage, NO_CHANGE, SystemState, Idle
<1> QED
  BY <1>1, <1>2, <1>3, <1>4, <1>5, <1>6, <1>7, <1>8, <1>9, <1>10, <1>11, <1>12,
     <1>13, <1>14, <1>15, <1>16, <1>17 DEF Next, Thread, Environment

\* Every step keeps the types of the flags.
LEMMA FlagTypesInductive == TypeOK /\ [Next]_vars => FlagTypes'
<1> SUFFICES ASSUME TypeOK, [Next]_vars PROVE FlagTypes'
  OBVIOUS
<1> USE DEF apiVars, stateVars, pinVars, cntVars, bootVars
<1>1. CASE UNCHANGED vars
  BY <1>1, Zenon DEF TypeOK, FlagTypes, vars
<1>2. CASE Wake
  BY <1>2, Zenon DEF TypeOK, FlagTypes, Wake
<1>3. CASE StateMachine
  BY <1>3, StateMachineTypes DEF TypeOK
<1>4. CASE SetPwrStatus
  BY <1>4, Zenon DEF TypeOK, FlagTypes, SetPwrStatus
<1>5. CASE Update
  <2>1. pwrStHadS3' \in BOOLEAN
    BY <1>5, Zenon DEF Update
  <2>2. CASE next_state = "G3" /\ vciFlag
    BY <1>5, <2>1, <2>2, Zenon DEF TypeOK, FlagTypes, Update, NextStep
  <2>3. CASE ~(next_state = "G3" /\ vciFlag)
    <3>1. sleepReady' = (next_state \in {"S3", "S4", "S5", "G3"})
      BY <1>5, <2>3, Zenon DEF Update
    <3>2. sleepReady' \in BOOLEAN
      BY <3>1
    <3> QED
      BY <1>5, <2>1, <2>3, <3>2, Zenon DEF TypeOK, FlagTypes, Update
  <2> QED
    BY <2>2, <2>3
<1>6. CASE CommitState
  BY <1>6, Zenon DEF TypeOK, FlagTypes, CommitState
<1>7. CASE StageTail
  BY <1>7, Zenon DEF TypeOK, FlagTypes, StageTail, NextStep
<1>8. CASE PostBusy
  BY <1>8, Zenon DEF TypeOK, FlagTypes, PostBusy
<1>9. CASE PostProbe
  BY <1>9, Zenon DEF TypeOK, FlagTypes, PostProbe, PwrBtnFalling, NextStep
<1>10. CASE MonitorQuiet \/ MonitorG3 \/ MonitorS0 \/ MonitorS3 \/ MonitorS4S5
  <2> USE DEF TypeOK, FlagTypes, Monitor, NextStep
  <2>1. CASE MonitorQuiet
    BY <2>1, Zenon DEF MonitorQuiet
  <2>2. CASE MonitorG3
    BY <2>2, Zenon DEF MonitorG3
  <2>3. CASE MonitorS0
    BY <2>3, Zenon DEF MonitorS0
  <2>4. CASE MonitorS3
    BY <2>4, Zenon DEF MonitorS3
  <2>5. CASE MonitorS4S5
    BY <2>5, Zenon DEF MonitorS4S5
  <2> QED
    BY <1>10, <2>1, <2>2, <2>3, <2>4, <2>5
<1>11. CASE DelayCallback
  BY <1>11, Zenon DEF TypeOK, FlagTypes, DelayCallback
<1>12. CASE Thermtrip \/ HotBag \/ UsbcLowCap \/ ManOsAutoPwrOn
  BY <1>12, Zenon DEF TypeOK, FlagTypes, Thermtrip, HotBag, UsbcLowCap, ManOsAutoPwrOn, Request, OtherVars,
               NextStep
<1>13. CASE PwrBtnPress
  BY <1>13, Zenon DEF TypeOK, FlagTypes, PwrBtnPress, PwrBtnFalling, OtherVars, NextStep
<1>14. CASE SlpVwireAssert \/ SlpVwireDeassert
  BY <1>14, Zenon DEF TypeOK, FlagTypes, SlpVwireAssert, SlpVwireDeassert, SlpVwire
<1>15. CASE ApuSlp
  BY <1>15, Zenon DEF TypeOK, FlagTypes, ApuSlp
<1>16. CASE BtnEcReset \/ NvOptionReset \/ DebugReset
  BY <1>16, Zenon DEF TypeOK, FlagTypes, BtnEcReset, NvOptionReset, DebugReset, EcReset
<1>17. CASE Reboot
  BY <1>17, Zenon DEF TypeOK, FlagTypes, Reboot, NextStep
<1> QED
  BY <1>1, <1>2, <1>3, <1>4, <1>5, <1>6, <1>7, <1>8, <1>9, <1>10, <1>11, <1>12,
     <1>13, <1>14, <1>15, <1>16, <1>17 DEF Next, Thread, Environment

\* The wait counters, the stage and the states never leave their ranges, for
\* every polling limit and retry count (app_pseq_thread and its callers).
THEOREM TypeCorrect == Spec => []TypeOK
<1>1. Init => TypeOK
  <2>1. Init => DataTypes
    BY BoundAssumption DEF Init, DataTypes, Stage, SystemState, Idle
  <2>2. Init => FlagTypes
    BY Zenon DEF Init, FlagTypes
  <2> QED
    BY <2>1, <2>2 DEF TypeOK
<1>2. TypeOK /\ [Next]_vars => TypeOK'
  BY DataTypesInductive, FlagTypesInductive DEF TypeOK
<1> QED
  BY <1>1, <1>2, PTL DEF Spec

-----------------------------------------------------------------------------
(* Rails.                                                                  *)

\* app_pseq_StateMachine keeps the order of the rails, one step per stage.
LEMMA StateMachineRails ==
  ASSUME TypeOK, PowerInv, StateMachine
  PROVE  PowerInv'
<1> USE DEF PowerInv, StageSafe, DcHeld, RailOrder, RunRailOrder, PowerDownOrder,
            AfterPowerGood, BothOff, OneOff, ResetHeld, Rails, FirstOff, SecondOff,
            RunStage, ThreadAt, NONE, NO_CHANGE, apiVars, bootVars
<1>1. CASE PowerInit
  BY <1>1 DEF PowerInit, PlainStage
<1>2. CASE SetupGpioDefault
  BY <1>2 DEF SetupGpioDefault, PlainStage
<1>3. CASE EnterToG3
  BY <1>3 DEF EnterToG3, PlainStage
<1>4. CASE PwrgdAsserted
  BY <1>4 DEF PwrgdAsserted, PlainStage
<1>5. CASE PwrgdAssertedInDc
  BY <1>5 DEF PwrgdAssertedInDc, PlainStage
<1>6. CASE FromS5ToG3
  BY <1>6 DEF FromS5ToG3, PlainStage
<1>7. CASE FromS5ToG3Part2
  BY <1>7 DEF FromS5ToG3Part2, PlainStage
<1>8. CASE FromS5ToG3Part3
  BY <1>8 DEF FromS5ToG3Part3, PlainStage
<1>9. CASE FromS5S3ToS0
  BY <1>9 DEF FromS5S3ToS0, PlainStage
<1>10. CASE TransferedIntoS0
  BY <1>10 DEF TransferedIntoS0, PlainStage
<1>11. CASE FromS0ToS3S5
  <2>1. CASE PlainStage("FROM_S0_TO_S3S5", {}, {}, NONE, "FROM_S0_TO_S5")
    BY <2>1 DEF PlainStage
  <2>2. CASE PlainStage("FROM_S0_TO_S3S5", {"EC_SLP_S3_S0A3_N"}, {}, "S3", NONE)
    BY <2>2 DEF PlainStage
  <2> QED
    BY <1>11, <2>1, <2>2 DEF FromS0ToS3S5
<1>12. CASE FromS0ToS5
  BY <1>12 DEF FromS0ToS5, PlainStage
<1>13. CASE FromS0ToS5MemPmic
  <2>1. CASE PlainStage("FROM_S0_TO_S5_MEM_PMIC", {}, {}, NONE, NO_CHANGE)
    BY <2>1 DEF PlainStage
  <2>2. CASE PlainStage("FROM_S0_TO_S5_MEM_PMIC", {}, {}, NONE, "GOING_TO_S5")
    BY <2>2 DEF PlainStage
  <2> QED
    BY <1>13, <2>1, <2>2 DEF FromS0ToS5MemPmic
<1>14. CASE GoingToS5
  BY <1>14 DEF GoingToS5, PlainStage
<1>15. CASE ForceReset
  BY <1>15 DEF ForceReset, PlainStage
<1>16. CASE ForceResetPart1
  BY <1>16 DEF ForceResetPart1, PlainStage
<1>17. CASE ForceResetPart2
  BY <1>17 DEF ForceResetPart2, PlainStage
<1>18. CASE ForceResetPwrgdAsserted
  BY <1>18 DEF ForceResetPwrgdAsserted, PlainStage
<1>19. CASE ForceG3
  BY <1>19 DEF ForceG3, PlainStage
<1>20. CASE ForceG3Part1
  BY <1>20 DEF ForceG3Part1, PlainStage
<1>21. CASE ForceG3Part2
  BY <1>21 DEF ForceG3Part2, PlainStage
<1>22. CASE ForceG3Part3
  BY <1>22 DEF ForceG3Part3, PlainStage
<1>23. CASE FromG3ToS5
  <2>1. PICK pg \in PgReads :
          /\ RunStage("FROM_G3_TO_S5", {}, Rails, NONE,
                      IF pg THEN "PWRGD_ASSERTED" ELSE NO_CHANGE)
          /\ pgSeen' = (pgSeen \/ pg)
    BY <1>23, Zenon DEF FromG3ToS5, PowerGoodStage
  <2>2. CASE pg
    BY <2>1, <2>2
  <2>3. CASE ~pg
    BY <2>1, <2>3
  <2> QED
    BY <2>2, <2>3
<1>24. CASE FromG3ToS0
  <2>1. PICK pg \in PgReads :
          /\ RunStage("FROM_G3_TO_S0", {"RSMRST_N"}, Rails, NONE,
                      IF pg THEN "PWRGD_ASSERTED_IN_DC_MODE" ELSE NO_CHANGE)
          /\ pgSeen' = (pgSeen \/ pg)
    BY <1>24, Zenon DEF FromG3ToS0, PowerGoodStage
  <2>2. CASE pg
    BY <2>1, <2>2
  <2>3. CASE ~pg
    BY <2>1, <2>3
  <2> QED
    BY <2>2, <2>3
<1>25. CASE ForceResetG3ToS5
  <2>1. PICK pg \in PgReads :
          /\ RunStage("FORCE_RESET_G3_TO_S5", {}, Rails, NONE,
                      IF pg THEN "FORCE_RESET_PWRGD_ASSERTED" ELSE NO_CHANGE)
          /\ pgSeen' = (pgSeen \/ pg)
    BY <1>25, Zenon DEF ForceResetG3ToS5, PowerGoodStage
  <2>2. CASE pg
    BY <2>1, <2>2
  <2>3. CASE ~pg
    BY <2>1, <2>3
  <2> QED
    BY <2>2, <2>3
<1>26. CASE ReleaseRsmrst
  BY <1>26 DEF ReleaseRsmrst, VrInit
<1>27. CASE ReleaseRsmrstInDc
  BY <1>27 DEF ReleaseRsmrstInDc, VrInit
<1>28. CASE SlpReleased
  BY <1>28 DEF SlpReleased, SLP_S3_ASSERT, SLP_S5_ASSERT, SlpLines
<1>29. CASE SlpStillAsserted
  BY <1>29 DEF SlpStillAsserted
<1> QED
  BY <1>1, <1>2, <1>3, <1>4, <1>5, <1>6, <1>7, <1>8, <1>9, <1>10, <1>11, <1>12,
     <1>13, <1>14, <1>15, <1>16, <1>17, <1>18, <1>19, <1>20, <1>21, <1>22, <1>23,
     <1>24, <1>25, <1>26, <1>27, <1>28, <1>29 DEF StateMachine

\* Every step keeps the order of the rails.
LEMMA RailsInductive == TypeOK /\ PowerInv /\ [Next]_vars => PowerInv'
<1> SUFFICES ASSUME TypeOK, PowerInv, [Next]_vars PROVE PowerInv'
  OBVIOUS
<1> USE DEF PowerInv, StageSafe, DcHeld, RailOrder, RunRailOrder, PowerDownOrder,
            AfterPowerGood, BothOff, OneOff, ResetHeld, NONE, NO_CHANGE,
            apiVars, stateVars, pinVars, cntVars, bootVars
<1>1. CASE UNCHANGED vars
  BY <1>1 DEF vars
<1>2. CASE Wake
  BY <1>2 DEF Wake, ThreadAt
<1>3. CASE StateMachine
  BY <1>3, StateMachineRails
<1>4. CASE SetPwrStatus
  BY <1>4 DEF SetPwrStatus, ThreadAt, StatusDone, Idle
<1>5. CASE Update
  BY <1>5 DEF Update, ThreadAt, NextStep
<1>6. CASE CommitState
  BY <1>6 DEF CommitState, ThreadAt, StatusDone, Idle
<1>7. CASE StageTail
  BY <1>7 DEF StageTail, ThreadAt, NextStep, Idle
<1>8. CASE PostBusy
  BY <1>8 DEF PostBusy, ThreadAt
<1>9. CASE PostProbe
  BY <1>9 DEF PostProbe, ThreadAt, PwrBtnFalling, NextStep
<1>10. CASE MonitorQuiet \/ MonitorG3 \/ MonitorS0 \/ MonitorS3 \/ MonitorS4S5
  BY <1>10 DEF MonitorQuiet, MonitorG3, MonitorS0, MonitorS3, MonitorS4S5, Monitor,
               ThreadAt, NextStep
<1>11. CASE DelayCallback
  BY <1>11 DEF DelayCallback
<1>12. CASE Thermtrip \/ HotBag \/ UsbcLowCap \/ ManOsAutoPwrOn
  BY <1>12 DEF Thermtrip, HotBag, UsbcLowCap, ManOsAutoPwrOn, Request, OtherVars, NextStep
<1>13. CASE PwrBtnPress
  BY <1>13 DEF PwrBtnPress, PwrBtnFalling, OtherVars, NextStep
<1>14. CASE SlpVwireAssert \/ SlpVwireDeassert
  BY <1>14 DEF SlpVwireAssert, SlpVwireDeassert, SlpVwire
<1>15. CASE ApuSlp
  BY <1>15 DEF ApuSlp
<1>16. CASE BtnEcReset \/ NvOptionReset \/ DebugReset
  BY <1>16 DEF BtnEcReset, NvOptionReset, DebugReset, EcReset, Pins
<1>17. CASE Reboot
  BY <1>17 DEF Reboot, NextStep, Idle
<1> QED
  BY <1>1, <1>2, <1>3, <1>4, <1>5, <1>6, <1>7, <1>8, <1>9, <1>10, <1>11, <1>12,
     <1>13, <1>14, <1>15, <1>16, <1>17 DEF Next, Thread, Environment

\* The order of the rails is an invariant of the sequencer.
LEMMA RailsInvariant == Spec => []PowerInv
<1>1. Init => PowerInv
  BY DEF Init, PowerInv, StageSafe, DcHeld, RailOrder, RunRailOrder, PowerDownOrder,
         AfterPowerGood, BothOff, OneOff, ResetHeld, NONE, Idle
<1> QED
  BY <1>1, TypeCorrect, RailsInductive, PTL DEF Spec

\* On every board, whatever requests cut into a sequence and in whichever order,
\* the APU is out of reset only on good rails (app_pseq_StateMachine).
THEOREM RailOrderHolds == Spec => []RailOrder
<1>1. PowerInv => RailOrder
  BY DEF PowerInv, RailOrder
<1> QED
  BY <1>1, RailsInvariant, PTL

\* On every board the S0 and memory rails are on only on top of the S5 rails.
THEOREM RunRailOrderHolds == Spec => []RunRailOrder
<1>1. PowerInv => RunRailOrder
  BY DEF PowerInv, RunRailOrder
<1> QED
  BY <1>1, RailsInvariant, PTL

\* Except on the Dorne and Aeris boards the memory rails outlive the S0 rails.
THEOREM PowerDownOrderHolds == Spec => []PowerDownOrder
<1>1. PowerInv => PowerDownOrder
  BY DEF PowerInv
<1> QED
  BY <1>1, RailsInvariant, PTL

-----------------------------------------------------------------------------
(* Sleep votes and state entries.                                          *)

\* The vote is already withdrawn when the monitor runs beside a request.
VoteInv ==
  /\ pc \in {"idle", "mon"} /\ g_pwrSeqDelay => ~sleepReady
  /\ g_pwrSeqDelay => timer \/ g_pwrSeqExpired

\* Without the virtual wires nobody moves next_state between handler and commit.
EntryInv == pc = "commit" => handler = next_state /\ current_state \in ValidFrom(next_state)

\* Every step keeps the relation of deep-sleep vote and pending stage.
LEMMA VoteInductive == VoteInv /\ [Next]_vars => VoteInv'
<1> SUFFICES ASSUME VoteInv, [Next]_vars PROVE VoteInv'
  OBVIOUS
<1> USE DEF VoteInv, apiVars, stateVars, pinVars, cntVars, bootVars
<1>1. CASE UNCHANGED vars
  BY <1>1 DEF vars
<1>2. CASE Wake
  BY <1>2 DEF Wake
<1>3. CASE StateMachine
  <2>1. pc' \notin {"idle", "mon"}
    BY <1>3 DEF StateMachine, PowerInit, SetupGpioDefault, EnterToG3, FromG3ToS5,
         PwrgdAsserted, ReleaseRsmrst, FromG3ToS0, PwrgdAssertedInDc, ReleaseRsmrstInDc,
         FromS5ToG3, FromS5ToG3Part2, FromS5ToG3Part3, FromS5S3ToS0, SlpReleased,
         SlpStillAsserted, TransferedIntoS0, FromS0ToS3S5, FromS0ToS5, FromS0ToS5MemPmic,
         GoingToS5, ForceReset, ForceResetPart1, ForceResetPart2, ForceResetG3ToS5,
         ForceResetPwrgdAsserted, ForceG3, ForceG3Part1, ForceG3Part2, ForceG3Part3,
         PlainStage, PowerGoodStage, RunStage
  <2>2. UNCHANGED <<g_pwrSeqDelay, timer, g_pwrSeqExpired>>
    BY <1>3 DEF StateMachine, PowerInit, SetupGpioDefault, EnterToG3, FromG3ToS5,
         PwrgdAsserted, ReleaseRsmrst, FromG3ToS0, PwrgdAssertedInDc, ReleaseRsmrstInDc,
         FromS5ToG3, FromS5ToG3Part2, FromS5ToG3Part3, FromS5S3ToS0, SlpReleased,
         SlpStillAsserted, TransferedIntoS0, FromS0ToS3S5, FromS0ToS5, FromS0ToS5MemPmic,
         GoingToS5, ForceReset, ForceResetPart1, ForceResetPart2, ForceResetG3ToS5,
         ForceResetPwrgdAsserted, ForceG3, ForceG3Part1, ForceG3Part2, ForceG3Part3,
         PlainStage, PowerGoodStage, RunStage
  <2> QED
    BY <2>1, <2>2
<1>4. CASE SetPwrStatus \/ CommitState
  BY <1>4 DEF SetPwrStatus, CommitState, StatusDone
<1>5. CASE Update
  BY <1>5 DEF Update, NextStep
<1>6. CASE StageTail
  BY <1>6 DEF StageTail, NextStep
<1>7. CASE PostBusy
  BY <1>7 DEF PostBusy
<1>8. CASE PostProbe
  BY <1>8 DEF PostProbe, PwrBtnFalling, NextStep
<1>9. CASE MonitorQuiet \/ MonitorG3 \/ MonitorS0 \/ MonitorS3 \/ MonitorS4S5
  BY <1>9 DEF MonitorQuiet, MonitorG3, MonitorS0, MonitorS3, MonitorS4S5, Monitor,
              ThreadAt, NextStep
<1>10. CASE DelayCallback
  BY <1>10 DEF DelayCallback
<1>11. CASE Thermtrip \/ HotBag \/ UsbcLowCap \/ ManOsAutoPwrOn
  BY <1>11 DEF Thermtrip, HotBag, UsbcLowCap, ManOsAutoPwrOn, Request, OtherVars, NextStep
<1>12. CASE PwrBtnPress
  BY <1>12 DEF PwrBtnPress, PwrBtnFalling, OtherVars, NextStep
<1>13. CASE SlpVwireAssert \/ SlpVwireDeassert \/ ApuSlp
  BY <1>13 DEF SlpVwireAssert, SlpVwireDeassert, SlpVwire, ApuSlp
<1>14. CASE BtnEcReset \/ NvOptionReset \/ DebugReset
  BY <1>14 DEF BtnEcReset, NvOptionReset, DebugReset, EcReset
<1>15. CASE Reboot
  BY <1>15 DEF Reboot, NextStep
<1> QED
  BY <1>1, <1>2, <1>3, <1>4, <1>5, <1>6, <1>7, <1>8, <1>9, <1>10, <1>11, <1>12,
     <1>13, <1>14, <1>15 DEF Next, Thread, Environment

\* A request never leaves the thread asleep with its deep-sleep vote still given, or
\* with a stage pending that no timer runs (app_pseq_nextStep and app_pseq_thread).
THEOREM NoSleepWhilePendingHolds == Spec => []NoSleepWhilePending
<1>1. Init => VoteInv
  BY DEF Init, VoteInv
<1>2. VoteInv => NoSleepWhilePending
  BY DEF VoteInv, NoSleepWhilePending
<1> QED
  BY <1>1, <1>2, VoteInductive, PTL DEF Spec

\* Without virtual wires the handler that ran is that of next_state.
LEMMA EntryInductive ==
  ASSUME ~SlpVwires
  PROVE  EntryInv /\ [Next]_vars => EntryInv'
<1> SUFFICES ASSUME EntryInv, [Next]_vars PROVE EntryInv'
  OBVIOUS
<1> USE DEF EntryInv, apiVars, stateVars, pinVars, cntVars, bootVars
<1>1. CASE UNCHANGED vars
  BY <1>1 DEF vars
<1>2. CASE StateMachine
  <2>1. pc' # "commit"
    BY <1>2 DEF StateMachine, PowerInit, SetupGpioDefault, EnterToG3, FromG3ToS5,
         PwrgdAsserted, ReleaseRsmrst, FromG3ToS0, PwrgdAssertedInDc, ReleaseRsmrstInDc,
         FromS5ToG3, FromS5ToG3Part2, FromS5ToG3Part3, FromS5S3ToS0, SlpReleased,
         SlpStillAsserted, TransferedIntoS0, FromS0ToS3S5, FromS0ToS5, FromS0ToS5MemPmic,
         GoingToS5, ForceReset, ForceResetPart1, ForceResetPart2, ForceResetG3ToS5,
         ForceResetPwrgdAsserted, ForceG3, ForceG3Part1, ForceG3Part2, ForceG3Part3,
         PlainStage, PowerGoodStage, RunStage
  <2> QED
    BY <2>1
<1>3. CASE Wake \/ StageTail \/ PostBusy \/ PostProbe
  BY <1>3 DEF Wake, StageTail, PostBusy, PostProbe
<1>4. CASE SetPwrStatus \/ CommitState
  BY <1>4 DEF SetPwrStatus, CommitState, StatusDone
<1>5. CASE Update
  BY <1>5 DEF Update
<1>6. CASE MonitorQuiet \/ MonitorG3 \/ MonitorS0 \/ MonitorS3 \/ MonitorS4S5
  BY <1>6 DEF MonitorQuiet, MonitorG3, MonitorS0, MonitorS3, MonitorS4S5, Monitor
<1>7. CASE Thermtrip \/ HotBag \/ UsbcLowCap \/ ManOsAutoPwrOn \/ PwrBtnPress
  BY <1>7 DEF Thermtrip, HotBag, UsbcLowCap, ManOsAutoPwrOn, Request, PwrBtnPress, OtherVars
<1>8. CASE SlpVwireAssert \/ SlpVwireDeassert
  BY <1>8 DEF SlpVwireAssert, SlpVwireDeassert, SlpVwire
<1>9. CASE DelayCallback \/ ApuSlp \/ BtnEcReset \/ NvOptionReset \/ DebugReset
  BY <1>9 DEF DelayCallback, ApuSlp, BtnEcReset, NvOptionReset, DebugReset, EcReset
<1>10. CASE Reboot
  BY <1>10 DEF Reboot
<1> QED
  BY <1>1, <1>2, <1>3, <1>4, <1>5, <1>6, <1>7, <1>8, <1>9, <1>10
     DEF Next, Thread, Environment

\* A state is committed only after its own handler.
LEMMA EntryStep ==
  ASSUME EntryInv, [Next]_vars
  PROVE  EntryHandled
<1> SUFFICES ASSUME current_state' # current_state, ~resetting
             PROVE  handler = current_state' /\ current_state \in ValidFrom(current_state')
  BY DEF EntryHandled
<1>1. CASE CommitState
  BY <1>1 DEF CommitState, ThreadAt, EntryInv
<1>2. CASE ~CommitState
  <2>1. UNCHANGED current_state
    BY <1>2 DEF Next, Thread, Environment, vars, apiVars, stateVars, pinVars, cntVars,
         bootVars, OtherVars, Wake, StateMachine, PowerInit, SetupGpioDefault, EnterToG3,
         FromG3ToS5, PwrgdAsserted, ReleaseRsmrst, FromG3ToS0, PwrgdAssertedInDc,
         ReleaseRsmrstInDc, FromS5ToG3, FromS5ToG3Part2, FromS5ToG3Part3, FromS5S3ToS0,
         SlpReleased, SlpStillAsserted, TransferedIntoS0, FromS0ToS3S5, FromS0ToS5,
         FromS0ToS5MemPmic, GoingToS5, ForceReset, ForceResetPart1, ForceResetPart2,
         ForceResetG3ToS5, ForceResetPwrgdAsserted, ForceG3, ForceG3Part1, ForceG3Part2,
         ForceG3Part3, PlainStage, PowerGoodStage, RunStage, SetPwrStatus, Update,
         StageTail, PostBusy, PostProbe, Monitor, MonitorQuiet, MonitorG3, MonitorS0,
         MonitorS3, MonitorS4S5, DelayCallback, Thermtrip, HotBag, UsbcLowCap,
         ManOsAutoPwrOn, Request, PwrBtnPress, SlpVwireAssert, SlpVwireDeassert, SlpVwire,
         ApuSlp, BtnEcReset, NvOptionReset, DebugReset, EcReset, Reboot
  <2> QED
    BY <2>1
<1> QED
  BY <1>1, <1>2

\* Where the SLP lines are not virtual wires, a state is only ever entered by
\* way of its own transition handler and from a state that handler accepts
\* (app_pseq_setPwrStatus, app_pseq_update).
THEOREM StateEntryHandledHolds ==
  ASSUME ~SlpVwires
  PROVE  Spec => StateEntryHandled
<1>1. Init => EntryInv
  BY DEF Init, EntryInv
<1>2. EntryInv /\ [Next]_vars
        => [EntryHandled]_vars
  BY EntryStep
<1> QED
  BY <1>1, <1>2, EntryInductive, PTL DEF Spec, StateEntryHandled

-----------------------------------------------------------------------------
(* Settled states.                                                         *)

\* The S0 handler withdraws the vote before S0 is committed, and whatever S0 is
\* left for is a valid transition, so that no handler's vote is refused there.
AwakeInv ==
  /\ current_state = "S0" /\ pc # "commit" => ~sleepReady
  /\ next_state = "S0" /\ pc = "commit" => ~sleepReady

\* The thread still has something to do: a stage is pending or running, its
\* successor is to be asked for, or a new state is to be committed.
InHand ==
  \/ g_pwrSeqDelay \/ pc \in {"run", "tail"}
  \/ /\ pc \in {"set", "update", "commit", "reject"}
     /\ todo.nx # NONE \/ todo.st # current_state

Asked(stages) == next_stage \in stages \/ todo.nx \in stages

Setting(st) == pc \in {"set", "update", "commit"} /\ todo.st = st

\* Stages that run with every pin low.
Dark == {"POWER_INIT", "SETUP_GPIO_DEFAULT", "ENTER_TO_G3"}

\* Stages that run with the 1.8 V rail already off.
No1v8 == {"FROM_S5_TO_G3_Part3", "FORCE_G3_Part3"}

AllOn ==
  Asked({"TRANSFERED_INTO_S0"}) \/ Setting("S0") \/ (current_state = "S0" /\ ~InHand)
    => high = Pins

AllOff ==
  Asked(Dark) \/ Setting("G3") \/ (current_state = "G3" /\ ~InHand) => high = {}

PartOff ==
  /\ Asked(No1v8) => "EC_1V8_S5_EN" \notin high
  /\ Asked({"FORCE_RESET_Part2"}) => "EC_S5_PWREN" \notin high

\* next_state is the current state but while a transition is under way, and S0
\* and G3 refuse none.
Follows ==
  /\ pc \notin {"update", "commit", "reject"} => next_state = current_state
  /\ pc \in {"update", "commit"} => next_state = todo.st /\ next_state # current_state
  /\ pc = "reject" => current_state \notin {"S0", "G3"}

SettleInv == ~resetting => Follows /\ AllOn /\ AllOff /\ PartOff

\* What the pins must be when a stage has run, set its status and named a successor.
Fits(stage, st, nx, pins) ==
  /\ "TRANSFERED_INTO_S0" \in {stage, nx} \/ st = "S0" => pins = Pins
  /\ stage \in Dark \/ nx \in Dark \/ st = "G3" => pins = {}
  /\ stage \in No1v8 \/ nx \in No1v8 => "EC_1V8_S5_EN" \notin pins
  /\ "FORCE_RESET_Part2" \in {stage, nx} => "EC_S5_PWREN" \notin pins
  /\ st # NONE \/ nx # NONE

\* A stage whose pins fit what comes next leaves nothing half done.
LEMMA StageSettles ==
  ASSUME SettleInv, NEW stage, NEW off, NEW on, NEW st, NEW nx,
         RunStage(stage, off, on, st, nx), Fits(stage, st, nx, (high \ off) \cup on)
  PROVE  SettleInv'
<1>1. /\ pc = "run" /\ ~resetting /\ ~resetting' /\ next_stage = stage /\ next_stage' = stage
      /\ high' = (high \ off) \cup on /\ todo' = [st |-> st, nx |-> nx]
      /\ pc' = IF st # NONE THEN "set" ELSE IF nx # NONE THEN "tail" ELSE "post"
      /\ UNCHANGED <<current_state, next_state>>
  BY DEF RunStage, ThreadAt, apiVars, stateVars, bootVars
<1>2. todo'.st = st /\ todo'.nx = nx /\ pc' \in {"set", "tail"} /\ (pc' = "set" => st # NONE)
  BY <1>1 DEF Fits
<1>3. Follows'
  BY <1>1, <1>2 DEF SettleInv, Follows
<1>4. PartOff'
  BY <1>1, <1>2 DEF PartOff, Asked, Fits
<1>5. AllOn'
  BY <1>1, <1>2 DEF AllOn, Asked, Setting, InHand, Fits, NONE
<1>6. AllOff'
  BY <1>1, <1>2 DEF AllOff, Asked, Setting, InHand, Fits, NONE
<1> QED
  BY <1>3, <1>4, <1>5, <1>6 DEF SettleInv

\* Every stage of app_pseq_StateMachine fits: the last of a way down has switched
\* off what is left, the one before S0 is entered has switched everything on.
LEMMA StateMachineSettles ==
  ASSUME TypeOK, PowerInv, SettleInv, StateMachine
  PROVE  SettleInv'
<1>h. high \subseteq Pins /\ (Asked(No1v8) /\ ~resetting => "EC_1V8_S5_EN" \notin high)
      /\ (Asked({"FORCE_RESET_Part2"}) /\ ~resetting => "EC_S5_PWREN" \notin high)
      /\ (Asked(Dark) /\ ~resetting => high = {})
      /\ (Asked({"TRANSFERED_INTO_S0"}) /\ ~resetting => high = Pins)
  BY DEF TypeOK, DataTypes, SettleInv, PartOff, AllOff, AllOn
<1>r. \A stage, off, on, st, nx :
        RunStage(stage, off, on, st, nx) => next_stage = stage /\ ~resetting
  BY DEF RunStage, ThreadAt
<1>p. \A stage, off, on, st, nx :
        PlainStage(stage, off, on, st, nx) => RunStage(stage, off, on, st, nx)
  BY DEF PlainStage
<1>1. CASE PowerInit
  BY <1>1, <1>h, <1>r, <1>p, StageSettles DEF PowerInit, Fits, Dark, No1v8, Asked, NONE
<1>2. CASE SetupGpioDefault
  BY <1>2, <1>h, <1>r, <1>p, StageSettles DEF SetupGpioDefault, Fits, Dark, No1v8, Asked, NONE
<1>3. CASE EnterToG3
  BY <1>3, <1>h, <1>r, <1>p, StageSettles DEF EnterToG3, Fits, Dark, No1v8, Asked, NONE
<1>4. CASE FromG3ToS5 \/ FromG3ToS0 \/ ForceResetG3ToS5
  BY <1>4, StageSettles
     DEF FromG3ToS5, FromG3ToS0, ForceResetG3ToS5, PowerGoodStage, Fits, Dark, No1v8,
         NONE, NO_CHANGE
<1>5. CASE PwrgdAsserted \/ PwrgdAssertedInDc \/ FromS5S3ToS0
  BY <1>5, <1>p, StageSettles
     DEF PwrgdAsserted, PwrgdAssertedInDc, FromS5S3ToS0, Fits, Dark, No1v8, NONE
<1>6. CASE ReleaseRsmrst
  BY <1>6, StageSettles DEF ReleaseRsmrst, Fits, Dark, No1v8, NONE
<1>7. CASE ReleaseRsmrstInDc
  BY <1>7, StageSettles DEF ReleaseRsmrstInDc, Fits, Dark, No1v8, NONE
<1>8. CASE FromS5ToG3 \/ FromS5ToG3Part2
  BY <1>8, <1>p, StageSettles DEF FromS5ToG3, FromS5ToG3Part2, Fits, Dark, No1v8, NONE
<1>9. CASE FromS5ToG3Part3
  <2>1. high \ {"EC_S5_PWREN"} = {} /\ "EC_1V8_S5_EN" \notin high
    BY <1>9, <1>h, <1>r, <1>p
       DEF FromS5ToG3Part3, Asked, No1v8, PowerInv, StageSafe, BothOff, ResetHeld, Pins, Rails
  <2> QED
    BY <1>9, <2>1, <1>p, StageSettles DEF FromS5ToG3Part3, Fits, Dark, No1v8, NONE
<1>10. CASE SlpReleased
  <2>1. high \cup {"EC_SLP_S5_N", "EC_SLP_S3_S0A3_N"} = Pins
    BY <1>10, <1>h, <1>r DEF SlpReleased, SLP_S3_ASSERT, SLP_S5_ASSERT, SlpLines, PowerInv,
       RailOrder, Pins, Rails
  <2> QED
    BY <1>10, <2>1, StageSettles DEF SlpReleased, Fits, Dark, No1v8, NONE
<1>11. CASE SlpStillAsserted
  BY <1>11, StageSettles DEF SlpStillAsserted, Fits, Dark, No1v8, NONE, NO_CHANGE
<1>12. CASE TransferedIntoS0
  BY <1>12, <1>h, <1>r, <1>p, StageSettles DEF TransferedIntoS0, Fits, Dark, No1v8, Asked, NONE
<1>13. CASE FromS0ToS3S5
  BY <1>13, <1>p, StageSettles DEF FromS0ToS3S5, Fits, Dark, No1v8, NONE
<1>14. CASE FromS0ToS5 \/ FromS0ToS5MemPmic
  BY <1>14, <1>p, StageSettles
     DEF FromS0ToS5, FromS0ToS5MemPmic, Fits, Dark, No1v8, NONE, NO_CHANGE
<1>15. CASE GoingToS5
  BY <1>15, <1>p, StageSettles DEF GoingToS5, Fits, Dark, No1v8, NONE
<1>16. CASE ForceReset \/ ForceResetPart1
  BY <1>16, <1>p, StageSettles DEF ForceReset, ForceResetPart1, Fits, Dark, No1v8, NONE
<1>17. CASE ForceResetPart2
  <2>1. high \ {"EC_1V8_S5_EN", "RSMRST_N"} = {}
    BY <1>17, <1>h, <1>r, <1>p
       DEF ForceResetPart2, Asked, PowerInv, StageSafe, BothOff, ResetHeld, Pins, Rails
  <2> QED
    BY <1>17, <2>1, <1>p, StageSettles DEF ForceResetPart2, Fits, Dark, No1v8, NONE
<1>18. CASE ForceResetPwrgdAsserted
  BY <1>18, <1>p, StageSettles DEF ForceResetPwrgdAsserted, Fits, Dark, No1v8, NONE
<1>19. CASE ForceG3 \/ ForceG3Part1 \/ ForceG3Part2
  BY <1>19, <1>p, StageSettles DEF ForceG3, ForceG3Part1, ForceG3Part2, Fits, Dark, No1v8, NONE
<1>20. CASE ForceG3Part3
  <2>1. high \ {"EC_S5_PWREN"} = {} /\ "EC_1V8_S5_EN" \notin high
    BY <1>20, <1>h, <1>r, <1>p
       DEF ForceG3Part3, Asked, No1v8, PowerInv, StageSafe, BothOff, ResetHeld, Pins, Rails
  <2> QED
    BY <1>20, <2>1, <1>p, StageSettles DEF ForceG3Part3, Fits, Dark, No1v8, NONE
<1> QED
  BY <1>1, <1>2, <1>3, <1>4, <1>5, <1>6, <1>7, <1>8, <1>9, <1>10, <1>11, <1>12,
     <1>13, <1>14, <1>15, <1>16, <1>17, <1>18, <1>19, <1>20 DEF StateMachine

\* Every other step, too, leaves the sequencer settled or with something in hand.
LEMMA SettleInductive ==
  ASSUME ~SlpVwires
  PROVE  TypeOK /\ PowerInv /\ SettleInv /\ [Next]_vars => SettleInv'
<1> SUFFICES ASSUME TypeOK, PowerInv, SettleInv, [Next]_vars PROVE SettleInv'
  OBVIOUS
<1> USE DEF SettleInv, Follows, AllOn, AllOff, PartOff, Asked, Setting, InHand, Dark, No1v8,
            NONE, NO_CHANGE, apiVars, stateVars, pinVars, cntVars, bootVars
<1>1. CASE UNCHANGED vars
  BY <1>1 DEF vars
<1>2. CASE StateMachine
  BY <1>2, StateMachineSettles
<1>3. CASE Wake \/ PostBusy
  BY <1>3 DEF Wake, PostBusy, ThreadAt
<1>4. CASE SetPwrStatus
  BY <1>4 DEF SetPwrStatus, ThreadAt, StatusDone, Idle
<1>5. CASE Update
  BY <1>5 DEF Update, ThreadAt, NextStep, ValidFrom, SystemState, TypeOK, DataTypes
<1>6. CASE CommitState
  BY <1>6 DEF CommitState, ThreadAt, StatusDone, Idle
<1>7. CASE StageTail
  BY <1>7 DEF StageTail, ThreadAt, NextStep, Idle, TypeOK, DataTypes
<1>8. CASE PostProbe
  BY <1>8 DEF PostProbe, ThreadAt, PwrBtnFalling, NextStep
<1>9. CASE MonitorQuiet \/ MonitorG3 \/ MonitorS0 \/ MonitorS3 \/ MonitorS4S5
  BY <1>9 DEF MonitorQuiet, MonitorG3, MonitorS0, MonitorS3, MonitorS4S5, Monitor,
              ThreadAt, NextStep
<1>10. CASE DelayCallback \/ ApuSlp
  BY <1>10 DEF DelayCallback, ApuSlp
<1>11. CASE Thermtrip \/ HotBag \/ UsbcLowCap \/ ManOsAutoPwrOn
  BY <1>11 DEF Thermtrip, HotBag, UsbcLowCap, ManOsAutoPwrOn, Request, OtherVars, NextStep
<1>12. CASE PwrBtnPress
  BY <1>12 DEF PwrBtnPress, PwrBtnFalling, OtherVars, NextStep
<1>13. CASE SlpVwireAssert \/ SlpVwireDeassert
  BY <1>13 DEF SlpVwireAssert, SlpVwireDeassert, SlpVwire
<1>14. CASE BtnEcReset \/ NvOptionReset \/ DebugReset
  BY <1>14 DEF BtnEcReset, NvOptionReset, DebugReset, EcReset
<1>15. CASE Reboot
  BY <1>15 DEF Reboot, NextStep, Idle
<1> QED
  BY <1>1, <1>2, <1>3, <1>4, <1>5, <1>6, <1>7, <1>8, <1>9, <1>10, <1>11, <1>12,
     <1>13, <1>14, <1>15 DEF Next, Thread, Environment

\* Without virtual wires the sequencer is settled or has something in hand.
LEMMA SettleInvariant ==
  ASSUME ~SlpVwires
  PROVE  Spec => []SettleInv
<1>1. Init => SettleInv
  BY DEF Init, SettleInv, Follows, AllOn, AllOff, PartOff, Asked, Setting, InHand, Dark, No1v8,
         NONE, Idle
<1> QED
  BY <1>1, TypeCorrect, RailsInvariant, SettleInductive, PTL DEF Spec

\* Where the SLP lines are not virtual wires, a sequencer at rest in S0 has every
\* rail on and the APU out of reset, whatever was requested or lost on the way
\* (app_pseq_StateMachine, app_pseq_nextStep).
THEOREM S0SettledHolds ==
  ASSUME ~SlpVwires
  PROVE  Spec => []S0Settled
<1>1. SettleInv => S0Settled
  BY DEF SettleInv, AllOn, InHand, S0Settled
<1> QED
  BY <1>1, SettleInvariant, PTL

\* Likewise a sequencer at rest in G3 has every rail off.
THEOREM G3SettledHolds ==
  ASSUME ~SlpVwires
  PROVE  Spec => []G3Settled
<1>1. SettleInv => G3Settled
  BY DEF SettleInv, AllOff, InHand, G3Settled
<1> QED
  BY <1>1, SettleInvariant, PTL

\* Every step keeps the deep-sleep vote withdrawn in S0.
LEMMA AwakeInductive ==
  ASSUME ~SlpVwires
  PROVE  AwakeInv /\ [Next]_vars => AwakeInv'
<1> SUFFICES ASSUME AwakeInv, [Next]_vars PROVE AwakeInv'
  OBVIOUS
<1> USE DEF AwakeInv, apiVars, stateVars, pinVars, cntVars, bootVars
<1>1. CASE UNCHANGED vars
  BY <1>1 DEF vars
<1>2. CASE StateMachine
  <2>1. pc = "run" /\ pc' # "commit" /\ UNCHANGED <<current_state, sleepReady>>
    BY <1>2 DEF StateMachine, PowerInit, SetupGpioDefault, EnterToG3, FromG3ToS5,
         PwrgdAsserted, ReleaseRsmrst, FromG3ToS0, PwrgdAssertedInDc, ReleaseRsmrstInDc,
         FromS5ToG3, FromS5ToG3Part2, FromS5ToG3Part3, FromS5S3ToS0, SlpReleased,
         SlpStillAsserted, TransferedIntoS0, FromS0ToS3S5, FromS0ToS5, FromS0ToS5MemPmic,
         GoingToS5, ForceReset, ForceResetPart1, ForceResetPart2, ForceResetG3ToS5,
         ForceResetPwrgdAsserted, ForceG3, ForceG3Part1, ForceG3Part2, ForceG3Part3,
         PlainStage, PowerGoodStage, RunStage, ThreadAt
  <2> QED
    BY <2>1
<1>3. CASE Wake \/ PostBusy
  BY <1>3 DEF Wake, PostBusy, ThreadAt
<1>4. CASE SetPwrStatus
  BY <1>4 DEF SetPwrStatus, ThreadAt, StatusDone
<1>5. CASE Update
  BY <1>5 DEF Update, ThreadAt, NextStep, ValidFrom, SystemState
<1>6. CASE CommitState
  BY <1>6 DEF CommitState, ThreadAt, StatusDone
<1>7. CASE StageTail
  BY <1>7 DEF StageTail, ThreadAt, NextStep
<1>8. CASE PostProbe
  BY <1>8 DEF PostProbe, ThreadAt, PwrBtnFalling, NextStep
<1>9. CASE MonitorQuiet \/ MonitorG3 \/ MonitorS0 \/ MonitorS3 \/ MonitorS4S5
  BY <1>9 DEF MonitorQuiet, MonitorG3, MonitorS0, MonitorS3, MonitorS4S5, Monitor,
              ThreadAt, NextStep
<1>10. CASE DelayCallback \/ ApuSlp
  BY <1>10 DEF DelayCallback, ApuSlp
<1>11. CASE Thermtrip \/ HotBag \/ UsbcLowCap \/ ManOsAutoPwrOn
  BY <1>11 DEF Thermtrip, HotBag, UsbcLowCap, ManOsAutoPwrOn, Request, OtherVars, NextStep
<1>12. CASE PwrBtnPress
  BY <1>12 DEF PwrBtnPress, PwrBtnFalling, OtherVars, NextStep
<1>13. CASE SlpVwireAssert \/ SlpVwireDeassert
  BY <1>13 DEF SlpVwireAssert, SlpVwireDeassert, SlpVwire
<1>14. CASE BtnEcReset \/ NvOptionReset \/ DebugReset
  BY <1>14 DEF BtnEcReset, NvOptionReset, DebugReset, EcReset
<1>15. CASE Reboot
  BY <1>15 DEF Reboot, NextStep
<1> QED
  BY <1>1, <1>2, <1>3, <1>4, <1>5, <1>6, <1>7, <1>8, <1>9, <1>10, <1>11, <1>12,
     <1>13, <1>14, <1>15 DEF Next, Thread, Environment

\* Where the SLP lines are not virtual wires, the deep-sleep vote is never given
\* in S0 (the app_pseq_transitionTo... handlers and app_pseq_update).
THEOREM S0AwakeHolds ==
  ASSUME ~SlpVwires
  PROVE  Spec => []S0Awake
<1>1. Init => AwakeInv
  BY DEF Init, AwakeInv
<1>2. AwakeInv => S0Awake
  BY DEF AwakeInv, S0Awake
<1> QED
  BY <1>1, <1>2, AwakeInductive, PTL DEF Spec

=============================================================================
