---------------------------- MODULE BoardsProofs ----------------------------
(***************************************************************************)
(* What PowerSeqProofs proves of a board, carried over to the Dorne board  *)
(* of MCBoards.  Its constants (swapped run rails, virtual wires, no VR    *)
(* retry) satisfy the assumptions of PowerSeq, and a step of the two       *)
(* boards together is a step, or a stutter, of Dorne.                      *)
(***************************************************************************)
EXTENDS MCBoards, TLAPS

\* The theorems of PowerSeqProofs, under the substitution that makes Dorne.
P == INSTANCE PowerSeqProofs WITH
  current_state <- d_current_state, next_state <- d_next_state, next_stage <- d_next_stage,
  g_pwrSeqDelay <- d_pwrSeqDelay, g_pwrSeqExpired <- d_pwrSeqExpired, timer <- d_timer,
  sleepReady <- d_sleepReady, slpS35WaitCnt <- d_slpS35WaitCnt, gotoG3WaitCnt <-
  d_gotoG3WaitCnt, vrNeedG3_cnt <- d_vrNeedG3_cnt, pwrStHadS3 <- d_pwrStHadS3, init_espi <-
  d_init_espi, high <- d_high, slp <- d_slp, posted <- d_posted, vciFlag <- d_vciFlag,
  bootReason <- d_bootReason, usbcBoot <- d_usbcBoot, resetting <- d_resetting, pc <- d_pc,
  todo <- d_todo, pgSeen <- d_pgSeen, handler <- d_handler,
  BoardDorne <- TRUE, MemPMIC <- FALSE, IsPEO <- TRUE, SlpVwires <- TRUE,
  VrReads <- {FALSE}, AcReads <- {TRUE, FALSE}, PgReads <- {TRUE},
  SlpWaitLimit <- 1, S5ToG3Delay <- 1, VrRetries <- 1, Requesters <- {"thermtrip"}

-----------------------------------------------------------------------------
\* The constants of Dorne are a board: what PowerSeq assumes holds of them.
LEMMA DorneIsABoard == P!BoardAssumption /\ P!BoundAssumption
BY DEF P!BoardAssumption, P!BoundAssumption

\* Dorne of MCBoards and the instance the theorems speak of start alike,
LEMMA SameInit == Dorne!Init <=> P!Init
  BY DEF P!Init, Dorne!Init, P!SlpLines, Dorne!SlpLines, P!NONE, Dorne!NONE, P!Idle,
      Dorne!Idle

\* and take the same steps: every action of one is the action of the other.
LEMMA SameNext == Dorne!Next <=> P!Next
  BY SMT DEF P!apiVars, Dorne!apiVars, P!stateVars, Dorne!stateVars, P!pinVars,
      Dorne!pinVars, P!cntVars, Dorne!cntVars, P!bootVars, Dorne!bootVars, P!vars,
      Dorne!vars, P!NONE, Dorne!NONE, P!SystemState, Dorne!SystemState, P!Stage,
      Dorne!Stage, P!NO_CHANGE, Dorne!NO_CHANGE, P!Rails, Dorne!Rails, P!Pins,
      Dorne!Pins, P!SlpLines, Dorne!SlpLines, P!SLP_S3_ASSERT, Dorne!SLP_S3_ASSERT,
      P!SLP_S5_ASSERT, Dorne!SLP_S5_ASSERT, P!FirstOff, Dorne!FirstOff, P!SecondOff,
      Dorne!SecondOff, P!NextStep, Dorne!NextStep, P!DelayCallback, Dorne!DelayCallback,
      P!ThreadAt, Dorne!ThreadAt, P!Wake, Dorne!Wake, P!RunStage, Dorne!RunStage,
      P!PlainStage, Dorne!PlainStage, P!PowerGoodStage, Dorne!PowerGoodStage,
      P!PowerInit, Dorne!PowerInit, P!SetupGpioDefault, Dorne!SetupGpioDefault,
      P!EnterToG3, Dorne!EnterToG3, P!FromG3ToS5, Dorne!FromG3ToS5, P!PwrgdAsserted,
      Dorne!PwrgdAsserted, P!VrInit, Dorne!VrInit, P!ReleaseRsmrst, Dorne!ReleaseRsmrst,
      P!FromG3ToS0, Dorne!FromG3ToS0, P!PwrgdAssertedInDc, Dorne!PwrgdAssertedInDc,
      P!ReleaseRsmrstInDc, Dorne!ReleaseRsmrstInDc, P!FromS5ToG3, Dorne!FromS5ToG3,
      P!FromS5ToG3Part2, Dorne!FromS5ToG3Part2, P!FromS5ToG3Part3,
      Dorne!FromS5ToG3Part3, P!FromS5S3ToS0, Dorne!FromS5S3ToS0, P!SlpReleased,
      Dorne!SlpReleased, P!SlpStillAsserted, Dorne!SlpStillAsserted, P!TransferedIntoS0,
      Dorne!TransferedIntoS0, P!FromS0ToS3S5, Dorne!FromS0ToS3S5, P!FromS0ToS5,
      Dorne!FromS0ToS5, P!FromS0ToS5MemPmic, Dorne!FromS0ToS5MemPmic, P!GoingToS5,
      Dorne!GoingToS5, P!ForceReset, Dorne!ForceReset, P!ForceResetPart1,
      Dorne!ForceResetPart1, P!ForceResetPart2, Dorne!ForceResetPart2,
      P!ForceResetG3ToS5, Dorne!ForceResetG3ToS5, P!ForceResetPwrgdAsserted,
      Dorne!ForceResetPwrgdAsserted, P!ForceG3, Dorne!ForceG3, P!ForceG3Part1,
      Dorne!ForceG3Part1, P!ForceG3Part2, Dorne!ForceG3Part2, P!ForceG3Part3,
      Dorne!ForceG3Part3, P!StateMachine, Dorne!StateMachine, P!Idle, Dorne!Idle,
      P!StatusDone, Dorne!StatusDone, P!SetPwrStatus, Dorne!SetPwrStatus, P!ValidFrom,
      Dorne!ValidFrom, P!Update, Dorne!Update, P!CommitState, Dorne!CommitState,
      P!StageTail, Dorne!StageTail, P!PwrBtnFalling, Dorne!PwrBtnFalling, P!PostBusy,
      Dorne!PostBusy, P!PostProbe, Dorne!PostProbe, P!Monitor, Dorne!Monitor,
      P!MonitorQuiet, Dorne!MonitorQuiet, P!MonitorG3, Dorne!MonitorG3, P!MonitorS0,
      Dorne!MonitorS0, P!MonitorS3, Dorne!MonitorS3, P!MonitorS4S5, Dorne!MonitorS4S5,
      P!Thread, Dorne!Thread, P!OtherVars, Dorne!OtherVars, P!Request, Dorne!Request,
      P!Thermtrip, Dorne!Thermtrip, P!HotBag, Dorne!HotBag, P!UsbcLowCap,
      Dorne!UsbcLowCap, P!ManOsAutoPwrOn, Dorne!ManOsAutoPwrOn, P!PwrBtnPress,
      Dorne!PwrBtnPress, P!SlpVwire, Dorne!SlpVwire, P!SlpVwireAssert,
      Dorne!SlpVwireAssert, P!SlpVwireDeassert, Dorne!SlpVwireDeassert, P!ApuSlp,
      Dorne!ApuSlp, P!EcReset, Dorne!EcReset, P!BtnEcReset, Dorne!BtnEcReset,
      P!NvOptionReset, Dorne!NvOptionReset, P!DebugReset, Dorne!DebugReset, P!Reboot,
      Dorne!Reboot, P!Environment, Dorne!Environment, P!Next, Dorne!Next

\* A behaviour of the two boards is a behaviour of the sequencer of Dorne.
LEMMA BoardsRunDorne == BoardsSpec => P!Spec
<1>1. BoardsInit => P!Init
  BY SameInit DEF BoardsInit
<1>2. [BoardsNext]_<<board, vars, dorneVars>> => [Dorne!Next]_(Dorne!vars)
  BY DEF BoardsNext, dorneVars, Dorne!vars, Dorne!apiVars, Dorne!stateVars,
      Dorne!pinVars, Dorne!cntVars, Dorne!bootVars
<1>3. [Dorne!Next]_(Dorne!vars) => [P!Next]_(P!vars)
  BY SameNext DEF P!vars, Dorne!vars, P!apiVars, Dorne!apiVars, P!stateVars, Dorne!stateVars,
      P!pinVars, Dorne!pinVars, P!cntVars, Dorne!cntVars, P!bootVars, Dorne!bootVars
<1> QED
  BY <1>1, <1>2, <1>3, PTL DEF BoardsSpec, P!Spec

-----------------------------------------------------------------------------
\* On Dorne too, though its run rails are swapped and its virtual wires write next_state
\* between a transition handler and the commit, the APU leaves reset and the run rails come
\* up only on good S5 rails, and a pending stage keeps the EC from deep sleep.
THEOREM DorneOrderHolds == BoardsSpec => []DorneOrder
<1>1. P!RailOrder /\ P!RunRailOrder /\ P!NoSleepWhilePending => DorneOrder
  BY DEF DorneOrder, P!RailOrder, Dorne!RailOrder, P!RunRailOrder, Dorne!RunRailOrder,
      P!NoSleepWhilePending, Dorne!NoSleepWhilePending, P!Rails, Dorne!Rails
<1>2. P!Spec => []P!RailOrder
  BY DorneIsABoard, P!RailOrderHolds
<1>3. P!Spec => []P!RunRailOrder
  BY DorneIsABoard, P!RunRailOrderHolds
<1>4. P!Spec => []P!NoSleepWhilePending
  BY DorneIsABoard, P!NoSleepWhilePendingHolds
<1> QED
  BY <1>1, <1>2, <1>3, <1>4, BoardsRunDorne, PTL
=============================================================================
