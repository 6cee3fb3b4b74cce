------------------------------ MODULE MCBoards ------------------------------
(***************************************************************************)
(* TLC instance of the power sequencer for two boards: Plum, with every    *)
(* requester and power good that may fail, and Dorne, which swaps the run  *)
(* rails, reports SLP by virtual wires and is never told to retry a VR.    *)
(* A behaviour exercises one board, chosen at the start; the state of      *)
(* Dorne is in the variables with a d_.                                    *)
(***************************************************************************)
EXTENDS PowerSeq

VARIABLES
  board,
  d_current_state, d_next_state, d_next_stage, d_pwrSeqDelay, d_pwrSeqExpired, d_timer,
  d_sleepReady, d_slpS35WaitCnt, d_gotoG3WaitCnt, d_vrNeedG3_cnt, d_pwrStHadS3, d_init_espi,
  d_high, d_slp, d_posted, d_vciFlag, d_bootReason, d_usbcBoot, d_resetting, d_pc, d_todo,
  d_pgSeen, d_handler

dorneVars == <<d_current_state, d_next_state, d_next_stage, d_pwrSeqDelay, d_pwrSeqExpired,
              d_timer, d_sleepReady, d_slpS35WaitCnt, d_gotoG3WaitCnt, d_vrNeedG3_cnt,
              d_pwrStHadS3, d_init_espi, d_high, d_slp, d_posted, d_vciFlag, d_bootReason,
              d_usbcBoot, d_resetting, d_pc, d_todo, d_pgSeen, d_handler>>

Dorne == INSTANCE PowerSeq WITH
  current_state <- d_current_state, next_state <- d_next_state, next_stage <- d_next_stage,
  g_pwrSeqDelay <- d_pwrSeqDelay, g_pwrSeqExpired <- d_pwrSeqExpired, timer <- d_timer,
  sleepReady <- d_sleepReady, slpS35WaitCnt <- d_slpS35WaitCnt, gotoG3WaitCnt <-
  d_gotoG3WaitCnt, vrNeedG3_cnt <- d_vrNeedG3_cnt, pwrStHadS3 <- d_pwrStHadS3, init_espi <-
  d_init_espi, high <- d_high, slp <- d_slp, posted <- d_posted, vciFlag <- d_vciFlag,
  bootReason <- d_bootReason, usbcBoot <- d_usbcBoot, resetting <- d_resetting, pc <- d_pc,
  todo <- d_todo, pgSeen <- d_pgSeen, handler <- d_handler,
  BoardDorne <- TRUE, MemPMIC <- FALSE, IsPEO <- TRUE, SlpVwires <- TRUE,
  VrReads <- {FALSE}, AcReads <- {TRUE, FALSE}, PgReads <- {TRUE},
  SlpWaitLimit <- 1, S5ToG3Delay <- 1, VrRetries <- 1, Requesters <- {"thermtrip"}

\* The board that is not exercised has one initial state.
BoardsInit ==
  /\ board \in {"plum", "dorne"} /\ Init /\ Dorne!Init
  /\ board # "plum" => ~vciFlag /\ bootReason = NONE
  /\ board # "dorne" => ~d_vciFlag /\ d_bootReason = NONE

BoardsNext ==
  \/ board = "plum"  /\ Next       /\ UNCHANGED <<board, dorneVars>>
  \/ board = "dorne" /\ Dorne!Next /\ UNCHANGED <<board, vars>>

BoardsSpec == BoardsInit /\ [][BoardsNext]_<<board, vars, dorneVars>>

\* Plum alone, with the fairness of PowerSeq.
LiveInit == board = "plum" /\ BoardsInit

LiveSpec ==
  /\ LiveInit /\ [][BoardsNext]_<<board, vars, dorneVars>>
  /\ WF_vars(Thread) /\ WF_vars(DelayCallback) /\ WF_vars(Reboot)
-----------------------------------------------------------------------------
\* What holds of Dorne too, though it swaps the run rails and its virtual wires write
\* next_state between a transition handler and the commit: the APU leaves reset and the
\* run rails come up only on good S5 rails, and a pending stage forbids sleep.
DorneOrder == Dorne!RailOrder /\ Dorne!RunRailOrder /\ Dorne!NoSleepWhilePending
=============================================================================
