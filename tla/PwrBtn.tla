------------------------------- MODULE PwrBtn -------------------------------
(***************************************************************************)
(* The power button: src/app/peripheral_management/app_btn.c and the power *)
(* button part of src/app/smchost/smchost_pm.c.                            *)
(*                                                                         *)
(* The debouncer reports an edge in periph_thread, which passes it on to   *)
(* the FCH, hands it to the power sequencer, or, while a sequencer stage   *)
(* waits for its delay, posts it in a ring of two that app_pseq_thread     *)
(* replays.  Both threads are cooperative; the timers fire in interrupts,  *)
(* also between the calls of the release handler.                          *)
(***************************************************************************)
EXTENDS Integers

CONSTANTS
  HasFpr,       \* the board has a fingerprint reader that masks the button
  Races,        \* a timer may fire inside the release handler
  StageYields,  \* a sequencer stage may yield to periph_thread
  Overruled,    \* a forced G3 or a SLP virtual wire may overrule a sequence
  S0Settle,     \* passes in S0 before clicks are faked (1900 in the code)
  CntMod        \* 2^8: the width of pwrbtn_post_cnt

ASSUME ButtonAssumption == {HasFpr, Races, StageYields, Overruled} \subseteq BOOLEAN
ASSUME BoundAssumption == S0Settle \in Nat /\ CntMod \in Nat \ {0}

VARIABLES
  held,         \* the debounced level of HW_PWR_BTN_N is low
  btnOut,       \* ~pwr_btn_out_sts: the last edge executed was a press
  asserted,     \* the FCH power button pin is driven low
  notify,       \* _s_notifyPwrBtn
  running,      \* the timers that run
  hadSent,      \* _s_hadsentSlideToShutdown
  triggerSlide, \* _s_triggerSlideShutDown
  triggerEx,    \* _s_triggerForceShutDown_ex
  notS0,        \* _s_hasPwrStOtherThanS0
  inS0Counter,
  slideEnabled, \* g_slideToShutdownEnabled
  sys,          \* app_pseq_systemState(); "S5" stands for S4 too
  busy,         \* g_pwrSeqDelay # 0
  inStage,      \* the sequencer is inside a stage
  post_sts, post_pos, post_cnt,   \* the posted edges; TRUE is a press
  pc, toStop,   \* where the release handler is; the timers it will stop
  pressMasked,  \* history: the last press was masked
  slid, clicked,\* history: this press sent a slide key, a faked click
  disturbed     \* history: see Disturb below

fchVars  == <<asserted, notify>>
slideVars == <<hadSent, triggerSlide, slid>>
ringVars == <<post_sts, post_pos, post_cnt>>
s0Vars   == <<notS0, inS0Counter>>
seqVars  == <<sys, busy, inStage>>
buttonVars == <<held, btnOut, asserted, notify, running, hadSent, triggerSlide, triggerEx,
          notS0, inS0Counter, slideEnabled, sys, busy, inStage, post_sts, post_pos,
          post_cnt, pc, toStop, pressMasked, slid, clicked, disturbed>>

Timer == {"click", "ecReset", "slide", "force", "force_ex"}
State == {"INIT", "G3", "S0_R", "S0", "S3", "S5"}

\* The states a sequencer stage can lead to from state s.
Following(s) ==
  CASE s = "INIT" -> {"INIT", "G3"}
    [] s = "S0_R" -> {"S0"}
    [] s = "S0"   -> {"S0", "S3", "S5"}
    [] OTHER      -> {"G3", "S0_R", "S3", "S5"}

\* The states it commits: a sequence that is overruled may go on from any state,
\* only app_pseq_transitionToG3 refuses S0_R.
Committed(s) ==
  Following(s) \cup
    IF Overruled /\ s # "INIT" THEN {t \in State \ {"INIT"} : t = "G3" => s # "S0_R"} ELSE {}

\* A stage in s that leads to t may leave no delay behind: those of INIT and the
\* entry of S0_R always arm the next one.
MayRest(s, t) == t # "INIT" /\ (t = "S0_R" => s = t)

\* The EC starts, with the sequencer's initial stage under way.
ButtonBoot ==
  /\ btnOut' = FALSE /\ asserted' = FALSE /\ notify' = TRUE
  /\ running' = {} /\ toStop' = {} /\ pc' = "idle"
  /\ hadSent' = FALSE /\ triggerSlide' = FALSE /\ triggerEx' = FALSE
  /\ notS0' = TRUE /\ inS0Counter' = 0 /\ slideEnabled' = FALSE
  /\ sys' = "INIT" /\ busy' = TRUE /\ inStage' = FALSE
  /\ post_sts' = [k \in {0, 1} |-> TRUE] /\ post_pos' = 0 /\ post_cnt' = 0
  /\ pressMasked' = FALSE /\ slid' = FALSE /\ clicked' = FALSE /\ disturbed' = FALSE

ButtonInit ==
  /\ held \in BOOLEAN
  /\ btnOut = FALSE /\ asserted = FALSE /\ notify = TRUE
  /\ running = {} /\ toStop = {} /\ pc = "idle"
  /\ hadSent = FALSE /\ triggerSlide = FALSE /\ triggerEx = FALSE
  /\ notS0 = TRUE /\ inS0Counter = 0 /\ slideEnabled = FALSE
  /\ sys = "INIT" /\ busy = TRUE /\ inStage = FALSE
  /\ post_sts = [k \in {0, 1} |-> TRUE] /\ post_pos = 0 /\ post_cnt = 0
  /\ pressMasked = FALSE /\ slid = FALSE /\ clicked = FALSE /\ disturbed = FALSE
-----------------------------------------------------------------------------
(* smchost_pwrbtn_post_handler(press) in power state s.                    *)

\* app_pseq_nextStep is called: the sequencer is busy.
Requests(press, s) == press /\ s \in {"G3", "S3", "S5"}

\* What it does to the FCH pin.
FchCmd(press, s) ==
  CASE Requests(press, s)  -> "keep"
    [] ~press /\ s = "S5"  -> "deassert"
    [] OTHER -> IF slideEnabled THEN "keep" ELSE IF press THEN "assert" ELSE "deassert"

\* app_btn_assertFchPwrBtn, which also unmasks the notification, and
\* app_btn_deassertFchPwrBtn.
DriveFch(cmd) ==
  /\ asserted' = (cmd = "assert" \/ (cmd = "keep" /\ asserted))
  /\ notify' = (notify \/ cmd = "assert")
-----------------------------------------------------------------------------
(* Edges, in periph_thread.                                                *)

Masks == IF HasFpr /\ sys = "S0" THEN BOOLEAN ELSE {FALSE}

ButtonMayRun == pc = "idle" /\ (inStage => StageYields)

Posted(press) ==
  /\ post_cnt' = (post_cnt + 1) % CntMod
  /\ post_pos' = (post_pos + 1) % 2
  /\ post_sts' = [post_sts EXCEPT ![post_pos'] = press]

\* app_btn_assertCallback, or app_btn_timer_start_ex for a masked press.
PressTimers(masked) ==
  IF masked THEN {"ecReset", "force_ex"} ELSE {"ecReset", "slide", "force"}

Press ==
  /\ ButtonMayRun /\ ~held /\ ~btnOut
  /\ held' = TRUE /\ btnOut' = TRUE
  /\ \E masked \in Masks :
       /\ pressMasked' = masked
       /\ running' = running \cup PressTimers(masked)
       /\ IF masked \/ busy
          THEN UNCHANGED <<fchVars, busy>>
          ELSE DriveFch(FchCmd(TRUE, sys)) /\ busy' = Requests(TRUE, sys)
       /\ IF ~masked /\ busy THEN Posted(TRUE) ELSE UNCHANGED ringVars
  /\ slid' = FALSE /\ clicked' = FALSE
  /\ UNCHANGED <<hadSent, triggerSlide, triggerEx, s0Vars, slideEnabled, sys, inStage,
                 pc, toStop, disturbed>>

\* ec_version_checkEcFwVersion fails on a press in a sleep state.
VersionMismatch ==
  /\ ButtonMayRun /\ ~held /\ ~btnOut /\ ~busy /\ sys \in {"S3", "S5"}
  /\ held' = TRUE
  /\ ButtonBoot

\* Bug: the click is faked after a slide key too.
Released_NoSentCheck ==
  LET fake == ~notS0 /\ slideEnabled
  IN /\ DriveFch(IF fake THEN "assert" ELSE "deassert")
     /\ running' = IF fake THEN running \cup {"click"} ELSE running
     /\ clicked' = fake

\* app_btn_deassertFchPwrBtn, then the click that the EC fakes in slide mode.
Released ==
  LET fake == ~hadSent /\ ~notS0 /\ slideEnabled
  IN /\ DriveFch(IF fake THEN "assert" ELSE "deassert")
     /\ running' = IF fake THEN running \cup {"click"} ELSE running
     /\ clicked' = fake

\* Bug: the fingerprint mask also drops the stop of the timers.
ReleaseStops_Masked(masked) ==
  IF masked THEN {} ELSE {"ecReset", "slide", "force"}

ReleaseStops(masked) ==
  IF masked THEN {"ecReset", "force_ex"} ELSE {"ecReset", "slide", "force"}

\* Bug: a release that is posted does not deassert the pin.
Release_PostOnly ==
  /\ ButtonMayRun /\ held /\ btnOut
  /\ held' = FALSE /\ btnOut' = FALSE
  /\ \E masked \in Masks :
       /\ toStop' = ReleaseStops(masked)
       /\ disturbed' = (disturbed \/ masked # pressMasked)
       /\ IF (masked /\ ~triggerEx) \/ (~masked /\ busy)
          THEN pc' = "stop" /\ UNCHANGED <<fchVars, running, clicked>>
          ELSE pc' = "clear" /\ Released
       /\ IF ~masked /\ busy THEN Posted(FALSE) ELSE UNCHANGED ringVars
  /\ UNCHANGED <<slideVars, triggerEx, s0Vars, slideEnabled, seqVars, pressMasked>>

\* A release: posted or handled at once, and then app_btn_deassertCallback or,
\* masked, app_btn_timer_stop_ex.  Either way the pin ends as Released says.
Release ==
  /\ ButtonMayRun /\ held /\ btnOut
  /\ held' = FALSE /\ btnOut' = FALSE
  /\ \E masked \in Masks :
       /\ toStop' = ReleaseStops(masked)
       /\ disturbed' = (disturbed \/ masked # pressMasked)
       /\ IF masked /\ ~triggerEx
          THEN pc' = "stop" /\ UNCHANGED <<fchVars, running, clicked>>
          ELSE pc' = "clear" /\ Released
       /\ IF ~masked /\ busy THEN Posted(FALSE) ELSE UNCHANGED ringVars
  /\ UNCHANGED <<slideVars, triggerEx, s0Vars, slideEnabled, seqVars, pressMasked>>

\* An edge that repeats the last executed one is dropped: the release of a
\* button that was held while the EC started.
DroppedEdge ==
  /\ ButtonMayRun /\ held /\ ~btnOut
  /\ held' = FALSE
  /\ UNCHANGED <<btnOut, fchVars, running, slideVars, triggerEx, s0Vars, slideEnabled,
                 seqVars, ringVars, pc, toStop, pressMasked, clicked, disturbed>>

\* The rest of the release: the long-press state, then the timers.
ClearSent ==
  /\ pc = "clear" /\ pc' = "stop"
  /\ hadSent' = FALSE
  /\ triggerEx' = (triggerEx /\ "force_ex" \notin toStop)
  /\ UNCHANGED <<held, btnOut, fchVars, running, triggerSlide, s0Vars, slideEnabled, seqVars,
                 ringVars, toStop, pressMasked, slid, clicked, disturbed>>

StopTimers ==
  /\ pc = "stop" /\ pc' = "idle"
  /\ running' = running \ toStop
  /\ toStop' = {}
  /\ UNCHANGED <<held, btnOut, fchVars, slideVars, triggerEx, s0Vars, slideEnabled, seqVars,
                 ringVars, pressMasked, clicked, disturbed>>
-----------------------------------------------------------------------------
(* Timer callbacks.                                                        *)

\* The timers that a running timer outlasts: they were started no later.
Before(t) ==
  CASE t = "force"   -> {"slide"}
    [] t = "ecReset" -> {"slide", "force", "force_ex"}
    [] OTHER         -> {}

Fires(t) ==
  /\ t \in running /\ running \cap Before(t) = {}
  /\ pc # "idle" => Races
  /\ running' = running \ {t}

\* A timer of the press interrupted its release.
Disturb == disturbed' = (disturbed \/ pc # "idle")

FakeClickCallback ==
  /\ Fires("click")
  /\ DriveFch("deassert")
  /\ UNCHANGED <<held, btnOut, slideVars, triggerEx, s0Vars, slideEnabled, seqVars, ringVars,
                 pc, toStop, pressMasked, clicked, disturbed>>

\* app_btn_slideHandler, once per press.
Slides == slideEnabled /\ ~hadSent

SendSlide ==
  /\ hadSent' = (hadSent \/ Slides)
  /\ triggerSlide' = (triggerSlide \/ Slides)
  /\ slid' = (slid \/ Slides)

SlidShutDownCallback ==
  /\ Fires("slide")
  /\ SendSlide /\ Disturb
  /\ notify' = (notify /\ ~Slides)
  /\ UNCHANGED <<held, btnOut, asserted, triggerEx, s0Vars, slideEnabled, seqVars, ringVars,
                 pc, toStop, pressMasked, clicked>>

ForceShutDownCallback ==
  /\ Fires("force")
  /\ Disturb
  /\ DriveFch(IF slideEnabled THEN "assert" ELSE "keep")
  /\ UNCHANGED <<held, btnOut, slideVars, triggerEx, s0Vars, slideEnabled, seqVars, ringVars,
                 pc, toStop, pressMasked, clicked>>

ForceShutDownCallback_ex ==
  /\ Fires("force_ex")
  /\ SendSlide /\ Disturb
  /\ DriveFch(IF slideEnabled THEN "assert" ELSE "keep")
  /\ triggerEx' = TRUE
  /\ UNCHANGED <<held, btnOut, s0Vars, slideEnabled, seqVars, ringVars, pc, toStop,
                 pressMasked, clicked>>

\* app_btn_ecReset
EcResetCallback ==
  /\ "ecReset" \in running /\ running \cap Before("ecReset") = {}
  /\ pc # "idle" => Races
  /\ ButtonBoot /\ UNCHANGED held
-----------------------------------------------------------------------------
(* app_pseq_thread and the host.                                           *)

\* Somebody asks for a power sequence.
Request ==
  /\ pc = "idle" /\ ~busy
  /\ busy' = TRUE
  /\ UNCHANGED <<held, btnOut, fchVars, running, slideVars, triggerEx, s0Vars, slideEnabled,
                 sys, inStage, ringVars, pc, toStop, pressMasked, clicked, disturbed>>

\* The delay of a stage is over: g_pwrSeqDelay is cleared before the stage runs.
StageBegin ==
  /\ pc = "idle" /\ busy /\ ~inStage
  /\ busy' = FALSE /\ inStage' = TRUE
  /\ UNCHANGED <<held, btnOut, fchVars, running, slideVars, triggerEx, s0Vars, slideEnabled,
                 sys, ringVars, pc, toStop, pressMasked, clicked, disturbed>>

\* The edge that smchost_pwrbtn_post_signal_probe replays (twice, if two or more
\* are posted: pos is not moved on between the calls).
Replayed == IF post_cnt >= 2 THEN post_sts[(post_pos + 1) % 2] ELSE post_sts[post_pos]

Probe(s) ==
  IF post_cnt > 0
  THEN /\ DriveFch(FchCmd(Replayed, s))
       /\ busy' = Requests(Replayed, s)
       /\ disturbed' = (disturbed \/ (Replayed /\ (~held \/ pressMasked)))
       /\ post_cnt' = 0
  ELSE UNCHANGED <<fchVars, busy, disturbed, post_cnt>>

\* app_btn_monitor
Monitor(s) ==
  /\ inS0Counter' = CASE s # "S0" -> 0
                      [] s = "S0" /\ notS0 -> inS0Counter + 1
                      [] OTHER -> inS0Counter
  /\ notS0' = IF s # "S0" THEN TRUE ELSE notS0 /\ inS0Counter' =< S0Settle
  /\ triggerSlide' = FALSE

\* The rest of a stage: a new power state (entering S5 ends slide mode), another
\* stage with its delay, or neither; then the probe, unless there is a delay.
StageEnd ==
  /\ pc = "idle" /\ inStage /\ inStage' = FALSE
  /\ \E s \in Committed(sys) :
       /\ sys' = s
       /\ IF s = "S5" /\ sys # "S5" THEN slideEnabled' = FALSE ELSE UNCHANGED slideEnabled
       /\ Monitor(s)
       /\ \/ busy' = TRUE /\ UNCHANGED <<fchVars, running, disturbed, post_cnt>>
          \/ /\ s = sys                            \* FROM_S5S3_TO_S0
             /\ s \in {"G3", "S3", "S5"} \/ (s = "S0" /\ Overruled)
             /\ busy' = TRUE
             /\ DriveFch("assert")                    \* app_btn_triggerPwrBtn(20)
             /\ running' = running \cup {"click"}
             /\ UNCHANGED <<disturbed, post_cnt>>
          \/ ~busy /\ MayRest(sys, s) /\ Probe(s) /\ UNCHANGED running
  /\ UNCHANGED <<held, btnOut, hadSent, triggerEx, post_sts, post_pos, pc, toStop,
                 pressMasked, slid, clicked>>

\* A pass of app_pseq_thread without a stage.
IdlePass ==
  /\ pc = "idle" /\ ~inStage
  /\ IF busy THEN UNCHANGED <<fchVars, busy, disturbed, post_cnt>> ELSE Probe(sys)
  /\ Monitor(sys)
  /\ UNCHANGED <<held, btnOut, running, hadSent, triggerEx, slideEnabled, sys, inStage,
                 post_sts, post_pos, pc, toStop, pressMasked, slid, clicked>>

\* The host switches slide-to-shutdown through ACPI space.
SetSlide ==
  /\ pc = "idle" /\ (inStage => StageYields)
  /\ slideEnabled' = ~slideEnabled
  /\ UNCHANGED <<held, btnOut, fchVars, running, slideVars, triggerEx, s0Vars, seqVars,
                 ringVars, pc, toStop, pressMasked, clicked, disturbed>>

ButtonNext ==
  \/ Press \/ VersionMismatch \/ Release \/ DroppedEdge \/ ClearSent \/ StopTimers
  \/ FakeClickCallback \/ SlidShutDownCallback \/ ForceShutDownCallback
  \/ ForceShutDownCallback_ex \/ EcResetCallback
  \/ Request \/ StageBegin \/ StageEnd \/ IdlePass \/ SetSlide

ButtonSpec == ButtonInit /\ [][ButtonNext]_buttonVars
-----------------------------------------------------------------------------
(* Properties.                                                             *)

ButtonFlags ==
  /\ held \in BOOLEAN /\ btnOut \in BOOLEAN /\ asserted \in BOOLEAN /\ notify \in BOOLEAN
  /\ hadSent \in BOOLEAN /\ triggerSlide \in BOOLEAN /\ triggerEx \in BOOLEAN
  /\ notS0 \in BOOLEAN /\ slideEnabled \in BOOLEAN /\ busy \in BOOLEAN
  /\ inStage \in BOOLEAN /\ pressMasked \in BOOLEAN /\ slid \in BOOLEAN
  /\ clicked \in BOOLEAN /\ disturbed \in BOOLEAN

ButtonTypeOK ==
  /\ ButtonFlags
  /\ running \subseteq Timer /\ toStop \subseteq Timer
  /\ sys \in State /\ pc \in {"idle", "clear", "stop"}
  /\ inS0Counter \in 0 .. S0Settle + 1
  /\ post_sts \in [{0, 1} -> BOOLEAN] /\ post_pos \in {0, 1}
  /\ post_cnt \in 0 .. CntMod - 1

\* The 16 s timer that cuts the 1.8 V rail and reboots the EC runs only while
\* the button is held, whatever masks, posts or interrupts press and release.
EcResetOnlyHeld == pc = "idle" /\ "ecReset" \in running => held

\* "make sure FCH GPIO0 is HIGH when EC_PWRBTN is HIGH for all case": once a
\* release is handled the FCH sees a released button, but for a faked click.
ReleasedMeansHigh == pc = "idle" /\ ~held /\ "click" \notin running => ~asserted

\* The FCH button stays asserted after a release in three ways only: a press
\* replayed after its release, a timer that interrupts the release handler, and
\* a fingerprint mask that changes between press and release.
CleanRelease == ~disturbed => ReleasedMeansHigh

\* But for those three a press is reported once: as the slide key or as a click.
ClickOrSlide == ~disturbed => ~(clicked /\ slid)
-----------------------------------------------------------------------------
(* The inductive invariants of the three properties above.                 *)

EcInv ==
  "ecReset" \in running => (held /\ btnOut) \/ (pc # "idle" /\ "ecReset" \in toStop)

\* Without a disturbance the timers of a press do not outlive it.
TimersOfPress ==
  /\ pc = "idle" /\ ~btnOut => running \subseteq {"click"}
  /\ pc # "idle" => ~btnOut /\ running \subseteq {"click"} \cup toStop
  /\ btnOut /\ pressMasked => running \subseteq {"click", "ecReset", "force_ex"}
  /\ btnOut /\ ~pressMasked => running \subseteq {"click", "ecReset", "slide", "force"}

\* The long masked press is remembered until its release is handled.
ExOfPress ==
  triggerEx => \/ pc = "idle" /\ btnOut /\ pressMasked
               \/ pc = "clear" /\ "force_ex" \in toStop

\* Whoever asserted the FCH pin will be there to deassert it.
AssertedByPress ==
  asserted /\ "click" \notin running => btnOut /\ (pressMasked => triggerEx)

\* A button held since the EC started has had no edge.
HeldSinceBoot == held /\ ~btnOut => post_cnt = 0 /\ pc = "idle" /\ ~pressMasked

CleanInv ==
  /\ btnOut => held
  /\ "click" \notin toStop
  /\ HeldSinceBoot
  /\ ~disturbed => TimersOfPress /\ ExOfPress /\ AssertedByPress

\* No click is faked before the release, and until then the slide key of the
\* press is remembered in _s_hadsentSlideToShutdown.
ReportInv ==
  /\ pc # "idle" => ~btnOut
  /\ btnOut => ~clicked /\ (slid => hadSent)
  /\ ClickOrSlide
=============================================================================
