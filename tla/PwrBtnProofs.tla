---------------------------- MODULE PwrBtnProofs ----------------------------
(***************************************************************************)
(* Proofs about PwrBtn, for boards with and without a fingerprint reader   *)
(* and any width of the counters.                                          *)
(***************************************************************************)
EXTENDS PwrBtn, TLAPS

\* The 16 s reset timer runs only while the button is held.
THEOREM EcResetOnlyHeldHolds == ButtonSpec => []EcResetOnlyHeld
<1>1. ButtonInit => EcInv
  BY DEF ButtonInit, EcInv
<1>2. EcInv /\ [ButtonNext]_buttonVars => EcInv'
  <2> SUFFICES ASSUME EcInv, [ButtonNext]_buttonVars PROVE EcInv'
    OBVIOUS
  <2> USE DEF EcInv, fchVars, slideVars, ringVars, s0Vars, seqVars
  <2>1. CASE Press
    BY <2>1 DEF Press
  <2>2. CASE VersionMismatch
    BY <2>2 DEF VersionMismatch, ButtonBoot
  <2>3. CASE Release
    BY <2>3 DEF Release, ReleaseStops
  <2>4. CASE DroppedEdge
    BY <2>4 DEF DroppedEdge, ButtonMayRun
  <2>5. CASE ClearSent
    BY <2>5 DEF ClearSent
  <2>6. CASE StopTimers
    BY <2>6 DEF StopTimers
  <2>7. CASE \/ FakeClickCallback \/ SlidShutDownCallback \/ ForceShutDownCallback
             \/ ForceShutDownCallback_ex
    BY <2>7 DEF FakeClickCallback, SlidShutDownCallback, ForceShutDownCallback,
                ForceShutDownCallback_ex, Fires
  <2>8. CASE EcResetCallback
    BY <2>8 DEF EcResetCallback, ButtonBoot
  <2>9. CASE Request \/ StageBegin \/ IdlePass \/ SetSlide
    BY <2>9 DEF Request, StageBegin, IdlePass, SetSlide
  <2>10. CASE StageEnd
    BY <2>10 DEF StageEnd
  <2>11. CASE UNCHANGED buttonVars
    BY <2>11 DEF buttonVars
  <2> QED
    BY <2>1, <2>2, <2>3, <2>4, <2>5, <2>6, <2>7, <2>8, <2>9, <2>10, <2>11 DEF ButtonNext
<1>3. EcInv => EcResetOnlyHeld
  BY DEF EcInv, EcResetOnlyHeld
<1> QED
  BY <1>1, <1>2, <1>3, PTL DEF ButtonSpec

\* smchost_pwrbtn_post_handler asserts the FCH pin only for a press.
LEMMA OnlyPressAsserts ==
  ASSUME NEW press, NEW s, FchCmd(press, s) = "assert"
  PROVE  press
BY DEF FchCmd

\* A probe asserts the pin only for a press of the button that is held now, or
\* it is a disturbance.
LEMMA ProbeStep ==
  ASSUME NEW s, Probe(s), CleanInv, pc = "idle", ~disturbed'
  PROVE  /\ ~disturbed
         /\ asserted' => asserted \/ (btnOut /\ ~pressMasked)
         /\ post_cnt = 0 => post_cnt' = 0
<1>1. CASE post_cnt > 0
  <2>1. disturbed' = (disturbed \/ (Replayed /\ (~held \/ pressMasked)))
    BY <1>1 DEF Probe
  <2>2. DriveFch(FchCmd(Replayed, s)) /\ post_cnt' = 0
    BY <1>1 DEF Probe
  <2>3. asserted' /\ ~asserted => FchCmd(Replayed, s) = "assert"
    BY <2>2 DEF DriveFch
  <2>4. asserted' /\ ~asserted => Replayed
    BY <2>3, OnlyPressAsserts
  <2>5. ~disturbed /\ (Replayed => held /\ ~pressMasked)
    BY <2>1
  <2>6. post_cnt # 0
    BY <1>1
  <2>7. held => btnOut
    BY <2>6 DEF CleanInv, HeldSinceBoot
  <2> QED
    BY <2>2, <2>4, <2>5, <2>6, <2>7
<1>2. CASE ~(post_cnt > 0)
  BY <1>2 DEF Probe, fchVars
<1> QED
  BY <1>1, <1>2

\* A pass of the sequencer that only probes keeps the invariant.
LEMMA ProbeUnchanged ==
  ASSUME NEW s, Probe(s), CleanInv, pc = "idle",
         UNCHANGED <<held, btnOut, triggerEx, pc, toStop, pressMasked, running>>
  PROVE  CleanInv'
<1>1. (btnOut => held)' /\ ("click" \notin toStop)'
  BY DEF CleanInv
<1>2. HeldSinceBoot'
  BY DEF CleanInv, HeldSinceBoot, Probe, fchVars
<1>3. ASSUME ~disturbed' PROVE (TimersOfPress /\ ExOfPress /\ AssertedByPress)'
  <2>1. ~disturbed /\ (asserted' => asserted \/ (btnOut /\ ~pressMasked))
    BY <1>3, ProbeStep
  <2> QED
    BY <2>1 DEF CleanInv, TimersOfPress, ExOfPress, AssertedByPress
<1> QED
  BY <1>1, <1>2, <1>3 DEF CleanInv

\* Every step of the button, its timers and the sequencer keeps the invariant.
LEMMA CleanStep == CleanInv /\ [ButtonNext]_buttonVars => CleanInv'
<1> SUFFICES ASSUME CleanInv, [ButtonNext]_buttonVars PROVE CleanInv'
  OBVIOUS
<1> USE DEF CleanInv, HeldSinceBoot, TimersOfPress, ExOfPress, AssertedByPress,
            fchVars, slideVars, ringVars, s0Vars, seqVars
<1>1. CASE Press
  BY <1>1 DEF Press, PressTimers, ButtonMayRun, DriveFch, FchCmd, Requests
<1>2. CASE VersionMismatch
  BY <1>2 DEF VersionMismatch, ButtonBoot
<1>3. CASE Release
  BY <1>3 DEF Release, Released, ReleaseStops, DriveFch, ButtonMayRun
<1>4. CASE DroppedEdge
  BY <1>4 DEF DroppedEdge, ButtonMayRun
<1>5. CASE ClearSent
  BY <1>5 DEF ClearSent
<1>6. CASE StopTimers
  BY <1>6 DEF StopTimers
<1>7. CASE FakeClickCallback
  BY <1>7 DEF FakeClickCallback, Fires, DriveFch
<1>8. CASE SlidShutDownCallback
  BY <1>8 DEF SlidShutDownCallback, Fires, Disturb
<1>9. CASE ForceShutDownCallback
  BY <1>9 DEF ForceShutDownCallback, Fires, Disturb, DriveFch
<1>10. CASE ForceShutDownCallback_ex
  BY <1>10 DEF ForceShutDownCallback_ex, Fires, Disturb, DriveFch
<1>11. CASE EcResetCallback
  BY <1>11 DEF EcResetCallback, ButtonBoot
<1>12. CASE Request \/ StageBegin \/ SetSlide
  BY <1>12 DEF Request, StageBegin, SetSlide
<1>13. CASE StageEnd
  <2>1. PICK s \in Committed(sys) :
          \/ UNCHANGED <<fchVars, running, disturbed, post_cnt>>
          \/ /\ DriveFch("assert")
             /\ running' = running \cup {"click"}
             /\ UNCHANGED <<disturbed, post_cnt>>
          \/ Probe(s) /\ UNCHANGED running
    BY <1>13 DEF StageEnd
  <2>2. CASE Probe(s) /\ UNCHANGED running
    <3>1. /\ pc = "idle"
          /\ UNCHANGED <<held, btnOut, triggerEx, pc, toStop, pressMasked, running>>
      BY <1>13, <2>2 DEF StageEnd
    <3> QED
      BY <2>2, <3>1, ProbeUnchanged
  <2>3. CASE UNCHANGED <<fchVars, running, disturbed, post_cnt>>
    BY <1>13, <2>3 DEF StageEnd
  <2>4. CASE /\ DriveFch("assert")
             /\ running' = running \cup {"click"}
             /\ UNCHANGED <<disturbed, post_cnt>>
    BY <1>13, <2>4 DEF StageEnd, DriveFch
  <2> QED
    BY <2>1, <2>2, <2>3, <2>4
<1>14. CASE IdlePass
  <2>1. CASE Probe(sys)
    <3>1. /\ pc = "idle"
          /\ UNCHANGED <<held, btnOut, triggerEx, pc, toStop, pressMasked, running>>
      BY <1>14 DEF IdlePass
    <3> QED
      BY <2>1, <3>1, ProbeUnchanged
  <2>2. CASE UNCHANGED <<fchVars, busy, disturbed, post_cnt>>
    BY <1>14, <2>2 DEF IdlePass
  <2> QED
    BY <1>14, <2>1, <2>2 DEF IdlePass
<1>15. CASE UNCHANGED buttonVars
  BY <1>15 DEF buttonVars
<1> QED
  BY <1>1, <1>2, <1>3, <1>4, <1>5, <1>6, <1>7, <1>8, <1>9, <1>10, <1>11, <1>12,
     <1>13, <1>14, <1>15 DEF ButtonNext

\* Without a replayed stale press, a timer inside the release handler or a
\* changed fingerprint mask, a released button is released for the FCH too.
THEOREM CleanReleaseHolds == ButtonSpec => []CleanRelease
<1>1. ButtonInit => CleanInv
  BY DEF ButtonInit, CleanInv, HeldSinceBoot, TimersOfPress, ExOfPress, AssertedByPress
<1>2. CleanInv => CleanRelease
  BY DEF CleanInv, AssertedByPress, CleanRelease, ReleasedMeansHigh
<1> QED
  BY <1>1, <1>2, CleanStep, PTL DEF ButtonSpec
-----------------------------------------------------------------------------
(* One report per press.                                                   *)

\* app_btn_slideHandler remembers the key it sends.
LEMMA SlideRemembered ==
  ASSUME SendSlide, slid => hadSent
  PROVE  slid' => hadSent'
BY DEF SendSlide, Slides

\* A timer that sends the slide key belongs to a press that is not yet released,
\* or it disturbs the release.
LEMMA SlideWhileHeld ==
  ASSUME CleanInv, ReportInv, SendSlide, Disturb, UNCHANGED <<btnOut, clicked, pc>>,
         NEW t \in {"slide", "force_ex"}, t \in running
  PROVE  ReportInv'
<1>1. (pc # "idle" => ~btnOut)' /\ (btnOut' => ~clicked' /\ (slid' => hadSent'))
  BY SlideRemembered DEF ReportInv
<1>2. ~disturbed' => btnOut
  BY DEF Disturb, CleanInv, TimersOfPress
<1> QED
  BY <1>1, <1>2 DEF ReportInv, ClickOrSlide

\* Every step keeps the reports of a press apart.
LEMMA ReportStep == CleanInv /\ ReportInv /\ [ButtonNext]_buttonVars => ReportInv'
<1> SUFFICES ASSUME CleanInv, ReportInv, [ButtonNext]_buttonVars PROVE ReportInv'
  OBVIOUS
<1> USE DEF ReportInv, ClickOrSlide, fchVars, slideVars, ringVars, s0Vars, seqVars
<1>1. CASE Press
  BY <1>1 DEF Press, ButtonMayRun
<1>2. CASE VersionMismatch \/ EcResetCallback
  BY <1>2 DEF VersionMismatch, EcResetCallback, ButtonBoot
<1>3. CASE Release
  BY <1>3 DEF Release, Released
<1>4. CASE DroppedEdge \/ FakeClickCallback
  BY <1>4 DEF DroppedEdge, FakeClickCallback
<1>5. CASE ForceShutDownCallback
  BY <1>5 DEF ForceShutDownCallback, Disturb
<1>6. CASE ClearSent \/ StopTimers
  BY <1>6 DEF ClearSent, StopTimers
<1>7. CASE SlidShutDownCallback \/ ForceShutDownCallback_ex
  BY <1>7, SlideWhileHeld DEF SlidShutDownCallback, ForceShutDownCallback_ex, Fires
<1>8. CASE Request \/ StageBegin \/ SetSlide
  BY <1>8 DEF Request, StageBegin, SetSlide
<1>9. CASE StageEnd
  BY <1>9 DEF StageEnd, Probe
<1>10. CASE IdlePass
  BY <1>10 DEF IdlePass, Probe
<1>11. CASE UNCHANGED buttonVars
  BY <1>11 DEF buttonVars
<1> QED
  BY <1>1, <1>2, <1>3, <1>4, <1>5, <1>6, <1>7, <1>8, <1>9, <1>10, <1>11 DEF ButtonNext

\* But for a disturbed release, a press of the button is reported to the host as
\* the slide key or as a click, never as both.
THEOREM ClickOrSlideHolds == ButtonSpec => []ClickOrSlide
<1>1. ButtonInit => CleanInv /\ ReportInv
  BY DEF ButtonInit, CleanInv, HeldSinceBoot, TimersOfPress, ExOfPress, AssertedByPress,
         ReportInv, ClickOrSlide
<1>2. CleanInv /\ ReportInv /\ [ButtonNext]_buttonVars => (CleanInv /\ ReportInv)'
  BY CleanStep, ReportStep
<1>3. ReportInv => ClickOrSlide
  BY DEF ReportInv
<1> QED
  BY <1>1, <1>2, <1>3, PTL DEF ButtonSpec
-----------------------------------------------------------------------------
(* Type correctness, with the bounds of the S0 counter and of the ring.    *)

\* The FCH pin and its notification are switched, never left undefined.
LEMMA DriveTypes ==
  ASSUME NEW cmd, DriveFch(cmd)
  PROVE  asserted' \in BOOLEAN /\ notify' \in BOOLEAN
<1>1. asserted' \in BOOLEAN
  BY Zenon DEF DriveFch
<1>2. notify' \in BOOLEAN
  BY Zenon DEF DriveFch
<1> QED
  BY <1>1, <1>2

\* app_btn_slideHandler sets its flags or leaves them.
LEMMA SlideTypes ==
  ASSUME SendSlide
  PROVE  hadSent' \in BOOLEAN /\ triggerSlide' \in BOOLEAN /\ slid' \in BOOLEAN
BY Zenon DEF SendSlide

\* What the sequencer thread does when it probes the ring,
LEMMA ProbeTypes ==
  ASSUME NEW s, ButtonFlags, Probe(s)
  PROVE  asserted' \in BOOLEAN /\ notify' \in BOOLEAN /\ busy' \in BOOLEAN
         /\ disturbed' \in BOOLEAN
<1>1. CASE post_cnt > 0
  <2>1. DriveFch(FchCmd(Replayed, s)) /\ busy' = Requests(Replayed, s)
    BY <1>1 DEF Probe
  <2>2. disturbed' = (disturbed \/ (Replayed /\ (~held \/ pressMasked)))
    BY <1>1 DEF Probe
  <2>3. busy' \in BOOLEAN
    BY <2>1, Zenon DEF Requests
  <2>4. disturbed' \in BOOLEAN
    BY <2>2, Zenon
  <2> QED
    BY <2>1, <2>3, <2>4, DriveTypes
<1>2. CASE ~(post_cnt > 0)
  BY <1>2 DEF Probe, ButtonFlags, fchVars
<1> QED
  BY <1>1, <1>2

\* and when it counts its passes in S0: the counter stops once it has passed S0Settle.
LEMMA MonitorTypes ==
  ASSUME NEW s, notS0 \in BOOLEAN, inS0Counter \in 0 .. S0Settle + 1,
         notS0 => inS0Counter =< S0Settle, Monitor(s)
  PROVE  /\ notS0' \in BOOLEAN /\ triggerSlide' \in BOOLEAN
         /\ inS0Counter' \in 0 .. S0Settle + 1
         /\ notS0' => inS0Counter' =< S0Settle
<1>1. CASE s # "S0"
  <2>1. inS0Counter' = 0
    BY <1>1 DEF Monitor
  <2>2. notS0' = TRUE /\ triggerSlide' = FALSE
    BY <1>1 DEF Monitor
  <2>3. inS0Counter' \in 0 .. S0Settle + 1 /\ inS0Counter' =< S0Settle
    BY <2>1, BoundAssumption
  <2> QED
    BY <2>2, <2>3, Zenon
<1>2. CASE s = "S0" /\ notS0
  <2>1. inS0Counter' = inS0Counter + 1
    BY <1>2 DEF Monitor
  <2>2. triggerSlide' = FALSE /\ notS0' = (notS0 /\ inS0Counter' =< S0Settle)
    BY <1>2 DEF Monitor
  <2>3. inS0Counter' \in 0 .. S0Settle + 1
    BY <1>2, <2>1, BoundAssumption
  <2>4. notS0' \in BOOLEAN /\ (notS0' => inS0Counter' =< S0Settle)
    BY <1>2, <2>2, Zenon
  <2> QED
    BY <2>2, <2>3, <2>4, Zenon
<1>3. CASE s = "S0" /\ ~notS0
  <2>1. inS0Counter' = inS0Counter
    BY <1>3 DEF Monitor
  <2>2. notS0' = FALSE /\ triggerSlide' = FALSE
    BY <1>3 DEF Monitor
  <2> QED
    BY <2>1, <2>2
<1> QED
  BY <1>1, <1>2, <1>3

\* The flags alone.
LEMMA ButtonFlagsStep == ButtonFlags /\ [ButtonNext]_buttonVars => ButtonFlags'
<1> SUFFICES ASSUME ButtonFlags, [ButtonNext]_buttonVars PROVE ButtonFlags'
  OBVIOUS
<1> USE DEF ButtonFlags, fchVars, slideVars, ringVars, s0Vars, seqVars
<1>1. CASE Press
  <2>1. PICK masked \in Masks :
          /\ pressMasked' = masked
          /\ \/ UNCHANGED <<fchVars, busy>>
             \/ DriveFch(FchCmd(TRUE, sys)) /\ busy' = Requests(TRUE, sys)
    BY <1>1 DEF Press
  <2>2. asserted' \in BOOLEAN /\ notify' \in BOOLEAN
    BY <2>1, DriveTypes
  <2>3. busy' \in BOOLEAN
    BY <2>1 DEF Requests
  <2>4. pressMasked' \in BOOLEAN
    BY <2>1 DEF Masks
  <2> QED
    BY <1>1, <2>2, <2>3, <2>4 DEF Press
<1>2. CASE VersionMismatch \/ EcResetCallback
  BY <1>2 DEF VersionMismatch, EcResetCallback, ButtonBoot
<1>3. CASE Release
  <2>1. PICK masked \in Masks :
          /\ disturbed' = (disturbed \/ masked # pressMasked)
          /\ \/ UNCHANGED <<fchVars, clicked>>
             \/ Released
    BY <1>3 DEF Release
  <2>2. Released => asserted' \in BOOLEAN /\ notify' \in BOOLEAN
    BY DriveTypes DEF Released
  <2>3. Released => clicked' \in BOOLEAN
    BY Zenon DEF Released
  <2>4. disturbed' \in BOOLEAN
    BY <2>1, Zenon
  <2> QED
    BY <1>3, <2>1, <2>2, <2>3, <2>4 DEF Release
<1>4. CASE DroppedEdge \/ ClearSent \/ StopTimers
  <2>1. triggerEx' \in BOOLEAN
    BY <1>4, Zenon DEF DroppedEdge, ClearSent, StopTimers
  <2>2. /\ held' \in BOOLEAN /\ (hadSent' = FALSE \/ UNCHANGED hadSent)
        /\ UNCHANGED <<btnOut, fchVars, triggerSlide, slid, s0Vars, slideEnabled, seqVars,
                       pressMasked, clicked, disturbed>>
    BY <1>4 DEF DroppedEdge, ClearSent, StopTimers
  <2>3. hadSent' \in BOOLEAN
    BY <2>2
  <2> QED
    BY <2>1, <2>2, <2>3
<1>5. CASE FakeClickCallback \/ ForceShutDownCallback \/ ForceShutDownCallback_ex
  <2>1. asserted' \in BOOLEAN /\ notify' \in BOOLEAN
    BY <1>5, DriveTypes DEF FakeClickCallback, ForceShutDownCallback, ForceShutDownCallback_ex
  <2>2. disturbed' \in BOOLEAN
    BY <1>5, Zenon DEF FakeClickCallback, ForceShutDownCallback, ForceShutDownCallback_ex, Disturb
  <2>3. hadSent' \in BOOLEAN /\ triggerSlide' \in BOOLEAN /\ slid' \in BOOLEAN
    BY <1>5, SlideTypes DEF FakeClickCallback, ForceShutDownCallback, ForceShutDownCallback_ex
  <2> QED
    BY <1>5, <2>1, <2>2, <2>3
       DEF FakeClickCallback, ForceShutDownCallback, ForceShutDownCallback_ex
<1>6. CASE SlidShutDownCallback
  <2>1. hadSent' \in BOOLEAN /\ triggerSlide' \in BOOLEAN /\ slid' \in BOOLEAN
    BY <1>6, SlideTypes DEF SlidShutDownCallback
  <2>2. disturbed' \in BOOLEAN /\ notify' \in BOOLEAN
    BY <1>6, Zenon DEF SlidShutDownCallback, Disturb
  <2> QED
    BY <1>6, <2>1, <2>2 DEF SlidShutDownCallback
<1>7. CASE Request \/ StageBegin \/ SetSlide
  <2>1. slideEnabled' \in BOOLEAN
    BY <1>7, Zenon DEF Request, StageBegin, SetSlide
  <2>2. /\ busy' \in BOOLEAN /\ inStage' \in BOOLEAN
        /\ UNCHANGED <<held, btnOut, fchVars, slideVars, triggerEx, s0Vars, pressMasked,
                       clicked, disturbed>>
    BY <1>7 DEF Request, StageBegin, SetSlide
  <2> QED
    BY <2>1, <2>2
<1>8. CASE StageEnd
  <2>1. PICK s \in Committed(sys) :
          /\ \/ slideEnabled' = FALSE
             \/ UNCHANGED slideEnabled
          /\ Monitor(s)
          /\ \/ busy' = TRUE /\ UNCHANGED <<fchVars, disturbed>>
             \/ busy' = TRUE /\ DriveFch("assert") /\ UNCHANGED disturbed
             \/ Probe(s)
    BY <1>8 DEF StageEnd
  <2>2. asserted' \in BOOLEAN /\ notify' \in BOOLEAN /\ busy' \in BOOLEAN /\ disturbed' \in BOOLEAN
    BY <2>1, DriveTypes, ProbeTypes
  <2>3. notS0' \in BOOLEAN /\ triggerSlide' \in BOOLEAN
    BY <2>1, Zenon DEF Monitor
  <2>4. slideEnabled' \in BOOLEAN
    BY <2>1
  <2> QED
    BY <1>8, <2>2, <2>3, <2>4 DEF StageEnd
<1>9. CASE IdlePass
  <2>1. asserted' \in BOOLEAN /\ notify' \in BOOLEAN /\ busy' \in BOOLEAN /\ disturbed' \in BOOLEAN
    BY <1>9, ProbeTypes DEF IdlePass
  <2>2. notS0' \in BOOLEAN /\ triggerSlide' \in BOOLEAN
    BY <1>9, Zenon DEF IdlePass, Monitor
  <2> QED
    BY <1>9, <2>1, <2>2 DEF IdlePass
<1>10. CASE UNCHANGED buttonVars
  BY <1>10 DEF buttonVars
<1> QED
  BY <1>1, <1>2, <1>3, <1>4, <1>5, <1>6, <1>7, <1>8, <1>9, <1>10 DEF ButtonNext

\* The counter of passes in S0 moves only while it counts, up to one past S0Settle.
S0Inv ==
  /\ inS0Counter \in 0 .. S0Settle + 1
  /\ notS0 => inS0Counter =< S0Settle

LEMMA S0Step == ButtonFlags /\ S0Inv /\ [ButtonNext]_buttonVars => S0Inv'
<1> SUFFICES ASSUME ButtonFlags, S0Inv, [ButtonNext]_buttonVars PROVE S0Inv'
  OBVIOUS
<1>1. CASE VersionMismatch \/ EcResetCallback
  <2>1. inS0Counter' = 0
    BY <1>1 DEF VersionMismatch, EcResetCallback, ButtonBoot
  <2> QED
    BY <2>1, BoundAssumption DEF S0Inv
<1>2. CASE StageEnd \/ IdlePass
  <2>1. PICK s : Monitor(s)
    BY <1>2 DEF StageEnd, IdlePass
  <2> QED
    BY <2>1, MonitorTypes DEF S0Inv, ButtonFlags
<1>3. CASE UNCHANGED s0Vars
  BY <1>3 DEF s0Vars, S0Inv
<1>4. UNCHANGED s0Vars \/ VersionMismatch \/ EcResetCallback \/ StageEnd \/ IdlePass
  BY DEF ButtonNext, Press, Release, DroppedEdge, ClearSent, StopTimers, FakeClickCallback,
         SlidShutDownCallback, ForceShutDownCallback, ForceShutDownCallback_ex, Request,
         StageBegin, SetSlide, buttonVars, s0Vars
<1> QED
  BY <1>1, <1>2, <1>3, <1>4

\* An edge is posted in the other slot of the ring, and the count wraps at its width.
RingTypes ==
  /\ post_sts \in [{0, 1} -> BOOLEAN] /\ post_pos \in {0, 1}
  /\ post_cnt \in 0 .. CntMod - 1

LEMMA PostedTypes ==
  ASSUME NEW press \in BOOLEAN, RingTypes, Posted(press)
  PROVE  RingTypes'
<1>1. post_pos' \in {0, 1}
  BY DEF RingTypes, Posted
<1>2. post_cnt' \in 0 .. CntMod - 1
  BY BoundAssumption DEF RingTypes, Posted
<1>3. post_sts' \in [{0, 1} -> BOOLEAN]
  BY <1>1 DEF RingTypes, Posted
<1> QED
  BY <1>1, <1>2, <1>3 DEF RingTypes

LEMMA RingStep == RingTypes /\ [ButtonNext]_buttonVars => RingTypes'
<1> SUFFICES ASSUME RingTypes, [ButtonNext]_buttonVars PROVE RingTypes'
  OBVIOUS
<1>1. CASE Press \/ Release
  <2>1. Posted(TRUE) \/ Posted(FALSE) \/ UNCHANGED ringVars
    BY <1>1 DEF Press, Release
  <2>2. CASE UNCHANGED ringVars
    BY <2>2 DEF ringVars, RingTypes
  <2> QED
    BY <2>1, <2>2, PostedTypes
<1>2. CASE VersionMismatch \/ EcResetCallback
  <2>1. post_sts' = [k \in {0, 1} |-> TRUE] /\ post_pos' = 0 /\ post_cnt' = 0
    BY <1>2 DEF VersionMismatch, EcResetCallback, ButtonBoot
  <2> QED
    BY <2>1, BoundAssumption DEF RingTypes
<1>3. CASE StageEnd \/ IdlePass
  <2>1. UNCHANGED <<post_sts, post_pos>> /\ (post_cnt' = 0 \/ UNCHANGED post_cnt)
    BY <1>3 DEF StageEnd, IdlePass, Probe
  <2> QED
    BY <2>1, BoundAssumption DEF RingTypes
<1>4. CASE UNCHANGED ringVars
  BY <1>4 DEF ringVars, RingTypes
<1>5. \/ UNCHANGED ringVars
      \/ Press \/ Release \/ VersionMismatch \/ EcResetCallback \/ StageEnd \/ IdlePass
  BY DEF ButtonNext, DroppedEdge, ClearSent, StopTimers, FakeClickCallback,
         SlidShutDownCallback, ForceShutDownCallback, ForceShutDownCallback_ex, Request,
         StageBegin, SetSlide, buttonVars, ringVars
<1> QED
  BY <1>1, <1>2, <1>3, <1>4, <1>5

\* The timers, the release handler and the power state.
HandlerTypes ==
  /\ running \subseteq Timer /\ toStop \subseteq Timer
  /\ sys \in State /\ pc \in {"idle", "clear", "stop"}

LEMMA HandlerStep == HandlerTypes /\ [ButtonNext]_buttonVars => HandlerTypes'
<1> SUFFICES ASSUME HandlerTypes, [ButtonNext]_buttonVars PROVE HandlerTypes'
  OBVIOUS
<1> USE DEF HandlerTypes, Timer, seqVars
<1>1. CASE Press
  BY <1>1 DEF Press, PressTimers
<1>2. CASE VersionMismatch \/ EcResetCallback
  BY <1>2 DEF VersionMismatch, EcResetCallback, ButtonBoot, State
<1>3. CASE Release
  BY <1>3 DEF Release, Released, ReleaseStops
<1>4. CASE DroppedEdge \/ ClearSent \/ StopTimers
  BY <1>4 DEF DroppedEdge, ClearSent, StopTimers
<1>5. CASE \/ FakeClickCallback \/ SlidShutDownCallback \/ ForceShutDownCallback
           \/ ForceShutDownCallback_ex
  BY <1>5 DEF FakeClickCallback, SlidShutDownCallback, ForceShutDownCallback,
              ForceShutDownCallback_ex, Fires
<1>6. CASE Request \/ StageBegin \/ SetSlide \/ IdlePass
  BY <1>6 DEF Request, StageBegin, SetSlide, IdlePass
<1>7. CASE StageEnd
  <2>1. sys' \in State
    BY <1>7 DEF StageEnd, Committed, Following, State
  <2> QED
    BY <1>7, <2>1 DEF StageEnd
<1>8. CASE UNCHANGED buttonVars
  BY <1>8 DEF buttonVars
<1> QED
  BY <1>1, <1>2, <1>3, <1>4, <1>5, <1>6, <1>7, <1>8 DEF ButtonNext

\* Every variable keeps its type: the S0 counter of app_btn_monitor never passes one more
\* than its limit, and the ring of posted edges is indexed within its two slots, however
\* often pwrbtn_post_cnt wraps.
THEOREM ButtonTypeCorrect == ButtonSpec => []ButtonTypeOK
<1>1. ASSUME ButtonInit PROVE ButtonFlags /\ S0Inv /\ RingTypes /\ HandlerTypes
  <2>1. ButtonFlags /\ HandlerTypes
    BY <1>1 DEF ButtonInit, ButtonFlags, HandlerTypes, State
  <2>2. S0Inv
    BY <1>1, BoundAssumption DEF ButtonInit, S0Inv
  <2>3. RingTypes
    BY <1>1, BoundAssumption DEF ButtonInit, RingTypes
  <2> QED
    BY <2>1, <2>2, <2>3
<1>2. ButtonFlags /\ S0Inv /\ RingTypes /\ HandlerTypes => ButtonTypeOK
  BY DEF S0Inv, RingTypes, HandlerTypes, ButtonTypeOK
<1> QED
  BY <1>1, <1>2, ButtonFlagsStep, S0Step, RingStep, HandlerStep, PTL DEF ButtonSpec
=============================================================================
