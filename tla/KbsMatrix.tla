----------------------------- MODULE KbsMatrix -----------------------------
(***************************************************************************)
(* The keyboard matrix, src/drivers/kbs_matrix.c, with the Fn layer of     *)
(* src/drivers/amdcrb_keymap.c: what a pressed, released or repeating key  *)
(* makes the host believe.                                                 *)
(*                                                                         *)
(* Keys are classes: a "plain" key repeats, "pause" is sent once, a "dead" *)
(* key has no scan code.  The Fn layer maps a key to a code that repeats   *)
(* or not, to an SCI event, to nothing, or ("other") is not filled in at   *)
(* all: make_key then reads an uninitialized structure.                    *)
(***************************************************************************)
EXTENDS Integers, FiniteSets

CONSTANTS
  Keys,             \* keys other than Fn
  KeyKind,          \* [Keys -> {"plain", "pause", "dead"}]
  FnKind,           \* [Keys -> {"repeat", "once", "sci", "unmapped", "other"}]
  LockKey,          \* the key that toggles fn_lock (BRD_MDS_DORNE, BRD_MDS_AERIS)
  TypematicBytes    \* the bytes the host writes after 0xF3

VARIABLES
  held,           \* the keys that are physically down, Fn included
  fn, fnLock,     \* KBS_FN_DOWN of kscan_flags, fn_lock
  hot,            \* hotkey_detected
  code,           \* the key whose make code is in make_tpmatic_code
  timer,          \* typematic_timer runs
  enabled,        \* cmdbyte_kbd_enabled()
  seenDown,       \* the keys the host believes to be down
  typematic,      \* history: the last byte given to kbs_write_typematic
  delay, period   \* typematic_delay_idx, typematic_period_idx

kbsVars == <<held, fn, fnLock, hot, code, timer, enabled, seenDown, typematic, delay, period>>
rates == <<typematic, delay, period>>
-----------------------------------------------------------------------------
Fn == "fn"
NoCode == "none"

\* dflt_typematic_delay_rate
DefaultRate == 11

\* kbs_write_typematic: (data >> TYPEMATIC_DELAY_POS) & TYPEMATIC_DELAY_MASK
DelayIdx(data) == (((data \div 32) \div 32) % 4) * 32

WriteRate(data) ==
  /\ typematic' = data /\ delay' = DelayIdx(data) /\ period' = data % 32
  /\ timer' = FALSE

\* kbs_matrix_init
MatrixInit ==
  /\ held = {} /\ fn = FALSE /\ fnLock = FALSE /\ hot = FALSE /\ code = NoCode
  /\ timer = FALSE /\ enabled = FALSE /\ seenDown = {}
  /\ typematic = DefaultRate /\ delay = DelayIdx(DefaultRate) /\ period = DefaultRate % 32

\* keymap_get_fnkey: what the Fn layer makes of a key
FnResults(k) ==
  IF FnKind[k] = "other" THEN {"repeat", "once", "sci", "unmapped"} ELSE {FnKind[k]}

\* get_scan_code
ScanResult(k) ==
  CASE KeyKind[k] = "plain" -> "repeat" [] KeyKind[k] = "pause" -> "once" [] OTHER -> "nothing"

\* mtx_keyboard_callback: the host is told unless the keyboard is disabled or the
\* last key was a hot key.
Report(hotkey, down) == seenDown' = IF enabled /\ ~hotkey THEN down ELSE seenDown
-----------------------------------------------------------------------------
\* The end of make_key: a result that has a scan code is sent and starts the timer.
Make(k, result) ==
  /\ hot' = (result = "sci")
  /\ IF result \in {"repeat", "once"}
     THEN /\ code' = k /\ timer' = (result = "repeat")
          /\ Report(FALSE, seenDown \cup {k})
     ELSE timer' = FALSE /\ UNCHANGED <<code, seenDown>>

\* make_key
Press(k) ==
  /\ k \notin held /\ held' = held \cup {k}
  /\ \/ /\ ~fn
        /\ Make(k, ScanResult(k)) /\ UNCHANGED <<fn, fnLock>>
     \/ /\ fn
        /\ \E r \in FnResults(k) : Make(k, r)
        /\ fnLock' = IF k = LockKey THEN ~fnLock ELSE fnLock
        /\ fn' = IF k = LockKey THEN fnLock' ELSE fn
  /\ UNCHANGED <<enabled, rates>>

PressFn ==
  /\ Fn \notin held /\ held' = held \cup {Fn}
  /\ fn' = TRUE /\ timer' = FALSE
  /\ UNCHANGED <<fnLock, hot, code, enabled, seenDown, rates>>

\* Bug: the repeat is stopped only when the break code is sent.
Release_LateStop(k) ==
  /\ k \in held /\ held' = held \ {k}
  /\ \E r \in IF fn THEN FnResults(k) ELSE {ScanResult(k)} :
       IF r \in {"repeat", "once"} THEN Report(hot, seenDown \ {k}) /\ timer' = FALSE
                                   ELSE UNCHANGED <<seenDown, timer>>
  /\ UNCHANGED <<fn, fnLock, hot, code, enabled, rates>>

\* break_key
Release(k) ==
  /\ k \in held /\ held' = held \ {k}
  /\ timer' = FALSE
  /\ \E r \in IF fn THEN FnResults(k) ELSE {ScanResult(k)} :
       IF r \in {"repeat", "once"} THEN Report(hot, seenDown \ {k}) ELSE UNCHANGED seenDown
  /\ UNCHANGED <<fn, fnLock, hot, code, enabled, rates>>

ReleaseFn ==
  /\ Fn \in held /\ held' = held \ {Fn}
  /\ fn' = fnLock /\ timer' = FALSE
  /\ UNCHANGED <<fnLock, hot, code, enabled, seenDown, rates>>

\* typematic_callback
Repeat ==
  /\ timer /\ Report(hot, seenDown \cup {code})
  /\ UNCHANGED <<held, fn, fnLock, hot, code, timer, enabled, rates>>

\* kbs_generate_key_win_slide: two keys made and broken that nobody presses
WinSlide ==
  /\ timer' = FALSE
  /\ hot' \in IF fn THEN BOOLEAN ELSE {FALSE}
  /\ code' = IF fn THEN code ELSE NoCode
  /\ UNCHANGED <<held, fn, fnLock, enabled, seenDown, rates>>

\* SET_TYPEMATIC_RATE_STATE of the keyboard controller
WriteTypematic ==
  /\ \E d \in TypematicBytes : WriteRate(d)
  /\ UNCHANGED <<held, fn, fnLock, hot, code, enabled, seenDown>>

\* kbs_keyboard_set_default with the host enabling or disabling the keyboard
SetDefault ==
  /\ WriteRate(DefaultRate)
  /\ enabled' \in BOOLEAN
  /\ UNCHANGED <<held, fn, fnLock, hot, code, seenDown>>

MatrixNext ==
  \/ \E k \in Keys : Press(k) \/ Release(k)
  \/ PressFn \/ ReleaseFn \/ Repeat \/ WinSlide \/ WriteTypematic \/ SetDefault

MatrixSpec == MatrixInit /\ [][MatrixNext]_kbsVars
-----------------------------------------------------------------------------
\* A key repeats only as long as it is held: whatever is pressed, locked or switched
\* meanwhile, the typematic timer never outlives the key whose code it sends.
RepeatsOnlyHeld == timer => code \in held

\* The repeat delay is the one the host asked for: "delay = (C+1) * 250 ms where C
\* comes from bits [6, 5]".
DelayAsWritten == delay = (typematic \div 32) % 4
=============================================================================
