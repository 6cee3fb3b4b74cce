-------------------------------- MODULE Kbc --------------------------------
(***************************************************************************)
(* The 8042 keyboard controller host interface, src/app/kbchost/kbchost.c: *)
(* the interrupt that takes bytes from ports 60h/64h, the thread that      *)
(* carries them out and answers, and the thread that forwards the key      *)
(* queue.  Threads are cooperative; interrupts (a byte from the host, the  *)
(* typematic timer) come between any two steps.                            *)
(*                                                                         *)
(* Bytes are classes: all commands with the same effect are one class.     *)
(* PS/2 devices are configured out, so the mouse commands only swallow     *)
(* their data byte.                                                        *)
(***************************************************************************)
EXTENDS Integers, Sequences

CONSTANTS
  FromSize,       \* capacity of from_host_queue
  ToSize,         \* capacity of to_host_kb_queue
  Retries,        \* MAX_TO_HOST_RETRIES
  Commands,       \* classes of bytes written to port 64h
  Data,           \* classes of bytes written to port 60h
  MaxWrites,      \* bound: bytes written by the host
  MaxExtra,       \* bound: third, fifth, ... deliveries of a byte
  MaxKeys         \* bound: scan codes produced

VARIABLES
  fromQ,                  \* from_host_queue: pairs of a port and a byte
  prev,                   \* last_data and last_cmd when has_prev, or None
  again,                  \* the byte the interrupt may deliver again, or None
  odd,                    \* history: that byte was delivered an odd number of times
  written, accepted,      \* history: bytes the host wrote, bytes queued
  extra,                  \* history: third, fifth, ... deliveries of a byte
  st,                     \* data_port_state
  kbd,                    \* "on", or what disabled the keyboard: "port" or "device"
  resend,                 \* resend_cmd_len
  ops,                    \* what process_keyboard_command/_data has still to do
  out, tries,             \* reply bytes still to be sent, obf_retries
  obf,                    \* the byte at port 60h: "none", "reply", "key"
  toQ,                    \* to_host_kb_queue
  kbSem,                  \* kb_p60_sem
  fwd, ftries,            \* to_host_kb_thread is in its inner loop, its obf_retries
  keys

hostIn == <<fromQ, prev, again, odd, written, accepted, extra>>
worker == <<st, resend, ops, out, tries>>
forwarder == <<fwd, ftries>>
kbcVars == <<hostIn, worker, kbd, obf, toQ, kbSem, forwarder, keys>>
-----------------------------------------------------------------------------
None == <<"none", "none">>

KbcInit ==
  /\ fromQ = <<>> /\ prev = None /\ again = None /\ odd = FALSE
  /\ written = 0 /\ accepted = 0 /\ extra = 0
  /\ st = "default" /\ kbd = "port" /\ resend = 0 /\ ops = <<>> /\ out = 0 /\ tries = 0
  /\ obf = "none" /\ toQ = <<>> /\ kbSem = 0 /\ fwd = FALSE /\ ftries = 0 /\ keys = 0
-----------------------------------------------------------------------------
(* The interrupt.                                                          *)

\* Bug: every delivery is queued.
KbcHandler_NoGuard(b) ==
  /\ prev' = b
  /\ IF Len(fromQ) < FromSize
     THEN fromQ' = Append(fromQ, b) /\ accepted' = accepted + 1
     ELSE UNCHANGED <<fromQ, accepted>>

\* kbc_handler: the second of two equal deliveries is taken for a re-trigger, and forgets
\* the byte, "so a third identical byte goes through".
KbcHandler(b) ==
  /\ prev' = IF b = prev THEN None ELSE b
  /\ IF b # prev /\ Len(fromQ) < FromSize
     THEN fromQ' = Append(fromQ, b) /\ accepted' = accepted + 1
     ELSE UNCHANGED <<fromQ, accepted>>

HostWrite ==
  /\ written < MaxWrites /\ written' = written + 1
  /\ \E b \in ({"cmd"} \X Commands) \cup ({"data"} \X Data) : KbcHandler(b) /\ again' = b
  /\ odd' = TRUE
  /\ UNCHANGED <<extra, worker, kbd, obf, toQ, kbSem, forwarder, keys>>

\* The interrupt fires again, and again, for a byte that was delivered already.
Retrigger ==
  /\ again # None
  /\ KbcHandler(again)
  /\ odd' = ~odd
  /\ \/ odd /\ UNCHANGED extra
     \/ ~odd /\ extra < MaxExtra /\ extra' = extra + 1
  /\ UNCHANGED <<again, written, worker, kbd, obf, toQ, kbSem, forwarder, keys>>
-----------------------------------------------------------------------------
(* to_from_host_thread.                                                    *)

Effect(o, n, s) == [ops |-> o, out |-> n, st |-> s]

\* Bug: the queue is emptied before the keyboard is disabled.
DisablePort_PurgeFirst == <<"purge", "off">>

\* cmdbyte_disable_kbd and purge_kb_queue
DisablePort == <<"off", "purge">>

\* process_keyboard_command
CommandEffect(c) ==
  CASE c = "query"    -> Effect(<<>>, 1, st)
    [] c = "selftest" -> Effect(<<"purge">>, 1, st)
    [] c = "diskb"    -> Effect(DisablePort, 0, st)
    [] c = "enakb"    -> Effect(<<"on">>, 0, st)
    [] c \in {"cmdbyte", "hotkey", "reg", "swallow"} -> Effect(<<>>, 0, c)
    [] c = "pulse"    -> Effect(<<>>, 0, st)
    [] OTHER          -> Effect(<<"purge">>, 1, "default")

\* The bytes whose bit KBC_8042_KBD_DIS is clear, among the classes of Data.
Enables == {"echo", "param", "zero"}

\* process_keyboard_data, DEFAULT_STATE
KeyboardCommandEffect(d) ==
  CASE d = "param"  -> Effect(<<>>, 1, "param")
    [] d = "scan"   -> Effect(<<>>, 1, "scan")
    [] d = "id"     -> Effect(<<>>, 3, "default")
    [] d = "en"     -> Effect(<<"purge", "on">>, 1, "default")
    [] d = "disdef" -> Effect(<<"purge", "devoff">>, 1, "default")
    [] d = "setdef" -> Effect(<<"purge">>, 1, "default")
    [] d = "reset"  -> Effect(<<"clear", "purge">>, 2, "default")
    [] d = "resend" -> Effect(<<>>, resend, "default")
    [] OTHER        -> Effect(<<>>, 1, "default")     \* echo and unknown bytes

\* process_keyboard_data.  HOTKEY_EVENT_STATE is left by a command only.
DataEffect(d) ==
  CASE st = "cmdbyte" -> Effect(IF d \in Enables THEN <<"on">> ELSE DisablePort, 0, "default")
    [] st = "swallow" -> Effect(<<>>, 0, "default")
    [] st = "hotkey"  -> Effect(<<>>, 0, "hotkey")
    [] st \in {"reg", "param"} -> Effect(<<>>, 1, "default")
    [] st = "scan"    -> IF d = "zero" THEN Effect(<<>>, 2, "default")
                                     ELSE Effect(<<"purge">>, 1, "default")
    [] OTHER          -> KeyboardCommandEffect(d)

GetByte ==
  /\ ops = <<>> /\ out = 0 /\ fromQ # <<>>
  /\ LET b == Head(fromQ)
         e == IF b[1] = "cmd" THEN CommandEffect(b[2]) ELSE DataEffect(b[2])
     IN /\ ops' = e.ops /\ out' = e.out /\ st' = e.st
        /\ resend' = IF b[1] = "data" /\ e.out > 0 /\ ~(st = "default" /\ b[2] = "resend")
                     THEN e.out ELSE resend
  /\ fromQ' = Tail(fromQ) /\ tries' = 0
  /\ UNCHANGED <<prev, again, odd, written, accepted, extra, kbd, obf, toQ, kbSem, forwarder, keys>>

CarryOut ==
  /\ ops # <<>> /\ ops' = Tail(ops)
  /\ kbd' = CASE Head(ops) = "on" -> "on" [] Head(ops) = "off" -> "port"
              [] Head(ops) = "devoff" -> "device" [] OTHER -> kbd
  /\ toQ' = IF Head(ops) = "purge" THEN <<>> ELSE toQ
  /\ obf' = IF Head(ops) = "clear" THEN "none" ELSE obf
  /\ UNCHANGED <<hostIn, st, resend, out, tries, kbSem, forwarder, keys>>

\* send_kb_to_host
Put(s, x) == IF Len(s) < ToSize THEN Append(s, x) ELSE s

\* Bug: the thread waits for the host to read, however long it takes.
SendReply_Waits ==
  /\ ops = <<>> /\ out > 0 /\ obf = "none"
  /\ obf' = "reply" /\ out' = out - 1 /\ tries' = 0 /\ UNCHANGED <<toQ, kbSem>>
  /\ UNCHANGED <<hostIn, st, resend, ops, kbd, forwarder, keys>>

\* handle_from_to_host: a byte per empty port.  Once the host has not read for so long,
\* the rest of the answer joins the key queue, whatever the port holds by then.
SendReply ==
  /\ ops = <<>> /\ out > 0
  /\ \/ /\ tries < Retries /\ obf = "none"
        /\ obf' = "reply" /\ out' = out - 1 /\ tries' = 0 /\ UNCHANGED <<toQ, kbSem>>
     \/ /\ tries < Retries /\ obf # "none"
        /\ tries' = tries + 1 /\ UNCHANGED <<obf, out, toQ, kbSem>>
     \/ /\ tries = Retries
        /\ toQ' = Put(toQ, "reply") /\ kbSem' = 1 /\ out' = out - 1
        /\ UNCHANGED <<obf, tries>>
  /\ UNCHANGED <<hostIn, st, resend, ops, kbd, forwarder, keys>>
-----------------------------------------------------------------------------
(* to_host_kb_thread.                                                      *)

TakeKeys ==
  /\ ~fwd /\ kbSem = 1 /\ kbSem' = 0 /\ fwd' = TRUE
  /\ UNCHANGED <<hostIn, worker, kbd, obf, toQ, ftries, keys>>

Forward ==
  /\ fwd
  /\ \/ toQ = <<>> /\ fwd' = FALSE /\ UNCHANGED <<obf, toQ, ftries>>
     \/ /\ toQ # <<>> /\ obf # "none" /\ ftries <= Retries
        /\ ftries' = ftries + 1 /\ UNCHANGED <<fwd, toQ, obf>>
     \/ /\ toQ # <<>> /\ obf # "none" /\ ftries > Retries
        /\ toQ' = <<>> /\ ftries' = 0 /\ fwd' = FALSE /\ UNCHANGED obf
     \/ /\ toQ # <<>> /\ obf = "none"
        /\ obf' = Head(toQ) /\ toQ' = Tail(toQ) /\ ftries' = 0 /\ UNCHANGED fwd
  /\ UNCHANGED <<hostIn, worker, kbd, kbSem, keys>>
-----------------------------------------------------------------------------
\* mtx_keyboard_callback, from the scan thread and the typematic timer
Key ==
  /\ keys < MaxKeys /\ keys' = keys + 1
  /\ IF kbd = "on" THEN toQ' = Put(toQ, "key") /\ kbSem' = 1 ELSE UNCHANGED <<toQ, kbSem>>
  /\ UNCHANGED <<hostIn, worker, kbd, obf, forwarder>>

\* S0i3SelfRestore: the wake byte is queued whatever the state of the keyboard.
SelfRestore ==
  /\ keys < MaxKeys /\ keys' = keys + 1
  /\ toQ' = Put(toQ, "wake") /\ kbSem' = 1
  /\ UNCHANGED <<hostIn, worker, kbd, obf, forwarder>>

HostReads ==
  /\ obf # "none" /\ obf' = "none"
  /\ UNCHANGED <<hostIn, worker, kbd, toQ, kbSem, forwarder, keys>>

KbcNext ==
  \/ HostWrite \/ Retrigger \/ GetByte \/ CarryOut \/ SendReply
  \/ TakeKeys \/ Forward \/ Key \/ SelfRestore \/ HostReads

KbcSpec == KbcInit /\ [][KbcNext]_kbcVars

\* The two threads of the EC run; nothing is assumed of the host.
Fairness ==
  /\ WF_kbcVars(GetByte) /\ WF_kbcVars(CarryOut) /\ WF_kbcVars(SendReply)
  /\ WF_kbcVars(TakeKeys) /\ WF_kbcVars(Forward)

KbcFairSpec == KbcSpec /\ Fairness
-----------------------------------------------------------------------------
\* An interrupt that fires twice for a byte queues it once (kbc_handler's guard), whatever
\* the host writes before, between and after: the thread gets more bytes than the host
\* wrote only by the third, fifth, ... firing for the same byte, at most one for each.
NoByteTwice == accepted <= written + extra

\* Once the controller was told to disable the keyboard, no scan code is left to be
\* forwarded, not even one that the typematic timer produced meanwhile.
NoKeysWhileDisabled ==
  kbd = "port" /\ ops = <<>> => \A i \in DOMAIN toQ : toQ[i] # "key"

\* A host that stops reading never blocks the controller: every byte it wrote is
\* carried out and the key queue is emptied, by sending or by purging it.
NeverBlocks == []<>(fromQ = <<>> /\ out = 0 /\ toQ = <<>>)

\* Two intentionally identical writes are both given to the thread.
RepeatsKept ==
  [][written' > written => accepted' > accepted \/ Len(fromQ) = FromSize]_kbcVars
=============================================================================
