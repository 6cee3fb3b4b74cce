------------------------------ MODULE SmcHost ------------------------------
(***************************************************************************)
(* ACPI event notification: the queue of src/app/smchost/sci.c, the        *)
(* smchost thread of src/app/smchost/smchost.c and the notification calls  *)
(* of src/app/acpi/app_acpi.c, with the operating system at the other end  *)
(* of port 62h/66h.                                                        *)
(*                                                                         *)
(* Threads are cooperative, so a pass of the thread is interrupted only by *)
(* interrupts and by the host: a step is what lies between two reads of    *)
(* the status register.  Events are numbered in the order in which they    *)
(* are reported.                                                           *)
(***************************************************************************)
EXTENDS Integers, Sequences

CONSTANTS
  QueueSize,      \* SCIQ_SIZE
  MaxEvents,      \* bound: events ever reported
  MaxResets,      \* bound: host resets
  Ms              \* g_ui8MondernStandbySupport

ASSUME SmcAssumption == QueueSize \in Nat /\ MaxEvents \in Nat /\ MaxResets \in Nat /\ Ms \in BOOLEAN

VARIABLES
  q,          \* sci_msgq
  evt,        \* ACPI_FLAG_SCIEVENT
  ibf,        \* the byte the host has written, or "none"
  acpiObf,    \* the byte the EC has written, or -1
  req,        \* host_req: the command whose data byte is missing, or "none"
  acpiLock,   \* acpi_lock
  smcPc,      \* smchost_thread: "wait", "serve", "check"
  mode, en,   \* acpi_mode, sci_enabled
  asleep,     \* the system is in S3 (modern standby) with the APU in reset
  warned,     \* the host has warned of a reset that has not ended yet
  pulse,      \* an SCI the host has not looked at
  host,       \* what the host waits for: "none", "resume", "addr", "data", "event"
  reported,   \* history: number of events reported
  seen,       \* history: the last event the host was given
  resets

hostVars == <<pulse, host, seen>>
smcVars == <<q, evt, ibf, acpiObf, req, acpiLock, smcPc, mode, en, asleep, warned, hostVars, reported, resets>>
-----------------------------------------------------------------------------
Empty == -1

SmcInit ==
  /\ q = <<>> /\ evt = FALSE /\ ibf = "none" /\ acpiObf = Empty /\ req = "none"
  /\ acpiLock = 0 /\ smcPc = "wait"
  /\ mode = FALSE /\ en = TRUE /\ asleep = FALSE /\ warned = FALSE
  /\ pulse = FALSE /\ host = "none"
  /\ reported = 0 /\ seen = 0 /\ resets = 0

SciPending == ((en /\ mode) \/ (Ms /\ asleep)) /\ q # <<>>
-----------------------------------------------------------------------------
(* Reporting an event, ACPI_NotifyHost and enqueue_sci.                    *)

EnqueueSci(e) ==
  /\ q' = IF Len(q) < QueueSize THEN Append(q, e) ELSE q
  /\ acpiLock' = 1

NotifyHost(wakes) ==
  /\ reported < MaxEvents
  /\ reported' = reported + 1
  /\ IF mode \/ (Ms /\ asleep /\ wakes)
     THEN EnqueueSci(reported + 1)
     ELSE UNCHANGED <<q, acpiLock>>
  /\ UNCHANGED <<evt, ibf, acpiObf, req, smcPc, mode, en, asleep, warned, hostVars, resets>>
-----------------------------------------------------------------------------
(* The thread.                                                             *)

Wake ==
  /\ smcPc = "wait" /\ acpiLock = 1
  /\ acpiLock' = 0 /\ smcPc' = "serve"
  /\ UNCHANGED <<q, evt, ibf, acpiObf, req, mode, en, asleep, warned, hostVars, reported, resets>>

\* The end of every command: sci_pending sets the flag and sends the interrupt.
AfterCommand(queue, m) ==
  IF ((en /\ m) \/ (Ms /\ asleep)) /\ queue # <<>>
  THEN evt' = TRUE /\ pulse' = TRUE ELSE UNCHANGED <<evt, pulse>>

\* Bug: the event is read from the queue and not removed.
QueryEc_Peek ==
  /\ ibf = "query"
  /\ IF ~mode \/ acpiObf # Empty
     THEN UNCHANGED <<q, acpiObf>> /\ AfterCommand(q, mode)
     ELSE /\ acpiObf' = IF q = <<>> THEN 0 ELSE Head(q)
          /\ q' = q
          /\ evt' = (q' # <<>>) /\ pulse' = TRUE
  /\ req' = "none"
  /\ UNCHANGED <<mode, acpiLock, reported>>

\* acpi_query_ec and send_sci_events
QueryEc ==
  /\ ibf = "query"
  /\ IF ~mode \/ acpiObf # Empty
     THEN UNCHANGED <<q, acpiObf>> /\ AfterCommand(q, mode)
     ELSE /\ acpiObf' = IF q = <<>> THEN 0 ELSE Head(q)
          /\ q' = IF q = <<>> THEN q ELSE Tail(q)
          /\ evt' = (q' # <<>>) /\ pulse' = TRUE
  /\ req' = "none"
  /\ UNCHANGED <<mode, acpiLock, reported>>

\* acpi_read_ec: the answer waits for an empty output buffer, and the flag tells
\* whether an event is pending.
ReadEc ==
  /\ ibf = "addr" /\ req = "read"
  /\ acpiObf' = 0
  /\ evt' = SciPending /\ pulse' = TRUE
  /\ req' = "none"
  /\ UNCHANGED <<q, mode, acpiLock, reported>>

\* EC_READ: the address is still to come.
ReadBegin ==
  /\ ibf = "read"
  /\ req' = "read" /\ pulse' = TRUE
  /\ UNCHANGED <<q, evt, acpiObf, mode, acpiLock, reported>>

\* ACPI_EnableHostNotify queues the event, if any, that the host left in _s_fakeEventId.
FakeEvent ==
  \/ UNCHANGED <<q, acpiLock, reported>>
  \/ reported < MaxEvents /\ reported' = reported + 1 /\ EnqueueSci(reported + 1)

\* ACPI_EnableHostNotify and ACPI_DisableHostNotify
SetMode ==
  /\ ibf \in {"enable", "disable"}
  /\ mode' = (ibf = "enable")
  /\ IF ibf = "enable" THEN FakeEvent ELSE UNCHANGED <<q, acpiLock, reported>>
  /\ AfterCommand(q', mode')
  /\ req' = "none"
  /\ UNCHANGED acpiObf

\* smchost_acpi0_service
Serve ==
  /\ smcPc = "serve" /\ ibf # "none"
  /\ QueryEc \/ ReadEc \/ ReadBegin \/ SetMode
  /\ ibf' = "none"
  /\ UNCHANGED <<smcPc, en, asleep, warned, host, seen, resets>>

ServeEnd ==
  /\ smcPc = "serve" /\ ibf = "none" /\ smcPc' = "check"
  /\ UNCHANGED <<q, evt, ibf, acpiObf, req, acpiLock, mode, en, asleep, warned, hostVars, reported, resets>>

\* Bug: the semaphore is reset after the pass, as if it still stood for the byte served.
CheckSciQueue_ResetsLock ==
  /\ smcPc = "check" /\ smcPc' = "wait" /\ acpiLock' = 0
  /\ IF ibf = "none" /\ acpiObf = Empty
     THEN evt' = (q # <<>>) /\ pulse' = (pulse \/ q # <<>>)
     ELSE UNCHANGED <<evt, pulse>>
  /\ UNCHANGED <<q, ibf, acpiObf, req, mode, en, asleep, warned, host, seen, reported, resets>>

\* smchost_process_tasks and check_sci_queue
CheckSciQueue ==
  /\ smcPc = "check" /\ smcPc' = "wait"
  /\ IF ibf = "none" /\ acpiObf = Empty
     THEN evt' = (q # <<>>) /\ pulse' = (pulse \/ q # <<>>)
     ELSE UNCHANGED <<evt, pulse>>
  /\ UNCHANGED <<q, ibf, acpiObf, req, acpiLock, mode, en, asleep, warned, host, seen, reported, resets>>
-----------------------------------------------------------------------------
(* The host.  It answers an SCI with a query when the flag is set, and has *)
(* one transaction at a time.                                              *)

HostWrites(b) == ibf = "none" /\ ibf' = b /\ acpiLock' = 1

HostSci ==
  /\ ~asleep /\ pulse /\ host = "none" /\ ibf = "none"
  /\ pulse' = FALSE
  /\ IF evt /\ mode
     THEN HostWrites("query") /\ host' = "event"
     ELSE UNCHANGED <<ibf, acpiLock, host>>
  /\ UNCHANGED <<q, evt, acpiObf, req, smcPc, mode, en, asleep, warned, seen, reported, resets>>

HostCommand ==
  /\ ~asleep /\ host = "none"
  /\ \E c \in {"read", "enable", "disable"} :
       /\ HostWrites(c)
       /\ host' = IF c = "read" THEN "addr" ELSE host
  /\ UNCHANGED <<q, evt, acpiObf, req, smcPc, mode, en, asleep, warned, pulse, seen, reported, resets>>

\* On resume the uPEP hooks of the ACPI tables access EC space.
HostResume ==
  /\ host = "resume"
  /\ HostWrites("read") /\ host' = "addr"
  /\ UNCHANGED <<q, evt, acpiObf, req, smcPc, mode, en, asleep, warned, pulse, seen, reported, resets>>

HostAddress ==
  /\ host = "addr"
  /\ HostWrites("addr") /\ host' = "data"
  /\ UNCHANGED <<q, evt, acpiObf, req, smcPc, mode, en, asleep, warned, pulse, seen, reported, resets>>

\* Bug: the output buffer empty interrupt is left disabled.
HostRead_NoObe ==
  /\ host \in {"data", "event"} /\ acpiObf # Empty
  /\ acpiObf' = Empty /\ host' = "none"
  /\ seen' = IF acpiObf > 0 THEN acpiObf ELSE seen
  /\ UNCHANGED <<q, evt, ibf, req, acpiLock, smcPc, mode, en, asleep, warned, pulse, reported, resets>>

\* Reading the byte raises the output buffer empty interrupt, which S0 enables.
HostRead ==
  /\ host \in {"data", "event"} /\ acpiObf # Empty
  /\ acpiObf' = Empty /\ host' = "none" /\ acpiLock' = 1
  /\ seen' = IF acpiObf > 0 THEN acpiObf ELSE seen
  /\ UNCHANGED <<q, evt, ibf, req, smcPc, mode, en, asleep, warned, pulse, reported, resets>>
-----------------------------------------------------------------------------
(* Resets: interrupts.                                                     *)

\* smchost_host_rst_warn_handler
ResetWarning ==
  /\ ~asleep /\ ~warned /\ resets < MaxResets
  /\ resets' = resets + 1
  /\ warned' = TRUE /\ en' = FALSE /\ q' = <<>>
  /\ UNCHANGED <<evt, ibf, acpiObf, req, acpiLock, smcPc, mode, asleep, hostVars, reported>>

\* board_periph_apu_rst_callback, smchost_pltrst_handler(0), smchost_busrst_handler(0)
ApuReset ==
  /\ warned /\ ~asleep
  /\ mode' = FALSE /\ en' = FALSE
  /\ q' = IF Ms THEN q ELSE <<>>
  /\ asleep' = TRUE
  /\ ibf' = "none" /\ acpiObf' = Empty /\ evt' = FALSE
  /\ pulse' = FALSE /\ host' = "none"
  /\ UNCHANGED <<req, acpiLock, smcPc, warned, seen, reported, resets>>

\* smchost_pltrst_handler(1) and the S0 entry of the power sequencer
ResetEnds ==
  /\ asleep /\ asleep' = FALSE /\ warned' = FALSE /\ en' = TRUE
  /\ mode' = Ms
  /\ IF Ms THEN FakeEvent ELSE q' = <<>> /\ UNCHANGED <<acpiLock, reported>>
  /\ host' = "resume"
  /\ UNCHANGED <<evt, ibf, acpiObf, req, smcPc, pulse, seen, resets>>
-----------------------------------------------------------------------------
SmcNext ==
  \/ NotifyHost(TRUE) \/ NotifyHost(FALSE)
  \/ Wake \/ Serve \/ ServeEnd \/ CheckSciQueue
  \/ HostSci \/ HostCommand \/ HostResume \/ HostAddress \/ HostRead
  \/ ResetWarning \/ ApuReset \/ ResetEnds

SmcSpec == SmcInit /\ [][SmcNext]_smcVars

\* The thread has the highest priority that is ready in the end, and the host
\* finishes the transactions it begins and looks at its interrupts.
SmcFairness ==
  /\ WF_smcVars(Wake) /\ WF_smcVars(Serve) /\ WF_smcVars(ServeEnd) /\ WF_smcVars(CheckSciQueue)
  /\ SF_smcVars(HostSci) /\ WF_smcVars(HostResume) /\ WF_smcVars(HostAddress) /\ WF_smcVars(HostRead)
  /\ WF_smcVars(ApuReset) /\ WF_smcVars(ResetEnds)

SmcFairSpec == SmcSpec /\ SmcFairness
-----------------------------------------------------------------------------
SmcTypeOK ==
  /\ q \in Seq(1 .. MaxEvents) /\ Len(q) <= QueueSize
  /\ acpiObf \in -1 .. MaxEvents /\ seen \in 0 .. MaxEvents /\ reported \in 0 .. MaxEvents
  /\ ibf \in {"none", "query", "read", "addr", "enable", "disable"}
  /\ req \in {"none", "read"} /\ acpiLock \in {0, 1} /\ smcPc \in {"wait", "serve", "check"}
  /\ host \in {"none", "resume", "addr", "data", "event"}
  /\ evt \in BOOLEAN /\ mode \in BOOLEAN /\ en \in BOOLEAN
  /\ asleep \in BOOLEAN /\ warned \in BOOLEAN /\ pulse \in BOOLEAN
  /\ resets \in 0 .. MaxResets

\* A queued event is fetched by the host in the end, even when it was reported while
\* the host had not yet read the previous answer.
EventsDelivered == []<>(q = <<>> \/ ~mode)

\* When the thread waits and nothing is about to wake it, nobody waits for it: the byte
\* the host awaits is in the output buffer, and a queue that is not empty has been
\* announced to a host that has not looked yet, by the flag and by an interrupt.
NoWakeupLost ==
  smcPc = "wait" /\ acpiLock = 0 /\ mode =>
    /\ host \in {"data", "event"} => acpiObf # Empty
    /\ host = "none" /\ q # <<>> => evt /\ pulse

\* The host receives events in the order in which they were reported, each once: the
\* one in the output buffer is newer than the last one read and older than the queue.
InOrder == acpiObf > 0 => acpiObf > seen /\ \A i \in DOMAIN q : q[i] > acpiObf
=============================================================================
