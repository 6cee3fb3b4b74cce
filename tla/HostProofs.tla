----------------------------- MODULE HostProofs -----------------------------
(***************************************************************************)
(* What the host sees of the EC through its two pairs of ports.  The       *)
(* keyboard controller takes no byte of the host twice, and forwards no    *)
(* key once the host has disabled the keyboard; the matrix repeats only a  *)
(* key that is held; the ACPI interface gives every event once, in order,  *)
(* and leaves no request of the host without its answer.  For every size   *)
(* of the queues, number of retries and set of bytes or keys.              *)
(***************************************************************************)
EXTENDS Kbc, KbsMatrix, SmcHost, TLAPS
-----------------------------------------------------------------------------
(* The keyboard controller, Kbc.                                           *)

\* The invariant behind the guard of kbc_handler.  Written and third, fifth, ... deliveries
\* may each queue a byte; when the last delivery was one of them and left the guard without
\* the byte, it did not, and the next one may: that one is still free.
ByteInv ==
  /\ accepted \in Nat /\ written \in Nat /\ extra \in Nat /\ accepted <= written + extra
  /\ odd /\ again # prev => accepted + 1 <= written + extra

LEMMA ByteInit == KbcInit => ByteInv
BY DEF KbcInit, ByteInv

LEMMA HandlerCounts ==
  ASSUME ByteInv, NEW b, KbcHandler(b)
  PROVE  /\ accepted' \in Nat
         /\ accepted' <= accepted + 1
         /\ b = prev => accepted' = accepted
         /\ b # prev => b = prev'
BY DEF ByteInv, KbcHandler

\* A delivery that may queue a byte: the host wrote it, or it is a third, fifth, ... one.
LEMMA OddDelivery ==
  ASSUME ByteInv, NEW b, KbcHandler(b), again' = b, odd',
         written' \in Nat, extra' \in Nat, written' + extra' = written + extra + 1
  PROVE  ByteInv'
<1>1. /\ accepted' \in Nat /\ accepted' <= accepted + 1
      /\ b = prev => accepted' = accepted
      /\ b # prev => b = prev'
  BY HandlerCounts
<1>2. accepted \in Nat /\ written + extra \in Nat /\ accepted <= written + extra
  BY DEF ByteInv
<1>3. \A a, n, m \in Nat : a <= m => (n <= a + 1 => n <= m + 1) /\ (n = a => n + 1 <= m + 1)
  OBVIOUS
<1>4. accepted' <= written' + extra'
  BY <1>1, <1>2, <1>3, Zenon
<1>5. ASSUME b = prev PROVE accepted' + 1 <= written' + extra'
  <2>1. accepted' = accepted
    BY <1>1, <1>5
  <2> QED
    BY <1>1, <1>2, <1>3, <2>1, Zenon
<1>6. again' # prev' => accepted' + 1 <= written' + extra'
  BY <1>1, <1>5
<1> QED
  BY <1>1, <1>4, <1>6 DEF ByteInv

LEMMA ByteStep == ByteInv /\ [KbcNext]_kbcVars => ByteInv'
<1> SUFFICES ASSUME ByteInv, [KbcNext]_kbcVars PROVE ByteInv'
  OBVIOUS
<1>0. written \in Nat /\ extra \in Nat
  BY DEF ByteInv
<1>1. CASE HostWrite
  <2>1. PICK b : KbcHandler(b) /\ again' = b
    BY <1>1 DEF HostWrite
  <2>2. written' = written + 1 /\ extra' = extra /\ odd'
    BY <1>1 DEF HostWrite
  <2>3. written' \in Nat /\ extra' \in Nat /\ written' + extra' = written + extra + 1
    BY <1>0, <2>2
  <2> QED
    BY <2>1, <2>2, <2>3, OddDelivery
<1>2. CASE Retrigger /\ ~odd
  <2>1. KbcHandler(again) /\ again' = again /\ odd'
    BY <1>2 DEF Retrigger
  <2>2. written' = written /\ extra' = extra + 1
    BY <1>2 DEF Retrigger
  <2>3. written' \in Nat /\ extra' \in Nat /\ written' + extra' = written + extra + 1
    BY <1>0, <2>2
  <2> QED
    BY <2>1, <2>3, OddDelivery
<1>3. CASE Retrigger /\ odd
  <2>1. /\ accepted' \in Nat /\ accepted' <= accepted + 1
        /\ again = prev => accepted' = accepted
    BY <1>3, HandlerCounts DEF Retrigger
  <2>2. UNCHANGED <<written, extra>> /\ ~odd'
    BY <1>3 DEF Retrigger
  <2>3. accepted' <= written + extra
    BY <1>3, <2>1 DEF ByteInv
  <2> QED
    BY <1>0, <2>1, <2>2, <2>3 DEF ByteInv
<1>4. CASE UNCHANGED <<prev, again, odd, written, accepted, extra>>
  BY <1>4 DEF ByteInv
<1> QED
  BY <1>1, <1>2, <1>3, <1>4
  DEF KbcNext, kbcVars, hostIn, GetByte, CarryOut, SendReply, TakeKeys, Forward, Key, SelfRestore,
      HostReads

\* kbc_handler: however often the interrupt repeats itself, the second, fourth, ... firing
\* for a byte queues nothing, so no more bytes are queued than the host wrote and third,
\* fifth, ... firings offered.
THEOREM NoByteTwiceHolds == KbcSpec => []NoByteTwice
<1>1. ByteInv => NoByteTwice
  BY DEF ByteInv, NoByteTwice
<1> QED
  BY ByteInit, ByteStep, <1>1, PTL DEF KbcSpec
-----------------------------------------------------------------------------
\* The sequences of steps that a byte of the host leaves to be carried out.
Programs ==
  {<<>>, <<"purge">>, <<"on">>, <<"devoff">>, <<"off", "purge">>, <<"purge", "on">>,
   <<"purge", "devoff">>, <<"clear", "purge">>}

\* While the port is disabled there is no key in the queue, or the purge that goes with
\* the command is still to come.
DisableInv ==
  /\ ops \in Programs
  /\ toQ \in Seq({"key", "reply", "wake"})
  /\ kbd = "port" => toQ \in Seq({"reply", "wake"}) \/ ops = <<"purge">>

LEMMA DisableInit == KbcInit => DisableInv
BY DEF KbcInit, DisableInv, Programs

LEMMA EffectPrograms ==
  /\ \A c : CommandEffect(c).ops \in Programs
  /\ \A d : DataEffect(d).ops \in Programs
<1>1. \A d : KeyboardCommandEffect(d).ops \in Programs
  BY DEF KeyboardCommandEffect, Effect, Programs
<1>2. \A c : CommandEffect(c).ops \in Programs
  BY DEF CommandEffect, Effect, DisablePort, Programs
<1>3. \A d : DataEffect(d).ops \in Programs
  BY <1>1 DEF DataEffect, Effect, DisablePort, Programs
<1> QED
  BY <1>2, <1>3

LEMMA ProgramTails ==
  \A p \in Programs : p # <<>> =>
     Tail(p) \in Programs /\ (Head(p) = "off" => Tail(p) = <<"purge">>)
<1>1. \A x : Head(<<x>>) = x /\ Tail(<<x>>) = <<>>
  OBVIOUS
<1>2. \A x, y : Head(<<x, y>>) = x /\ Tail(<<x, y>>) = <<y>>
  OBVIOUS
<1> QED
  BY <1>1, <1>2, Zenon DEF Programs

LEMMA PutType ==
  ASSUME NEW S, NEW s \in Seq(S), NEW x \in S
  PROVE  Put(s, x) \in Seq(S)
BY DEF Put

LEMMA DisableStep == DisableInv /\ [KbcNext]_kbcVars => DisableInv'
<1> SUFFICES ASSUME DisableInv, [KbcNext]_kbcVars PROVE DisableInv'
  OBVIOUS
<1> USE DEF DisableInv
<1>1. CASE GetByte
  <2>1. ops' \in Programs
    BY <1>1, EffectPrograms DEF GetByte
  <2>2. UNCHANGED <<kbd, toQ>> /\ ops # <<"purge">>
    BY <1>1 DEF GetByte
  <2> QED
    BY <2>1, <2>2
<1>2. CASE CarryOut
  <2>1. ops' \in Programs /\ (Head(ops) = "off" => ops' = <<"purge">>)
    BY <1>2, ProgramTails DEF CarryOut
  <2>2. /\ Head(ops) = "purge" => toQ' = <<>>
        /\ Head(ops) # "purge" => toQ' = toQ
    BY <1>2 DEF CarryOut
  <2>3. kbd' = "port" => kbd = "port" \/ Head(ops) = "off"
    BY <1>2 DEF CarryOut
  <2>4. ops = <<"purge">> => Head(ops) = "purge"
    OBVIOUS
  <2>5. <<>> \in Seq({"reply", "wake"}) /\ <<>> \in Seq({"key", "reply", "wake"})
    OBVIOUS
  <2> QED
    BY <2>1, <2>2, <2>3, <2>4, <2>5
<1>3. CASE SendReply
  <2>1. UNCHANGED <<ops, kbd>> /\ (toQ' = toQ \/ toQ' = Put(toQ, "reply"))
    BY <1>3 DEF SendReply
  <2> QED
    BY <2>1, PutType
<1>4. CASE Forward
  <2>1. /\ UNCHANGED <<ops, kbd>>
        /\ toQ' = toQ \/ toQ' = <<>> \/ (toQ # <<>> /\ toQ' = Tail(toQ))
    BY <1>4 DEF Forward, worker
  <2>2. <<>> \in Seq({"reply", "wake"}) /\ <<>> \in Seq({"key", "reply", "wake"})
    OBVIOUS
  <2>3. \A S : toQ \in Seq(S) /\ toQ # <<>> => Tail(toQ) \in Seq(S)
    OBVIOUS
  <2> QED
    BY <2>1, <2>2, <2>3
<1>5. CASE Key
  <2>1. UNCHANGED <<ops, kbd>> /\ (toQ' = toQ \/ (kbd = "on" /\ toQ' = Put(toQ, "key")))
    BY <1>5 DEF Key, worker
  <2> QED
    BY <2>1, PutType
<1>6. CASE SelfRestore
  <2>1. UNCHANGED <<ops, kbd>> /\ toQ' = Put(toQ, "wake")
    BY <1>6 DEF SelfRestore, worker
  <2> QED
    BY <2>1, PutType
<1>7. CASE UNCHANGED <<ops, kbd, toQ>>
  BY <1>7
<1> QED
  BY <1>1, <1>2, <1>3, <1>4, <1>5, <1>6, <1>7
  DEF KbcNext, kbcVars, worker, HostWrite, Retrigger, TakeKeys, HostReads

\* cmdbyte_disable_kbd before purge_kb_queue: a keyboard disabled at the port leaves no
\* key to forward, whenever the typematic timer produced one.
THEOREM NoKeysWhileDisabledHolds == KbcSpec => []NoKeysWhileDisabled
<1>1. DisableInv => NoKeysWhileDisabled
  BY DEF DisableInv, NoKeysWhileDisabled
<1> QED
  BY DisableInit, DisableStep, <1>1, PTL DEF KbcSpec
-----------------------------------------------------------------------------
(* The keyboard matrix, KbsMatrix.                                         *)

LEMMA RepeatStep ==
  ASSUME RepeatsOnlyHeld, [MatrixNext]_kbsVars
  PROVE  RepeatsOnlyHeld'
<1> USE DEF RepeatsOnlyHeld
<1>1. ASSUME NEW k \in Keys, Press(k)
      PROVE  RepeatsOnlyHeld'
  <2>1. \E r : Make(k, r)
    BY <1>1 DEF Press
  <2>2. timer' => code' = k
    BY <2>1 DEF Make
  <2>3. k \in held'
    BY <1>1 DEF Press
  <2> QED
    BY <2>2, <2>3
<1>2. ASSUME NEW k \in Keys, Release(k)
      PROVE  RepeatsOnlyHeld'
  BY <1>2 DEF Release
<1>3. CASE PressFn \/ ReleaseFn \/ WinSlide
  BY <1>3 DEF PressFn, ReleaseFn, WinSlide
<1>4. CASE WriteTypematic \/ SetDefault
  BY <1>4 DEF WriteTypematic, SetDefault, WriteRate
<1>5. CASE Repeat \/ UNCHANGED kbsVars
  <2>1. timer' = timer /\ code' = code /\ held' = held
    BY <1>5 DEF Repeat, kbsVars
  <2> QED
    BY <2>1, Zenon
<1> QED
  BY <1>1, <1>2, <1>3, <1>4, <1>5 DEF MatrixNext

\* make_key and break_key stop the typematic timer before anything else: it never
\* runs on for a key that is up, for every keymap and Fn layer.
THEOREM RepeatsOnlyHeldHolds == MatrixSpec => []RepeatsOnlyHeld
<1>1. MatrixInit => RepeatsOnlyHeld
  BY DEF MatrixInit, RepeatsOnlyHeld
<1> QED
  BY <1>1, RepeatStep, PTL DEF MatrixSpec
-----------------------------------------------------------------------------
(* The ACPI interface, SmcHost.                                            *)

Increasing(s) == \A i, j \in DOMAIN s : i < j => s[i] < s[j]

\* Events wait in the order of their numbers, behind the last one given away.
OrderInv ==
  /\ reported \in Nat /\ seen \in Nat /\ acpiObf \in Nat \cup {Empty}
  /\ seen <= reported /\ acpiObf <= reported
  /\ q \in Seq(Nat) /\ Increasing(q)
  /\ \A i \in DOMAIN q : q[i] > 0 /\ q[i] > seen /\ q[i] <= reported
  /\ InOrder

LEMMA TailOrder ==
  ASSUME NEW s \in Seq(Nat), s # <<>>, Increasing(s)
  PROVE  /\ Tail(s) \in Seq(Nat) /\ Increasing(Tail(s)) /\ Head(s) \in Nat
         /\ \A i \in DOMAIN Tail(s) : i + 1 \in DOMAIN s /\ Tail(s)[i] = s[i + 1] /\ Head(s) < Tail(s)[i]
         /\ 1 \in DOMAIN s /\ Head(s) = s[1]
BY DEF Increasing

LEMMA EnqueueOrder ==
  ASSUME OrderInv, reported' = reported + 1, UNCHANGED <<acpiObf, seen>>,
         q' = q \/ q' = Append(q, reported + 1)
  PROVE  OrderInv'
<1>1. /\ reported' = reported + 1 /\ UNCHANGED <<acpiObf, seen>>
      /\ q' = q \/ q' = Append(q, reported + 1)
  OBVIOUS
<1>2. CASE q' = q
  BY <1>1, <1>2 DEF OrderInv, InOrder, Increasing, Empty
<1>3. CASE q' = Append(q, reported + 1)
  <2>1. /\ q' \in Seq(Nat) /\ DOMAIN q' = 1 .. Len(q) + 1 /\ DOMAIN q = 1 .. Len(q) /\ Len(q) \in Nat
        /\ \A i \in DOMAIN q : q'[i] = q[i]
        /\ q'[Len(q) + 1] = reported + 1
    BY <1>3 DEF OrderInv
  <2>2. Increasing(q')
    <3> SUFFICES ASSUME NEW i \in DOMAIN q', NEW j \in DOMAIN q', i < j
                 PROVE  q'[i] < q'[j]
      BY DEF Increasing
    <3>1. i \in DOMAIN q /\ q'[i] = q[i] /\ q[i] <= reported /\ q[i] \in Nat
      BY <2>1 DEF OrderInv
    <3>2. CASE j = Len(q) + 1
      BY <2>1, <3>1, <3>2 DEF OrderInv
    <3>3. CASE j \in DOMAIN q
      BY <2>1, <3>1, <3>3 DEF OrderInv, Increasing
    <3> QED
      BY <2>1, <3>2, <3>3
  <2>3. \A i \in DOMAIN q' : q'[i] > 0 /\ q'[i] > seen /\ q'[i] <= reported + 1
    BY <2>1 DEF OrderInv
  <2>4. InOrder'
    BY <1>1, <2>1 DEF OrderInv, InOrder, Empty
  <2> QED
    BY <1>1, <2>1, <2>2, <2>3, <2>4 DEF OrderInv, Increasing, Empty
<1> QED
  BY <1>1, <1>2, <1>3

LEMMA ServeOrder ==
  ASSUME OrderInv, Serve
  PROVE  OrderInv'
<1>0. seen' = seen
  BY DEF Serve
<1>1. CASE SetMode
  <2>1. UNCHANGED <<acpiObf, seen>>
    BY <1>0, <1>1 DEF SetMode
  <2>2. \/ UNCHANGED <<q, reported>>
        \/ reported' = reported + 1 /\ (q' = q \/ q' = Append(q, reported + 1))
    BY <1>1 DEF SetMode, FakeEvent, EnqueueSci
  <2>3. CASE UNCHANGED <<q, reported>>
    BY <2>1, <2>3 DEF OrderInv, InOrder, Increasing
  <2> QED
    BY <2>1, <2>2, <2>3, EnqueueOrder
<1>2. CASE QueryEc \/ ReadEc \/ ReadBegin
  <2>1. UNCHANGED <<seen, reported>>
    BY <1>0, <1>2 DEF QueryEc, ReadEc, ReadBegin
  <2>2. CASE UNCHANGED <<q, acpiObf>>
    BY <2>1, <2>2 DEF OrderInv, InOrder, Increasing
  <2>3. CASE acpiObf' = 0 /\ q' = q
    BY <2>1, <2>3 DEF OrderInv, InOrder, Increasing
  <2>4. CASE q # <<>> /\ acpiObf' = Head(q) /\ q' = Tail(q)
    <3>1. q \in Seq(Nat) /\ Increasing(q)
      BY DEF OrderInv
    <3>2. /\ q' \in Seq(Nat) /\ Increasing(q') /\ acpiObf' \in Nat
          /\ \A i \in DOMAIN q' : i + 1 \in DOMAIN q /\ q'[i] = q[i + 1] /\ acpiObf' < q'[i]
          /\ 1 \in DOMAIN q /\ acpiObf' = q[1]
      BY <2>4, <3>1, TailOrder
    <3>3. InOrder'
      BY <2>1, <3>2 DEF OrderInv, InOrder
    <3> QED
      BY <2>1, <3>2, <3>3 DEF OrderInv, Increasing
  <2> QED
    BY <1>2, <2>2, <2>3, <2>4 DEF QueryEc, ReadEc, ReadBegin
<1> QED
  BY <1>1, <1>2 DEF Serve

LEMMA OrderStep ==
  ASSUME OrderInv, [SmcNext]_smcVars
  PROVE  OrderInv'
<1>1. ASSUME NEW w, NotifyHost(w)
      PROVE  OrderInv'
  <2>1. /\ reported' = reported + 1 /\ UNCHANGED <<acpiObf, seen>>
        /\ q' = q \/ q' = Append(q, reported + 1)
    BY <1>1 DEF NotifyHost, EnqueueSci, hostVars
  <2> QED
    BY <2>1, EnqueueOrder
<1>2. CASE Serve
  BY <1>2, ServeOrder
<1>3. CASE UNCHANGED <<q, acpiObf, seen, reported>>
  BY <1>3 DEF OrderInv, InOrder, Increasing
<1>4. CASE HostRead
  BY <1>4 DEF HostRead, OrderInv, InOrder, Increasing, Empty
<1>5. CASE ResetEnds /\ reported' # reported
  <2>1. /\ reported' = reported + 1 /\ UNCHANGED <<acpiObf, seen>>
        /\ q' = q \/ q' = Append(q, reported + 1)
    BY <1>5 DEF ResetEnds, FakeEvent, EnqueueSci
  <2> QED
    BY <2>1, EnqueueOrder
<1>6. CASE ResetWarning \/ ApuReset \/ (ResetEnds /\ reported' = reported)
  <2>0. reported \in Nat
    BY DEF OrderInv
  <2>1. UNCHANGED <<seen, reported>> /\ acpiObf' \in {acpiObf, Empty} /\ q' \in {q, <<>>}
    BY <1>6, <2>0 DEF ResetWarning, ApuReset, ResetEnds, FakeEvent, hostVars
  <2>2. q' \in Seq(Nat) /\ Increasing(q') /\ \A i \in DOMAIN q' : q' = q
    <3>1. CASE q' = <<>>
      BY <3>1 DEF Increasing
    <3>2. CASE q' = q
      BY <3>2 DEF OrderInv
    <3> QED
      BY <2>1, <3>1, <3>2
  <2>3. acpiObf' \in Nat \cup {Empty} /\ acpiObf' <= reported /\ (acpiObf' > 0 => acpiObf' = acpiObf)
    BY <2>1 DEF OrderInv, Empty
  <2>4. InOrder'
    BY <2>1, <2>2, <2>3 DEF OrderInv, InOrder
  <2> QED
    BY <2>1, <2>2, <2>3, <2>4 DEF OrderInv, Increasing, Empty
<1> QED
  BY <1>1, <1>2, <1>3, <1>4, <1>5, <1>6
  DEF SmcNext, Wake, ServeEnd, CheckSciQueue, HostSci, HostCommand, HostResume, HostAddress,
      hostVars, smcVars

\* The host receives the events of ACPI_NotifyHost in the order in which they were
\* reported and each once, through queries, resets and a full queue.
THEOREM InOrderHolds == SmcSpec => []InOrder
<1>1. SmcInit => OrderInv
  BY DEF SmcInit, OrderInv, InOrder, Increasing, Empty
<1>2. OrderInv => InOrder
  BY DEF OrderInv
<1> QED
  BY <1>1, <1>2, OrderStep, PTL DEF SmcSpec

\* What the ports and the thread hold for each thing the host may wait for; a byte that
\* is not taken yet has woken the thread or will be served in this pass.
PortInv ==
  /\ ibf # "none" => acpiLock = 1 \/ smcPc = "serve"
  /\ host = "none" => acpiObf = Empty /\ ibf \in {"none", "enable", "disable"}
  /\ host = "resume" => acpiObf = Empty /\ ibf = "none"
  /\ host = "addr" => acpiObf = Empty /\ (ibf = "read" \/ (ibf = "none" /\ req = "read"))
  /\ host = "data" => \/ acpiObf = Empty /\ ibf = "addr" /\ req = "read"
                      \/ acpiObf # Empty /\ ibf = "none"
  /\ host = "event" => /\ mode
                       /\ \/ acpiObf = Empty /\ ibf = "query"
                          \/ acpiObf # Empty /\ ibf = "none"
  /\ asleep => host = "none" /\ ibf = "none"
  /\ host \in {"none", "resume", "addr", "data", "event"}

LEMMA ServePorts ==
  ASSUME OrderInv, PortInv, Serve
  PROVE  PortInv'
<1>1. smcPc = "serve" /\ ibf # "none" /\ ibf' = "none" /\ UNCHANGED <<smcPc, asleep, host>>
  BY DEF Serve
<1>2. CASE QueryEc
  <2>1. host = "event" /\ mode /\ acpiObf = Empty
    BY <1>2 DEF PortInv, QueryEc
  <2>2. acpiObf' \in Nat /\ mode' = mode
    BY <1>2, <2>1 DEF QueryEc, OrderInv
  <2> QED
    BY <1>1, <2>1, <2>2 DEF PortInv, Empty
<1>3. CASE ReadEc
  <2>1. host = "data" /\ acpiObf' = 0
    BY <1>3 DEF PortInv, ReadEc
  <2> QED
    BY <1>1, <2>1 DEF PortInv, Empty
<1>4. CASE ReadBegin
  <2>1. host = "addr" /\ acpiObf' = acpiObf /\ req' = "read"
    BY <1>4 DEF PortInv, ReadBegin
  <2> QED
    BY <1>1, <2>1 DEF PortInv
<1>5. CASE SetMode
  <2>1. host = "none" /\ acpiObf' = acpiObf
    BY <1>5 DEF PortInv, SetMode
  <2> QED
    BY <1>1, <2>1 DEF PortInv
<1> QED
  BY <1>2, <1>3, <1>4, <1>5 DEF Serve

LEMMA PortStep ==
  ASSUME OrderInv, PortInv, [SmcNext]_smcVars
  PROVE  PortInv'
<1>1. CASE Serve
  BY <1>1, ServePorts
<1>2. ASSUME NEW w, NotifyHost(w)
      PROVE  PortInv'
  BY <1>2 DEF NotifyHost, EnqueueSci, PortInv, hostVars
<1>3. CASE Wake \/ ServeEnd \/ CheckSciQueue
  BY <1>3 DEF Wake, ServeEnd, CheckSciQueue, PortInv, hostVars
<1>4. CASE HostSci \/ HostCommand
  BY <1>4 DEF HostSci, HostCommand, HostWrites, PortInv
<1>5. CASE HostResume \/ HostAddress
  BY <1>5 DEF HostResume, HostAddress, HostWrites, PortInv
<1>6. CASE HostRead
  BY <1>6 DEF HostRead, PortInv
<1>7. CASE ResetWarning \/ ApuReset \/ ResetEnds
  BY <1>7 DEF ResetWarning, ApuReset, ResetEnds, FakeEvent, EnqueueSci, PortInv, hostVars
<1>8. CASE UNCHANGED smcVars
  BY <1>8 DEF smcVars, hostVars, PortInv
<1> QED
  BY <1>1, <1>2, <1>3, <1>4, <1>5, <1>6, <1>7, <1>8 DEF SmcNext

\* A queued event is announced to the host, or the thread still has a pass to make, or the
\* host is in a transaction whose last read makes the thread run again.
SignalInv ==
  mode /\ q # <<>> =>
    \/ acpiLock = 1 \/ smcPc \in {"serve", "check"}
    \/ host # "none"
    \/ evt /\ pulse

LEMMA SignalStep ==
  ASSUME OrderInv, PortInv, SignalInv, smcPc \in {"wait", "serve", "check"}, [SmcNext]_smcVars
  PROVE  SignalInv' /\ smcPc' \in {"wait", "serve", "check"}
<1> USE DEF SignalInv
<1>1. CASE Serve
  BY <1>1 DEF Serve
<1>2. ASSUME NEW w, NotifyHost(w)
      PROVE  SignalInv' /\ smcPc' \in {"wait", "serve", "check"}
  BY <1>2 DEF NotifyHost, EnqueueSci, hostVars
<1>3. CASE Wake \/ ServeEnd
  BY <1>3 DEF Wake, ServeEnd, hostVars
<1>4. CASE CheckSciQueue
  <2>1. /\ smcPc = "check" /\ smcPc' = "wait" /\ UNCHANGED <<q, ibf, acpiObf, acpiLock, mode, host>>
        /\ ibf = "none" /\ acpiObf = Empty => evt' = (q # <<>>) /\ pulse' = (pulse \/ q # <<>>)
    BY <1>4 DEF CheckSciQueue
  <2>2. CASE ibf # "none"
    BY <2>1, <2>2 DEF PortInv
  <2>3. CASE acpiObf # Empty
    BY <2>1, <2>3 DEF PortInv
  <2> QED
    BY <2>1, <2>2, <2>3
<1>5. CASE HostSci
  BY <1>5 DEF HostSci, HostWrites
<1>6. CASE HostCommand \/ HostResume \/ HostAddress
  BY <1>6 DEF HostCommand, HostResume, HostAddress, HostWrites
<1>7. CASE HostRead
  BY <1>7 DEF HostRead
<1>8. CASE ResetWarning \/ ApuReset \/ ResetEnds
  BY <1>8 DEF ResetWarning, ApuReset, ResetEnds, FakeEvent, EnqueueSci
<1>9. CASE UNCHANGED smcVars
  BY <1>9 DEF smcVars, hostVars
<1> QED
  BY <1>1, <1>2, <1>3, <1>4, <1>5, <1>6, <1>7, <1>8, <1>9 DEF SmcNext

\* When smchost_thread goes back to wait for acpi_lock, the byte the host waits for is
\* in the output buffer and an event left in the queue has been announced, whichever
\* interrupts and resets came between: the part of EventsDelivered that is safety.
THEOREM NoWakeupLostHolds == SmcSpec => []NoWakeupLost
<1> DEFINE Inv == OrderInv /\ PortInv /\ SignalInv /\ smcPc \in {"wait", "serve", "check"}
<1>1. SmcInit => Inv
  BY DEF SmcInit, OrderInv, PortInv, SignalInv, InOrder, Increasing, Empty
<1>2. Inv /\ [SmcNext]_smcVars => Inv'
  BY OrderStep, PortStep, SignalStep
<1>3. Inv => NoWakeupLost
  BY DEF PortInv, SignalInv, NoWakeupLost
<1> HIDE DEF Inv
<1> QED
  BY <1>1, <1>2, <1>3, PTL DEF SmcSpec

\* What enqueue and dequeue do to a bounded queue.
BoundedQueue(s) == s \in Seq(1 .. MaxEvents) /\ Len(s) <= QueueSize

LEMMA QueueBounds ==
  ASSUME NEW S, NEW n \in Nat, NEW s \in Seq(S), Len(s) <= n
  PROVE  /\ \A e \in S : Len(s) < n => Append(s, e) \in Seq(S) /\ Len(Append(s, e)) <= n
         /\ s # <<>> => Tail(s) \in Seq(S) /\ Len(Tail(s)) <= n /\ Head(s) \in S
         /\ <<>> \in Seq(S) /\ Len(<<>>) <= n
OBVIOUS

LEMMA BoundedQueueStep ==
  ASSUME BoundedQueue(q)
  PROVE  /\ BoundedQueue(<<>>)
         /\ \A e \in 1 .. MaxEvents : Len(q) < QueueSize => BoundedQueue(Append(q, e))
         /\ q # <<>> => BoundedQueue(Tail(q)) /\ Head(q) \in 1 .. MaxEvents
<1>1. QueueSize \in Nat /\ q \in Seq(1 .. MaxEvents) /\ Len(q) <= QueueSize
  BY SmcAssumption DEF BoundedQueue
<1> QED
  BY <1>1, QueueBounds DEF BoundedQueue

\* SmcTypeOK without the queue.
ScalarsOK ==
  /\ acpiObf \in -1 .. MaxEvents /\ seen \in 0 .. MaxEvents /\ reported \in 0 .. MaxEvents
  /\ ibf \in {"none", "query", "read", "addr", "enable", "disable"}
  /\ req \in {"none", "read"} /\ acpiLock \in {0, 1} /\ smcPc \in {"wait", "serve", "check"}
  /\ host \in {"none", "resume", "addr", "data", "event"}
  /\ resets \in 0 .. MaxResets

FlagsOK ==
  /\ evt \in BOOLEAN /\ mode \in BOOLEAN /\ en \in BOOLEAN
  /\ asleep \in BOOLEAN /\ warned \in BOOLEAN /\ pulse \in BOOLEAN

LEMMA QueueStep ==
  ASSUME BoundedQueue(q), ScalarsOK, [SmcNext]_smcVars
  PROVE  BoundedQueue(q')
<1> DEFINE Enqueued == Len(q) < QueueSize /\ \E e \in 1 .. MaxEvents : q' = Append(q, e)
<1>1. ASSUME reported < MaxEvents, EnqueueSci(reported + 1)
      PROVE  q' = q \/ Enqueued
  <2>1. reported + 1 \in 1 .. MaxEvents
    BY <1>1, SmcAssumption DEF ScalarsOK
  <2> QED
    BY <1>1, <2>1 DEF EnqueueSci
<1>2. q' \in {q, <<>>} \/ (q # <<>> /\ q' = Tail(q)) \/ Enqueued
  <2> HIDE DEF Enqueued
  <2> QED
    BY <1>1
    DEF SmcNext, NotifyHost, Wake, Serve, QueryEc, ReadEc, ReadBegin, SetMode, FakeEvent, ServeEnd,
        CheckSciQueue, HostSci, HostCommand, HostResume, HostAddress, HostRead, ResetWarning,
        ApuReset, ResetEnds, smcVars
<1> QED
  BY <1>2, BoundedQueueStep

LEMMA ScalarsStep ==
  ASSUME BoundedQueue(q), ScalarsOK, [SmcNext]_smcVars
  PROVE  ScalarsOK'
<1> USE SmcAssumption DEF ScalarsOK
<1>1. ASSUME NEW w, NotifyHost(w)
      PROVE  ScalarsOK'
  BY <1>1 DEF NotifyHost, EnqueueSci, hostVars
<1>2. CASE Serve
  <2>1. /\ ibf' = "none" /\ req' \in {"none", "read"}
        /\ UNCHANGED <<smcPc, host, seen, resets>>
        /\ \/ UNCHANGED <<acpiLock, reported>>
           \/ acpiLock' = 1 /\ reported < MaxEvents /\ reported' = reported + 1
    BY <1>2 DEF Serve, QueryEc, ReadEc, ReadBegin, SetMode, FakeEvent, EnqueueSci
  <2>2. acpiObf' \in {acpiObf, 0} \/ (q # <<>> /\ acpiObf' = Head(q))
    BY <1>2 DEF Serve, QueryEc, ReadEc, ReadBegin, SetMode
  <2>3. acpiObf' \in -1 .. MaxEvents
    BY <2>2, BoundedQueueStep
  <2> QED
    BY <2>1, <2>3
<1>3. CASE Wake \/ ServeEnd \/ CheckSciQueue
  BY <1>3 DEF Wake, ServeEnd, CheckSciQueue, hostVars
<1>4. CASE HostSci \/ HostCommand \/ HostResume \/ HostAddress
  BY <1>4 DEF HostSci, HostCommand, HostResume, HostAddress, HostWrites
<1>5. CASE HostRead
  BY <1>5 DEF HostRead, Empty
<1>6. CASE ResetWarning \/ ApuReset \/ ResetEnds
  BY <1>6 DEF ResetWarning, ApuReset, ResetEnds, FakeEvent, EnqueueSci, Empty, hostVars
<1>7. CASE UNCHANGED smcVars
  BY <1>7 DEF smcVars, hostVars
<1> QED
  BY <1>1, <1>2, <1>3, <1>4, <1>5, <1>6, <1>7 DEF SmcNext

LEMMA FlagsStep ==
  ASSUME FlagsOK, [SmcNext]_smcVars
  PROVE  FlagsOK'
<1> USE SmcAssumption DEF FlagsOK
<1>1. ASSUME NEW w, NotifyHost(w)
      PROVE  FlagsOK'
  BY <1>1 DEF NotifyHost, EnqueueSci, hostVars
<1>2. CASE Serve
  <2>1. UNCHANGED <<en, asleep, warned>>
    BY <1>2 DEF Serve
  <2>2. mode' \in BOOLEAN
    BY <1>2, Zenon DEF Serve, QueryEc, ReadEc, ReadBegin, SetMode
  <2>3. evt' \in BOOLEAN /\ pulse' \in BOOLEAN
    BY <1>2, Zenon DEF Serve, QueryEc, ReadEc, ReadBegin, SetMode, AfterCommand, SciPending
  <2> QED
    BY <2>1, <2>2, <2>3
<1>3. CASE Wake \/ ServeEnd
  BY <1>3 DEF Wake, ServeEnd, hostVars
<1>4. CASE CheckSciQueue
  <2>1. UNCHANGED <<mode, en, asleep, warned>>
    BY <1>4 DEF CheckSciQueue
  <2>2. evt' \in BOOLEAN /\ pulse' \in BOOLEAN
    BY <1>4, Zenon DEF CheckSciQueue
  <2> QED
    BY <2>1, <2>2
<1>5. CASE HostSci \/ HostCommand \/ HostResume \/ HostAddress \/ HostRead
  BY <1>5 DEF HostSci, HostCommand, HostResume, HostAddress, HostRead
<1>6. CASE ResetWarning \/ ApuReset \/ ResetEnds
  BY <1>6 DEF ResetWarning, ApuReset, ResetEnds, hostVars
<1>7. CASE UNCHANGED smcVars
  BY <1>7 DEF smcVars, hostVars
<1> QED
  BY <1>1, <1>2, <1>3, <1>4, <1>5, <1>6, <1>7 DEF SmcNext

\* The bounds of enqueue_sci, acpi_query_ec and every other step: the queue never holds
\* more than SCIQ_SIZE events, and it and the output buffer only events that were reported.
THEOREM SmcTypeCorrect == SmcSpec => []SmcTypeOK
<1> DEFINE Inv == BoundedQueue(q) /\ ScalarsOK /\ FlagsOK
<1>1. SmcInit => Inv
  <2>1. \A S : <<>> \in Seq(S) /\ Len(<<>>) = 0
    OBVIOUS
  <2>2. SmcInit => BoundedQueue(q)
    BY <2>1, SmcAssumption DEF SmcInit, BoundedQueue
  <2>3. SmcInit => ScalarsOK
    BY SmcAssumption DEF SmcInit, ScalarsOK, Empty
  <2>4. SmcInit => FlagsOK
    BY DEF SmcInit, FlagsOK
  <2> QED
    BY <2>2, <2>3, <2>4
<1>2. Inv /\ [SmcNext]_smcVars => Inv'
  BY QueueStep, ScalarsStep, FlagsStep
<1>3. Inv => SmcTypeOK
  BY DEF BoundedQueue, ScalarsOK, FlagsOK, SmcTypeOK
<1> HIDE DEF Inv
<1> QED
  BY <1>1, <1>2, <1>3, PTL DEF SmcSpec
=============================================================================
