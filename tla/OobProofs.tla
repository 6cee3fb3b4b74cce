----------------------------- MODULE OobProofs -----------------------------
(***************************************************************************)
(* The out-of-band channel and the RPMC emulation behind it.  The channel  *)
(* goes back to accepting requests after every send of its own, and        *)
(* carries requests and replies whole.  What RPMC has acknowledged         *)
(* survives every power failure, and no value of the counter is            *)
(* acknowledged twice.  For every set of keys, size of the key block, the  *)
(* queue and the packets, and number of requests.                          *)
(***************************************************************************)
EXTENDS OobManager, Rpmc, WellFoundedInduction, TLAPS
-----------------------------------------------------------------------------
(* The out-of-band channel, OobManager.                                    *)

SemInv ==
  /\ sync \in {0, 1} /\ thr \in {"idle", "waiting", "closing", "replying"}
  /\ RequestsAccepted

LEMMA ReceiveSync ==
  ASSUME sync \in {0, 1}, NEW p, NEW last, Receive(p, last)
  PROVE  sync' = 1
BY DEF Receive

LEMMA SemStep ==
  ASSUME SemInv, [OobNext]_oobVars
  PROVE  SemInv'
<1> USE DEF SemInv, RequestsAccepted
<1>1. CASE SocSends \/ SocSendsOther \/ SocAnswers
  <2>1. sync' = 1 /\ thr' = thr
    BY <1>1, ReceiveSync DEF SocSends, SocSendsOther, SocAnswers
  <2> QED
    BY <2>1
<1>2. CASE SocBegins \/ SendAsync \/ UNCHANGED oobVars
  BY <1>2 DEF SocBegins, SendAsync, oobVars
<1>3. CASE SendSync \/ Close
  BY <1>3 DEF SendSync, Close
<1>4. CASE Process
  BY <1>4 DEF Process, outVars, inVars
<1>5. CASE SendReply
  BY <1>5 DEF SendReply
<1> QED
  BY <1>1, <1>2, <1>3, <1>4, <1>5 DEF OobNext

\* However a request of the EC ends, with its answer, without it or with a failure of
\* the send, oob_test_send_sync leaves the semaphore free.
THEOREM RequestsAcceptedHolds == OobSpec => []RequestsAccepted
<1>1. OobInit => SemInv
  BY DEF OobInit, SemInv, RequestsAccepted
<1>2. SemInv => RequestsAccepted
  BY DEF SemInv
<1> QED
  BY <1>1, <1>2, SemStep, PTL DEF OobSpec

\* The bytes 1 .. n of a reply.
Bytes(n) == [i \in 1 .. n |-> i]

\* The packet prepared continues what the SoC has received.
Prepared ==
  /\ outLen \in Nat /\ outPos \in Nat /\ outRemain \in Nat /\ outSeq \in Nat
  /\ outPos + outRemain = outLen
  /\ pkt.from \in Nat /\ pkt.len \in Nat \ {0} /\ pkt.from + pkt.len = outPos
  /\ pkt.seq = outSeq
  /\ pkt.eom <=> outRemain = 0
  /\ pkt.som => pkt.from = 0
  /\ ~pkt.som => inbox = Bytes(pkt.from) /\ expect = outSeq

ReplyInv ==
  /\ torn = FALSE
  /\ thr = "replying" => Prepared

\* What _prepare_output_message leaves, field by field.
LEMMA PrepareFields ==
  ASSUME NEW len, NEW pos \in Nat, NEW remain \in Nat, NEW seq, NEW todo \in Nat \ {0},
         todo = IF remain = 0 THEN len ELSE remain,
         PrepareOutput(len, pos, remain, seq)
  PROVE  /\ outLen' = len /\ outRemain' = BrokenUpLen(todo)
         /\ outSeq' = (IF remain = 0 THEN 0 ELSE (seq + 1) % 4)
         /\ outPos' = pos + (IF BrokenUpLen(todo) = 0 THEN todo ELSE FragMax)
         /\ pkt'.from = pos /\ pkt'.len = (IF BrokenUpLen(todo) = 0 THEN todo ELSE FragMax)
         /\ pkt'.seq = outSeq'
         /\ pkt'.som <=> remain = 0
         /\ pkt'.eom <=> outRemain' = 0
<1> DEFINE first == remain = 0
           rest == BrokenUpLen(todo)
           payload == IF rest = 0 THEN todo ELSE FragMax
           s == IF first THEN 0 ELSE (seq + 1) % 4
<1>1. /\ outLen' = len /\ outRemain' = rest /\ outSeq' = s /\ outPos' = pos + payload
      /\ pkt' = [from |-> pos, len |-> payload, som |-> first, eom |-> rest = 0, seq |-> s]
  BY Zenon DEF PrepareOutput
<1> QED
  BY <1>1

\* How much of what is left goes into the next packet.
Payload(todo) == IF BrokenUpLen(todo) = 0 THEN todo ELSE FragMax

LEMMA BrokenUp ==
  ASSUME NEW todo \in Nat \ {0}
  PROVE  /\ BrokenUpLen(todo) \in Nat /\ Payload(todo) \in Nat \ {0}
         /\ Payload(todo) + BrokenUpLen(todo) = todo
BY FragAssumption DEF BrokenUpLen, Payload

LEMMA PrepareFirst ==
  ASSUME NEW len \in ReplyLengths, PrepareOutput(len, 0, 0, 0)
  PROVE  Prepared'
<1>1. len \in Nat \ {0}
  BY ReplyAssumption
<1>2. /\ outLen' = len /\ outRemain' = BrokenUpLen(len) /\ outSeq' = 0
      /\ outPos' = 0 + Payload(len) /\ pkt'.from = 0 /\ pkt'.len = Payload(len)
      /\ pkt'.seq = outSeq' /\ pkt'.som /\ (pkt'.eom <=> outRemain' = 0)
  BY <1>1, PrepareFields DEF Payload
<1> QED
  BY <1>1, <1>2, BrokenUp DEF Prepared

LEMMA PrepareRest ==
  ASSUME Prepared, outRemain # 0, PrepareOutput(outLen, outPos, outRemain, outSeq),
         inbox' = Bytes(outPos), expect' = (outSeq + 1) % 4
  PROVE  Prepared'
<1>1. outRemain \in Nat \ {0} /\ outPos \in Nat /\ outLen \in Nat /\ outPos + outRemain = outLen
  BY DEF Prepared
<1>2. (outSeq + 1) % 4 \in Nat
  BY DEF Prepared
<1>3. /\ outLen' = outLen /\ outRemain' = BrokenUpLen(outRemain) /\ outSeq' = (outSeq + 1) % 4
      /\ outPos' = outPos + Payload(outRemain)
      /\ pkt'.from = outPos /\ pkt'.len = Payload(outRemain)
      /\ pkt'.seq = outSeq' /\ ~pkt'.som /\ (pkt'.eom <=> outRemain' = 0)
  BY <1>1, PrepareFields DEF Payload
<1> QED
  BY <1>1, <1>2, <1>3, BrokenUp DEF Prepared

LEMMA BytesAppended ==
  ASSUME NEW k \in Nat, NEW n \in Nat
  PROVE  Bytes(k) \o [i \in 1 .. n |-> k + i] = Bytes(k + n)
BY DEF Bytes

LEMMA SendReplyWhole ==
  ASSUME ReplyInv, SendReply
  PROVE  ReplyInv'
<1>1. thr = "replying" /\ Prepared
  BY DEF SendReply, ReplyInv
<1>2. CASE thr' = "idle" /\ UNCHANGED socIn
  BY <1>2 DEF ReplyInv, socIn
<1>3. CASE SocReceives(pkt)
  <2> DEFINE bytes == [i \in 1 .. pkt.len |-> pkt.from + i]
             got == IF pkt.som THEN bytes ELSE inbox \o bytes
  <2>1. got = Bytes(outPos)
    <3>1. CASE pkt.som
      BY <1>1, <3>1 DEF Bytes, Prepared
    <3>2. CASE ~pkt.som
      BY <1>1, <3>2, BytesAppended DEF Prepared
    <3> QED
      BY <3>1, <3>2
  <2>2. /\ inbox' = IF pkt.eom THEN <<>> ELSE got
        /\ expect' = IF pkt.eom THEN -1 ELSE (pkt.seq + 1) % 4
        /\ torn' = (torn \/ (~pkt.som /\ pkt.seq # expect) \/ pkt.len = 0
                         \/ (pkt.eom /\ got # Bytes(outLen)))
    BY <1>3, Zenon DEF SocReceives, Bytes
  <2>4. outRemain = 0 => outPos = outLen
    BY <1>1 DEF Prepared
  <2>5. torn' = FALSE
    BY <1>1, <2>1, <2>2, <2>4 DEF ReplyInv, Prepared
  <2>6. CASE outRemain = 0
    BY <1>2, <2>5, <2>6 DEF SendReply, ReplyInv
  <2>7. CASE outRemain # 0
    <3>1. thr' = "idle" \/ PrepareOutput(outLen, outPos, outRemain, outSeq)
      BY <2>7 DEF SendReply
    <3>2. PrepareOutput(outLen, outPos, outRemain, outSeq) => Prepared'
      BY <1>1, <2>1, <2>2, <2>7, PrepareRest DEF Prepared
    <3> QED
      BY <2>5, <3>1, <3>2 DEF ReplyInv
  <2> QED
    BY <2>6, <2>7
<1> QED
  BY <1>2, <1>3 DEF SendReply

LEMMA ReplyStep ==
  ASSUME ReplyInv, [OobNext]_oobVars
  PROVE  ReplyInv'
<1>1. CASE SendReply
  BY <1>1, SendReplyWhole
<1>2. CASE Process
  <2>1. UNCHANGED socIn /\ thr = "idle"
    BY <1>2 DEF Process
  <2>2. thr' = thr \/ (thr' = "replying" /\ \E n \in ReplyLengths : PrepareOutput(n, 0, 0, 0))
    BY <1>2 DEF Process
  <2>3. thr' = "replying" => Prepared'
    BY <2>1, <2>2, PrepareFirst
  <2> QED
    BY <2>1, <2>3 DEF ReplyInv, socIn
<1>3. CASE UNCHANGED <<outVars, socIn>> /\ (thr' = "replying" => thr = "replying")
  BY <1>3 DEF ReplyInv, Prepared, outVars, socIn
<1> QED
  BY <1>1, <1>2, <1>3 DEF OobNext, SocBegins, SocSends, SocSendsOther, SocAnswers, SendAsync,
                          SendSync, Close, oobVars

(* The requests of the SoC, as long as none of its packets was lost and the EC has *)
(* sent nothing of its own.                                                        *)

Packets == (Nat \X (Nat \ {0})) \cup {BadHeader}

\* The queued packet e takes the reassembly from prev, a message and the number of its
\* packets gathered, to next.
Link(prev, e, next) ==
  IF e[1] = BadHeader
  THEN next = prev
  ELSE /\ e[1][2] = 1 \/ prev = <<e[1][1], e[1][2] - 1>>
       /\ next = <<e[1][1], IF e[2] THEN 0 ELSE e[1][2]>>

\* w[j] is what the first j packets of the queue make of what is gathered now; the SoC
\* goes on where the last one ends.
Gathered(w) ==
  /\ w[0][2] = inPos
  /\ \A i \in 1 .. inPos : inBuf[i] = <<w[0][1], i>>
  /\ \A j \in 1 .. Len(msgq) : Link(w[j - 1], msgq[j], w[j])
  /\ soc.next > 1 /\ soc.next <= soc.size => w[Len(msgq)] = <<soc.msg, soc.next - 1>>

Typed ==
  /\ thr \in {"idle", "replying"} /\ sync = 1 /\ ~awaited
  /\ inBuf \in Seq(Packets) /\ inPos \in 0 .. Len(inBuf)
  /\ msgq \in Seq(Packets \X BOOLEAN)
  /\ soc \in [msg : Nat, next : Nat \ {0}, size : Nat]

Undisturbed ==
  /\ Typed /\ ~mixed
  /\ \E w \in [0 .. Len(msgq) -> Nat \X Nat] : Gathered(w)

StreamInv ==
  /\ sends \in Nat
  /\ ~lost /\ sends = 0 => Undisturbed

\* A packet added to the queue is one more step of the reassembly.
LEMMA Queued ==
  ASSUME Typed, NEW w \in [0 .. Len(msgq) -> Nat \X Nat], Gathered(w),
         NEW e \in Packets \X BOOLEAN, NEW next \in Nat \X Nat, Link(w[Len(msgq)], e, next),
         msgq' = Append(msgq, e), UNCHANGED <<inBuf, inPos>>,
         soc'.next > 1 /\ soc'.next <= soc'.size => next = <<soc'.msg, soc'.next - 1>>
  PROVE  \E v \in [0 .. Len(msgq') -> Nat \X Nat] : Gathered(v)'
<1> DEFINE n == Len(msgq)
<1>1. n \in Nat /\ Len(msgq') = n + 1
  BY DEF Typed
<1>2. PICK v : v = [j \in 0 .. n + 1 |-> IF j <= n THEN w[j] ELSE next]
  OBVIOUS
<1>3. v \in [0 .. Len(msgq') -> Nat \X Nat]
  BY <1>1, <1>2
<1>4. v[0] = w[0] /\ v[Len(msgq')] = next
  BY <1>1, <1>2
<1>5. ASSUME NEW j \in 1 .. Len(msgq')
      PROVE  Link(v[j - 1], msgq'[j], v[j])
  <2>1. CASE j <= n
    <3>1. msgq'[j] = msgq[j] /\ v[j] = w[j] /\ v[j - 1] = w[j - 1] /\ j \in 1 .. n
      BY <1>1, <1>2, <2>1 DEF Typed
    <3> QED
      BY <3>1 DEF Gathered
  <2>2. CASE ~(j <= n)
    <3>1. j = n + 1 /\ msgq'[j] = e /\ v[j] = next /\ v[j - 1] = w[n]
      BY <1>1, <1>2, <2>2 DEF Typed
    <3> QED
      BY <3>1
  <2> QED
    BY <2>1, <2>2
<1>6. Gathered(v)'
  BY <1>4, <1>5 DEF Gathered
<1> QED
  BY <1>3, <1>6

\* A packet taken from the queue leaves the rest of the steps.
LEMMA Dequeued ==
  ASSUME Typed, NEW w \in [0 .. Len(msgq) -> Nat \X Nat], Gathered(w),
         msgq # <<>>, msgq' = Tail(msgq), UNCHANGED soc,
         w[1][2] = inPos', \A i \in 1 .. inPos' : inBuf'[i] = <<w[1][1], i>>
  PROVE  \E v \in [0 .. Len(msgq') -> Nat \X Nat] : Gathered(v)'
<1> DEFINE n == Len(msgq)
<1>1. n \in Nat \ {0} /\ Len(msgq') = n - 1
  BY DEF Typed
<1>2. PICK v : v = [j \in 0 .. n - 1 |-> w[j + 1]]
  OBVIOUS
<1>3. v \in [0 .. Len(msgq') -> Nat \X Nat]
  BY <1>1, <1>2
<1>4. v[0] = w[1] /\ v[Len(msgq')] = w[n]
  BY <1>1, <1>2
<1>5. ASSUME NEW j \in 1 .. Len(msgq')
      PROVE  Link(v[j - 1], msgq'[j], v[j])
  <2>1. msgq'[j] = msgq[j + 1] /\ v[j] = w[j + 1] /\ v[j - 1] = w[j] /\ j + 1 \in 1 .. n
    BY <1>1, <1>2 DEF Typed
  <2>2. Link(w[(j + 1) - 1], msgq[j + 1], w[j + 1])
    BY <2>1 DEF Gathered
  <2>3. (j + 1) - 1 = j
    OBVIOUS
  <2> QED
    BY <2>1, <2>2, <2>3
<1>6. Gathered(v)'
  BY <1>4, <1>5 DEF Gathered
<1> QED
  BY <1>3, <1>6

\* oob_rx_handler while the semaphore is free: the packet is queued, or dropped and the
\* loss recorded.
LEMMA ReceiveKeeps ==
  ASSUME Undisturbed, NEW p \in Packets, NEW last \in BOOLEAN, Receive(p, last), ~lost',
         UNCHANGED <<thr, inVars, awaited>>,
         p = BadHeader => UNCHANGED soc,
         p # BadHeader => /\ soc.next <= soc.size /\ p = <<soc.msg, soc.next>>
                          /\ last = (soc.next = soc.size)
                          /\ soc' = [soc EXCEPT !.next = @ + 1]
  PROVE  Undisturbed'
<1>1. Typed /\ ~mixed
  BY DEF Undisturbed
<1>2. PICK w \in [0 .. Len(msgq) -> Nat \X Nat] : Gathered(w)
  BY DEF Undisturbed
<1>3. sync' = 1 /\ soc' \in [msg : Nat, next : Nat \ {0}, size : Nat]
  BY <1>1 DEF Receive, Typed
<1>4. UNCHANGED <<thr, inBuf, inPos, mixed, awaited>>
  BY DEF inVars
<1>5. CASE Len(msgq) < QueueSize
  <2>1. msgq' = Append(msgq, <<p, last>>) /\ <<p, last>> \in Packets \X BOOLEAN
    BY <1>1, <1>5 DEF Receive, Typed
  <2>2. msgq' \in Seq(Packets \X BOOLEAN)
    BY <1>1, <2>1 DEF Typed
  <2>3. Typed'
    BY <1>1, <1>3, <1>4, <2>2 DEF Typed
  <2>4. w[Len(msgq)] \in Nat \X Nat
    BY <1>1 DEF Typed
  <2>5. CASE p = BadHeader
    <3>1. Link(w[Len(msgq)], <<p, last>>, w[Len(msgq)])
      BY <2>5 DEF Link
    <3>2. UNCHANGED soc
      BY <2>5
    <3>3. soc'.next > 1 /\ soc'.next <= soc'.size => w[Len(msgq)] = <<soc'.msg, soc'.next - 1>>
      BY <1>2, <3>2 DEF Gathered
    <3>4. \E v \in [0 .. Len(msgq') -> Nat \X Nat] : Gathered(v)'
      BY <1>1, <1>2, <1>4, <2>1, <2>4, <3>1, <3>3, Queued
    <3> QED
      BY <1>1, <1>4, <2>3, <3>4 DEF Undisturbed
  <2>6. CASE p # BadHeader
    <3> DEFINE next == <<soc.msg, IF last THEN 0 ELSE soc.next>>
    <3>1. /\ p[1] = soc.msg /\ p[2] = soc.next /\ soc.msg \in Nat /\ soc.next \in Nat \ {0}
          /\ soc.size \in Nat
      BY <1>1, <2>6 DEF Typed
    <3>2. next \in Nat \X Nat
      BY <3>1
    <3>3. soc.next = 1 \/ w[Len(msgq)] = <<soc.msg, soc.next - 1>>
      BY <1>2, <2>6, <3>1 DEF Gathered
    <3>4. Link(w[Len(msgq)], <<p, last>>, next)
      BY <2>6, <3>1, <3>3 DEF Link
    <3>5. soc'.msg = soc.msg /\ soc'.next = soc.next + 1 /\ soc'.size = soc.size
      BY <1>1, <2>6 DEF Typed
    <3>6. soc'.next > 1 /\ soc'.next <= soc'.size => next = <<soc'.msg, soc'.next - 1>>
      <4>1. soc.next + 1 <= soc.size => soc.next # soc.size /\ (soc.next + 1) - 1 = soc.next
        BY <3>1
      <4>2. soc.next # soc.size => ~last
        BY <2>6, Zenon
      <4> QED
        BY <3>5, <4>1, <4>2
    <3> HIDE DEF next
    <3>7. \E v \in [0 .. Len(msgq') -> Nat \X Nat] : Gathered(v)'
      BY <1>1, <1>2, <1>4, <2>1, <3>2, <3>4, <3>6, Queued
    <3> QED
      BY <1>1, <1>4, <2>3, <3>7 DEF Undisturbed
  <2> QED
    BY <2>5, <2>6
<1>6. CASE ~(Len(msgq) < QueueSize)
  <2>1. msgq' = msgq /\ p = BadHeader
    <3>1. sync > 0 /\ Len(msgq) >= QueueSize
      BY <1>1, <1>6, QueueAssumption DEF Typed
    <3>2. lost' = (lost \/ (p # BadHeader /\ Len(msgq) >= QueueSize)) /\ msgq' = msgq
      BY <1>6, <3>1 DEF Receive
    <3> QED
      BY <3>1, <3>2, Zenon
  <2>2. Typed' /\ Gathered(w)'
    BY <1>1, <1>2, <1>3, <1>4, <2>1 DEF Typed, Gathered
  <2> QED
    BY <1>1, <1>4, <2>1, <2>2 DEF Undisturbed
<1> QED
  BY <1>5, <1>6

\* A packet of a request goes where _handle_input_fragmentation expects it.
LEMMA ReassembleKeeps ==
  ASSUME Typed, NEW w \in [0 .. Len(msgq) -> Nat \X Nat], Gathered(w), msgq # <<>>,
         NEW p \in Nat \X (Nat \ {0}), NEW last \in BOOLEAN, msgq[1] = <<p, last>>,
         Reassemble(p, last)
  PROVE  /\ inBuf' \in Seq(Packets) /\ inPos' \in 0 .. Len(inBuf')
         /\ \A i \in DOMAIN inBuf' : inBuf'[i] = <<p[1], i>>
         /\ w[1] = <<p[1], inPos'>>
<1> DEFINE at == IF p[2] = 1 THEN 0 ELSE inPos
<1>1. p # BadHeader /\ p \in Packets
  BY DEF BadHeader, Packets
<1>2. Len(msgq) \in Nat \ {0} /\ w[0] \in Nat \X Nat
  BY DEF Typed
<1>3. Link(w[1 - 1], msgq[1], w[1])
  BY <1>2 DEF Gathered
<1>4. /\ p[2] = 1 \/ w[0] = <<p[1], p[2] - 1>>
      /\ w[1] = <<p[1], IF last THEN 0 ELSE p[2]>>
  BY <1>1, <1>3 DEF Link
<1>5. at = p[2] - 1 /\ at \in 0 .. Len(inBuf)
  BY <1>4 DEF Gathered, Typed
<1>6. \A i \in 1 .. at : inBuf[i] = <<p[1], i>>
  BY <1>4, <1>5 DEF Gathered, Typed
<1>7. inBuf' = Append(SubSeq(inBuf, 1, at), p) /\ inPos' = IF last THEN 0 ELSE at + 1
  BY DEF Reassemble
<1> HIDE DEF at
<1>8. SubSeq(inBuf, 1, at) \in Seq(Packets) /\ Len(SubSeq(inBuf, 1, at)) = at
  BY <1>5 DEF Typed
<1>9. \A i \in 1 .. at : SubSeq(inBuf, 1, at)[i] = inBuf[i]
  BY <1>5 DEF Typed
<1>10. inBuf' \in Seq(Packets) /\ Len(inBuf') = at + 1 /\ DOMAIN inBuf' = 1 .. at + 1
  BY <1>1, <1>5, <1>7, <1>8
<1>11. \A i \in 1 .. at + 1 : inBuf'[i] = <<p[1], i>>
  <2>1. p = <<p[1], at + 1>>
    BY <1>5
  <2>2. inBuf'[at + 1] = p
    BY <1>5, <1>7, <1>8
  <2>3. \A i \in 1 .. at : inBuf'[i] = SubSeq(inBuf, 1, at)[i]
    BY <1>5, <1>7, <1>8
  <2>4. \A i \in 1 .. at + 1 : i \in 1 .. at \/ i = at + 1
    BY <1>5
  <2> QED
    BY <1>6, <1>9, <2>1, <2>2, <2>3, <2>4
<1>12. inPos' = (IF last THEN 0 ELSE p[2]) /\ inPos' \in 0 .. Len(inBuf')
  BY <1>5, <1>7, <1>10
<1> QED
  BY <1>4, <1>10, <1>11, <1>12

LEMMA ProcessKeeps ==
  ASSUME Undisturbed, Process
  PROVE  Undisturbed'
<1>1. Typed /\ ~mixed
  BY DEF Undisturbed
<1>2. PICK w \in [0 .. Len(msgq) -> Nat \X Nat] : Gathered(w)
  BY DEF Undisturbed
<1>3. msgq # <<>> /\ msgq' = Tail(msgq) /\ UNCHANGED <<sync, soc, awaited>>
  BY DEF Process
<1>4. msgq[1] \in Packets \X BOOLEAN /\ Head(msgq) = msgq[1] /\ msgq' \in Seq(Packets \X BOOLEAN)
  BY <1>1, <1>3 DEF Typed
<1>5. PICK p \in Packets, last \in BOOLEAN : msgq[1] = <<p, last>>
  BY <1>4
<1>6. Head(msgq)[1] = p /\ Head(msgq)[2] = last
  BY <1>4, <1>5
<1>7. thr' \in {"idle", "replying"}
  BY <1>1 DEF Process, Typed
<1>8. CASE p = BadHeader
  <2>1. UNCHANGED <<inBuf, inPos, mixed>>
    BY <1>6, <1>8 DEF Process, inVars
  <2>2. w[1] = w[0]
    <3>1. 1 \in 1 .. Len(msgq)
      BY <1>1, <1>3 DEF Typed
    <3>2. Link(w[1 - 1], msgq[1], w[1])
      BY <1>2, <3>1 DEF Gathered
    <3> QED
      BY <1>5, <1>8, <3>2 DEF Link
  <2>3. w[1][2] = inPos' /\ \A i \in 1 .. inPos' : inBuf'[i] = <<w[1][1], i>>
    BY <1>2, <2>1, <2>2 DEF Gathered
  <2>4. \E v \in [0 .. Len(msgq') -> Nat \X Nat] : Gathered(v)'
    BY <1>1, <1>2, <1>3, <2>3, Dequeued
  <2>5. Typed'
    BY <1>1, <1>3, <1>4, <1>7, <2>1 DEF Typed
  <2> QED
    BY <1>1, <2>1, <2>4, <2>5 DEF Undisturbed
<1>9. CASE p # BadHeader
  <2>1. p \in Nat \X (Nat \ {0}) /\ Reassemble(p, last)
    BY <1>6, <1>9 DEF Process, Packets
  <2>2. /\ inBuf' \in Seq(Packets) /\ inPos' \in 0 .. Len(inBuf')
        /\ \A i \in DOMAIN inBuf' : inBuf'[i] = <<p[1], i>>
        /\ w[1] = <<p[1], inPos'>>
    BY <1>1, <1>2, <1>3, <1>5, <2>1, ReassembleKeeps
  <2>3. w[1][2] = inPos' /\ \A i \in 1 .. inPos' : inBuf'[i] = <<w[1][1], i>>
    BY <2>2
  <2>4. \E v \in [0 .. Len(msgq') -> Nat \X Nat] : Gathered(v)'
    BY <1>1, <1>2, <1>3, <2>3, Dequeued
  <2>5. Typed'
    BY <1>1, <1>3, <1>4, <1>7, <2>2 DEF Typed
  <2>6. ~mixed'
    <3>1. \/ mixed' = mixed
          \/ mixed' = (mixed \/ \E i \in DOMAIN inBuf' : inBuf'[i] # <<p[1], i>>)
      BY <1>6, <1>9 DEF Process
    <3> QED
      BY <1>1, <2>2, <3>1
  <2> QED
    BY <2>4, <2>5, <2>6 DEF Undisturbed
<1> QED
  BY <1>8, <1>9

LEMMA StreamStep ==
  ASSUME StreamInv, [OobNext]_oobVars
  PROVE  StreamInv'
<1>1. sends' \in Nat /\ (sends' = 0 => sends = 0 /\ ~SendAsync)
  <2>1. SendAsync => sends' = sends + 1
    BY DEF SendAsync
  <2>2. SendAsync \/ sends' = sends
    BY DEF OobNext, SocBegins, SocSends, SocSendsOther, SocAnswers, SendSync, Close, Process,
           SendReply, oobVars
  <2> QED
    BY <2>1, <2>2 DEF StreamInv
<1>2. lost => lost'
  BY DEF StreamInv, OobNext, SocBegins, SocSends, SocSendsOther, SocAnswers, SendAsync, SendSync,
         Close, Process, SendReply, oobVars, Receive
<1> SUFFICES ASSUME ~lost', sends' = 0
             PROVE  Undisturbed'
  BY <1>1 DEF StreamInv
<1>3. Undisturbed /\ Typed
  BY <1>1, <1>2 DEF StreamInv, Undisturbed
<1>4. CASE SocSends
  <2>1. <<soc.msg, soc.next>> \in Packets /\ <<soc.msg, soc.next>> # BadHeader
    BY <1>3 DEF Typed, Packets, BadHeader
  <2> QED
    BY <1>3, <1>4, <2>1, ReceiveKeeps DEF SocSends
<1>5. CASE SocSendsOther
  BY <1>3, <1>5, ReceiveKeeps DEF SocSendsOther, Packets
<1>6. CASE Process
  BY <1>3, <1>6, ProcessKeeps
<1>7. CASE SocBegins
  <2>1. PICK n \in 1 .. MaxFrags : soc' = [msg |-> soc.msg + 1, next |-> 1, size |-> n]
    BY <1>7 DEF SocBegins
  <2>2. UNCHANGED <<msgq, sync, thr, inBuf, inPos, mixed, awaited>>
    BY <1>7 DEF SocBegins, inVars
  <2>3. Typed' /\ ~(soc'.next > 1)
    BY <1>3, <2>1, <2>2 DEF Typed
  <2> QED
    BY <1>3, <2>2, <2>3 DEF Undisturbed, Gathered
<1>8. ~SocAnswers /\ ~SendSync /\ ~Close
  <2>1. ASSUME msgq # <<>>
        PROVE  Head(msgq)[1] # EcRequest
    BY <1>3, <2>1 DEF Typed, Packets, EcRequest, BadHeader
  <2> QED
    BY <1>3, <2>1 DEF SocAnswers, SendSync, Close, Typed
<1>9. CASE SendReply \/ UNCHANGED oobVars
  <2>1. UNCHANGED <<msgq, sync, inBuf, inPos, mixed, soc, awaited>> /\ thr' \in {thr, "idle"}
    BY <1>9 DEF SendReply, oobVars, inVars
  <2> QED
    BY <1>3, <2>1 DEF Undisturbed, Typed, Gathered
<1> QED
  BY <1>1, <1>4, <1>5, <1>6, <1>7, <1>8, <1>9 DEF OobNext

\* Whatever the SoC sends and gives up, a request that is carried out is one it sent,
\* packet for packet, unless the queue dropped one or the EC was sending too; and every
\* reply of every length arrives whole and numbered.
THEOREM WholeMessagesHolds == OobSpec => []WholeMessages
<1>1. OobInit => ReplyInv
  BY DEF OobInit, ReplyInv
<1>2. OobInit => StreamInv
  <2> SUFFICES ASSUME OobInit PROVE StreamInv
    OBVIOUS
  <2>1. Typed /\ ~mixed /\ sends \in Nat
    BY DEF OobInit, Typed
  <2> DEFINE w == [j \in 0 .. 0 |-> <<0, 0>>]
  <2>2. w \in [0 .. Len(msgq) -> Nat \X Nat] /\ Gathered(w)
    BY DEF OobInit, Gathered
  <2> QED
    BY <2>1, <2>2 DEF StreamInv, Undisturbed
<1>3. ReplyInv /\ StreamInv => WholeMessages
  BY DEF ReplyInv, StreamInv, Undisturbed, WholeMessages
<1> QED
  BY <1>1, <1>2, <1>3, ReplyStep, StreamStep, PTL DEF OobSpec
-----------------------------------------------------------------------------
(* The RPMC emulation, Rpmc.                                               *)

Records == [Cell -> AnyKey \cup {Empty, Broken}]
-----------------------------------------------------------------------------
(* The scan of the key block.                                              *)

LEMMA LeastNumber ==
  ASSUME NEW S, S \subseteq Nat, S # {}
  PROVE  \E x \in S : \A y \in S : x <= y
<1> DEFINE R == {ss \in Nat \X Nat : ss[1] < ss[2]}
<1>1. IsWellFoundedOn(R, Nat)
  BY NatLessThanWellFounded, Zenon DEF OpToRel
<1> HIDE DEF R
<1>2. PICK x \in S : \A y \in S : ~ (<<y, x>> \in R)
  BY <1>1, WFMin, Zenon
<1>3. \A y \in S : ~(y < x)
  BY <1>2 DEF R
<1> QED
  BY <1>3

LEMMA LowestIsLeast ==
  ASSUME KeysDistinct, NEW S, S \subseteq Cell, S # {}
  PROVE  Lowest(S) \in S /\ \A b \in S : Lowest(S) <= b
<1>1. S \subseteq Nat
  BY DEF Cell, KeysDistinct
<1>2. \E a \in S : \A b \in S : a <= b
  BY <1>1, LeastNumber
<1> QED
  BY <1>2 DEF Lowest

LEMMA FoundKeyType ==
  ASSUME KeysDistinct, NEW m \in Records
  PROVE  /\ FoundKey(m) \in AnyKey \cup {NoKey}
         /\ FoundKey(m) = NoKey <=> Whole(m) = {}
<1>1. CASE Whole(m) = {}
  BY <1>1 DEF FoundKey
<1>2. CASE Whole(m) # {}
  <2>1. Lowest(Whole(m)) \in Whole(m)
    BY <1>2, LowestIsLeast DEF Whole
  <2>2. m[Lowest(Whole(m))] \in AnyKey
    BY <2>1 DEF Whole
  <2> QED
    BY <1>2, <2>2 DEF FoundKey, KeysDistinct
<1> QED
  BY <1>1, <1>2

\* A whole record below all others is the one the scan takes.
LEMMA FoundKeyLowest ==
  ASSUME KeysDistinct, NEW m \in Records, NEW a \in Cell, m[a] \in AnyKey,
         \A b \in Cell : b < a => m[b] = Empty
  PROVE  FoundKey(m) = m[a]
<1>1. a \in Whole(m) /\ Whole(m) \subseteq Cell
  BY DEF Whole
<1>2. Lowest(Whole(m)) \in Whole(m) /\ Lowest(Whole(m)) <= a
  BY <1>1, LowestIsLeast
<1>3. Lowest(Whole(m)) \in Cell /\ m[Lowest(Whole(m))] \in AnyKey
  BY <1>2 DEF Whole
<1>4. m[Lowest(Whole(m))] # Empty
  BY <1>3 DEF KeysDistinct
<1>5. Lowest(Whole(m)) = a
  BY <1>2, <1>3, <1>4 DEF Cell, KeysDistinct
<1> QED
  BY <1>1, <1>5 DEF FoundKey

LEMMA ErasedRecords ==
  ASSUME KeysDistinct
  PROVE  ErasedKeys \in Records /\ Whole(ErasedKeys) = {} /\ FoundKey(ErasedKeys) = NoKey
BY DEF ErasedKeys, Records, Whole, KeysDistinct, FoundKey

\* What a power-up makes of any contents of the block.
LEMMA ScanResult ==
  ASSUME KeysDistinct, NEW m \in Records
  PROVE  /\ Scanned(m) \in Records
         /\ FoundAddr(m) \in Cell \cup {NoAddr}
         /\ FoundAddr(m) = NoAddr => Scanned(m) = ErasedKeys
         /\ \A a \in Cell : a < FoundAddr(m) => Scanned(m)[a] = Empty
         /\ FoundKey(Scanned(m)) = FoundKey(m)
<1>1. CASE Whole(m) = {}
  <2>1. \A a \in Cell : ~(a < NoAddr)
    BY DEF Cell, NoAddr, KeysDistinct
  <2> QED
    BY <1>1, <2>1, ErasedRecords DEF Scanned, FoundAddr, FoundKey
<1>2. CASE Whole(m) # {}
  <2>1. Used(m) \subseteq Cell /\ Used(m) # {}
    BY <1>2 DEF Used, Whole, KeysDistinct
  <2>2. Lowest(Used(m)) \in Used(m) /\ \A b \in Used(m) : Lowest(Used(m)) <= b
    BY <2>1, LowestIsLeast
  <2>3. \A a \in Cell : a < Lowest(Used(m)) => m[a] = Empty
    BY <2>1, <2>2 DEF Used, Cell, KeysDistinct
  <2>4. NoAddr \notin Cell
    BY DEF NoAddr, Cell, KeysDistinct
  <2> QED
    BY <1>2, <2>1, <2>2, <2>3, <2>4 DEF Scanned, FoundAddr
<1> QED
  BY <1>1, <1>2
-----------------------------------------------------------------------------
(* The invariant.                                                          *)

Writing == step \in {"erase", "key"}

\* The key block: nothing lies below the last record, a full block is erased before it
\* is written, and outside of a write the store knows the key the scan would find.
StoreInv ==
  /\ keys \in Records /\ rtAddr \in Cell \cup {NoAddr}
  /\ rtAddr = NoAddr => keys = ErasedKeys
  /\ \A a \in Cell : a < rtAddr => keys[a] = Empty
  /\ step = "key" /\ rtAddr = 0 => keys = ErasedKeys
  /\ ~Writing => rootk = FoundKey(keys)

\* The mission state: its key is in flash, and something acknowledged in that state
\* rules out that the key is being written.
StateInv ==
  /\ Writing => req.op = "root" /\ req.key \in AnyKey /\ root = req.key /\ mcs
  /\ ~Writing /\ rkr => root = FoundKey(keys) /\ mcs
  /\ rkr => root \in AnyKey \ Kdv
  /\ acked # {} => rkr /\ ~Writing

\* The counter: what was acknowledged is below what flash holds, and the increase being
\* handled is from a value that nobody was acknowledged.
CountInv ==
  /\ val \in Nat /\ romCt \in Nat
  /\ acked # {} => romCt <= val
  /\ \A r \in acked : r.op = "increase" => r.value \in Nat /\ r.value < romCt
  /\ step \in {"count", "reply"} /\ req.op = "increase" =>
       /\ req.value \in Nat /\ val = req.value + 1
       /\ \A r \in acked : r.op = "increase" => r.value < req.value
  /\ step = "reply" /\ req.op # "hmac" => romCt = val

\* The keys acknowledged are the one in use.
KeyInv ==
  /\ \A r \in acked : r.op = "root" => r.key = root
  /\ step \in {"count", "reply"} /\ req.op = "root" => req.key = root

RpmcInv ==
  /\ step \in {"idle", "erase", "key", "count", "reply"}
  /\ StoreInv /\ StateInv /\ CountInv /\ KeyInv

LEMMA InvInit ==
  ASSUME KeysDistinct
  PROVE  RpmcInit => RpmcInv
<1>1. \A a \in Cell : ~(a < NoAddr)
  BY DEF Cell, NoAddr, KeysDistinct
<1> QED
  BY <1>1, ErasedRecords
  DEF RpmcInit, RpmcInv, StoreInv, StateInv, CountInv, KeyInv, Writing, NoReq

LEMMA RequestTypes ==
  ASSUME RpmcInv, NEW r \in Requests
  PROVE  /\ r.op \in {"root", "hmac", "increase"}
         /\ r.op = "root" => r.key \in AnyKey
BY DEF Requests, WriteRoot, UpdateHmac, Increase

LEMMA NextAddrType ==
  ASSUME KeysDistinct, RpmcInv
  PROVE  NextAddr \in Cell
BY DEF NextAddr, RpmcInv, StoreInv, Cell, NoAddr, KeysDistinct

\* The next record goes to an erased place below all others.
LEMMA NextAddrErased ==
  ASSUME KeysDistinct, RpmcInv, step = "key"
  PROVE  \A a \in Cell : a <= NextAddr => keys[a] = Empty
<1>1. CASE rtAddr \in {NoAddr, 0}
  BY <1>1 DEF RpmcInv, StoreInv, ErasedKeys
<1>2. CASE rtAddr \notin {NoAddr, 0}
  BY <1>2 DEF RpmcInv, StoreInv, NextAddr, Cell, NoAddr, KeysDistinct
<1> QED
  BY <1>1, <1>2
-----------------------------------------------------------------------------
(* The steps.                                                              *)

LEMMA MsgProcStep ==
  ASSUME KeysDistinct, RpmcInv, MsgProc
  PROVE  RpmcInv'
<1> USE DEF RpmcInv, StoreInv, StateInv, CountInv, KeyInv, Writing
<1>1. step = "idle"
  BY DEF MsgProc
<1>2. PICK r \in Requests :
        WriteRootKey(r) \/ UpdateHmacKey(r) \/ IncreaseMc(r) \/ Refuse(r)
  BY DEF MsgProc
<1>3. r.op \in {"root", "hmac", "increase"} /\ (r.op = "root" => r.key \in AnyKey)
  BY RequestTypes
<1>4. CASE WriteRootKey(r)
  <2>1. /\ r.op = "root" /\ acked = {} /\ acked' = {} /\ UNCHANGED rom
        /\ root' = r.key /\ req' = r /\ mcs' /\ rkr' = (r.key \notin Kdv)
        /\ step' = IF rootk = r.key THEN "count" ELSE IF rtAddr = 0 THEN "erase" ELSE "key"
    BY <1>4 DEF WriteRootKey
  <2>2. val' \in Nat
    BY <1>4 DEF WriteRootKey
  <2>3. StoreInv'
    BY <1>1, <2>1 DEF rom
  <2>4. StateInv'
    BY <1>1, <1>3, <2>1 DEF rom
  <2>5. CountInv' /\ KeyInv'
    BY <2>1, <2>2 DEF rom
  <2> QED
    BY <2>1, <2>3, <2>4, <2>5
<1>5. CASE UpdateHmacKey(r)
  BY <1>1, <1>5 DEF UpdateHmacKey, rom
<1>6. CASE IncreaseMc(r)
  <2>1. /\ r.op = "increase" /\ r.value = val /\ val' = val + 1
        /\ req' = r /\ step' = "count"
        /\ UNCHANGED <<rkr, mcs, root, rom, acked>>
    BY <1>6 DEF IncreaseMc
  <2>2. CountInv'
    BY <1>1, <2>1 DEF rom
  <2> QED
    BY <1>1, <2>1, <2>2 DEF rom
<1>7. CASE Refuse(r)
  BY <1>1, <1>7 DEF Refuse, dev, rom
<1> QED
  BY <1>2, <1>4, <1>5, <1>6, <1>7

LEMMA EraseKeysStep ==
  ASSUME KeysDistinct, RpmcInv, EraseKeys
  PROVE  RpmcInv'
<1> USE DEF RpmcInv, StoreInv, StateInv, CountInv, KeyInv, Writing
<1>1. /\ step = "erase" /\ step' = "key" /\ keys' = ErasedKeys
      /\ UNCHANGED <<dev, rtAddr, rootk, romCt, req, acked>>
  BY DEF EraseKeys
<1>2. StoreInv'
  BY <1>1, ErasedRecords DEF ErasedKeys
<1>3. StateInv' /\ CountInv' /\ KeyInv'
  BY <1>1 DEF dev
<1> QED
  BY <1>1, <1>2, <1>3

LEMMA WriteKeyStep ==
  ASSUME KeysDistinct, RpmcInv, WriteKey
  PROVE  RpmcInv'
<1> USE DEF RpmcInv, StoreInv, StateInv, CountInv, KeyInv, Writing
<1>1. /\ step = "key" /\ step' = "count" /\ rtAddr' = NextAddr /\ rootk' = req.key
      /\ UNCHANGED <<dev, romCt, req, acked>>
  BY DEF WriteKey
<1>2. NextAddr \in Cell /\ \A a \in Cell : a <= NextAddr => keys[a] = Empty
  BY <1>1, NextAddrType, NextAddrErased
<1>3. keys[NextAddr] = Empty
  BY <1>2 DEF Cell, KeysDistinct
<1>4. keys' = [keys EXCEPT ![NextAddr] = req.key] /\ req.key \in AnyKey
  BY <1>1, <1>3 DEF WriteKey
<1>5. keys' \in Records /\ keys'[NextAddr] = req.key
  BY <1>2, <1>4 DEF Records
<1>6. \A a \in Cell : a < NextAddr => keys'[a] = Empty
  BY <1>2, <1>4 DEF Cell, KeysDistinct, Records
<1>7. FoundKey(keys') = req.key
  BY <1>2, <1>4, <1>5, <1>6, FoundKeyLowest
<1>8. NextAddr # NoAddr
  BY <1>2 DEF NoAddr, Cell, KeysDistinct
<1>9. StoreInv'
  BY <1>1, <1>2, <1>5, <1>6, <1>7, <1>8
<1>10. StateInv' /\ CountInv' /\ KeyInv'
  BY <1>1, <1>7 DEF dev
<1> QED
  BY <1>1, <1>9, <1>10

LEMMA WriteCountStep ==
  ASSUME RpmcInv, WriteCount
  PROVE  RpmcInv'
<1> USE DEF RpmcInv, StoreInv, StateInv, CountInv, KeyInv, Writing
<1>1. /\ step = "count" /\ step' = "reply" /\ romCt' = val
      /\ UNCHANGED <<dev, keys, rtAddr, rootk, req, acked>>
  BY DEF WriteCount
<1>2. StoreInv' /\ StateInv' /\ KeyInv'
  BY <1>1 DEF dev
<1>3. CountInv'
  BY <1>1 DEF dev
<1> QED
  BY <1>1, <1>2, <1>3

LEMMA ReplyKeeps ==
  ASSUME RpmcInv, Reply
  PROVE  RpmcInv'
<1> USE DEF RpmcInv, StoreInv, StateInv, CountInv, KeyInv, Writing
<1>1. /\ step = "reply" /\ step' = "idle" /\ UNCHANGED <<dev, rom, req>>
      /\ acked' = IF rkr /\ req.op # "hmac" THEN acked \cup {req} ELSE acked
  BY DEF Reply
<1>2. StoreInv' /\ StateInv'
  BY <1>1 DEF dev, rom
<1>3. CountInv'
  BY <1>1 DEF dev, rom
<1>4. KeyInv'
  BY <1>1 DEF dev, rom
<1> QED
  BY <1>1, <1>2, <1>3, <1>4

LEMMA PowerLossStep ==
  ASSUME KeysDistinct, RpmcInv, RpmcPowerLoss
  PROVE  RpmcInv'
<1> USE DEF RpmcInv, StoreInv, StateInv, CountInv, KeyInv, Writing
<1>1. PICK m \in KeyRemains, c \in CountRemains :
        /\ Preload(m, c)
        /\ keys' = Scanned(m) /\ rtAddr' = FoundAddr(m) /\ rootk' = FoundKey(m)
        /\ romCt' = c
  BY DEF RpmcPowerLoss
<1>2. step' = "idle" /\ acked' = acked
  BY DEF RpmcPowerLoss
<1>3. m \in Records /\ (~Writing => m = keys)
  BY NextAddrType DEF KeyRemains, Records
<1>4. c \in Nat /\ (acked # {} => romCt <= c)
  BY DEF CountRemains
<1>5. /\ root' = FoundKey(m) /\ val' = c
      /\ rkr' = (FoundKey(m) \notin Kdv \cup {NoKey}) /\ mcs' = (FoundKey(m) # NoKey)
  BY <1>1 DEF Preload
<1>6. FoundKey(m) \in AnyKey \cup {NoKey} /\ FoundKey(keys') = FoundKey(m)
  BY <1>1, <1>3, FoundKeyType, ScanResult
<1>7. acked # {} => root' = root /\ rkr'
  BY <1>3, <1>5 DEF KeysDistinct
<1>8. StoreInv'
  BY <1>1, <1>2, <1>3, <1>6, ScanResult
<1>9. StateInv'
  BY <1>2, <1>5, <1>6, <1>7
<1>10. CountInv'
  BY <1>1, <1>2, <1>4, <1>5
<1>11. KeyInv'
  BY <1>2, <1>7
<1> QED
  BY <1>2, <1>8, <1>9, <1>10, <1>11

LEMMA InvStep ==
  ASSUME KeysDistinct
  PROVE  RpmcInv /\ [RpmcNext]_rpmcVars => RpmcInv'
<1> SUFFICES ASSUME RpmcInv, [RpmcNext]_rpmcVars PROVE RpmcInv'
  OBVIOUS
<1>1. CASE UNCHANGED rpmcVars
  BY <1>1 DEF rpmcVars, RpmcInv, StoreInv, StateInv, CountInv, KeyInv, Writing
<1> QED
  BY <1>1, MsgProcStep, EraseKeysStep, WriteKeyStep, WriteCountStep, ReplyKeeps, PowerLossStep
  DEF RpmcNext
-----------------------------------------------------------------------------
\* rc_write_root_k_service, _rt_program and _rt_init: a mission key that was acknowledged
\* is the one found after every power failure, and is never replaced.
THEOREM MissionKeyKeptHolds == RpmcSpec => []MissionKeyKept
<1>1. RpmcInv => MissionKeyKept
  BY DEF RpmcInv, StateInv, KeyInv, MissionKeyKept
<1>2. KeysDistinct
  BY KeyAssumption
<1> QED
  BY InvInit, InvStep, <1>1, <1>2, PTL DEF RpmcSpec

\* rc_increase_mc_service: an acknowledged increase is in flash, so that no power failure
\* takes the counter back.
THEOREM AckedIncreaseKeptHolds == RpmcSpec => []AckedIncreaseKept
<1>1. RpmcInv => AckedIncreaseKept
  BY DEF RpmcInv, CountInv, AckedIncreaseKept
<1>2. KeysDistinct
  BY KeyAssumption
<1> QED
  BY InvInit, InvStep, <1>1, <1>2, PTL DEF RpmcSpec

-----------------------------------------------------------------------------
(* The ledger of acknowledgements.                                         *)

\* In the mission state only the mission key derives signatures, and a root key is
\* acknowledged only when nothing else has been.
AuthInv ==
  /\ rkr /\ hkr => hmac.root = root
  /\ step \in {"count", "reply"} /\ req.op = "increase" /\ rkr => req.sig.root = root
  /\ step \in {"count", "reply"} => req.op \in {"root", "hmac", "increase"}
  /\ step \in {"count", "reply"} /\ req.op = "root" => acked = {}
  /\ \A r \in acked : r.op \in {"root", "increase"} /\ OwnerKey(r) = root

\* Between a service and its write to flash the counter differs by one increase, or by
\* its start at 0; at rest it does not differ.
DiffInv ==
  /\ step \in {"idle", "reply"} => val = romCt
  /\ Writing => val \in {romCt, 0}
  /\ step = "count" => \/ req.op = "increase" /\ val = romCt + 1
                       \/ req.op = "root" /\ val \in {romCt, 0}

LEMMA AuthStep ==
  ASSUME KeysDistinct, RpmcInv, AuthInv, [RpmcNext]_rpmcVars
  PROVE  AuthInv'
<1> USE DEF AuthInv, OwnerKey
<1>1. CASE MsgProc
  <2>1. PICK r \in Requests :
          WriteRootKey(r) \/ UpdateHmacKey(r) \/ IncreaseMc(r) \/ Refuse(r)
    BY <1>1 DEF MsgProc
  <2>2. step = "idle"
    BY <1>1 DEF MsgProc
  <2>3. CASE WriteRootKey(r)
    BY <2>3 DEF WriteRootKey, RpmcInv, StateInv
  <2>4. CASE UpdateHmacKey(r)
    BY <2>4 DEF UpdateHmacKey
  <2>5. CASE IncreaseMc(r)
    BY <2>5 DEF IncreaseMc
  <2>6. CASE Refuse(r)
    BY <2>2, <2>6 DEF Refuse, dev
  <2> QED
    BY <2>1, <2>3, <2>4, <2>5, <2>6
<1>2. CASE EraseKeys
  BY <1>2 DEF EraseKeys, dev
<1>3. CASE WriteKey
  BY <1>3 DEF WriteKey, dev, RpmcInv, StateInv, Writing
<1>4. CASE WriteCount
  BY <1>4 DEF WriteCount, dev
<1>5. CASE Reply
  BY <1>5 DEF Reply, dev, RpmcInv, KeyInv
<1>6. CASE RpmcPowerLoss
  <2>1. PICK m \in KeyRemains : root' = FoundKey(m) /\ ~hkr'
    BY <1>6 DEF RpmcPowerLoss, Preload
  <2>2. acked # {} => root' = root
    BY <2>1 DEF KeyRemains, RpmcInv, StateInv, Writing
  <2> QED
    BY <1>6, <2>1, <2>2 DEF RpmcPowerLoss
<1>7. CASE UNCHANGED rpmcVars
  BY <1>7 DEF rpmcVars
<1> QED
  BY <1>1, <1>2, <1>3, <1>4, <1>5, <1>6, <1>7 DEF RpmcNext

LEMMA DiffStep ==
  ASSUME KeysDistinct, RpmcInv, DiffInv, [RpmcNext]_rpmcVars
  PROVE  DiffInv'
<1> USE DEF DiffInv, Writing
<1>1. CASE MsgProc
  <2>1. PICK r \in Requests :
          WriteRootKey(r) \/ UpdateHmacKey(r) \/ IncreaseMc(r) \/ Refuse(r)
    BY <1>1 DEF MsgProc
  <2>2. step = "idle"
    BY <1>1 DEF MsgProc
  <2> QED
    BY <2>1, <2>2 DEF WriteRootKey, UpdateHmacKey, IncreaseMc, Refuse, dev, rom
<1>2. CASE EraseKeys \/ WriteKey
  BY <1>2 DEF EraseKeys, WriteKey, dev, RpmcInv, StateInv
<1>3. CASE WriteCount \/ Reply
  BY <1>3 DEF WriteCount, Reply, dev, rom
<1>4. CASE RpmcPowerLoss
  BY <1>4 DEF RpmcPowerLoss, Preload
<1>5. CASE UNCHANGED rpmcVars
  BY <1>5 DEF rpmcVars
<1> QED
  BY <1>1, <1>2, <1>3, <1>4, <1>5 DEF RpmcNext

\* An acknowledgement is a step of the ledger; every other step leaves it alone.
LEMMA LedgerStep ==
  ASSUME RpmcInv, AuthInv, [RpmcNext]_rpmcVars, val <= MaxCount
  PROVE  [Ledger!LedgerNext]_(Ledger!ledgerVars)
<1> DEFINE Own(A) == {OwnerKey(r) : r \in A}
           Vals(A) == {r.value : r \in {x \in A : x.op = "increase"}}
<1>1. CASE acked' = acked
  BY <1>1 DEF Ledger!ledgerVars, AckedValues
<1>2. CASE Reply /\ rkr /\ req.op # "hmac"
  <2>1. acked' = acked \cup {req} /\ step = "reply" /\ root \in RootKeys
    BY <1>2 DEF Reply, RpmcInv, StateInv, AnyKey
  <2>2. OwnerKey(req) = root
    BY <1>2, <2>1 DEF AuthInv, RpmcInv, KeyInv, OwnerKey
  <2>3. Own(acked) \subseteq {root} /\ Own(acked') = {root}
    BY <2>1, <2>2 DEF AuthInv
  <2>4. CASE req.op = "root"
    <3>1. Own(acked) = {} /\ Vals(acked) = {} /\ Vals(acked') = {}
      BY <2>1, <2>4 DEF AuthInv
    <3>2. Ledger!AckKey(root)
      BY <2>3, <3>1 DEF Ledger!AckKey, AckedValues
    <3> QED
      BY <2>1, <3>2 DEF Ledger!LedgerNext
  <2>5. CASE req.op = "increase"
    <3>1. Vals(acked') = Vals(acked) \cup {req.value}
      BY <2>1, <2>5
    <3>2. req.value \in 0 .. MaxCount /\ \A w \in Vals(acked) : w < req.value
      BY <2>1, <2>5, CountAssumption DEF RpmcInv, CountInv
    <3>3. Ledger!AckIncrease(root, req.value)
      BY <2>3, <3>1, <3>2 DEF Ledger!AckIncrease, AckedValues
    <3> QED
      BY <2>1, <3>2, <3>3 DEF Ledger!LedgerNext
  <2> QED
    BY <1>2, <2>1, <2>4, <2>5 DEF AuthInv
<1> QED
  BY <1>1, <1>2
  DEF RpmcNext, MsgProc, WriteRootKey, UpdateHmacKey, IncreaseMc, Refuse, EraseKeys, WriteKey,
      WriteCount, Reply, RpmcPowerLoss, rpmcVars

LEMMA BoundStep ==
  ASSUME RpmcInv, DiffInv, val <= MaxCount, romCt <= MaxCount, [RpmcNext]_rpmcVars
  PROVE  val' <= MaxCount /\ romCt' <= MaxCount
<1> USE CountAssumption
<1>1. CASE MsgProc
  BY <1>1 DEF MsgProc, WriteRootKey, UpdateHmacKey, IncreaseMc, Refuse, dev, rom, RpmcInv, CountInv
<1>2. CASE EraseKeys \/ WriteKey \/ WriteCount \/ Reply
  BY <1>2 DEF EraseKeys, WriteKey, WriteCount, Reply, dev, rom
<1>3. CASE RpmcPowerLoss
  BY <1>3 DEF RpmcPowerLoss, Preload, CountRemains
<1>4. CASE UNCHANGED rpmcVars
  BY <1>4 DEF rpmcVars
<1> QED
  BY <1>1, <1>2, <1>3, <1>4 DEF RpmcNext

LedgerInv == RpmcInv /\ AuthInv /\ DiffInv /\ val <= MaxCount /\ romCt <= MaxCount

LEMMA LedgerInvHolds == RpmcSpec => []LedgerInv
<1>1. RpmcInit => LedgerInv
  <2>1. RpmcInit => RpmcInv
    BY InvInit, KeyAssumption
  <2>2. RpmcInit => AuthInv /\ DiffInv
    BY DEF RpmcInit, AuthInv, DiffInv, Writing
  <2>3. RpmcInit => val <= MaxCount /\ romCt <= MaxCount
    BY CountAssumption DEF RpmcInit
  <2> QED
    BY <2>1, <2>2, <2>3 DEF LedgerInv
<1>2. LedgerInv /\ [RpmcNext]_rpmcVars => LedgerInv'
  BY InvStep, AuthStep, DiffStep, BoundStep, KeyAssumption DEF LedgerInv
<1> QED
  BY <1>1, <1>2, PTL DEF RpmcSpec

\* rc_write_root_k_service, rc_update_hmac_k_service and rc_increase_mc_service together:
\* what a host is acknowledged, through repeated, delayed and lost messages and power
\* failures, is a ledger under one key whose values only grow.
THEOREM OneLedgerHolds == RpmcSpec => OneLedger
<1>1. RpmcInit => Ledger!LedgerInit
  BY DEF RpmcInit, Ledger!LedgerInit, AckedValues
<1>2. LedgerInv /\ [RpmcNext]_rpmcVars => [Ledger!LedgerNext]_(Ledger!ledgerVars)
  BY LedgerStep, CountAssumption DEF LedgerInv, RpmcInv, CountInv
<1> QED
  BY <1>1, <1>2, LedgerInvHolds, PTL DEF RpmcSpec, OneLedger, Ledger!LedgerSpec

\* rc_increase_mc_service and rc_write_root_k_service keep to what rom_rpmc_mc_access and
\* the scan of oob_rpmc_rom.c are built for: the value written is one more than the one
\* stored, or 0, the latter never once an answer was given in the mission state.
THEOREM CountsByOneHolds == RpmcSpec => CountsByOne
<1> DEFINE ByOne == romCt' # romCt => romCt' = romCt + 1 \/ (romCt' = 0 /\ acked = {})
<1>1. LedgerInv /\ [RpmcNext]_rpmcVars => [ByOne]_rpmcVars
  <2> SUFFICES ASSUME LedgerInv, RpmcNext PROVE ByOne
    OBVIOUS
  <2>1. CASE romCt' = romCt
    BY <2>1
  <2>2. CASE step = "count" /\ romCt' \in {romCt, val}
    BY <2>2 DEF LedgerInv, DiffInv, AuthInv
  <2> QED
    BY <2>1, <2>2
    DEF RpmcNext, MsgProc, WriteRootKey, UpdateHmacKey, IncreaseMc, Refuse, EraseKeys, WriteKey,
        WriteCount, Reply, RpmcPowerLoss, CountRemains, rom
<1> QED
  BY <1>1, LedgerInvHolds, PTL DEF RpmcSpec, CountsByOne

KeyTypes ==
  /\ rkr \in BOOLEAN /\ mcs \in BOOLEAN /\ hkr \in BOOLEAN
  /\ root \in AnyKey \cup {NoKey} /\ rootk \in AnyKey \cup {NoKey}

LEMMA KeyTypesStep ==
  ASSUME KeysDistinct, RpmcInv, KeyTypes, [RpmcNext]_rpmcVars
  PROVE  KeyTypes'
<1> USE DEF KeyTypes
<1>1. CASE MsgProc
  <2>1. PICK r \in Requests :
          WriteRootKey(r) \/ UpdateHmacKey(r) \/ IncreaseMc(r) \/ Refuse(r)
    BY <1>1 DEF MsgProc
  <2>2. CASE WriteRootKey(r)
    BY <2>2, RequestTypes DEF WriteRootKey, rom
  <2>3. CASE UpdateHmacKey(r) \/ IncreaseMc(r) \/ Refuse(r)
    BY <2>3 DEF UpdateHmacKey, IncreaseMc, Refuse, dev, rom
  <2> QED
    BY <2>1, <2>2, <2>3
<1>2. CASE EraseKeys \/ WriteCount \/ Reply
  BY <1>2 DEF EraseKeys, WriteCount, Reply, dev, rom
<1>3. CASE WriteKey
  BY <1>3 DEF WriteKey, dev, RpmcInv, StateInv, Writing
<1>4. CASE RpmcPowerLoss
  <2>1. PICK m \in KeyRemains :
          /\ root' = FoundKey(m) /\ rootk' = FoundKey(m) /\ hkr' = FALSE
          /\ rkr' = (FoundKey(m) \notin Kdv \cup {NoKey}) /\ mcs' = (FoundKey(m) # NoKey)
    BY <1>4 DEF RpmcPowerLoss, Preload
  <2>2. m \in Records
    BY NextAddrType DEF KeyRemains, Records, RpmcInv, StoreInv, StateInv, Writing
  <2> QED
    BY <2>1, <2>2, FoundKeyType
<1>5. CASE UNCHANGED rpmcVars
  BY <1>5 DEF rpmcVars
<1> QED
  BY <1>1, <1>2, <1>3, <1>4, <1>5 DEF RpmcNext

\* The services and the root key store of oob_rpmc_rom.c keep every variable in its type:
\* a scan of any remains of the block finds a key or none, and an address inside it.
THEOREM RpmcTypeCorrect == RpmcSpec => []RpmcTypeOK
<1>1. RpmcInit => KeyTypes
  BY DEF RpmcInit, KeyTypes
<1>2. LedgerInv /\ KeyTypes /\ [RpmcNext]_rpmcVars => KeyTypes'
  BY KeyTypesStep, KeyAssumption DEF LedgerInv
<1>3. LedgerInv /\ KeyTypes => RpmcTypeOK
  BY CountAssumption
  DEF LedgerInv, KeyTypes, RpmcTypeOK, RpmcInv, StoreInv, CountInv, Records
<1> QED
  BY <1>1, <1>2, <1>3, LedgerInvHolds, PTL DEF RpmcSpec
=============================================================================
