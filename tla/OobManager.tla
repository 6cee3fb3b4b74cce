----------------------------- MODULE OobManager -----------------------------
(***************************************************************************)
(* The eSPI out-of-band channel: src/drivers/espioob_mngr.c (routing of    *)
(* received packets, the queue of the thread, synchronous sends of the EC) *)
(* and src/drivers/oob_msg_mngr.c (reassembly of the SoC's requests and    *)
(* fragmentation of the replies).                                          *)
(*                                                                         *)
(* A packet of a request is a pair <<message, index>>; the service that    *)
(* carries out a request is any reply length or an error.                  *)
(***************************************************************************)
EXTENDS Integers, Sequences

CONSTANTS
  QueueSize,      \* ASYNC_MSGQ_MAX_MSGS
  FragMax,        \* SMBUS_MSG_MAX_BYTES
  ReplyLengths,   \* lengths of replies, in bytes
  MaxFrags,       \* bound: packets of one request
  MaxMsgs,        \* bound: requests of the SoC
  MaxSends        \* bound: requests of the EC

ASSUME QueueAssumption == QueueSize \in Nat
ASSUME FragAssumption == FragMax \in Nat \ {0}
\* Every response begins with the status of its service, rc_rsp_t.
ASSUME ReplyAssumption == ReplyLengths \subseteq Nat \ {0}

VARIABLES
  msgq,           \* async_msgq
  sync,           \* txn_sync: the count of the semaphore
  thr,            \* oobmngr_thread: "idle", "waiting", "closing", "replying"
  inBuf, inPos,   \* in_buffer, in_pos
  outLen, outPos, outRemain, outSeq,   \* out_buffer_len, out_pos, out_remain_len, out_seq
  pkt,            \* the packet prepared in tx_buf
  soc,            \* the SoC's current request: [msg, next, size]
  inbox,          \* the bytes of the reply the SoC has received so far
  expect,         \* history: the sequence number of its next packet, -1 for none
  torn,           \* history: a reply did not arrive whole and in order
  mixed, lost,    \* history: a request was carried out that the SoC did not send;
                  \* a packet of a request was dropped or taken for an answer
  awaited,        \* the SoC owes an answer to a request of the EC
  sends

inVars == <<inBuf, inPos, mixed>>
outVars == <<outLen, outPos, outRemain, outSeq, pkt>>
socIn == <<inbox, expect, torn>>
oobVars == <<msgq, sync, thr, inVars, outVars, soc, socIn, lost, awaited, sends>>
-----------------------------------------------------------------------------
EcRequest == <<0, 0>>
Answer == <<-1, 1>>
BadHeader == <<-2, 1>>
NoPacket == [from |-> 0, len |-> 0, som |-> FALSE, eom |-> FALSE, seq |-> 0]

\* oobmngr_init
OobInit ==
  /\ msgq = <<>> /\ sync = 1 /\ thr = "idle"
  /\ inBuf = <<>> /\ inPos = 0 /\ mixed = FALSE
  /\ outLen = 0 /\ outPos = 0 /\ outRemain = 0 /\ outSeq = 0 /\ pkt = NoPacket
  /\ soc = [msg |-> 0, next |-> 1, size |-> 0]
  /\ inbox = <<>> /\ expect = -1 /\ torn = FALSE
  /\ lost = FALSE /\ awaited = FALSE /\ sends = 0
-----------------------------------------------------------------------------
(* oob_rx_handler, an interrupt: a packet that arrives while the semaphore *)
(* is taken is the answer, any other one is a request.                     *)

Receive(p, last) ==
  IF sync > 0
  THEN /\ msgq' = IF Len(msgq) < QueueSize THEN Append(msgq, <<p, last>>) ELSE msgq
       /\ lost' = (lost \/ (p # BadHeader /\ Len(msgq) >= QueueSize))
       /\ sync' = sync
  ELSE /\ sync' = 1 /\ msgq' = msgq
       /\ lost' = (lost \/ p \notin {Answer, BadHeader})

\* The SoC begins a request, possibly giving up the one it was sending, and sends
\* its packets in order.
SocBegins ==
  /\ soc.msg < MaxMsgs
  /\ \E n \in 1 .. MaxFrags : soc' = [msg |-> soc.msg + 1, next |-> 1, size |-> n]
  /\ UNCHANGED <<msgq, sync, thr, inVars, outVars, socIn, lost, awaited, sends>>

SocSends ==
  /\ soc.next <= soc.size
  /\ Receive(<<soc.msg, soc.next>>, soc.next = soc.size)
  /\ soc' = [soc EXCEPT !.next = @ + 1]
  /\ UNCHANGED <<thr, inVars, outVars, socIn, awaited, sends>>

\* A packet the header checks refuse: sent between the packets of a request.
SocSendsOther ==
  /\ soc.next = 2
  /\ Receive(BadHeader, TRUE)
  /\ UNCHANGED <<thr, inVars, outVars, soc, socIn, awaited, sends>>

\* The answer to a request of the EC.  One that comes after the timeout is queued as
\* a request and restarts the reassembly.
SocAnswers ==
  /\ awaited /\ awaited' = FALSE
  /\ Receive(Answer, TRUE)
  /\ UNCHANGED <<thr, inVars, outVars, soc, socIn, sends>>

\* oob_test_send_async
SendAsync ==
  /\ sends < MaxSends /\ sends' = sends + 1
  /\ msgq' = IF Len(msgq) < QueueSize THEN Append(msgq, <<EcRequest, TRUE>>) ELSE msgq
  /\ UNCHANGED <<sync, thr, inVars, outVars, soc, socIn, lost, awaited>>
-----------------------------------------------------------------------------
(* oob_test_send_sync.                                                     *)

SendSync ==
  /\ thr = "idle" /\ msgq # <<>> /\ Head(msgq)[1] = EcRequest
  /\ msgq' = Tail(msgq)
  /\ \/ sync' = 0 /\ thr' = "waiting" /\ awaited' = TRUE
     \/ sync' = 1 /\ UNCHANGED <<thr, awaited>>            \* espihub_send_oob fails
  /\ UNCHANGED <<inVars, outVars, soc, socIn, lost, sends>>

\* Bug: only an answered request is closed with k_sem_give.
Close_OnlyAnswered ==
  /\ \/ thr = "waiting" /\ sync = 1 /\ sync' = 0 /\ thr' = "closing"
     \/ thr = "waiting" /\ sync = 0 /\ UNCHANGED sync /\ thr' = "idle"
     \/ thr = "closing" /\ sync' = 1 /\ thr' = "idle"
  /\ UNCHANGED <<msgq, inVars, outVars, soc, socIn, lost, awaited, sends>>

\* k_sem_take returns, with the answer or after the timeout; later k_sem_give.
Close ==
  /\ \/ thr = "waiting" /\ sync = 1 /\ sync' = 0 /\ thr' = "closing"
     \/ thr = "waiting" /\ sync = 0 /\ UNCHANGED sync /\ thr' = "closing"
     \/ thr = "closing" /\ sync' = 1 /\ thr' = "idle"
  /\ UNCHANGED <<msgq, inVars, outVars, soc, socIn, lost, awaited, sends>>
-----------------------------------------------------------------------------
(* espi_fch_oob_rx_handler and the message manager.                        *)

\* Bug: the first packet of a message is appended to what was left of the last one.
Reassemble_Keeps(p, last) ==
  /\ inBuf' = Append(SubSeq(inBuf, 1, inPos), p)
  /\ inPos' = IF last THEN 0 ELSE inPos + 1

\* _handle_input_fragmentation
Reassemble(p, last) ==
  LET at == IF p[2] = 1 THEN 0 ELSE inPos
  IN /\ inBuf' = Append(SubSeq(inBuf, 1, at), p)
     /\ inPos' = IF last THEN 0 ELSE at + 1

\* _broken_up_msg_len
BrokenUpLen(len) == IF len <= FragMax THEN 0 ELSE len - FragMax

\* _prepare_output_message, given the context after oob_msg_mngr_proc's reset
PrepareOutput(len, pos, remain, seq) ==
  LET first == remain = 0
      todo == IF first THEN len ELSE remain
      rest == BrokenUpLen(todo)
      payload == IF rest = 0 THEN todo ELSE FragMax
      s == IF first THEN 0 ELSE (seq + 1) % 4
  IN /\ outLen' = len /\ outRemain' = rest /\ outSeq' = s /\ outPos' = pos + payload
     /\ pkt' = [from |-> pos, len |-> payload, som |-> first, eom |-> rest = 0, seq |-> s]

\* oob_msg_mngr_proc
Process ==
  /\ thr = "idle" /\ msgq # <<>> /\ Head(msgq)[1] # EcRequest
  /\ msgq' = Tail(msgq)
  /\ LET p == Head(msgq)[1]  last == Head(msgq)[2]
     IN IF p = BadHeader
        THEN UNCHANGED <<thr, inVars, outVars>>
        ELSE /\ Reassemble(p, last)
             /\ IF ~last
                THEN UNCHANGED <<thr, mixed, outVars>>
                ELSE /\ mixed' = (mixed \/ \E i \in DOMAIN inBuf' : inBuf'[i] # <<p[1], i>>)
                     /\ \/ UNCHANGED <<thr, outVars>>      \* the service refuses
                        \/ \E n \in ReplyLengths : PrepareOutput(n, 0, 0, 0) /\ thr' = "replying"
  /\ UNCHANGED <<sync, soc, socIn, lost, awaited, sends>>

\* What the SoC makes of a packet: MCTP start and end flags and sequence numbers.
SocReceives(k) ==
  LET bytes == [i \in 1 .. k.len |-> k.from + i]
      got == IF k.som THEN bytes ELSE inbox \o bytes
  IN /\ inbox' = IF k.eom THEN <<>> ELSE got
     /\ expect' = IF k.eom THEN -1 ELSE (k.seq + 1) % 4
     /\ torn' = (torn \/ (~k.som /\ k.seq # expect) \/ k.len = 0
                      \/ (k.eom /\ got # [i \in 1 .. outLen |-> i]))

\* espihub_send_oob and oob_msg_mngr_proc_remainning; a failed send ends the reply.
SendReply ==
  /\ thr = "replying"
  /\ \/ /\ SocReceives(pkt)
        /\ IF outRemain = 0
           THEN thr' = "idle" /\ UNCHANGED outVars
           ELSE PrepareOutput(outLen, outPos, outRemain, outSeq) /\ UNCHANGED thr
     \/ thr' = "idle" /\ UNCHANGED <<outVars, socIn>>
  /\ UNCHANGED <<msgq, sync, inVars, soc, lost, awaited, sends>>
-----------------------------------------------------------------------------
OobNext ==
  \/ SocBegins \/ SocSends \/ SocSendsOther \/ SocAnswers \/ SendAsync
  \/ SendSync \/ Close \/ Process \/ SendReply

OobSpec == OobInit /\ [][OobNext]_oobVars
-----------------------------------------------------------------------------
\* After a send of its own, answered, late or never answered, the EC is back to
\* treating packets as requests: the semaphore is free whenever the thread is idle.
RequestsAccepted == thr \in {"idle", "replying"} => sync = 1

\* A request is carried out only if its packets are those the SoC sent, even when the
\* SoC gave up another one halfway, unless a packet of it was lost or a late answer
\* of the SoC came between.  A reply that is sent to its end arrives whole: fragments
\* in order, numbered modulo 4, none empty, the last one marked as such.
WholeMessages == (mixed => lost \/ sends > 0) /\ ~torn
=============================================================================
