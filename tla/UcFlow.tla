------------------------------- MODULE UcFlow -------------------------------
(***************************************************************************)
(* The reliable transport of collective/rdma over Unreliable Connection    *)
(* queue pairs: one sender subflow and its receiver subflow, each served   *)
(* by one engine thread, in the pacing-bypass mode with sender-driven      *)
(* congestion control (Timely).                                            *)
(*                                                                         *)
(* A message is cut into chunks.  The sender sprays the chunks over the    *)
(* queue pairs of the context ("paths") as RDMA WRITEs with immediate      *)
(* data; a path delivers in order and may lose.  The receiver reorders by  *)
(* chunk sequence number and returns cumulative ACKs with a SACK bitmap    *)
(* over a datagram queue pair, which may lose and reorder.  Losses are     *)
(* repaired by duplicate-ACK and timeout retransmissions, which travel as  *)
(* SENDs on the path of the original.                                      *)
(*                                                                         *)
(* snd_nxt, snd_una and rcv_nxt are unwrapped; every decision of the code  *)
(* is taken on their wrapped values (module Csn).  The field n of a packet *)
(* or ACK is its unwrapped number: the handlers read only Csn(n).          *)
(***************************************************************************)
EXTENDS Csn, Sequences, FiniteSetsExt

CONSTANTS
  Paths,          \* queue pairs of the RDMA context (port entropy)
  MsgSize,        \* bytes of each message, in the order they are sent
  ChunkSize,      \* chunk_size_
  StartCsn,       \* where the sequence space of a quiescent flow stands
  MaxReq,         \* kMaxReq: entries of SubUcclFlow::reqs_
  MaxSends,       \* sends a flow may have outstanding (ucclRequestBuffPool)
  DupThres,       \* ROCE_DUP_ACK_THRES
  MaxCumWQE,      \* kMAXCumWQE
  MaxOOO,         \* kMAXRXOOO
  PerFlow, EngineLow, EngineHigh,   \* kMaxUnAckedBytes... budgets
  MaxLoss,        \* bound: packets and ACKs the network loses
  LossyAcks,      \* whether the control queue pair loses ACKs
  WireCap         \* bound: packets on a path above which no timeout fires

SackBits == HalfCsn        \* kSackBitmapSize, kReassemblyMaxSeqnoDistance

NumMsgs == Len(MsgSize)
Msgs == 1..NumMsgs
NoMsg == 0
Rids == 0..(MaxReq - 1)
NoRid == MaxReq
Pending == -1              \* a receive that has not completed

ASSUME FlowAssumption ==
  /\ MsgSize \in Seq(Nat)
  /\ StartCsn \in Nat
  /\ {ChunkSize, MaxReq, MaxSends, DupThres, MaxCumWQE, MaxOOO}
       \subseteq Nat \ {0}
  /\ {PerFlow, EngineLow, EngineHigh, MaxLoss, WireCap} \subseteq Nat
  /\ LossyAcks \in BOOLEAN

VARIABLES
  \* Sender: ucclRequest queue, PCB, TXTracking, timer.
  works,          \* messages in tx_cmdq_ and pending_tx_works_
  srid,           \* ureq->send.rid of each message
  sent,           \* ureq->send.sent_offset of each message
  sdone,          \* messages whose sender was woken
  snd_nxt, snd_una,
  unacked,        \* TXTracking::unacked_chunks_
  unacked_bytes,  \* unacked_bytes_ (and the engine's total: one flow)
  dup_acks,       \* pcb.duplicate_acks
  tx_sack,        \* pcb.tx_sack_bitmap, _count and _base
  rto_armed,      \* subflow is in rto_tm_
  rtx,            \* chunks the running retransmission loop still has to send
  \* Receiver: request pool, PCB, RXTracking, ACK list.
  supplied,       \* receives posted to the FIFO so far
  reqs,           \* SubUcclFlow::reqs_
  rcv_nxt,
  sack, sack_cnt, \* pcb.sack_bitmap (set bits) and sack_bitmap_count
  ready,          \* rxtracking.ready_csn_
  cum_wqe, cons_ooo,
  ack_pending,    \* subflow->ack is on ack_list_
  rdone,          \* data_len reported to the application, or Pending
  placed,         \* <<message, offset>> of the chunks written to buffers
  \* Network.
  fifo,           \* FIFO items written to the sender, not yet consumed
  wire,           \* packets in flight on each path
  acks,           \* ACKs in flight
  losses

sndVars == <<works, srid, sent, sdone, snd_nxt, snd_una, unacked,
             unacked_bytes, dup_acks, tx_sack, rto_armed, rtx>>
rcvVars == <<supplied, reqs, rcv_nxt, sack, sack_cnt, ready, cum_wqe,
             cons_ooo, ack_pending, rdone, placed>>
netVars == <<fifo, wire, acks, losses>>
vars == <<sndVars, rcvVars, netVars>>

NullReq == [msg |-> NoMsg, received |-> 0]

Init ==
  /\ works = <<>>
  /\ srid = [m \in Msgs |-> NoRid]
  /\ sent = [m \in Msgs |-> 0]
  /\ sdone = {}
  /\ snd_nxt = StartCsn /\ snd_una = StartCsn /\ rcv_nxt = StartCsn
  /\ unacked = <<>> /\ unacked_bytes = 0
  /\ dup_acks = 0
  /\ tx_sack = [base |-> StartCsn, bits |-> {}, cnt |-> 0]
  /\ rto_armed = FALSE
  /\ rtx = {}
  /\ supplied = 0
  /\ reqs = [r \in Rids |-> NullReq]
  /\ sack = {} /\ sack_cnt = 0 /\ ready = {}
  /\ cum_wqe = 0 /\ cons_ooo = 0
  /\ ack_pending = FALSE
  /\ rdone = [m \in Msgs |-> Pending]
  /\ placed = {}
  /\ fifo = <<>>
  /\ wire = [p \in Paths |-> <<>>]
  /\ acks = {}
  /\ losses = 0

-----------------------------------------------------------------------------
(* Sender *)

\* Mutants: the budget is compared before the chunk is added; no budget.
EventBeforeAdding(remaining) ==
  LET bytes == IF remaining < ChunkSize THEN remaining ELSE ChunkSize
  IN  IF unacked_bytes < EngineHigh THEN bytes ELSE 0
EventWithoutBudget(remaining) ==
  IF remaining < ChunkSize THEN remaining ELSE ChunkSize

\* TimelyRDMAContext::EventOnChunkSize: bytes of the next chunk, 0 to wait.
EventOnChunkSize(remaining) ==
  LET bytes == IF remaining < ChunkSize THEN remaining ELSE ChunkSize
  IN  IF /\ unacked_bytes + bytes <= EngineHigh
         /\ \/ unacked_bytes + bytes <= EngineLow
            \/ unacked_bytes + bytes <= PerFlow
      THEN bytes
      ELSE 0

\* Mutant: the FIFO slot is not cleared.
SendAsyncKeepsSlot ==
  /\ fifo # <<>> /\ Len(works) < NumMsgs
  /\ srid' = [srid EXCEPT ![Head(fifo).msg] = Head(fifo).rid]
  /\ works' = Append(works, Head(fifo).msg)
  /\ UNCHANGED <<sent, sdone, snd_nxt, snd_una, unacked, unacked_bytes,
                 dup_acks, tx_sack, rto_armed, rtx, rcvVars, netVars>>

\* Sends that hold a ucclRequest: issued, and not completed.
OutstandingSends == {m \in Msgs : srid[m] # NoRid} \ sdone

\* The application's next send gets a request (pluginIsend), finds its FIFO item
\* and is queued to the engine.
SendAsync ==
  /\ Cardinality(OutstandingSends) < MaxSends
  /\ fifo # <<>>
  /\ LET item == Head(fifo)
     IN  /\ srid' = [srid EXCEPT ![item.msg] = item.rid]
         /\ works' = Append(works, item.msg)
  /\ fifo' = Tail(fifo)
  /\ UNCHANGED <<sent, sdone, snd_nxt, snd_una, unacked, unacked_bytes,
                 dup_acks, tx_sack, rto_armed, rtx, rcvVars,
                 wire, acks, losses>>

\* One turn of the loop of senderCC_tx_message: a chunk goes out on a path.
TxChunk(p) ==
  /\ rtx = {} /\ works # <<>>
  /\ LET m == Head(works)
         len == EventOnChunkSize(MsgSize[m] - sent[m])
         last == sent[m] + len = MsgSize[m]
         chunk == [n |-> snd_nxt, msg |-> m, off |-> sent[m], len |-> len,
                   last |-> last, rid |-> srid[m], path |-> p, rtx |-> FALSE]
     IN  /\ len # 0 \/ MsgSize[m] = 0
         /\ wire' = [wire EXCEPT ![p] = Append(@, chunk)]
         /\ unacked' = Append(unacked, chunk)
         /\ unacked_bytes' = unacked_bytes + len
         /\ sent' = [sent EXCEPT ![m] = @ + len]
         /\ works' = IF last THEN Tail(works) ELSE works
  /\ snd_nxt' = snd_nxt + 1
  /\ rto_armed' = TRUE
  /\ UNCHANGED <<srid, sdone, snd_una, dup_acks, tx_sack, rtx, rcvVars,
                 fifo, acks, losses>>

\* senderCC_tx_message returns false: the message goes behind the others.
TxBlocked ==
  /\ rtx = {} /\ Len(works) > 1
  /\ MsgSize[Head(works)] # 0
  /\ EventOnChunkSize(MsgSize[Head(works)] - sent[Head(works)]) = 0
  /\ works' = Append(Tail(works), Head(works))
  /\ UNCHANGED <<srid, sent, sdone, snd_nxt, snd_una, unacked, unacked_bytes,
                 dup_acks, tx_sack, rto_armed, rtx, rcvVars, netVars>>

\* Indices a walk over a SACK bitmap finds unset before it has seen cnt set bits.
Holes(bits, cnt) ==
  {i \in 0..(SackBits - 1) \ bits : Cardinality({j \in bits : j < i}) < cnt}

\* Of those, the ones whose tracked chunk has the sequence number expected.
HolesToSend(base, bits, cnt) ==
  {i \in Holes(bits, cnt) : /\ i < Len(unacked)
                            /\ Csn(unacked[i + 1].n) = Csn(base + i)}

\* Mutant: the oldest chunk is not resent when the bitmap is empty.
RetransmitHolesOnly ==
  IF unacked = <<>> THEN {}
  ELSE HolesToSend(tx_sack.base, tx_sack.bits, tx_sack.cnt)

\* What __retransmit_for_flow resends: the oldest chunk, or the holes.
RetransmitForFlow ==
  IF unacked = <<>> THEN {}
  ELSE IF tx_sack.cnt = 0 THEN {0}
  ELSE HolesToSend(tx_sack.base, tx_sack.bits, tx_sack.cnt)

\* handle_rto: mark_flow_timeout, then rto_retransmit_for_flow, which rearms.
HandleRto ==
  /\ rtx = {} /\ rto_armed
  /\ \A p \in Paths : Len(wire[p]) < WireCap
  /\ rto_armed' = (unacked # <<>>)
  /\ rtx' = RetransmitForFlow
  /\ UNCHANGED <<works, srid, sent, sdone, snd_nxt, snd_una, unacked,
                 unacked_bytes, dup_acks, tx_sack, rcvVars, netVars>>

\* Mutant: a retransmission is sprayed like an original.
RetransmitOnAnyPath ==
  \E i \in rtx, p \in Paths :
    /\ \A j \in rtx : i <= j
    /\ wire' = [wire EXCEPT ![p] =
                  Append(@, [unacked[i + 1] EXCEPT !.rtx = TRUE])]
    /\ rtx' = rtx \ {i}
    /\ UNCHANGED <<works, srid, sent, sdone, snd_nxt, snd_una, unacked,
                   unacked_bytes, dup_acks, tx_sack, rto_armed, rcvVars,
                   fifo, acks, losses>>

\* try_retransmit_chunk, in the ascending order of the retransmission loops.
RetransmitChunk ==
  \E i \in rtx :
    /\ \A j \in rtx : i <= j
    /\ LET chunk == unacked[i + 1]
       IN  wire' = [wire EXCEPT ![chunk.path] =
                                  Append(@, [chunk EXCEPT !.rtx = TRUE])]
    /\ rtx' = rtx \ {i}
    /\ UNCHANGED <<works, srid, sent, sdone, snd_nxt, snd_una, unacked,
                   unacked_bytes, dup_acks, tx_sack, rto_armed, rcvVars,
                   fifo, acks, losses>>

BytesOfFirst(k) == MapThenSumSet(LAMBDA i : unacked[i].len, 1..k)

\* A delayed packet or ACK that is half the sequence space old never arrives.
WithinLifetime(n, now) == now - n <= HalfCsn

\* uc_rx_ack: ACKs for old or for untransmitted chunks.
RxIgnoredAck(a) ==
  /\ \/ SeqnoLt(Csn(a.n), Csn(snd_una))
     \/ SeqnoGt(Csn(a.n), Csn(snd_nxt))
  /\ UNCHANGED sndVars

\* uc_rx_ack: a duplicate ACK counts, and retransmits from the threshold on.
RxDuplicateAck(a) ==
  /\ Csn(a.n) = Csn(snd_una)
  /\ dup_acks' = dup_acks + 1
  /\ rtx' = CASE dup_acks' < DupThres -> {}
              [] dup_acks' = DupThres -> RetransmitForFlow
              [] OTHER -> HolesToSend(snd_una, a.bits, a.cnt)
  /\ rto_armed' = (rto_armed \/ rtx' # {})
  /\ tx_sack' = [base |-> a.n, bits |-> a.bits, cnt |-> a.cnt]
  /\ UNCHANGED <<works, srid, sent, sdone, snd_nxt, snd_una, unacked,
                 unacked_bytes>>

\* Mutant: a valid ACK leaves the old bitmap in place.
RxValidAckKeepsSack(a) ==
  LET num_acked == CsnDiff(Csn(a.n), Csn(snd_una))
  IN  /\ ~ SeqnoLt(Csn(a.n), Csn(snd_una))
      /\ ~ SeqnoGt(Csn(a.n), Csn(snd_nxt))
      /\ num_acked # 0
      /\ sdone' = sdone \cup {unacked[i].msg : i \in {j \in 1..num_acked :
                                                        unacked[j].last}}
      /\ unacked' = SubSeq(unacked, num_acked + 1, Len(unacked))
      /\ unacked_bytes' = unacked_bytes - BytesOfFirst(num_acked)
      /\ snd_una' = snd_una + num_acked
      /\ dup_acks' = 0
      /\ rto_armed' = (unacked' # <<>>)
      /\ UNCHANGED <<works, srid, sent, snd_nxt, rtx, tx_sack>>

\* uc_rx_ack: a valid ACK pops the chunks it covers and wakes their senders.
RxValidAck(a) ==
  LET num_acked == CsnDiff(Csn(a.n), Csn(snd_una))
  IN  /\ ~ SeqnoLt(Csn(a.n), Csn(snd_una))
      /\ ~ SeqnoGt(Csn(a.n), Csn(snd_nxt))
      /\ num_acked # 0
      /\ sdone' = sdone \cup {unacked[i].msg : i \in {j \in 1..num_acked :
                                                        unacked[j].last}}
      /\ unacked' = SubSeq(unacked, num_acked + 1, Len(unacked))
      /\ unacked_bytes' = unacked_bytes - BytesOfFirst(num_acked)
      /\ snd_una' = snd_una + num_acked
      /\ dup_acks' = 0
      /\ rto_armed' = (unacked' # <<>>)
      /\ tx_sack' = [base |-> a.n, bits |-> a.bits, cnt |-> a.cnt]
      /\ UNCHANGED <<works, srid, sent, snd_nxt, rtx>>

\* uc_rx_ack, for an ACK that arrives.
RxAck(a) ==
  /\ rtx = {}
  /\ WithinLifetime(a.n, snd_una)
  /\ RxIgnoredAck(a) \/ RxDuplicateAck(a) \/ RxValidAck(a)
  /\ acks' = acks \ {a}
  /\ UNCHANGED <<rcvVars, fifo, wire, losses>>

-----------------------------------------------------------------------------
(* Receiver *)

\* supply_rx_buff for the next receive: take a free request, post its FIFO item.
SupplyRxBuff ==
  /\ ~ ack_pending
  /\ supplied < NumMsgs
  /\ \E r \in Rids :
       /\ reqs[r].msg = NoMsg
       /\ \A q \in Rids : q < r => reqs[q].msg # NoMsg       \* alloc_recvreq
       /\ reqs' = [reqs EXCEPT ![r] = [msg |-> supplied + 1, received |-> 0]]
       /\ fifo' = Append(fifo, [msg |-> supplied + 1, rid |-> r])
  /\ supplied' = supplied + 1
  /\ UNCHANGED <<sndVars, rcv_nxt, sack, sack_cnt, ready, cum_wqe, cons_ooo,
                 ack_pending, rdone, placed, wire, acks, losses>>

Distance(c) == CsnDiff(Csn(c.n), Csn(rcv_nxt))

\* Mutant: chunks outside the window are not recognised.
RxDropsForeign(c) == reqs[c.rid].msg = NoMsg

\* The early returns of uc_rx_chunk and uc_rx_rtx_chunk, in which no ACK is due.
RxDrops(c) ==
  \/ reqs[c.rid].msg = NoMsg
  \/ SeqnoLt(Csn(c.n), Csn(rcv_nxt))
  \/ Distance(c) > SackBits

ShiftOnce(bits, shift) ==
  IF shift = 0 THEN bits ELSE {i - 1 : i \in {j \in bits : j >= 1}}

\* The receiver bitmap after shift calls of sack_bitmap_shift_left_one.
ShiftLeft(bits, shift) == {i - shift : i \in {j \in bits : j >= shift}}

\* What try_update_csn leaves in ready_csn_ when it stops at nxt.
Unconsumed(entries, nxt) == {e \in entries : e.pos >= nxt}

\* try_update_csn after chunk c entered ready_csn_: consume the run of chunks
\* that begins at rcv_nxt, complete the requests whose last chunk is in it and
\* shift the bitmap once for each.
TryUpdateCsn(c) ==
  LET entry == [pos |-> rcv_nxt + Distance(c),
                rid |-> IF c.last THEN c.rid ELSE NoRid]
      all   == ready \cup {entry}
      held  == {e.pos : e \in all}
      recvd == [reqs EXCEPT ![c.rid].received = @ + c.len]
  IN  \E nxt \in rcv_nxt..(rcv_nxt + SackBits + 1) :
        /\ nxt \notin held
        /\ \A k \in rcv_nxt..(nxt - 1) : k \in held
        /\ LET woken == {e.rid : e \in {f \in all : f.pos < nxt}} \ {NoRid}
               shift == nxt - rcv_nxt
           IN  /\ ready' = Unconsumed(all, nxt)
               /\ rdone' = [m \in Msgs |->
                              IF \E r \in woken : recvd[r].msg = m
                              THEN recvd[CHOOSE r \in woken : recvd[r].msg = m]
                                     .received
                              ELSE rdone[m]]
               /\ reqs' = [r \in Rids |->
                             IF r \in woken THEN NullReq ELSE recvd[r]]
               /\ sack' = ShiftLeft(sack \cup {Distance(c)}, shift)
               /\ sack_cnt' = sack_cnt + 1 - shift
        /\ rcv_nxt' = nxt

\* Mutant: chunks held out of order count as acknowledged.
AckCountsHeld == [n |-> rcv_nxt + Cardinality(sack), bits |-> sack,
                  cnt |-> sack_cnt]

Ack == [n |-> rcv_nxt, bits |-> sack, cnt |-> sack_cnt]       \* craft_ack

\* The next packet of path p arrives.
Arrives(p) ==
  /\ wire[p] # <<>>
  /\ WithinLifetime(Head(wire[p]).n, rcv_nxt)
  /\ wire' = [wire EXCEPT ![p] = Tail(@)]

\* uc_rx_chunk, early return.  The NIC has written the data already.
RxChunkDropped(p) ==
  /\ Arrives(p)
  /\ LET c == Head(wire[p])
     IN  /\ ~ c.rtx
         /\ RxDrops(c)
         /\ placed' = placed \cup {<<c.msg, c.off>>}
  /\ UNCHANGED <<sndVars, supplied, reqs, rcv_nxt, sack, sack_cnt, ready,
                 cum_wqe, cons_ooo, ack_pending, rdone, fifo, acks, losses>>

\* RXTracking::need_imm_ack.  kMAXCumBytes is kMAXCumWQE whole chunks, so the
\* byte count cannot get there before the chunk count does.
NeedImmAck(wqe, ooo) == ooo \/ wqe = MaxCumWQE

\* uc_rx_chunk, for an original that is accepted.
RxChunk(p) ==
  /\ Arrives(p)
  /\ LET c == Head(wire[p])
         late == Distance(c) # 0
         ooo == late /\ cons_ooo + 1 >= MaxOOO              \* encounter_ooo
     IN  /\ ~ c.rtx
         /\ ~ RxDrops(c)
         /\ Distance(c) \notin sack                         \* UCCL_CHECK
         /\ placed' = placed \cup {<<c.msg, c.off>>}
         /\ TryUpdateCsn(c)
         /\ IF NeedImmAck(cum_wqe + 1, ooo)
            THEN /\ acks' = acks \cup {Ack'}
                 /\ cum_wqe' = 0 /\ cons_ooo' = 0           \* clear_imm_ack
                 /\ ack_pending' = FALSE
            ELSE /\ acks' = acks
                 /\ cum_wqe' = cum_wqe + 1
                 /\ cons_ooo' = IF late THEN cons_ooo + 1 ELSE cons_ooo
                 /\ ack_pending' = TRUE
  /\ UNCHANGED <<sndVars, supplied, fifo, losses>>

\* uc_rx_rtx_chunk, early return.
RxRtxChunkDropped(p) ==
  /\ Arrives(p)
  /\ LET c == Head(wire[p])
     IN  /\ c.rtx
         /\ RxDrops(c) \/ Distance(c) \in sack
  /\ UNCHANGED <<sndVars, rcvVars, fifo, acks, losses>>

\* Mutant: a retransmission of a chunk already held is accepted again.
RxRtxChunkTwice(p) ==
  /\ Arrives(p)
  /\ LET c == Head(wire[p])
     IN  /\ c.rtx
         /\ ~ RxDrops(c)
         /\ placed' = placed \cup {<<c.msg, c.off>>}
         /\ TryUpdateCsn(c)
  /\ ack_pending' = TRUE
  /\ UNCHANGED <<sndVars, supplied, cum_wqe, cons_ooo, fifo, acks, losses>>

\* uc_rx_rtx_chunk, for a retransmission that is accepted: copied to its place.
RxRtxChunk(p) ==
  /\ Arrives(p)
  /\ LET c == Head(wire[p])
     IN  /\ c.rtx
         /\ ~ RxDrops(c)
         /\ Distance(c) \notin sack
         /\ placed' = placed \cup {<<c.msg, c.off>>}
         /\ TryUpdateCsn(c)
  /\ ack_pending' = TRUE
  /\ UNCHANGED <<sndVars, supplied, cum_wqe, cons_ooo, fifo, acks, losses>>

\* uc_post_acks, at the end of a batch of completions.
PostAcks ==
  /\ ack_pending
  /\ acks' = acks \cup {Ack}
  /\ ack_pending' = FALSE
  /\ UNCHANGED <<sndVars, supplied, reqs, rcv_nxt, sack, sack_cnt, ready,
                 cum_wqe, cons_ooo, rdone, placed, fifo, wire, losses>>

-----------------------------------------------------------------------------
(* Network *)

LoseChunk(p) ==
  /\ wire[p] # <<>> /\ losses < MaxLoss
  /\ wire' = [wire EXCEPT ![p] = Tail(@)]
  /\ losses' = losses + 1
  /\ UNCHANGED <<sndVars, rcvVars, fifo, acks>>

LoseAck(a) ==
  /\ LossyAcks /\ losses < MaxLoss
  /\ acks' = acks \ {a}
  /\ losses' = losses + 1
  /\ UNCHANGED <<sndVars, rcvVars, fifo, wire>>

-----------------------------------------------------------------------------

SenderStep ==
  \/ SendAsync
  \/ \E p \in Paths : TxChunk(p)
  \/ TxBlocked
  \/ HandleRto
  \/ RetransmitChunk
  \/ \E a \in acks : RxAck(a)

ReceiverStep ==
  \/ SupplyRxBuff
  \/ \E p \in Paths : RxChunk(p)
  \/ \E p \in Paths : RxChunkDropped(p)
  \/ \E p \in Paths : RxRtxChunk(p)
  \/ \E p \in Paths : RxRtxChunkDropped(p)
  \/ PostAcks

Lose == (\E p \in Paths : LoseChunk(p)) \/ (\E a \in acks : LoseAck(a))

Next == SenderStep \/ ReceiverStep \/ Lose

Spec == Init /\ [][Next]_vars

\* Both engines run their loops forever, what the network does not lose it
\* delivers, and an armed timer expires.  UcclRDMAEngine::run calls every handler
\* in every turn: a retransmission loop in progress delays the others (they are
\* disabled meanwhile, hence SF) and never keeps them out.
Fairness ==
  /\ WF_vars(SendAsync)
  /\ SF_vars((\E p \in Paths : TxChunk(p)) \/ TxBlocked)
  /\ SF_vars(HandleRto)
  /\ WF_vars(RetransmitChunk)
  /\ SF_vars(\E a \in acks : RxAck(a))
  /\ WF_vars(SupplyRxBuff)
  /\ \A p \in Paths : WF_vars(RxChunk(p) \/ RxChunkDropped(p)
                              \/ RxRtxChunk(p) \/ RxRtxChunkDropped(p))
  /\ WF_vars(PostAcks)

FairSpec == Spec /\ Fairness

-----------------------------------------------------------------------------
(* Properties *)

Chunk == [n : Nat, msg : Msgs, off : Nat, len : Nat, last : BOOLEAN,
          rid : Rids, path : Paths, rtx : BOOLEAN]
FifoItem == [msg : Msgs, rid : Rids]
SackInfo == [n : Nat, bits : SUBSET Nat, cnt : Int]

SenderTypeOK ==
  /\ works \in Seq(Msgs)
  /\ srid \in [Msgs -> Rids \cup {NoRid}]
  /\ sent \in [Msgs -> Nat]
  /\ sdone \in SUBSET Msgs
  /\ snd_nxt \in Nat /\ snd_una \in Nat
  /\ unacked \in Seq(Chunk)
  /\ dup_acks \in Nat
  /\ tx_sack \in [base : Nat, bits : SUBSET Nat, cnt : Int]
  /\ rtx \in SUBSET Nat

ReceiverTypeOK ==
  /\ supplied \in 0..NumMsgs
  /\ reqs \in [Rids -> [msg : Msgs \cup {NoMsg}, received : Nat]]
  /\ rcv_nxt \in Nat
  /\ sack \in SUBSET Nat /\ sack_cnt \in Int
  /\ ready \in SUBSET [pos : Nat, rid : Rids \cup {NoRid}]
  /\ cum_wqe \in Nat /\ cons_ooo \in Nat
  /\ rdone \in [Msgs -> Nat \cup {Pending}]
  /\ placed \in SUBSET (Msgs \X Nat)

NetworkTypeOK ==
  /\ fifo \in Seq(FifoItem)
  /\ wire \in [Paths -> Seq(Chunk)]
  /\ acks \in SUBSET SackInfo
  /\ losses \in Nat

\* Every variable has its type (unacked_bytes is the matter of BytesAccounted).
TypeOK ==
  /\ SenderTypeOK
  /\ ReceiverTypeOK
  /\ NetworkTypeOK
  /\ rto_armed \in BOOLEAN /\ ack_pending \in BOOLEAN

InFlight == UNION {{wire[p][i] : i \in 1..Len(wire[p])} : p \in Paths}

ChunkOffsets(m) == {o \in 0..MsgSize[m] : /\ o % ChunkSize = 0
                                          /\ o < MsgSize[m] \/ o = 0}

\* ack_transmitted_chunks wakes a sender only for a message the receiver has
\* completed: through losses, reordering, retransmission and sequence numbers
\* that wrap, a completed send is a delivered one.
CompletionSound == \A m \in sdone : rdone[m] # Pending

\* A receive completes with exactly the bytes sent (no chunk counted twice by
\* uc_rx_chunk and uc_rx_rtx_chunk, none left out), every one in its place.
DeliveredWhole ==
  \A m \in Msgs : rdone[m] # Pending =>
    /\ rdone[m] = MsgSize[m]
    /\ \A o \in ChunkOffsets(m) : <<m, o>> \in placed

\* An RDMA WRITE still in flight has not been received in another way and its
\* buffer is still the transport's: the UCCL_CHECK of uc_rx_chunk never fails,
\* and no late write lands in a buffer the application has taken back.
NoLateWrite ==
  \A c \in InFlight : ~ c.rtx =>
    /\ c.n >= rcv_nxt
    /\ c.n - rcv_nxt \notin sack
    /\ rdone[c.msg] = Pending
    /\ reqs[c.rid].msg = c.msg

\* What the handlers infer from wrapped numbers is the truth: the comparisons
\* of uc_rx_chunk, uc_rx_rtx_chunk and uc_rx_ack order packets and ACKs as the
\* unwrapped numbers do, and an ACK never covers more than is tracked.
CsnUnambiguous ==
  /\ \A c \in InFlight : WithinLifetime(c.n, rcv_nxt) =>
       /\ SeqnoLt(Csn(c.n), Csn(rcv_nxt)) <=> c.n < rcv_nxt
       /\ c.n >= rcv_nxt => rcv_nxt + Distance(c) = c.n
  /\ \A a \in acks : WithinLifetime(a.n, snd_una) =>
       /\ SeqnoLt(Csn(a.n), Csn(snd_una)) <=> a.n < snd_una
       /\ a.n >= snd_una =>
            /\ ~ SeqnoGt(Csn(a.n), Csn(snd_nxt))
            /\ CsnDiff(Csn(a.n), Csn(snd_una)) <= Len(unacked)

\* The bitmap the sender keeps is based at its oldest unacked chunk, and a hole
\* found in it, or in that of a duplicate ACK, is a tracked chunk that the
\* number test accepts: get_unacked_chunk_from_idx is in range and the
\* "stale bit" branch of __retransmit_for_flow is never taken.
HolesAreTracked ==
  /\ tx_sack.base = snd_una
  /\ HolesToSend(snd_una, tx_sack.bits, tx_sack.cnt)
       = Holes(tx_sack.bits, tx_sack.cnt)
  /\ \A a \in acks : a.n = snd_una =>
       HolesToSend(snd_una, a.bits, a.cnt) = Holes(a.bits, a.cnt)

\* The two records of what was received out of order agree: sack_bitmap, which
\* the sender acts on, and ready_csn_, which rcv_nxt advances by; the separately
\* kept count is the number of bits, and no bit is out of the bitmap.
SackMatchesReady ==
  /\ sack = {e.pos - rcv_nxt : e \in ready}
  /\ sack_cnt = Cardinality(sack)
  /\ sack \subseteq 0..(SackBits - 1)

\* unacked_bytes_, which admission control compares with its budgets, is what
\* the tracked chunks hold, and never exceeds the engine's hard budget.
BytesAccounted ==
  /\ unacked_bytes = BytesOfFirst(Len(unacked))
  /\ unacked_bytes <= EngineHigh

\* The chunks outstanding stay within half the sequence space.
WindowFits == snd_nxt - snd_una < HalfCsn

\* Every send eventually completes at the sending application.
EverySendCompletes == \A m \in Msgs : <>(m \in sdone)

-----------------------------------------------------------------------------
(* The abstract specification this one implements *)

Delivered == {m \in Msgs : rdone[m] # Pending}

Messages == INSTANCE MsgDelivery
              WITH posted <- supplied, delivered <- Delivered,
                   completed <- sdone

\* To the applications the whole exchange of chunks, ACKs, timeouts and
\* retransmissions looks like MsgDelivery: uc_rx_chunk and uc_rx_rtx_chunk
\* deliver a posted receive at most once, uc_rx_ack completes delivered sends.
ImplementsMsgDelivery == Messages!Spec

-----------------------------------------------------------------------------
(* Why CompletionSound holds: an inductive invariant *)

QueuedMsgs == Range(works)
FifoMsgs == {fifo[i].msg : i \in 1..Len(fifo)}

\* The tracked chunk with unwrapped number n.
ChunkAt(n) == unacked[n - snd_una + 1]

\* What chunk c puts into ready_csn_ as its request.
RidWhenLast(c) == IF c.last THEN c.rid ELSE NoRid

\* TXTracking holds exactly the chunks snd_una..(snd_nxt - 1), in order, with a
\* message's last chunk behind its others; queued messages are distinct and
\* have not had their last chunk sent.
SenderInv ==
  /\ snd_una <= rcv_nxt /\ rcv_nxt <= snd_nxt
  /\ Len(unacked) = snd_nxt - snd_una
  /\ \A i \in 1..Len(unacked) :
       /\ unacked[i].n = snd_una + i - 1
       /\ unacked[i].msg <= supplied
       /\ unacked[i].last => unacked[i].msg \notin QueuedMsgs \cup FifoMsgs
       /\ \A j \in 1..Len(unacked) :
            unacked[i].msg = unacked[j].msg /\ unacked[j].last => i <= j
  /\ rtx \subseteq 0..(Len(unacked) - 1)
  /\ IsInjective(works)
  /\ \A m \in QueuedMsgs : srid[m] \in Rids
  /\ \A m \in Msgs : sent[m] <= MsgSize[m]

\* A request stays with its message until the last chunk of it is consumed.
RequestInv ==
  /\ \A i \in 1..Len(unacked) : unacked[i].n >= rcv_nxt =>
       reqs[unacked[i].rid].msg = unacked[i].msg
  /\ \A m \in QueuedMsgs : m <= supplied /\ reqs[srid[m]].msg = m
  /\ \A i \in 1..Len(fifo) : /\ fifo[i].msg <= supplied
                             /\ fifo[i].msg \notin QueuedMsgs
                             /\ reqs[fifo[i].rid].msg = fifo[i].msg
  /\ \A i, j \in 1..Len(fifo) : fifo[i].msg = fifo[j].msg => i = j
  /\ \A r \in Rids : reqs[r].msg <= supplied

\* What is in flight or held for reordering agrees with what is tracked.
FlightInv ==
  /\ \A a \in acks : a.n <= rcv_nxt
  /\ \A p \in Paths : \A i \in 1..Len(wire[p]) :
       /\ wire[p][i].n < snd_nxt
       /\ wire[p][i].n >= rcv_nxt =>
            /\ wire[p][i].last = ChunkAt(wire[p][i].n).last
            /\ wire[p][i].rid = ChunkAt(wire[p][i].n).rid
  /\ \A e \in ready : /\ rcv_nxt <= e.pos /\ e.pos < snd_nxt
                      /\ e.rid = RidWhenLast(ChunkAt(e.pos))

\* A message whose last chunk the receiver has passed is delivered.
DeliveryInv ==
  /\ \A i \in 1..Len(unacked) : unacked[i].last /\ unacked[i].n < rcv_nxt =>
       rdone[unacked[i].msg] # Pending
  /\ CompletionSound

\* The inductive invariant of the flow.
FlowInv == TypeOK /\ SenderInv /\ RequestInv /\ FlightInv /\ DeliveryInv
=============================================================================
