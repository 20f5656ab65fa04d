-------------------------- MODULE UcFlowSendProofs --------------------------
(***************************************************************************)
(* FlowInv (UcFlow) holds initially, and the steps that queue, block and   *)
(* resend keep it.                                                         *)
(***************************************************************************)
EXTENDS UcFlow, CsnProofs, QueueLemmas, TLAPS

\* The constants in the form the provers use.
LEMMA ConstantFacts ==
  /\ MsgSize \in Seq(Nat) /\ NumMsgs \in Nat
  /\ \A m \in Msgs : MsgSize[m] \in Nat /\ m \in Nat /\ m # NoMsg
  /\ MaxReq \in Nat \ {0} /\ Rids \subseteq Nat /\ NoRid \notin Rids
  /\ ChunkSize \in Nat \ {0} /\ StartCsn \in Nat
  /\ HalfCsn \in Nat \ {0} /\ SackBits = HalfCsn
<1>1. MsgSize \in Seq(Nat) /\ StartCsn \in Nat
  BY FlowAssumption
<1>2. MaxReq \in Nat \ {0} /\ ChunkSize \in Nat \ {0}
  BY FlowAssumption
<1>3. /\ NumMsgs \in Nat
      /\ \A m \in Msgs : MsgSize[m] \in Nat /\ m \in Nat /\ m # NoMsg
  BY <1>1 DEF NumMsgs, Msgs, NoMsg
<1>4. Rids \subseteq Nat /\ NoRid \notin Rids
  BY <1>2 DEF Rids, NoRid
<1> QED
  BY <1>1, <1>2, <1>3, <1>4, HalfCsnProps DEF SackBits

\* The fields of packets.
LEMMA ChunkFields ==
  ASSUME NEW c \in Chunk
  PROVE  /\ c.n \in Nat /\ c.msg \in Msgs /\ c.off \in Nat /\ c.len \in Nat
         /\ c.last \in BOOLEAN /\ c.rid \in Rids /\ c.path \in Paths
  BY DEF Chunk

\* Tracked chunks and packets in flight are chunks.
LEMMA ChunkTypes ==
  ASSUME TypeOK
  PROVE  /\ \A i \in 1..Len(unacked) : unacked[i] \in Chunk
         /\ \A p \in Paths : \A i \in 1..Len(wire[p]) : wire[p][i] \in Chunk
<1>1. unacked \in Seq(Chunk) /\ \A p \in Paths : wire[p] \in Seq(Chunk)
  BY DEF TypeOK, SenderTypeOK, NetworkTypeOK
<1> QED
  BY <1>1

\* The initial state satisfies the invariant.
LEMMA InitFlowInv == Init => FlowInv
<1> SUFFICES ASSUME Init PROVE FlowInv
  OBVIOUS
<1> USE ConstantFacts
<1>1. TypeOK
  <2>1. SenderTypeOK
    BY DEF Init, SenderTypeOK
  <2>2. ReceiverTypeOK
    BY DEF Init, ReceiverTypeOK, NullReq
  <2>3. NetworkTypeOK
    BY DEF Init, NetworkTypeOK
  <2> QED
    BY <2>1, <2>2, <2>3 DEF Init, TypeOK
<1>2. SenderInv
  BY DEF Init, SenderInv, QueuedMsgs, FifoMsgs, Range, IsInjective
<1>3. RequestInv
  BY DEF Init, RequestInv, QueuedMsgs, NullReq, NoMsg, Range
<1>4. FlightInv
  BY DEF Init, FlightInv
<1>5. DeliveryInv
  BY DEF Init, DeliveryInv, CompletionSound
<1> QED
  BY <1>1, <1>2, <1>3, <1>4, <1>5 DEF FlowInv

\* Taking a FIFO item into the send queue.
LEMMA SendAsyncFlowInv == FlowInv /\ SendAsync => FlowInv'
<1> SUFFICES ASSUME FlowInv, SendAsync PROVE FlowInv'
  OBVIOUS
<1> USE ConstantFacts
<1> DEFINE item == Head(fifo)
<1>0. /\ fifo \in Seq(FifoItem) /\ fifo # <<>> /\ works \in Seq(Msgs)
  BY DEF FlowInv, TypeOK, NetworkTypeOK, SenderTypeOK, SendAsync
<1>1. /\ item = fifo[1] /\ item \in FifoItem /\ 1 \in 1..Len(fifo)
      /\ Len(fifo') = Len(fifo) - 1
      /\ \A i \in 1..Len(fifo') : fifo'[i] = fifo[i + 1]
      /\ fifo' \in Seq(FifoItem)
  BY <1>0, TailFacts DEF SendAsync
<1>2. item.msg \in Msgs /\ item.rid \in Rids
  BY <1>1 DEF FifoItem
<1> HIDE DEF item
<1>a. works' = Append(works, item.msg) /\ srid' = [srid EXCEPT ![item.msg] = item.rid]
  BY DEF SendAsync, item
<1>b. /\ Len(works') = Len(works) + 1 /\ Len(works) \in Nat
      /\ \A i \in 1..Len(works) : works'[i] = works[i]
      /\ works'[Len(works) + 1] = item.msg
      /\ works' \in Seq(Msgs)
  BY <1>0, <1>2, <1>a, AppendFacts
<1>3. QueuedMsgs' = QueuedMsgs \cup {item.msg}
  BY <1>0, <1>2, <1>a, AppendRange DEF QueuedMsgs
<1>4. FifoMsgs' \subseteq FifoMsgs /\ item.msg \in FifoMsgs
  BY <1>0, <1>1 DEF FifoMsgs
<1>5. TypeOK'
  <2>1. SenderTypeOK'
    BY <1>2, <1>a, <1>b DEF FlowInv, TypeOK, SenderTypeOK, SendAsync
  <2>2. ReceiverTypeOK' /\ NetworkTypeOK' /\ UNCHANGED <<rto_armed, ack_pending>>
    BY <1>1, SMTT(30) DEF FlowInv, TypeOK, ReceiverTypeOK, NetworkTypeOK, SendAsync, rcvVars
  <2> QED
    BY <2>1, <2>2 DEF FlowInv, TypeOK
<1>6. SenderInv'
  <2>1. item.msg \notin QueuedMsgs
    BY <1>1 DEF FlowInv, RequestInv, item
  <2>2. IsInjective(works')
    BY <1>0, <1>2, <1>a, <2>1, AppendInjective
       DEF FlowInv, SenderInv, QueuedMsgs
  <2>3. \A m \in QueuedMsgs' : srid'[m] \in Rids
    BY <1>0, <1>2, <1>3, <1>a, RangeFacts, SMTT(30)
       DEF FlowInv, SenderInv, TypeOK, SenderTypeOK, QueuedMsgs
  <2> QED
    BY <1>3, <1>4, <2>2, <2>3 DEF FlowInv, SenderInv, SendAsync, rcvVars
<1>7. RequestInv'
  <2>1. \A m \in QueuedMsgs' : m <= supplied' /\ reqs'[srid'[m]].msg = m
    <3>1. item.msg \notin QueuedMsgs /\ item.msg <= supplied
          /\ reqs[item.rid].msg = item.msg
      BY <1>1 DEF FlowInv, RequestInv
    <3>2. ASSUME NEW m \in QueuedMsgs PROVE srid'[m] = srid[m] /\ m \in Msgs
      BY <1>0, <1>a, <3>1, RangeFacts
         DEF FlowInv, TypeOK, SenderTypeOK, QueuedMsgs
    <3>3. srid'[item.msg] = item.rid
      BY <1>2, <1>a DEF FlowInv, TypeOK, SenderTypeOK
    <3> QED
      BY <1>3, <3>1, <3>2, <3>3 DEF FlowInv, RequestInv, SendAsync, rcvVars
  <2>2. \A i \in 1..Len(fifo') : /\ fifo'[i].msg <= supplied'
                                 /\ fifo'[i].msg \notin QueuedMsgs'
                                 /\ reqs'[fifo'[i].rid].msg = fifo'[i].msg
    <3> SUFFICES ASSUME NEW i \in 1..Len(fifo')
                 PROVE  /\ fifo'[i].msg <= supplied'
                        /\ fifo'[i].msg \notin QueuedMsgs'
                        /\ reqs'[fifo'[i].rid].msg = fifo'[i].msg
      OBVIOUS
    <3>1. i + 1 \in 1..Len(fifo) /\ fifo'[i] = fifo[i + 1] /\ i + 1 # 1
      BY <1>0, <1>1
    <3>2. fifo[i + 1].msg # item.msg
      BY <1>1, <3>1 DEF FlowInv, RequestInv
    <3> QED
      BY <1>3, <3>1, <3>2, SMTT(30) DEF FlowInv, RequestInv, SendAsync, rcvVars
  <2>3. \A i, j \in 1..Len(fifo') : fifo'[i].msg = fifo'[j].msg => i = j
    <3> SUFFICES ASSUME NEW i \in 1..Len(fifo'), NEW j \in 1..Len(fifo'),
                        fifo'[i].msg = fifo'[j].msg
                 PROVE  i = j
      OBVIOUS
    <3>1. /\ i + 1 \in 1..Len(fifo) /\ fifo'[i] = fifo[i + 1]
          /\ j + 1 \in 1..Len(fifo) /\ fifo'[j] = fifo[j + 1]
      BY <1>0, <1>1
    <3>2. i + 1 = j + 1
      BY <3>1, SMTT(30) DEF FlowInv, RequestInv
    <3> QED
      BY <3>2
  <2> QED
    BY <2>1, <2>2, <2>3, SMTT(30) DEF FlowInv, RequestInv, SendAsync, rcvVars
<1>8. FlightInv'
  BY SMTT(30) DEF FlowInv, FlightInv, SendAsync, ChunkAt, RidWhenLast, rcvVars
<1>9. DeliveryInv'
  BY DEF FlowInv, DeliveryInv, CompletionSound, SendAsync, rcvVars
<1> QED
  BY <1>5, <1>6, <1>7, <1>8, <1>9 DEF FlowInv

\* A message that has to wait goes to the back of the queue.
LEMMA TxBlockedFlowInv == FlowInv /\ TxBlocked => FlowInv'
<1> SUFFICES ASSUME FlowInv, TxBlocked PROVE FlowInv'
  OBVIOUS
<1>1. works \in Seq(Msgs) /\ works # <<>>
  BY DEF FlowInv, TypeOK, SenderTypeOK, TxBlocked
<1>2. works' \in Seq(Msgs) /\ QueuedMsgs' = QueuedMsgs
      /\ (IsInjective(works) => IsInjective(works'))
  BY <1>1, RotateFacts DEF TxBlocked, QueuedMsgs
<1>3. TypeOK'
  BY <1>2, SMTT(30) DEF FlowInv, TypeOK, SenderTypeOK, ReceiverTypeOK, NetworkTypeOK,
              TxBlocked, rcvVars, netVars
<1>4. SenderInv'
  BY <1>2, SMTT(30) DEF FlowInv, SenderInv, FifoMsgs, TxBlocked, rcvVars, netVars
<1>5. RequestInv'
  BY <1>2, SMTT(30) DEF FlowInv, RequestInv, TxBlocked, rcvVars, netVars
<1>6. FlightInv'
  BY DEF FlowInv, FlightInv, ChunkAt, RidWhenLast, TxBlocked, rcvVars, netVars
<1>7. DeliveryInv'
  BY DEF FlowInv, DeliveryInv, CompletionSound, TxBlocked, rcvVars, netVars
<1> QED
  BY <1>3, <1>4, <1>5, <1>6, <1>7 DEF FlowInv

\* The retransmission loops pick tracked chunks.
LEMMA RetransmitInRange ==
  ASSUME TypeOK
  PROVE  /\ RetransmitForFlow \subseteq 0..(Len(unacked) - 1)
         /\ \A base, bits, cnt :
              HolesToSend(base, bits, cnt) \subseteq 0..(Len(unacked) - 1)
<1>1. unacked \in Seq(Chunk) /\ Len(unacked) \in Nat
      /\ (unacked # <<>> => Len(unacked) # 0)
  BY DEF TypeOK, SenderTypeOK
<1>2. SackBits \in Nat
  BY ConstantFacts
<1>3. \A base, bits, cnt :
        HolesToSend(base, bits, cnt) \subseteq 0..(Len(unacked) - 1)
  BY <1>1, <1>2 DEF HolesToSend, Holes
<1> QED
  BY <1>1, <1>3 DEF RetransmitForFlow

\* A timeout starts a retransmission loop.
LEMMA HandleRtoFlowInv == FlowInv /\ HandleRto => FlowInv'
<1> SUFFICES ASSUME FlowInv, HandleRto PROVE FlowInv'
  OBVIOUS
<1>1. rtx' \subseteq 0..(Len(unacked) - 1) /\ rtx' \in SUBSET Nat
  BY RetransmitInRange DEF FlowInv, HandleRto
<1>2. TypeOK'
  BY <1>1, SMTT(30) DEF FlowInv, TypeOK, SenderTypeOK, ReceiverTypeOK, NetworkTypeOK,
              HandleRto, rcvVars, netVars
<1>3. SenderInv'
  BY <1>1, SMTT(30) DEF FlowInv, SenderInv, QueuedMsgs, FifoMsgs, HandleRto, rcvVars,
              netVars
<1>4. RequestInv'
  BY SMTT(30) DEF FlowInv, RequestInv, QueuedMsgs, HandleRto, rcvVars, netVars
<1>5. FlightInv'
  BY SMTT(30) DEF FlowInv, FlightInv, ChunkAt, RidWhenLast, HandleRto, rcvVars, netVars
<1>6. DeliveryInv'
  BY DEF FlowInv, DeliveryInv, CompletionSound, HandleRto, rcvVars, netVars
<1> QED
  BY <1>2, <1>3, <1>4, <1>5, <1>6 DEF FlowInv

\* What a path holds after a packet was put on it.
LEMMA WireAppend ==
  ASSUME wire \in [Paths -> Seq(Chunk)], NEW q \in Paths, NEW c \in Chunk,
         wire' = [wire EXCEPT ![q] = Append(@, c)]
  PROVE  /\ wire' \in [Paths -> Seq(Chunk)]
         /\ \A p \in Paths : \A i \in 1..Len(wire'[p]) :
              \/ i \in 1..Len(wire[p]) /\ wire'[p][i] = wire[p][i]
              \/ wire'[p][i] = c
<1>1. wire[q] \in Seq(Chunk) /\ wire'[q] = Append(wire[q], c)
  OBVIOUS
<1>2. /\ wire'[q] \in Seq(Chunk)
      /\ Len(wire[q]) \in Nat /\ Len(wire'[q]) = Len(wire[q]) + 1
      /\ \A i \in 1..Len(wire[q]) : wire'[q][i] = wire[q][i]
      /\ wire'[q][Len(wire[q]) + 1] = c
  BY <1>1, AppendFacts
<1>3. \A p \in Paths : p # q => wire'[p] = wire[p]
  OBVIOUS
<1>4. wire' \in [Paths -> Seq(Chunk)]
  BY <1>1, <1>2
<1>5. \A p \in Paths : \A i \in 1..Len(wire'[p]) :
              \/ i \in 1..Len(wire[p]) /\ wire'[p][i] = wire[p][i]
              \/ wire'[p][i] = c
  BY <1>2, <1>3
<1> QED
  BY <1>4, <1>5

\* What a path holds after its first packet left it.
LEMMA WireTail ==
  ASSUME wire \in [Paths -> Seq(Chunk)], NEW q \in Paths, wire[q] # <<>>,
         wire' = [wire EXCEPT ![q] = Tail(@)]
  PROVE  /\ wire' \in [Paths -> Seq(Chunk)]
         /\ \A p \in Paths : \A i \in 1..Len(wire'[p]) :
              \E j \in 1..Len(wire[p]) : wire'[p][i] = wire[p][j]
<1>1. wire[q] \in Seq(Chunk) /\ wire'[q] = Tail(wire[q])
  OBVIOUS
<1>2. /\ wire'[q] \in Seq(Chunk)
      /\ Len(wire[q]) \in Nat /\ Len(wire'[q]) = Len(wire[q]) - 1
      /\ \A i \in 1..Len(wire'[q]) : wire'[q][i] = wire[q][i + 1]
  BY <1>1, TailFacts
<1>3. \A p \in Paths : p # q => wire'[p] = wire[p]
  OBVIOUS
<1>4. wire' \in [Paths -> Seq(Chunk)]
  BY <1>1, <1>2
<1>5. \A i \in 1..Len(wire'[q]) : i + 1 \in 1..Len(wire[q])
  BY <1>2
<1>6. \A p \in Paths : \A i \in 1..Len(wire'[p]) :
              \E j \in 1..Len(wire[p]) : wire'[p][i] = wire[p][j]
  BY <1>2, <1>3, <1>5
<1> QED
  BY <1>4, <1>6

\* A retransmitted packet is a copy of a tracked chunk.
LEMMA RetransmitChunkFlowInv == FlowInv /\ RetransmitChunk => FlowInv'
<1> SUFFICES ASSUME FlowInv, RetransmitChunk PROVE FlowInv'
  OBVIOUS
<1> USE ConstantFacts
<1>1. PICK k \in rtx :
        /\ wire' = [wire EXCEPT ![unacked[k + 1].path] =
                      Append(@, [unacked[k + 1] EXCEPT !.rtx = TRUE])]
        /\ rtx' = rtx \ {k}
  BY Zenon DEF RetransmitChunk
<1>2. UNCHANGED <<works, srid, sent, sdone, snd_nxt, snd_una, unacked,
                  unacked_bytes, dup_acks, tx_sack, rto_armed, rcvVars,
                  fifo, acks, losses>>
  BY DEF RetransmitChunk
<1> DEFINE orig == unacked[k + 1]
           copy == [orig EXCEPT !.rtx = TRUE]
<1>3. /\ k \in Nat /\ k < Len(unacked) /\ k + 1 \in 1..Len(unacked)
      /\ unacked \in Seq(Chunk) /\ snd_una \in Nat /\ snd_nxt \in Nat
  BY DEF FlowInv, TypeOK, SenderTypeOK, SenderInv
<1>4. orig \in Chunk
  BY <1>3
<1>5. /\ copy \in Chunk /\ orig.path \in Paths
      /\ copy.n = orig.n /\ copy.last = orig.last /\ copy.rid = orig.rid
  BY <1>4, Zenon DEF Chunk
<1>6. orig.n = snd_una + k /\ orig.n < snd_nxt /\ ChunkAt(orig.n) = orig
  <2>1. orig.n = snd_una + (k + 1) - 1 /\ Len(unacked) = snd_nxt - snd_una
    BY <1>3 DEF FlowInv, SenderInv
  <2>2. orig.n = snd_una + k /\ orig.n < snd_nxt /\ orig.n - snd_una + 1 = k + 1
    BY <1>3, <2>1, SMTT(30)
  <2> QED
    BY <2>2 DEF ChunkAt
<1> HIDE DEF orig, copy
<1>7. /\ wire' \in [Paths -> Seq(Chunk)]
      /\ \A p \in Paths : \A i \in 1..Len(wire'[p]) :
           \/ i \in 1..Len(wire[p]) /\ wire'[p][i] = wire[p][i]
           \/ wire'[p][i] = copy
  <2>1. wire \in [Paths -> Seq(Chunk)]
    BY DEF FlowInv, TypeOK, NetworkTypeOK
  <2>2. wire' = [wire EXCEPT ![orig.path] = Append(@, copy)]
    BY <1>1 DEF orig, copy
  <2> QED
    BY <1>5, <2>1, <2>2, WireAppend
<1>8. TypeOK'
  BY <1>1, <1>2, <1>7, Zenon
     DEF FlowInv, TypeOK, SenderTypeOK, ReceiverTypeOK, NetworkTypeOK, rcvVars
<1>9. SenderInv'
  BY <1>1, <1>2, Zenon DEF FlowInv, SenderInv, QueuedMsgs, FifoMsgs, rcvVars
<1>10. RequestInv'
  BY <1>2, Zenon DEF FlowInv, RequestInv, QueuedMsgs, rcvVars
<1>11. FlightInv'
  <2>1. \A n : ChunkAt(n)' = ChunkAt(n)
    BY <1>2 DEF ChunkAt
  <2>2. /\ copy.n < snd_nxt
        /\ copy.last = ChunkAt(copy.n).last
        /\ copy.rid = ChunkAt(copy.n).rid
    BY <1>5, <1>6, SMTT(30)
  <2> QED
    BY <1>2, <1>7, <2>1, <2>2, SMTT(30)
       DEF FlowInv, FlightInv, RidWhenLast, ChunkAt, rcvVars
<1>12. DeliveryInv'
  BY <1>2 DEF FlowInv, DeliveryInv, CompletionSound, rcvVars
<1> QED
  BY <1>8, <1>9, <1>10, <1>11, <1>12 DEF FlowInv
=============================================================================
