-------------------------- MODULE UcFlowAckProofs --------------------------
(***************************************************************************)
(* The steps that take packets and ACKs away, uc_rx_ack and supply_rx_buff *)
(* keep FlowInv (UcFlow).                                                  *)
(***************************************************************************)
EXTENDS UcFlowSendProofs

\* Steps that only take packets or ACKs away, note data placed by the NIC,
\* change the sender's counters or start a retransmission loop.
LEMMA QuietFlowInv ==
  ASSUME FlowInv,
         UNCHANGED <<works, srid, sent, sdone, snd_nxt, snd_una, unacked,
                     supplied, reqs, rcv_nxt, sack, sack_cnt, ready, cum_wqe,
                     cons_ooo, rdone, fifo>>,
         dup_acks' \in Nat,
         tx_sack' \in [base : Nat, bits : SUBSET Nat, cnt : Int],
         rtx' \subseteq 0..(Len(unacked) - 1),
         placed' \in SUBSET (Msgs \X Nat),
         losses' \in Nat,
         rto_armed' \in BOOLEAN /\ ack_pending' \in BOOLEAN,
         acks' \in SUBSET SackInfo, \A a \in acks' : a.n <= rcv_nxt,
         \/ wire' = wire
         \/ \E p \in Paths : /\ wire[p] # <<>>
                             /\ wire' = [wire EXCEPT ![p] = Tail(@)]
  PROVE  FlowInv'
<1>1. /\ wire' \in [Paths -> Seq(Chunk)]
      /\ \A p \in Paths : \A i \in 1..Len(wire'[p]) :
           \E j \in 1..Len(wire[p]) : wire'[p][i] = wire[p][j]
  <2>1. wire \in [Paths -> Seq(Chunk)]
    BY DEF FlowInv, TypeOK, NetworkTypeOK
  <2>2. CASE wire' = wire
    BY <2>1, <2>2
  <2>3. CASE \E p \in Paths : /\ wire[p] # <<>>
                              /\ wire' = [wire EXCEPT ![p] = Tail(@)]
    BY <2>1, <2>3, WireTail, Zenon
  <2> QED
    BY <2>2, <2>3
<1>2. TypeOK'
  <2>1. rtx' \in SUBSET Nat
    BY DEF FlowInv, TypeOK, SenderTypeOK
  <2>2. SenderTypeOK'
    BY <2>1 DEF FlowInv, TypeOK, SenderTypeOK
  <2>3. ReceiverTypeOK'
    BY DEF FlowInv, TypeOK, ReceiverTypeOK
  <2>4. NetworkTypeOK'
    BY <1>1 DEF FlowInv, TypeOK, NetworkTypeOK
  <2> QED
    BY <2>2, <2>3, <2>4 DEF TypeOK
<1>3. SenderInv'
  BY Zenon DEF FlowInv, SenderInv, QueuedMsgs, FifoMsgs
<1>4. RequestInv'
  BY DEF FlowInv, RequestInv, QueuedMsgs
<1>5. FlightInv'
  <2>1. ASSUME NEW p \in Paths, NEW i \in 1..Len(wire'[p])
        PROVE  /\ wire'[p][i].n < snd_nxt
               /\ wire'[p][i].n >= rcv_nxt =>
                    /\ wire'[p][i].last = ChunkAt(wire'[p][i].n).last
                    /\ wire'[p][i].rid = ChunkAt(wire'[p][i].n).rid
    <3>1. PICK j \in 1..Len(wire[p]) : wire'[p][i] = wire[p][j]
      BY <1>1
    <3> QED
      BY <3>1 DEF FlowInv, FlightInv
  <2>2. \A e \in ready : /\ rcv_nxt <= e.pos /\ e.pos < snd_nxt
                         /\ e.rid = RidWhenLast(ChunkAt(e.pos))
    BY DEF FlowInv, FlightInv
  <2> QED
    BY <2>1, <2>2 DEF FlightInv, ChunkAt, RidWhenLast
<1>6. DeliveryInv'
  BY DEF FlowInv, DeliveryInv, CompletionSound
<1> QED
  BY <1>2, <1>3, <1>4, <1>5, <1>6, SMTT(30) DEF FlowInv

\* Losses, the end of a batch, and packets the receiver drops.
LEMMA QuietStepsFlowInv ==
  ASSUME FlowInv,
         \/ Lose
         \/ PostAcks
         \/ \E p \in Paths : RxChunkDropped(p) \/ RxRtxChunkDropped(p)
  PROVE  FlowInv'
<1>0. /\ dup_acks \in Nat
      /\ tx_sack \in [base : Nat, bits : SUBSET Nat, cnt : Int]
      /\ rtx \subseteq 0..(Len(unacked) - 1)
      /\ placed \in SUBSET (Msgs \X Nat)
      /\ losses \in Nat
      /\ rto_armed \in BOOLEAN /\ ack_pending \in BOOLEAN
      /\ acks \in SUBSET SackInfo
      /\ \A a \in acks : a.n <= rcv_nxt
  BY DEF FlowInv, TypeOK, SenderTypeOK, ReceiverTypeOK, NetworkTypeOK,
         SenderInv, FlightInv
<1>1. CASE Lose
  <2>1. losses' \in Nat
    BY <1>0, <1>1 DEF Lose, LoseChunk, LoseAck
  <2>2. acks' \subseteq acks
    BY <1>1 DEF Lose, LoseChunk, LoseAck
  <2> QED
    BY <1>0, <1>1, <2>1, <2>2, QuietFlowInv, Zenon
       DEF Lose, LoseChunk, LoseAck, sndVars, rcvVars
<1>2. CASE PostAcks
  <2>1. Ack \in SackInfo /\ Ack.n = rcv_nxt
    BY DEF FlowInv, TypeOK, ReceiverTypeOK, Ack, SackInfo
  <2>2. acks' \in SUBSET SackInfo /\ \A a \in acks' : a.n <= rcv_nxt
    <3>1. rcv_nxt <= rcv_nxt
      BY SMTT(30) DEF FlowInv, TypeOK, ReceiverTypeOK
    <3> QED
      BY <1>0, <1>2, <2>1, <3>1 DEF PostAcks
  <2> QED
    BY <1>0, <1>2, <2>2, QuietFlowInv, Zenon DEF PostAcks, sndVars
<1>3. ASSUME NEW p \in Paths, RxChunkDropped(p) PROVE FlowInv'
  <2>1. Head(wire[p]) \in Chunk
    <3>1. wire[p] \in Seq(Chunk) /\ wire[p] # <<>>
      BY <1>3, SMTT(30) DEF FlowInv, TypeOK, NetworkTypeOK, RxChunkDropped, Arrives
    <3> QED
      BY <3>1, TailFacts
  <2>2. placed' \in SUBSET (Msgs \X Nat)
    <3>1. Head(wire[p]).msg \in Msgs /\ Head(wire[p]).off \in Nat
      BY <2>1 DEF Chunk
    <3> QED
      BY <1>0, <1>3, <3>1 DEF RxChunkDropped
  <2> QED
    BY <1>0, <1>3, <2>2, QuietFlowInv, Zenon DEF RxChunkDropped, Arrives, sndVars
<1>4. ASSUME NEW p \in Paths, RxRtxChunkDropped(p) PROVE FlowInv'
  BY <1>0, <1>4, QuietFlowInv, Zenon DEF RxRtxChunkDropped, Arrives, sndVars, rcvVars
<1> QED
  BY <1>1, <1>2, <1>3, <1>4

\* What is left of a sequence when its first k elements are dropped.
LEMMA DropFacts ==
  ASSUME NEW S, NEW s \in Seq(S), NEW k \in 0..Len(s),
         NEW t, t = SubSeq(s, k + 1, Len(s))
  PROVE  /\ t \in Seq(S) /\ Len(t) = Len(s) - k
         /\ \A i \in 1..Len(t) : i + k \in 1..Len(s) /\ t[i] = s[i + k]
  OBVIOUS

\* ACKs that are ignored or counted as duplicates.
LEMMA RxQuietAckFlowInv ==
  ASSUME FlowInv, NEW a \in acks, RxAck(a), RxIgnoredAck(a) \/ RxDuplicateAck(a)
  PROVE  FlowInv'
<1>0. /\ dup_acks \in Nat
      /\ tx_sack \in [base : Nat, bits : SUBSET Nat, cnt : Int]
      /\ rtx \subseteq 0..(Len(unacked) - 1)
      /\ placed \in SUBSET (Msgs \X Nat)
      /\ losses \in Nat
      /\ rto_armed \in BOOLEAN /\ ack_pending \in BOOLEAN
      /\ acks \in SUBSET SackInfo
      /\ \A b \in acks : b.n <= rcv_nxt
  BY DEF FlowInv, TypeOK, SenderTypeOK, ReceiverTypeOK, NetworkTypeOK,
         SenderInv, FlightInv
<1>1. acks' \subseteq acks
  BY DEF RxAck
<1>2. CASE RxIgnoredAck(a)
  BY <1>0, <1>1, <1>2, QuietFlowInv, SMTT(30) DEF RxAck, RxIgnoredAck, sndVars, rcvVars
<1>3. CASE RxDuplicateAck(a)
  <2>1. rtx' \subseteq 0..(Len(unacked) - 1)
    BY <1>3, RetransmitInRange DEF RxDuplicateAck, FlowInv
  <2>2. tx_sack' \in [base : Nat, bits : SUBSET Nat, cnt : Int]
    BY <1>0, <1>3 DEF RxDuplicateAck, SackInfo
  <2>3. dup_acks' \in Nat
    BY <1>0, <1>3 DEF RxDuplicateAck
  <2>4. rto_armed' \in BOOLEAN
    BY <1>3 DEF RxDuplicateAck
  <2> QED
    BY <1>0, <1>1, <1>3, <2>1, <2>2, <2>3, <2>4, QuietFlowInv
       DEF RxAck, RxDuplicateAck, rcvVars
<1> QED
  BY <1>2, <1>3

\* A valid ACK pops chunks the receiver has consumed.
LEMMA RxValidAckFlowInv ==
  ASSUME FlowInv, WindowFits, NEW a \in acks, RxAck(a), RxValidAck(a)
  PROVE  FlowInv'
<1> USE ConstantFacts
<1> DEFINE k == CsnDiff(Csn(a.n), Csn(snd_una))
<1>1. /\ snd_una \in Nat /\ snd_nxt \in Nat /\ rcv_nxt \in Nat
      /\ unacked \in Seq(Chunk) /\ Len(unacked) \in Nat
      /\ a \in SackInfo /\ a.n \in Nat
      /\ a.n <= rcv_nxt /\ snd_una <= rcv_nxt /\ rcv_nxt <= snd_nxt
      /\ Len(unacked) = snd_nxt - snd_una
  BY SMTT(30) DEF FlowInv, TypeOK, SenderTypeOK, ReceiverTypeOK, NetworkTypeOK,
         SackInfo, SenderInv, FlightInv
<1>2. a.n >= snd_una
  BY <1>1, CsnOrder DEF RxAck, RxValidAck, WithinLifetime, WindowFits
<1>3. k = a.n - snd_una /\ k \in 0..Len(unacked)
  <2>1. a.n - snd_una \in 0..Len(unacked) /\ a.n - snd_una < CsnMod
    BY <1>1, <1>2, HalfCsnProps, SMTT(30) DEF WindowFits
  <2> QED
    BY <1>1, <1>2, <2>1, CsnDiffAhead
<1> HIDE DEF k
<1>4. /\ unacked' = SubSeq(unacked, k + 1, Len(unacked))
      /\ snd_una' = snd_una + k
      /\ sdone' = sdone \cup {unacked[i].msg : i \in {j \in 1..k :
                                                        unacked[j].last}}
      /\ tx_sack' = [base |-> a.n, bits |-> a.bits, cnt |-> a.cnt]
      /\ dup_acks' = 0 /\ rto_armed' = (unacked' # <<>>)
      /\ UNCHANGED <<works, srid, sent, snd_nxt, rtx>>
      /\ acks' = acks \ {a} /\ rtx = {}
      /\ UNCHANGED <<rcvVars, fifo, wire, losses>>
  BY Zenon DEF RxAck, RxValidAck, k
<1>5. /\ unacked' \in Seq(Chunk) /\ Len(unacked') = Len(unacked) - k
      /\ \A i \in 1..Len(unacked') :
           i + k \in 1..Len(unacked) /\ unacked'[i] = unacked[i + k]
  <2>1. unacked' = SubSeq(unacked, k + 1, Len(unacked))
    BY <1>4, Zenon
  <2>2. unacked \in Seq(Chunk) /\ k \in 0..Len(unacked)
    BY <1>1, <1>3
  <2> QED
    BY <2>1, <2>2, DropFacts, SMTT(30)
<1>6. snd_una' = a.n /\ snd_una' \in Nat
  <2>1. snd_una' = snd_una + k
    BY <1>4
  <2>2. snd_una \in Nat /\ a.n \in Nat
    BY <1>1
  <2>3. k = a.n - snd_una
    BY <1>3
  <2> QED
    BY <2>1, <2>2, <2>3
<1>7. TypeOK'
  <2>1. sdone' \in SUBSET Msgs
    <3>1. \A i \in 1..k : i \in 1..Len(unacked)
      BY <1>1, <1>3
    <3>2. \A i \in 1..Len(unacked) : unacked[i].msg \in Msgs
      BY ChunkTypes, ChunkFields DEF FlowInv
    <3> QED
      BY <1>4, <3>1, <3>2 DEF FlowInv, TypeOK, SenderTypeOK
  <2>2. SenderTypeOK'
    BY <1>1, <1>4, <1>5, <1>6, <2>1, Zenon
       DEF FlowInv, TypeOK, SenderTypeOK, SackInfo
  <2>3. ReceiverTypeOK' /\ NetworkTypeOK'
    BY <1>4, SMTT(30) DEF FlowInv, TypeOK, ReceiverTypeOK, NetworkTypeOK, rcvVars
  <2>4. rto_armed' \in BOOLEAN /\ ack_pending' \in BOOLEAN
    BY <1>4 DEF FlowInv, TypeOK, rcvVars
  <2> QED
    BY <2>2, <2>3, <2>4, SMTT(30) DEF TypeOK
<1>8. SenderInv'
  <2>1. QueuedMsgs' = QueuedMsgs /\ FifoMsgs' = FifoMsgs
    BY <1>4, SMTT(30) DEF QueuedMsgs, FifoMsgs
  <2>2. snd_una' <= rcv_nxt' /\ rcv_nxt' <= snd_nxt'
    BY <1>1, <1>4, <1>6, SMTT(30) DEF rcvVars
  <2>3. Len(unacked') = snd_nxt' - snd_una'
    BY <1>1, <1>3, <1>4, <1>5, <1>6, SMTT(30)
  <2>4. ASSUME NEW i \in 1..Len(unacked')
        PROVE  /\ unacked'[i].n = snd_una' + i - 1
               /\ unacked'[i].msg <= supplied'
               /\ unacked'[i].last =>
                    unacked'[i].msg \notin QueuedMsgs' \cup FifoMsgs'
               /\ \A j \in 1..Len(unacked') :
                    unacked'[i].msg = unacked'[j].msg /\ unacked'[j].last
                      => i <= j
    <3>1. i + k \in 1..Len(unacked) /\ unacked'[i] = unacked[i + k]
      BY <1>5
    <3>2. unacked[i + k].n = snd_una + (i + k) - 1
      BY <3>1 DEF FlowInv, SenderInv
    <3>3. unacked'[i].n = snd_una' + i - 1
      <4>1. i \in Int /\ k \in Int /\ snd_una \in Int /\ snd_una' = snd_una + k
        BY <1>1, <1>3, <1>4
      <4>2. unacked'[i].n = snd_una + (i + k) - 1
        BY <3>1, <3>2
      <4> QED
        BY <4>1, <4>2, SMTT(30)
    <3>4. \A j \in 1..Len(unacked') :
            unacked'[i].msg = unacked'[j].msg /\ unacked'[j].last
              => i + k <= j + k
      BY <1>5, <3>1 DEF FlowInv, SenderInv
    <3>5. \A j \in 1..Len(unacked') : i + k <= j + k => i <= j
      BY <1>1, <1>3, <1>5, SMTT(30)
    <3> QED
      BY <1>4, <2>1, <3>1, <3>3, <3>4, <3>5, Zenon DEF FlowInv, SenderInv, rcvVars
  <2> QED
    BY <1>4, <2>1, <2>2, <2>3, <2>4, Zenon DEF FlowInv, SenderInv, rcvVars
<1>9. RequestInv'
  <2>1. \A i \in 1..Len(unacked') : unacked'[i].n >= rcv_nxt =>
           reqs[unacked'[i].rid].msg = unacked'[i].msg
    BY <1>5 DEF FlowInv, RequestInv
  <2> QED
    BY <1>4, <2>1, Zenon DEF FlowInv, RequestInv, QueuedMsgs, rcvVars
<1>10. FlightInv'
  <2> DEFINE At(n) == unacked'[n - snd_una' + 1]
  <2>1. ASSUME NEW n \in Nat, n >= rcv_nxt, n < snd_nxt
        PROVE  At(n) = ChunkAt(n)
    <3> DEFINE i == n - snd_una' + 1
    <3>1. /\ n \in Int /\ k \in Int /\ snd_una \in Int /\ snd_una' = snd_una + k
          /\ snd_una' <= n /\ snd_nxt \in Int
          /\ Len(unacked') = snd_nxt - snd_una - k
      <4>1. snd_una' <= n
        BY <1>1, <1>6, <2>1
      <4>2. Len(unacked') = snd_nxt - snd_una - k
        BY <1>1, <1>5, SMTT(30)
      <4>3. k \in Int /\ snd_una' = snd_una + k
        BY <1>1, <1>3, <1>4
      <4>4. n \in Int /\ snd_una \in Int /\ snd_nxt \in Int
        BY <1>1
      <4> QED
        BY <4>1, <4>2, <4>3, <4>4
    <3>2. i \in 1..Len(unacked') /\ i + k = n - snd_una + 1
      BY <2>1, <3>1, SMTT(30)
    <3> HIDE DEF i
    <3>3. unacked'[i] = unacked[i + k]
      BY <1>5, <3>2
    <3> QED
      BY <3>2, <3>3 DEF ChunkAt, i
  <2> HIDE DEF At
  <2>2. \A p \in Paths : \A i \in 1..Len(wire[p]) : wire[p][i].n \in Nat
    BY ChunkTypes, ChunkFields DEF FlowInv
  <2>3. \A e \in ready : e.pos \in Nat
    BY SMTT(30) DEF FlowInv, TypeOK, ReceiverTypeOK
  <2>4. ASSUME NEW p \in Paths, NEW i \in 1..Len(wire[p])
        PROVE  /\ wire[p][i].n < snd_nxt
               /\ wire[p][i].n >= rcv_nxt =>
                    /\ wire[p][i].last = At(wire[p][i].n).last
                    /\ wire[p][i].rid = At(wire[p][i].n).rid
    BY <2>1, <2>2, SMTT(30) DEF FlowInv, FlightInv
  <2>5. ASSUME NEW e \in ready
        PROVE  /\ rcv_nxt <= e.pos /\ e.pos < snd_nxt
               /\ e.rid = RidWhenLast(At(e.pos))
    BY <2>1, <2>3 DEF FlowInv, FlightInv
  <2> QED
    BY <1>4, <2>4, <2>5, Zenon
       DEF FlowInv, FlightInv, RidWhenLast, ChunkAt, At, rcvVars
<1>11. DeliveryInv'
  <2>1. ASSUME NEW i \in 1..k, unacked[i].last
        PROVE  rdone[unacked[i].msg] # Pending
    <3>1. i \in 1..Len(unacked)
      BY <1>1, <1>3, SMTT(30)
    <3>2. unacked[i].n = snd_una + i - 1
      BY <3>1, SMTT(30) DEF FlowInv, SenderInv
    <3>3. unacked[i].n < rcv_nxt
      BY <1>1, <1>3, <3>2, SMTT(30)
    <3> QED
      BY <2>1, <3>1, <3>3 DEF FlowInv, DeliveryInv
  <2>2. CompletionSound'
    BY <1>4, <2>1, SMTT(30) DEF FlowInv, DeliveryInv, CompletionSound, rcvVars
  <2>3. \A i \in 1..Len(unacked') : unacked'[i].last /\ unacked'[i].n < rcv_nxt
           => rdone[unacked'[i].msg] # Pending
    BY <1>5, SMTT(30) DEF FlowInv, DeliveryInv
  <2> QED
    BY <1>4, <2>2, <2>3, Zenon DEF DeliveryInv, rcvVars
<1> QED
  BY <1>7, <1>8, <1>9, <1>10, <1>11, SMTT(30) DEF FlowInv

\* A free request is bound to the next receive.
LEMMA SupplyRxBuffFlowInv == FlowInv /\ SupplyRxBuff => FlowInv'
<1> SUFFICES ASSUME FlowInv, SupplyRxBuff PROVE FlowInv'
  OBVIOUS
<1> USE ConstantFacts
<1> DEFINE m == supplied + 1
<1>1. PICK r \in Rids :
        /\ reqs[r].msg = NoMsg
        /\ reqs' = [reqs EXCEPT ![r] = [msg |-> m, received |-> 0]]
        /\ fifo' = Append(fifo, [msg |-> m, rid |-> r])
  BY Zenon DEF SupplyRxBuff
<1>2. /\ supplied' = m /\ supplied < NumMsgs
      /\ UNCHANGED <<sndVars, rcv_nxt, sack, sack_cnt, ready, cum_wqe,
                     cons_ooo, ack_pending, rdone, placed, wire, acks, losses>>
  BY DEF SupplyRxBuff
<1>3. supplied \in Nat /\ m \in Msgs /\ m \in 0..NumMsgs /\ m \in Nat
  BY <1>2 DEF FlowInv, TypeOK, ReceiverTypeOK, Msgs
<1>4. reqs \in [Rids -> [msg : Msgs \cup {NoMsg}, received : Nat]]
  BY DEF FlowInv, TypeOK, ReceiverTypeOK
<1>5. /\ reqs' \in [Rids -> [msg : Msgs \cup {NoMsg}, received : Nat]]
      /\ reqs'[r].msg = m
      /\ \A q \in Rids : q # r => reqs'[q] = reqs[q]
      /\ \A q \in Rids : reqs[q].msg # NoMsg => reqs'[q] = reqs[q]
  BY <1>1, <1>3, <1>4, SMTT(30)
<1> DEFINE item == [msg |-> m, rid |-> r]
<1>6. /\ fifo \in Seq(FifoItem) /\ item \in FifoItem
      /\ item.msg = m /\ item.rid = r
  BY <1>1, <1>3, SMTT(30) DEF FlowInv, TypeOK, NetworkTypeOK, FifoItem
<1> HIDE DEF item, m
<1>7. /\ fifo' \in Seq(FifoItem)
      /\ Len(fifo) \in Nat /\ Len(fifo') = Len(fifo) + 1
      /\ \A i \in 1..Len(fifo) : fifo'[i] = fifo[i]
      /\ fifo'[Len(fifo) + 1] = item
  BY <1>1, <1>6, AppendFacts DEF item
<1>8. \A i \in 1..Len(fifo') : i \in 1..Len(fifo) \/ i = Len(fifo) + 1
  BY <1>7
<1>9. FifoMsgs' \subseteq FifoMsgs \cup {m}
  BY <1>6, <1>7, <1>8, Zenon DEF FifoMsgs
<1>10. QueuedMsgs' = QueuedMsgs /\ QueuedMsgs \subseteq Msgs
  BY <1>2, RangeFacts
     DEF QueuedMsgs, sndVars, FlowInv, TypeOK, SenderTypeOK
<1>11. ASSUME NEW x \in Nat, x <= supplied PROVE x # m /\ x <= supplied'
  BY <1>2, <1>3, <1>11 DEF m
<1>12. TypeOK'
  BY <1>2, <1>3, <1>5, <1>7, Zenon
     DEF FlowInv, TypeOK, SenderTypeOK, ReceiverTypeOK, NetworkTypeOK, sndVars
<1>13. SenderInv'
  <2>1. \A i \in 1..Len(unacked) : /\ unacked[i].msg <= supplied'
                                   /\ unacked[i].msg # m
    BY <1>11, ChunkTypes, ChunkFields, SMTT(30) DEF FlowInv, SenderInv
  <2> QED
    BY <1>2, <1>9, <1>10, <2>1, Zenon DEF FlowInv, SenderInv, sndVars
<1>14. RequestInv'
  <2>1. \A i \in 1..Len(unacked) : unacked[i].n >= rcv_nxt =>
          reqs'[unacked[i].rid].msg = unacked[i].msg
    <3>1. \A i \in 1..Len(unacked) : /\ unacked[i].rid \in Rids
                                     /\ unacked[i].msg # NoMsg
      BY ChunkTypes, ChunkFields, SMTT(30) DEF FlowInv
    <3>2. \A i \in 1..Len(unacked) : unacked[i].n >= rcv_nxt =>
            reqs[unacked[i].rid].msg = unacked[i].msg
      BY DEF FlowInv, RequestInv
    <3> QED
      BY <1>5, <3>1, <3>2, Zenon
  <2>2. \A w \in QueuedMsgs : w <= supplied' /\ reqs'[srid[w]].msg = w
    <3> SUFFICES ASSUME NEW w \in QueuedMsgs
                 PROVE  w <= supplied' /\ reqs'[srid[w]].msg = w
      BY SMTT(30)
    <3>1. /\ w <= supplied /\ reqs[srid[w]].msg = w /\ srid[w] \in Rids
          /\ w \in Nat /\ w # NoMsg
      BY <1>10, SMTT(30) DEF FlowInv, RequestInv, SenderInv
    <3> QED
      BY <1>5, <1>11, <3>1, Zenon
  <2>3. ASSUME NEW i \in 1..Len(fifo')
        PROVE  /\ fifo'[i].msg <= supplied'
               /\ fifo'[i].msg \notin QueuedMsgs
               /\ reqs'[fifo'[i].rid].msg = fifo'[i].msg
    <3>1. CASE i \in 1..Len(fifo)
      <4>1. fifo[i] \in FifoItem /\ fifo'[i] = fifo[i]
        BY <1>6, <1>7, <3>1, SMTT(30)
      <4>2. fifo[i].msg \in Nat /\ fifo[i].msg # NoMsg /\ fifo[i].rid \in Rids
        BY <4>1, SMTT(30) DEF FifoItem
      <4>3. /\ fifo[i].msg <= supplied /\ fifo[i].msg \notin QueuedMsgs
            /\ reqs[fifo[i].rid].msg = fifo[i].msg
        BY <3>1, SMTT(30) DEF FlowInv, RequestInv
      <4> QED
        BY <1>5, <1>11, <4>1, <4>2, <4>3, Zenon
    <3>2. CASE i = Len(fifo) + 1
      <4>1. m \notin QueuedMsgs
        BY <1>10, <1>11 DEF FlowInv, RequestInv
      <4>2. m <= supplied'
        BY <1>2, <1>3, SMTT(30)
      <4> QED
        BY <1>5, <1>6, <1>7, <3>2, <4>1, <4>2, SMTT(30)
    <3> QED
      BY <1>8, <3>1, <3>2
  <2>4. \A i, j \in 1..Len(fifo') : fifo'[i].msg = fifo'[j].msg => i = j
    <3>1. \A i \in 1..Len(fifo) : fifo[i].msg # m
      <4>1. \A i \in 1..Len(fifo) : fifo[i] \in FifoItem
        BY <1>6
      <4>2. \A i \in 1..Len(fifo) : fifo[i].msg \in Nat
        BY <4>1 DEF FifoItem
      <4> QED
        BY <1>11, <4>2, SMTT(30) DEF FlowInv, RequestInv
    <3> QED
      BY <1>6, <1>7, <1>8, <3>1 DEF FlowInv, RequestInv
  <2>5. \A q \in Rids : reqs'[q].msg <= supplied'
    <3>1. \A q \in Rids : reqs[q].msg \in Nat
      BY <1>4 DEF NoMsg
    <3>2. m <= supplied'
      BY <1>2, <1>3, SMTT(30)
    <3> QED
      BY <1>5, <1>11, <3>1, <3>2, SMTT(30) DEF FlowInv, RequestInv
  <2> QED
    BY <1>2, <1>10, <2>1, <2>2, <2>3, <2>4, <2>5 DEF RequestInv, sndVars
<1>15. FlightInv'
  BY <1>2 DEF FlowInv, FlightInv, RidWhenLast, ChunkAt, sndVars
<1>16. DeliveryInv'
  BY <1>2, Zenon DEF FlowInv, DeliveryInv, CompletionSound, sndVars
<1> QED
  BY <1>12, <1>13, <1>14, <1>15, <1>16 DEF FlowInv
=============================================================================
