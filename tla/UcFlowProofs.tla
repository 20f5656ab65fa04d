---------------------------- MODULE UcFlowProofs ----------------------------
(***************************************************************************)
(* A send that completes was delivered: UcFlow keeps FlowInv, for every    *)
(* number of paths and messages, every chunk and message size, any losses  *)
(* and any even size of the sequence space, as long as the chunks          *)
(* outstanding stay within half of that space (WindowFits).                *)
(***************************************************************************)
EXTENDS UcFlowAckProofs, UcFlowReceiveProofs

\* A chunk of the first queued message is sent and tracked.
LEMMA TxChunkFlowInv ==
  ASSUME FlowInv, NEW q \in Paths, TxChunk(q)
  PROVE  FlowInv'
<1> USE ConstantFacts
<1> DEFINE m == Head(works)
           len == EventOnChunkSize(MsgSize[m] - sent[m])
           last == sent[m] + len = MsgSize[m]
           c == [n |-> snd_nxt, msg |-> m, off |-> sent[m], len |-> len,
                 last |-> last, rid |-> srid[m], path |-> q, rtx |-> FALSE]
<1>1. /\ works \in Seq(Msgs) /\ works # <<>> /\ unacked \in Seq(Chunk)
      /\ wire \in [Paths -> Seq(Chunk)] /\ sent \in [Msgs -> Nat]
      /\ snd_nxt \in Nat /\ snd_una \in Nat /\ rcv_nxt \in Nat
  BY DEF FlowInv, TypeOK, SenderTypeOK, ReceiverTypeOK, NetworkTypeOK, TxChunk
<1>2. /\ m \in Msgs /\ m \in QueuedMsgs /\ Tail(works) \in Seq(Msgs)
      /\ QueuedMsgs \subseteq Msgs
  BY <1>1, TailFacts, TailRange, RangeFacts DEF QueuedMsgs
<1>3. /\ srid[m] \in Rids /\ m <= supplied /\ reqs[srid[m]].msg = m
      /\ m \notin FifoMsgs
  BY <1>2, SMTT(30) DEF FlowInv, SenderInv, RequestInv, FifoMsgs
<1>4. /\ sent[m] \in Nat /\ MsgSize[m] \in Nat /\ sent[m] <= MsgSize[m]
  BY <1>1, <1>2, SMTT(30) DEF FlowInv, SenderInv
<1> HIDE DEF m
<1>5. len \in Nat /\ sent[m] + len <= MsgSize[m]
  BY <1>4 DEF EventOnChunkSize
<1> HIDE DEF len
<1>6. last \in BOOLEAN
  OBVIOUS
<1> HIDE DEF last
<1>7. /\ c \in Chunk /\ c.n = snd_nxt /\ c.msg = m /\ c.rid = srid[m]
      /\ c.last = last
  BY <1>1, <1>2, <1>3, <1>4, <1>5, <1>6, SMTT(30) DEF Chunk
<1>8. /\ wire' = [wire EXCEPT ![q] = Append(@, c)]
      /\ unacked' = Append(unacked, c)
      /\ sent' = [sent EXCEPT ![m] = @ + len]
      /\ works' = (IF last THEN Tail(works) ELSE works)
      /\ snd_nxt' = snd_nxt + 1 /\ rto_armed' = TRUE
      /\ UNCHANGED <<srid, sdone, snd_una, dup_acks, tx_sack, rtx, rcvVars,
                     fifo, acks, losses>>
  BY DEF TxChunk, m, len, last
<1> HIDE DEF c
<1>9. /\ wire' \in [Paths -> Seq(Chunk)]
      /\ \A p \in Paths : \A i \in 1..Len(wire'[p]) :
           \/ i \in 1..Len(wire[p]) /\ wire'[p][i] = wire[p][i]
           \/ wire'[p][i] = c
  BY <1>1, <1>7, <1>8, WireAppend, SMTT(30)
<1>10. /\ unacked' \in Seq(Chunk) /\ Len(unacked) \in Nat
       /\ Len(unacked') = Len(unacked) + 1
       /\ \A i \in 1..Len(unacked) : unacked'[i] = unacked[i]
       /\ unacked'[Len(unacked) + 1] = c
  BY <1>1, <1>7, <1>8, AppendFacts
<1>11. \A i \in 1..Len(unacked') : i \in 1..Len(unacked) \/ i = Len(unacked) + 1
  BY <1>10
<1>12. /\ works' \in Seq(Msgs) /\ QueuedMsgs' \subseteq QueuedMsgs
       /\ IsInjective(works') /\ (last => m \notin QueuedMsgs')
  <2>1. IsInjective(works)
    BY DEF FlowInv, SenderInv
  <2>2. CASE last
    BY <1>1, <1>2, <1>8, <2>1, <2>2, TailInjective, TailRange
       DEF QueuedMsgs, m
  <2>3. CASE ~ last
    BY <1>1, <1>8, <2>1, <2>3 DEF QueuedMsgs
  <2> QED
    BY <2>2, <2>3
<1>13. /\ sent' \in [Msgs -> Nat] /\ \A x \in Msgs : sent'[x] <= MsgSize[x]
  <2>1. sent[m] + len \in Nat
    BY <1>4, <1>5
  <2>2. sent' \in [Msgs -> Nat] /\ sent'[m] = sent[m] + len
        /\ \A x \in Msgs : x # m => sent'[x] = sent[x]
    BY <1>1, <1>2, <1>8, <2>1
  <2> QED
    BY <1>5, <2>2, Zenon DEF FlowInv, SenderInv
<1>14. FifoMsgs' = FifoMsgs
  BY <1>8 DEF FifoMsgs
<1>15. /\ snd_una <= rcv_nxt /\ rcv_nxt <= snd_nxt
       /\ Len(unacked) = snd_nxt - snd_una
  BY DEF FlowInv, SenderInv
<1>16. TypeOK'
  <2>1. SenderTypeOK'
    <3>1. works' \in Seq(Msgs) /\ snd_nxt' \in Nat
      BY <1>1, <1>2, <1>8
    <3>2. SenderTypeOK
      BY DEF FlowInv, TypeOK
    <3> QED
      BY <1>8, <1>10, <1>13, <3>1, <3>2 DEF SenderTypeOK
  <2>2. ReceiverTypeOK' /\ ack_pending' = ack_pending
    BY <1>8 DEF FlowInv, TypeOK, ReceiverTypeOK, rcvVars
  <2>3. NetworkTypeOK'
    BY <1>8, <1>9 DEF FlowInv, TypeOK, NetworkTypeOK
  <2> QED
    BY <1>8, <2>1, <2>2, <2>3 DEF FlowInv, TypeOK
<1>17. SenderInv'
  <2>1. snd_una' <= rcv_nxt' /\ rcv_nxt' <= snd_nxt'
    BY <1>1, <1>8, <1>15 DEF rcvVars
  <2>2. Len(unacked') = snd_nxt' - snd_una'
    BY <1>1, <1>8, <1>10, <1>15
  <2>3. ASSUME NEW i \in 1..Len(unacked')
        PROVE  /\ unacked'[i].n = snd_una' + i - 1
               /\ unacked'[i].msg <= supplied'
               /\ unacked'[i].last =>
                    unacked'[i].msg \notin QueuedMsgs' \cup FifoMsgs'
    <3>1. CASE i \in 1..Len(unacked)
      BY <1>8, <1>10, <1>12, <1>14, <3>1, SMTT(30) DEF FlowInv, SenderInv, rcvVars
    <3>2. CASE i = Len(unacked) + 1
      <4>1. snd_nxt = snd_una + i - 1
        BY <1>1, <1>15, <3>2
      <4> QED
        BY <1>3, <1>7, <1>8, <1>10, <1>12, <1>14, <3>2, <4>1 DEF rcvVars
    <3> QED
      BY <1>11, <3>1, <3>2, SMTT(30)
  <2>4. ASSUME NEW i \in 1..Len(unacked'), NEW j \in 1..Len(unacked'),
               unacked'[i].msg = unacked'[j].msg, unacked'[j].last
        PROVE  i <= j
    <3>1. CASE j = Len(unacked) + 1
      BY <1>10, <3>1
    <3>2. CASE j \in 1..Len(unacked) /\ i \in 1..Len(unacked)
      BY <1>10, <2>4, <3>2 DEF FlowInv, SenderInv
    <3>3. CASE j \in 1..Len(unacked) /\ i = Len(unacked) + 1
      <4>1. unacked[j].last /\ unacked[j].msg = m
        BY <1>7, <1>10, <2>4, <3>3
      <4>2. m \notin QueuedMsgs
        BY <3>3, <4>1 DEF FlowInv, SenderInv
      <4> QED
        BY <1>2, <4>2
    <3> QED
      BY <1>11, <3>1, <3>2, <3>3
  <2>5. rtx' \subseteq 0..(Len(unacked') - 1)
    BY <1>8, <1>10, SMTT(30) DEF FlowInv, SenderInv
  <2>6. \A x \in QueuedMsgs' : srid'[x] \in Rids
    BY <1>8, <1>12, SMTT(30) DEF FlowInv, SenderInv
  <2> QED
    BY <1>12, <1>13, <2>1, <2>2, <2>3, <2>4, <2>5, <2>6, SMTT(30) DEF SenderInv
<1>18. RequestInv'
  <2>1. \A i \in 1..Len(unacked') : unacked'[i].n >= rcv_nxt =>
           reqs[unacked'[i].rid].msg = unacked'[i].msg
    BY <1>3, <1>7, <1>10, <1>11, SMTT(30) DEF FlowInv, RequestInv
  <2>2. \A x \in QueuedMsgs' : x <= supplied /\ reqs[srid[x]].msg = x
    BY <1>12 DEF FlowInv, RequestInv
  <2>3. \A i \in 1..Len(fifo) : fifo[i].msg \notin QueuedMsgs'
    BY <1>12 DEF FlowInv, RequestInv
  <2> QED
    BY <1>8, <2>1, <2>2, <2>3, SMTT(30) DEF FlowInv, RequestInv, rcvVars
<1>19. FlightInv'
  <2> DEFINE At(n) == unacked'[n - snd_una' + 1]
  <2>1. ASSUME NEW n \in Nat, n >= rcv_nxt, n < snd_nxt
        PROVE  At(n) = ChunkAt(n)
    <3>1. n - snd_una + 1 \in 1..Len(unacked)
      BY <1>1, <1>15, <2>1
    <3> QED
      BY <1>8, <1>10, <3>1, SMTT(30) DEF ChunkAt
  <2>2. At(snd_nxt) = c
    <3>1. snd_nxt - snd_una + 1 = Len(unacked) + 1
      BY <1>1, <1>15
    <3> QED
      BY <1>8, <1>10, <3>1
  <2> HIDE DEF At
  <2>3. \A p \in Paths : \A i \in 1..Len(wire[p]) : wire[p][i].n \in Nat
    BY ChunkTypes, ChunkFields DEF FlowInv
  <2>4. \A e \in ready : e.pos \in Nat
    BY SMTT(30) DEF FlowInv, TypeOK, ReceiverTypeOK
  <2>5. ASSUME NEW p \in Paths, NEW i \in 1..Len(wire'[p])
        PROVE  /\ wire'[p][i].n < snd_nxt'
               /\ wire'[p][i].n >= rcv_nxt =>
                    /\ wire'[p][i].last = At(wire'[p][i].n).last
                    /\ wire'[p][i].rid = At(wire'[p][i].n).rid
    <3>1. CASE i \in 1..Len(wire[p]) /\ wire'[p][i] = wire[p][i]
      <4>1. wire[p][i].n < snd_nxt /\ wire[p][i].n \in Nat
        BY <2>3, <3>1, SMTT(30) DEF FlowInv, FlightInv
      <4>2. wire[p][i].n < snd_nxt'
        BY <1>1, <1>8, <4>1, SMTT(30)
      <4> QED
        BY <2>1, <3>1, <4>1, <4>2, SMTT(30) DEF FlowInv, FlightInv
    <3>2. CASE wire'[p][i] = c
      <4>1. snd_nxt < snd_nxt'
        BY <1>1, <1>8
      <4> QED
        BY <1>7, <2>2, <3>2, <4>1, SMTT(30)
    <3> QED
      BY <1>9, <3>1, <3>2, SMTT(30)
  <2>6. ASSUME NEW e \in ready
        PROVE  /\ rcv_nxt <= e.pos /\ e.pos < snd_nxt'
               /\ e.rid = RidWhenLast(At(e.pos))
    <3>1. e.pos < snd_nxt'
      BY <1>1, <1>8, <2>4, SMTT(30) DEF FlowInv, FlightInv
    <3> QED
      BY <2>1, <2>4, <3>1, SMTT(30) DEF FlowInv, FlightInv
  <2> QED
    BY <1>8, <2>5, <2>6, Zenon
       DEF FlowInv, FlightInv, RidWhenLast, ChunkAt, At, rcvVars
<1>20. DeliveryInv'
  <2>1. \A i \in 1..Len(unacked') : unacked'[i].last /\ unacked'[i].n < rcv_nxt
           => rdone[unacked'[i].msg] # Pending
    <3>1. ~ (c.n < rcv_nxt)
      BY <1>1, <1>7, <1>15
    <3> QED
      BY <1>10, <1>11, <3>1, Zenon DEF FlowInv, DeliveryInv
  <2> QED
    BY <1>8, <2>1, SMTT(30) DEF FlowInv, DeliveryInv, CompletionSound, rcvVars
<1> QED
  BY <1>16, <1>17, <1>18, <1>19, <1>20, SMTT(30) DEF FlowInv

\* Every step keeps the invariant while the window fits.
LEMMA NextFlowInv == FlowInv /\ WindowFits /\ [Next]_vars => FlowInv'
<1> SUFFICES ASSUME FlowInv, WindowFits, [Next]_vars PROVE FlowInv'
  OBVIOUS
<1>1. CASE SenderStep
  <2>1. ASSUME NEW a \in acks, RxAck(a) PROVE FlowInv'
    BY <2>1, RxQuietAckFlowInv, RxValidAckFlowInv DEF RxAck
  <2> QED
    BY <1>1, <2>1, SendAsyncFlowInv, TxChunkFlowInv, TxBlockedFlowInv,
       HandleRtoFlowInv, RetransmitChunkFlowInv DEF SenderStep
<1>2. CASE ReceiverStep
  BY <1>2, SupplyRxBuffFlowInv, RxAcceptedFlowInv, QuietStepsFlowInv
     DEF ReceiverStep
<1>3. CASE Lose
  BY <1>3, QuietStepsFlowInv
<1>4. CASE UNCHANGED vars
  <2> USE <1>4 DEF vars, sndVars, rcvVars, netVars
  <2>1. TypeOK'
    BY SMTT(30) DEF FlowInv, TypeOK, SenderTypeOK, ReceiverTypeOK, NetworkTypeOK
  <2>2. SenderInv' /\ RequestInv'
    BY DEF FlowInv, SenderInv, RequestInv, QueuedMsgs, FifoMsgs
  <2>3. FlightInv' /\ DeliveryInv'
    BY Zenon DEF FlowInv, FlightInv, DeliveryInv, CompletionSound, ChunkAt, RidWhenLast
  <2> QED
    BY <2>1, <2>2, <2>3, SMTT(30) DEF FlowInv
<1> QED
  BY <1>1, <1>2, <1>3, <1>4 DEF Next

\* The inductive invariant holds as long as the chunks outstanding stay within
\* half the sequence space (which uc_rx_chunk and uc_rx_ack rely on).
THEOREM FlowInvariant == Spec /\ []WindowFits => []FlowInv
<1>1. Init => FlowInv
  BY InitFlowInv
<1>2. FlowInv /\ WindowFits /\ [Next]_vars => FlowInv'
  BY NextFlowInv
<1> QED
  BY <1>1, <1>2, PTL DEF Spec

\* Every variable keeps its type.
THEOREM TypeCorrect == Spec /\ []WindowFits => []TypeOK
<1>1. FlowInv => TypeOK
  BY DEF FlowInv
<1> QED
  BY <1>1, FlowInvariant, PTL

\* ack_transmitted_chunks wakes a sender only for a message the receiver has
\* completed, whatever the network loses, delays or reorders.
THEOREM CompletionIsSound == Spec /\ []WindowFits => []CompletionSound
<1>1. FlowInv => CompletionSound
  BY SMTT(30) DEF FlowInv, DeliveryInv
<1> QED
  BY <1>1, FlowInvariant, PTL

\* try_update_csn completes only receives that hold a request.
LEMMA TryUpdateCsnDelivers ==
  ASSUME TypeOK, NEW c \in Chunk, TryUpdateCsn(c), NEW m \in Msgs
  PROVE  \/ rdone'[m] = rdone[m]
         \/ /\ rdone'[m] # Pending
            /\ \E r \in Rids : reqs[r].msg = m
<1> USE ConstantFacts
<1> DEFINE Req == [msg : Msgs \cup {NoMsg}, received : Nat]
           entry == [pos |-> rcv_nxt + Distance(c),
                     rid |-> IF c.last THEN c.rid ELSE NoRid]
           all   == ready \cup {entry}
           recvd == [reqs EXCEPT ![c.rid].received = @ + c.len]
           woken(nxt) == {e.rid : e \in {f \in all : f.pos < nxt}} \ {NoRid}
<1>1. PICK nxt \in rcv_nxt..(rcv_nxt + SackBits + 1) :
        rdone' = [x \in Msgs |->
                    IF \E r \in woken(nxt) : recvd[r].msg = x
                    THEN recvd[CHOOSE r \in woken(nxt) : recvd[r].msg = x]
                           .received
                    ELSE rdone[x]]
  BY DEF TryUpdateCsn
<1> DEFINE wk == woken(nxt)
<1>2. /\ reqs \in [Rids -> Req] /\ c.rid \in Rids /\ c.len \in Nat
      /\ \A e \in ready : e.rid \in Rids \cup {NoRid}
  BY ChunkFields DEF TypeOK, ReceiverTypeOK
<1>3. wk \subseteq Rids
  BY <1>2
<1>4. reqs[c.rid].received + c.len \in Nat
  <2>1. reqs[c.rid] \in Req
    BY <1>2, Zenon
  <2>2. reqs[c.rid].received \in Nat
    BY <2>1
  <2> QED
    BY <1>2, <2>2, SMTT(30)
<1>5. recvd \in [Rids -> Req] /\ \A r \in Rids : recvd[r].msg = reqs[r].msg
  BY <1>2, <1>4, Zenon
<1> HIDE DEF recvd, all, wk
<1>6. CASE \E r \in wk : recvd[r].msg = m
  <2> DEFINE ch == CHOOSE r \in wk : recvd[r].msg = m
  <2>1. ch \in wk /\ recvd[ch].msg = m
    BY <1>6, SMTT(30)
  <2>2. rdone'[m] = recvd[ch].received
    BY <1>1, <1>6, SMTT(30) DEF wk
  <2> HIDE DEF ch
  <2>3. recvd[ch].received \in Nat
    BY <1>3, <1>5, <2>1, Zenon
  <2>4. rdone'[m] # Pending
    BY <2>2, <2>3, SMTT(30) DEF Pending
  <2>5. ch \in Rids
    BY <1>3, <2>1, Zenon
  <2>6. reqs[ch].msg = m
    BY <1>5, <2>1, <2>5, Zenon
  <2> QED
    BY <2>4, <2>5, <2>6, Zenon
<1>7. CASE ~ \E r \in wk : recvd[r].msg = m
  BY <1>1, <1>7, SMTT(30) DEF wk
<1> QED
  BY <1>6, <1>7, SMTT(30)

\* Every step looks like a step of MsgDelivery, or like none.
LEMMA NextRefines ==
  FlowInv /\ FlowInv' /\ WindowFits /\ [Next]_vars
    => [Messages!Next]_(Messages!msgVars)
<1> SUFFICES ASSUME FlowInv, FlowInv', WindowFits, [Next]_vars
             PROVE  [Messages!Next]_(Messages!msgVars)
  OBVIOUS
<1> USE ConstantFacts
<1>1. ASSUME UNCHANGED <<supplied, rdone, sdone>>
      PROVE  UNCHANGED Messages!msgVars
  BY <1>1 DEF Messages!msgVars, Delivered
<1>2. CASE SupplyRxBuff
  <2>1. /\ supplied + 1 \in Msgs /\ supplied' = supplied + 1
        /\ UNCHANGED <<rdone, sdone>>
    BY <1>2, SMTT(30) DEF SupplyRxBuff, FlowInv, TypeOK, ReceiverTypeOK, Msgs, sndVars
  <2>2. Delivered' = Delivered
    BY <2>1 DEF Delivered
  <2> QED
    BY <2>1, <2>2 DEF Messages!Next, Messages!Post
<1>3. ASSUME NEW q \in Paths, RxChunk(q) \/ RxRtxChunk(q)
      PROVE  [Messages!Next]_(Messages!msgVars)
  <2> DEFINE c == Head(wire[q])
             D == Delivered' \ Delivered
  <2>1. /\ Arrives(q) /\ ~ RxDrops(c) /\ TryUpdateCsn(c)
        /\ UNCHANGED <<sndVars, supplied>>
    BY <1>3, SMTT(30) DEF RxChunk, RxRtxChunk
  <2>2. c \in Chunk
    BY <2>1, AcceptedChunk, SMTT(30)
  <2>3. ASSUME NEW m \in Msgs
        PROVE  \/ rdone'[m] = rdone[m]
               \/ rdone'[m] # Pending /\ m <= supplied
    <3>1. \A r \in Rids : reqs[r].msg <= supplied
      BY SMTT(30) DEF FlowInv, RequestInv
    <3> QED
      BY <2>1, <2>2, <3>1, TryUpdateCsnDelivers, SMTT(30) DEF FlowInv
  <2>4. Delivered \subseteq Delivered' /\ D \subseteq {m \in Msgs : m <= supplied}
    BY <2>3 DEF Delivered
  <2>5. sdone' = sdone /\ supplied' = supplied
    BY <2>1 DEF sndVars
  <2>6. CASE D = {}
    <3>1. Delivered' = Delivered
      BY <2>4, <2>6, Zenon
    <3> QED
      BY <2>5, <3>1 DEF Messages!msgVars
  <2>7. CASE D # {}
    <3>1. D \in (SUBSET {m \in Msgs : m <= supplied}) \ {{}}
      BY <2>4, <2>7
    <3>2. D \cap Delivered = {} /\ Delivered' = Delivered \cup D
      BY <2>4
    <3> QED
      BY <2>5, <3>1, <3>2, Zenon DEF Messages!Next, Messages!Deliver
  <2> QED
    BY <2>6, <2>7
<1>4. ASSUME NEW a \in acks, RxAck(a)
      PROVE  [Messages!Next]_(Messages!msgVars)
  <2>1. /\ UNCHANGED <<supplied, rdone>> /\ sdone \subseteq sdone'
    BY <1>4 DEF RxAck, RxIgnoredAck, RxDuplicateAck, RxValidAck, sndVars, rcvVars
  <2>2. Delivered' = Delivered
    BY <2>1 DEF Delivered
  <2> DEFINE C == sdone' \ sdone
  <2>3. C \subseteq Delivered /\ sdone' = sdone \cup C
    <3>1. sdone' \subseteq Msgs /\ \A m \in sdone' : rdone'[m] # Pending
      BY DEF FlowInv, TypeOK, SenderTypeOK, DeliveryInv, CompletionSound
    <3> QED
      BY <2>1, <3>1, SMTT(30) DEF Delivered
  <2>4. CASE C = {}
    BY <1>1, <2>1, <2>3, <2>4, Zenon
  <2>5. CASE C # {}
    BY <2>1, <2>2, <2>3, <2>5, Zenon DEF Messages!Next, Messages!Complete
  <2> QED
    BY <2>4, <2>5
<1>5. CASE SenderStep
  <2>1. CASE \/ SendAsync \/ TxBlocked \/ HandleRto \/ RetransmitChunk
             \/ \E p \in Paths : TxChunk(p)
    BY <1>1, <2>1, Zenon DEF SendAsync, TxBlocked, HandleRto, RetransmitChunk, TxChunk,
                      rcvVars
  <2> QED
    BY <1>4, <1>5, <2>1 DEF SenderStep
<1>6. CASE ReceiverStep
  <2>1. CASE PostAcks \/ \E p \in Paths : RxChunkDropped(p) \/ RxRtxChunkDropped(p)
    BY <1>1, <2>1, SMTT(30) DEF PostAcks, RxChunkDropped, RxRtxChunkDropped, sndVars, rcvVars
  <2> QED
    BY <1>2, <1>3, <1>6, <2>1, SMTT(30) DEF ReceiverStep
<1>7. CASE Lose
  BY <1>1, <1>7 DEF Lose, LoseChunk, LoseAck, sndVars, rcvVars
<1>8. CASE UNCHANGED vars
  BY <1>1, <1>8 DEF vars, sndVars, rcvVars
<1> QED
  BY <1>5, <1>6, <1>7, <1>8 DEF Next

\* The transport implements the message-level contract of uccl_recv_async,
\* uccl_send_async and uccl_poll_ureq.
THEOREM Refinement == Spec /\ []WindowFits => ImplementsMsgDelivery
<1>1. Init => Messages!Init
  BY DEF Init, Messages!Init, Delivered
<1>2. FlowInv /\ FlowInv' /\ WindowFits /\ [Next]_vars
        => [Messages!Next]_(Messages!msgVars)
  BY NextRefines
<1> QED
  BY <1>1, <1>2, FlowInvariant, PTL DEF Spec, ImplementsMsgDelivery, Messages!Spec
=============================================================================
