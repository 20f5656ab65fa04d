------------------------ MODULE UcFlowReceiveProofs ------------------------
(***************************************************************************)
(* Accepting a chunk, with all that try_update_csn consumes, keeps FlowInv *)
(* (UcFlow).                                                               *)
(***************************************************************************)
EXTENDS UcFlowSendProofs

\* An accepted packet is the chunk its wrapped number says, and enters
\* ready_csn_ as the tracked chunk of that number would.
LEMMA AcceptedChunk ==
  ASSUME FlowInv, WindowFits, NEW q \in Paths, Arrives(q),
         ~ RxDrops(Head(wire[q]))
  PROVE  LET c == Head(wire[q])
         IN  /\ c \in Chunk /\ rcv_nxt <= c.n /\ c.n < snd_nxt
             /\ Distance(c) = c.n - rcv_nxt
             /\ RidWhenLast(c) = RidWhenLast(ChunkAt(c.n))
<1> USE ConstantFacts
<1> DEFINE c == Head(wire[q])
<1>1. wire[q] \in Seq(Chunk) /\ wire[q] # <<>>
  BY DEF FlowInv, TypeOK, NetworkTypeOK, Arrives
<1>2. c = wire[q][1] /\ c \in Chunk /\ 1 \in 1..Len(wire[q])
  BY <1>1, TailFacts
<1>3. /\ ~ SeqnoLt(Csn(c.n), Csn(rcv_nxt)) /\ WithinLifetime(c.n, rcv_nxt)
  BY DEF RxDrops, Arrives
<1>4. /\ c.n < snd_nxt
      /\ c.n >= rcv_nxt => /\ c.last = ChunkAt(c.n).last
                           /\ c.rid = ChunkAt(c.n).rid
  BY <1>2 DEF FlowInv, FlightInv
<1> HIDE DEF c
<1>5. /\ c.n \in Nat /\ rcv_nxt \in Nat /\ snd_nxt \in Nat /\ snd_una \in Nat
      /\ snd_una <= rcv_nxt /\ rcv_nxt <= snd_nxt
  BY <1>2, ChunkFields
     DEF FlowInv, TypeOK, SenderTypeOK, ReceiverTypeOK, SenderInv
<1>6. rcv_nxt <= c.n
  <2>1. rcv_nxt - c.n <= HalfCsn
    BY <1>3 DEF WithinLifetime
  <2>2. c.n - rcv_nxt < HalfCsn
    BY <1>4, <1>5 DEF WindowFits
  <2>3. SeqnoLt(Csn(c.n), Csn(rcv_nxt)) <=> c.n < rcv_nxt
    BY <1>5, <2>1, <2>2, CsnOrder
  <2> QED
    BY <1>3, <1>5, <2>3
<1>7. c.n - rcv_nxt < CsnMod
  BY <1>4, <1>5, HalfCsnProps DEF WindowFits
<1>8. Distance(c) = c.n - rcv_nxt
  BY <1>5, <1>6, <1>7, CsnDiffAhead DEF Distance
<1>9. RidWhenLast(c) = RidWhenLast(ChunkAt(c.n))
  BY <1>4, <1>5, <1>6 DEF RidWhenLast
<1> QED
  BY <1>2, <1>4, <1>6, <1>8, <1>9, SMTT(30) DEF c

\* try_update_csn after an accepted packet: it consumes a run of chunks, and
\* completes and frees exactly the requests whose last chunk is in the run.
LEMMA TryUpdateCsnFlowInv ==
  ASSUME FlowInv, WindowFits, NEW q \in Paths, Arrives(q),
         ~ RxDrops(Head(wire[q])), TryUpdateCsn(Head(wire[q])),
         UNCHANGED <<sndVars, supplied, fifo, losses>>,
         placed' \in SUBSET (Msgs \X Nat),
         cum_wqe' \in Nat, cons_ooo' \in Nat, ack_pending' \in BOOLEAN,
         acks' \subseteq acks \cup {Ack'}
  PROVE  FlowInv'
<1> USE ConstantFacts
<1> DEFINE c == Head(wire[q])
           Req == [msg : Msgs \cup {NoMsg}, received : Nat]
           Entry == [pos : Nat, rid : Rids \cup {NoRid}]
<1>1. /\ c \in Chunk /\ rcv_nxt <= c.n /\ c.n < snd_nxt
      /\ Distance(c) = c.n - rcv_nxt
      /\ RidWhenLast(c) = RidWhenLast(ChunkAt(c.n))
  BY AcceptedChunk
<1>2. /\ wire' \in [Paths -> Seq(Chunk)]
      /\ \A p \in Paths : \A i \in 1..Len(wire'[p]) :
           \E j \in 1..Len(wire[p]) : wire'[p][i] = wire[p][j]
  BY WireTail DEF FlowInv, TypeOK, NetworkTypeOK, Arrives
<1> DEFINE entry == [pos |-> rcv_nxt + Distance(c),
                     rid |-> IF c.last THEN c.rid ELSE NoRid]
           all   == ready \cup {entry}
           held  == {e.pos : e \in all}
           recvd == [reqs EXCEPT ![c.rid].received = @ + c.len]
           woken(nxt) == {e.rid : e \in {f \in all : f.pos < nxt}} \ {NoRid}
<1>3. PICK nxt \in rcv_nxt..(rcv_nxt + SackBits + 1) :
        /\ \A k \in rcv_nxt..(nxt - 1) : k \in held
        /\ ready' = {e \in all : e.pos >= nxt}
        /\ rdone' = [m \in Msgs |->
                       IF \E r \in woken(nxt) : recvd[r].msg = m
                       THEN recvd[CHOOSE r \in woken(nxt) : recvd[r].msg = m]
                              .received
                       ELSE rdone[m]]
        /\ reqs' = [r \in Rids |-> IF r \in woken(nxt) THEN NullReq ELSE recvd[r]]
        /\ sack' = {i - (nxt - rcv_nxt) :
                      i \in {j \in sack \cup {Distance(c)} : j >= nxt - rcv_nxt}}
        /\ sack_cnt' = sack_cnt + 1 - (nxt - rcv_nxt)
        /\ rcv_nxt' = nxt
  BY Zenon DEF TryUpdateCsn, ShiftLeft, Unconsumed
<1> DEFINE wk == woken(nxt)
<1>4. /\ rcv_nxt \in Nat /\ snd_nxt \in Nat /\ snd_una \in Nat
      /\ snd_una <= rcv_nxt /\ rcv_nxt <= snd_nxt
      /\ Len(unacked) = snd_nxt - snd_una
      /\ nxt \in Nat /\ rcv_nxt <= nxt
      /\ reqs \in [Rids -> Req] /\ ready \in SUBSET Entry
  BY SMTT(30) DEF FlowInv, TypeOK, SenderTypeOK, ReceiverTypeOK, SenderInv
<1>5. /\ c.n \in Nat /\ c.rid \in Rids /\ c.len \in Nat /\ c.last \in BOOLEAN
  BY <1>1, ChunkFields, SMTT(30)
<1> HIDE DEF c
<1>6. /\ entry \in Entry /\ entry.pos = c.n
      /\ entry.rid = RidWhenLast(ChunkAt(c.n))
  <2>1. rcv_nxt + Distance(c) = c.n
    BY <1>1, <1>4, <1>5
  <2>2. entry.rid = RidWhenLast(c) /\ entry.rid \in Rids \cup {NoRid}
    BY <1>5 DEF RidWhenLast
  <2> QED
    BY <1>1, <1>5, <2>1, <2>2
<1> HIDE DEF entry
<1>7. \A e \in all : /\ e \in Entry /\ e.pos \in Nat
                     /\ rcv_nxt <= e.pos /\ e.pos < snd_nxt
                     /\ e.rid = RidWhenLast(ChunkAt(e.pos))
  <2>1. \A e \in ready : /\ rcv_nxt <= e.pos /\ e.pos < snd_nxt
                         /\ e.rid = RidWhenLast(ChunkAt(e.pos))
    BY DEF FlowInv, FlightInv
  <2> QED
    BY <1>1, <1>4, <1>5, <1>6, <2>1, SMTT(30)
<1>8. \A k \in rcv_nxt..(nxt - 1) : \E e \in all : e.pos = k
  BY <1>3
<1> HIDE DEF all
<1>9. nxt <= snd_nxt
  <2> SUFFICES ASSUME snd_nxt < nxt PROVE FALSE
    BY <1>4
  <2>1. snd_nxt \in rcv_nxt..(nxt - 1)
    BY <1>4
  <2>2. PICK e \in all : e.pos = snd_nxt
    BY <1>8, <2>1
  <2> QED
    BY <1>4, <1>7, <2>2
<1>10. /\ recvd \in [Rids -> Req]
       /\ \A r \in Rids : recvd[r].msg = reqs[r].msg
  <2>1. reqs[c.rid].received + c.len \in Nat
    <3>1. reqs[c.rid] \in Req
      BY <1>4, <1>5
    <3>2. reqs[c.rid].received \in Nat
      BY <3>1
    <3> QED
      BY <1>5, <3>2, SMTT(30)
  <2> QED
    BY <1>4, <1>5, <2>1, Zenon
<1> HIDE DEF recvd
<1>11. \A e \in all : e.pos < nxt =>
         /\ e.pos - snd_una + 1 \in 1..Len(unacked)
         /\ unacked[e.pos - snd_una + 1].n = e.pos
  <2> SUFFICES ASSUME NEW e \in all, e.pos < nxt
               PROVE  /\ e.pos - snd_una + 1 \in 1..Len(unacked)
                      /\ unacked[e.pos - snd_una + 1].n = e.pos
    OBVIOUS
  <2> DEFINE i == e.pos - snd_una + 1
  <2>1. i \in 1..Len(unacked) /\ snd_una + i - 1 = e.pos
    BY <1>4, <1>7
  <2> HIDE DEF i
  <2>2. unacked[i].n = snd_una + i - 1
    BY <2>1 DEF FlowInv, SenderInv
  <2>3. i \in 1..Len(unacked) /\ unacked[i].n = e.pos
    BY <2>1, <2>2
  <2> QED
    BY <2>3 DEF i
<1>12. ASSUME NEW r \in wk
       PROVE  /\ r \in Rids
              /\ \E i \in 1..Len(unacked) :
                   /\ unacked[i].last /\ unacked[i].rid = r
                   /\ rcv_nxt <= unacked[i].n /\ unacked[i].n < nxt
                   /\ reqs[r].msg = unacked[i].msg
  <2>1. PICK e \in all : e.pos < nxt /\ e.rid = r /\ r # NoRid
    OBVIOUS
  <2>2. r \in Rids /\ RidWhenLast(ChunkAt(e.pos)) = r
    BY <1>7, <2>1
  <2> DEFINE i == e.pos - snd_una + 1
  <2>3. /\ i \in 1..Len(unacked) /\ unacked[i].n = e.pos /\ ChunkAt(e.pos) = unacked[i]
        /\ rcv_nxt <= e.pos
    BY <1>7, <1>11, <2>1 DEF ChunkAt
  <2> HIDE DEF i
  <2>4. unacked[i].last /\ unacked[i].rid = r
    BY <2>1, <2>2, <2>3, SMTT(30) DEF RidWhenLast
  <2>5. reqs[r].msg = unacked[i].msg
    <3>1. unacked[i].n >= rcv_nxt
      BY <1>4, <1>7, <2>3, SMTT(30)
    <3> QED
      BY <2>3, <2>4, <3>1, SMTT(30) DEF FlowInv, RequestInv
  <2> QED
    BY <2>1, <2>2, <2>3, <2>4, <2>5
<1>13. ASSUME NEW i \in 1..Len(unacked), unacked[i].last,
              rcv_nxt <= unacked[i].n, unacked[i].n < nxt
       PROVE  unacked[i].rid \in wk /\ reqs[unacked[i].rid].msg = unacked[i].msg
  <2>1. /\ unacked[i].n = snd_una + i - 1 /\ unacked[i].n \in Nat
        /\ unacked[i].rid \in Rids
    BY ChunkTypes, ChunkFields DEF FlowInv, SenderInv
  <2>2. unacked[i].n \in rcv_nxt..(nxt - 1) /\ unacked[i].n - snd_una + 1 = i
    BY <1>4, <1>13, <2>1
  <2>3. PICK e \in all : e.pos = unacked[i].n
    BY <1>8, <2>2
  <2>4. ChunkAt(e.pos) = unacked[i]
    BY <2>2, <2>3, SMTT(30) DEF ChunkAt
  <2>5. e.rid = unacked[i].rid /\ e.rid # NoRid
    BY <1>7, <1>13, <2>1, <2>4, SMTT(30) DEF RidWhenLast
  <2>6. reqs[unacked[i].rid].msg = unacked[i].msg
    <3>1. unacked[i].n >= rcv_nxt
      BY <1>4, <2>2
    <3> QED
      BY <3>1 DEF FlowInv, RequestInv
  <2> QED
    BY <1>13, <2>3, <2>5, <2>6, SMTT(30)
<1> HIDE DEF wk
<1>14. /\ rdone' \in [Msgs -> Nat \cup {Pending}]
       /\ \A m \in Msgs : rdone[m] # Pending => rdone'[m] # Pending
       /\ \A r \in wk : \A m \in Msgs : reqs[r].msg = m => rdone'[m] # Pending
  <2>1. rdone \in [Msgs -> Nat \cup {Pending}] /\ Pending \notin Nat
    BY SMTT(30) DEF FlowInv, TypeOK, ReceiverTypeOK, Pending
  <2>2. ASSUME NEW m \in Msgs
        PROVE  \/ rdone'[m] \in Nat
               \/ /\ rdone'[m] = rdone[m]
                  /\ ~ \E r \in wk : reqs[r].msg = m
    <3>1. CASE \E r \in wk : recvd[r].msg = m
      <4> DEFINE ch == CHOOSE r \in wk : recvd[r].msg = m
      <4>1. ch \in wk
        BY <3>1, SMTT(30)
      <4>2. rdone'[m] = recvd[ch].received
        BY <1>3, <3>1, SMTT(30) DEF wk
      <4> HIDE DEF ch
      <4>3. ch \in Rids
        BY <1>12, <4>1
      <4> QED
        BY <1>10, <4>2, <4>3
    <3>2. CASE ~ \E r \in wk : recvd[r].msg = m
      <4>1. rdone'[m] = rdone[m]
        BY <1>3, <3>2 DEF wk
      <4> QED
        BY <1>10, <1>12, <3>2, <4>1, Zenon
    <3> QED
      BY <3>1, <3>2
  <2>3. rdone' \in [Msgs -> Nat \cup {Pending}]
    <3>1. DOMAIN rdone' = Msgs /\ rdone' = [m \in Msgs |-> rdone'[m]]
      BY <1>3, SMTT(30)
    <3> QED
      BY <2>1, <2>2, <3>1, SMTT(30)
  <2> QED
    BY <2>1, <2>2, <2>3, SMTT(30)
<1>15. /\ reqs' \in [Rids -> Req]
       /\ \A r \in Rids : reqs'[r].msg = IF r \in wk THEN NoMsg ELSE reqs[r].msg
  BY <1>3, <1>10, SMTT(30) DEF wk, NullReq, NoMsg
<1>16. /\ UNCHANGED <<works, srid, sent, sdone, snd_nxt, snd_una, unacked,
                      dup_acks, tx_sack, rto_armed, rtx, supplied, fifo, losses>>
       /\ rcv_nxt' = nxt
  BY <1>3, SMTT(30) DEF sndVars
<1>17. ready' \subseteq all /\ \A e \in ready' : e.pos >= nxt
  BY <1>3, SMTT(30)
<1>18. QueuedMsgs' = QueuedMsgs /\ FifoMsgs' = FifoMsgs
  BY <1>16 DEF QueuedMsgs, FifoMsgs
<1>19. TypeOK'
  <2>1. SenderTypeOK'
    BY <1>16, SMTT(30) DEF FlowInv, TypeOK, SenderTypeOK
  <2>2. sack' \in SUBSET Nat /\ sack_cnt' \in Int
    <3>1. sack \in SUBSET Nat /\ sack_cnt \in Int /\ Distance(c) \in Nat
      BY <1>1, <1>4, <1>5 DEF FlowInv, TypeOK, ReceiverTypeOK
    <3>2. \A i \in Nat : i >= nxt - rcv_nxt => i - (nxt - rcv_nxt) \in Nat
      BY <1>4
    <3>3. sack' \in SUBSET Nat
      BY <1>3, <3>1, <3>2, Zenon
    <3>4. sack_cnt' \in Int
      BY <1>3, <1>4, <3>1, SMTT(30)
    <3> QED
      BY <3>3, <3>4
  <2>3. ready' \in SUBSET Entry
    BY <1>7, <1>17, SMTT(30)
  <2>4. ReceiverTypeOK'
    BY <1>4, <1>14, <1>15, <1>16, <2>2, <2>3, SMTT(30)
       DEF FlowInv, TypeOK, ReceiverTypeOK
  <2>5. Ack' \in SackInfo
    BY <1>4, <1>16, <2>2, SMTT(30) DEF Ack, SackInfo
  <2>6. acks' \in SUBSET SackInfo
    BY <2>5, SMTT(30) DEF FlowInv, TypeOK, NetworkTypeOK
  <2>7. NetworkTypeOK'
    BY <1>2, <1>16, <2>6, SMTT(30) DEF FlowInv, TypeOK, NetworkTypeOK
  <2> QED
    BY <1>16, <2>1, <2>4, <2>7, SMTT(30) DEF FlowInv, TypeOK
<1>20. SenderInv'
  <2>1. snd_una <= nxt
    BY <1>4, SMTT(30)
  <2> QED
    BY <1>9, <1>16, <1>18, <2>1, SMTT(30) DEF FlowInv, SenderInv
<1>21. RequestInv'
  <2>1. ASSUME NEW i \in 1..Len(unacked), unacked[i].n >= nxt
        PROVE  reqs'[unacked[i].rid].msg = unacked[i].msg
    <3>1. /\ unacked[i].n = snd_una + i - 1 /\ unacked[i].n \in Nat
          /\ unacked[i].rid \in Rids
      BY ChunkTypes, ChunkFields DEF FlowInv, SenderInv
    <3>2. unacked[i].n >= rcv_nxt
      BY <1>4, <2>1, <3>1, SMTT(30)
    <3>3. reqs[unacked[i].rid].msg = unacked[i].msg
      BY <3>2, SMTT(30) DEF FlowInv, RequestInv
    <3>4. ASSUME unacked[i].rid \in wk PROVE FALSE
      <4>1. PICK j \in 1..Len(unacked) :
              /\ unacked[j].last /\ unacked[j].n < nxt
              /\ reqs[unacked[i].rid].msg = unacked[j].msg
        BY <1>12, <3>4, Zenon
      <4>2. i <= j /\ unacked[j].n = snd_una + j - 1
        BY <3>3, <4>1, Zenon DEF FlowInv, SenderInv
      <4> QED
        BY <1>4, <2>1, <3>1, <4>1, <4>2, SMTT(30)
    <3> QED
      BY <1>15, <3>1, <3>3, <3>4, SMTT(30)
  <2>2. ASSUME NEW r \in Rids, NEW m \in QueuedMsgs \cup FifoMsgs, reqs[r].msg = m
        PROVE  reqs'[r].msg = m
    <3>1. ASSUME r \in wk PROVE FALSE
      <4>1. PICK j \in 1..Len(unacked) :
              unacked[j].last /\ reqs[r].msg = unacked[j].msg
        BY <1>12, <3>1, SMTT(30)
      <4> QED
        BY <2>2, <4>1 DEF FlowInv, SenderInv
    <3> QED
      BY <1>15, <2>2, <3>1, SMTT(30)
  <2>3. \A m \in QueuedMsgs : m <= supplied /\ reqs'[srid[m]].msg = m
    BY <2>2, Zenon DEF FlowInv, RequestInv, SenderInv
  <2>4. \A i \in 1..Len(fifo) : reqs'[fifo[i].rid].msg = fifo[i].msg
    <3> SUFFICES ASSUME NEW i \in 1..Len(fifo)
                 PROVE  reqs'[fifo[i].rid].msg = fifo[i].msg
      OBVIOUS
    <3>1. fifo[i] \in FifoItem
      BY DEF FlowInv, TypeOK, NetworkTypeOK
    <3>2. fifo[i].rid \in Rids /\ fifo[i].msg \in FifoMsgs
      BY <3>1, SMTT(30) DEF FifoItem, FifoMsgs
    <3>3. reqs[fifo[i].rid].msg = fifo[i].msg
      BY DEF FlowInv, RequestInv
    <3> QED
      BY <2>2, <3>2, <3>3, Zenon
  <2>5. \A r \in Rids : reqs'[r].msg <= supplied
    <3>1. NoMsg <= supplied
      BY SMTT(30) DEF FlowInv, TypeOK, ReceiverTypeOK, NoMsg
    <3> QED
      BY <1>15, <3>1, Zenon DEF FlowInv, RequestInv
  <2> QED
    BY <1>16, <1>18, <2>1, <2>3, <2>4, <2>5, SMTT(30) DEF FlowInv, RequestInv
<1>22. FlightInv'
  <2>1. \A n : ChunkAt(n)' = ChunkAt(n)
    BY <1>16 DEF ChunkAt
  <2>2. \A a \in acks' : a.n <= nxt
    <3>1. Ack'.n = nxt /\ nxt <= nxt
      BY <1>4, <1>16, SMTT(30) DEF Ack
    <3>2. ASSUME NEW a \in acks PROVE a.n <= nxt
      <4>1. a.n \in Nat /\ a.n <= rcv_nxt
        BY SMTT(30) DEF FlowInv, TypeOK, NetworkTypeOK, SackInfo, FlightInv
      <4> QED
        BY <1>4, <4>1, SMTT(30)
    <3> QED
      BY <3>1, <3>2, SMTT(30)
  <2>3. ASSUME NEW p \in Paths, NEW i \in 1..Len(wire'[p])
        PROVE  /\ wire'[p][i].n < snd_nxt
               /\ wire'[p][i].n >= nxt =>
                    /\ wire'[p][i].last = ChunkAt(wire'[p][i].n).last
                    /\ wire'[p][i].rid = ChunkAt(wire'[p][i].n).rid
    <3>1. PICK j \in 1..Len(wire[p]) : wire'[p][i] = wire[p][j]
      BY <1>2, Zenon
    <3>2. wire[p][j].n \in Nat
      BY ChunkTypes, ChunkFields, SMTT(30) DEF FlowInv
    <3>3. wire[p][j].n >= nxt => wire[p][j].n >= rcv_nxt
      BY <1>4, <3>2, SMTT(30)
    <3> QED
      BY <3>1, <3>3 DEF FlowInv, FlightInv
  <2>4. ASSUME NEW e \in ready'
        PROVE  /\ nxt <= e.pos /\ e.pos < snd_nxt
               /\ e.rid = RidWhenLast(ChunkAt(e.pos))
    BY <1>4, <1>7, <1>17, SMTT(30)
  <2> QED
    BY <1>16, <2>2, <2>3, <2>4, SMTT(30) DEF FlightInv, ChunkAt, RidWhenLast
<1>23. DeliveryInv'
  <2>1. ASSUME NEW i \in 1..Len(unacked), unacked[i].last, unacked[i].n < nxt
        PROVE  rdone'[unacked[i].msg] # Pending
    <3>1. unacked[i].n \in Nat /\ unacked[i].msg \in Msgs
      BY ChunkTypes, ChunkFields, SMTT(30) DEF FlowInv
    <3>2. CASE unacked[i].n < rcv_nxt
      BY <1>14, <2>1, <3>1, <3>2, SMTT(30) DEF FlowInv, DeliveryInv
    <3>3. CASE rcv_nxt <= unacked[i].n
      BY <1>13, <1>14, <2>1, <3>1, <3>3, Zenon
    <3> QED
      BY <1>4, <3>1, <3>2, <3>3, SMTT(30)
  <2>2. CompletionSound'
    BY <1>14, <1>16, SMTT(30)
       DEF FlowInv, DeliveryInv, CompletionSound, TypeOK, SenderTypeOK
  <2> QED
    BY <1>16, <2>1, <2>2, SMTT(30) DEF DeliveryInv
<1> QED
  BY <1>19, <1>20, <1>21, <1>22, <1>23 DEF FlowInv

\* Packets the receiver accepts, originals and retransmissions.
LEMMA RxAcceptedFlowInv ==
  ASSUME FlowInv, WindowFits, NEW q \in Paths, RxChunk(q) \/ RxRtxChunk(q)
  PROVE  FlowInv'
<1> USE ConstantFacts
<1>1. /\ Arrives(q) /\ ~ RxDrops(Head(wire[q])) /\ TryUpdateCsn(Head(wire[q]))
      /\ UNCHANGED <<sndVars, supplied, fifo, losses>>
      /\ placed' = placed \cup {<<Head(wire[q]).msg, Head(wire[q]).off>>}
  BY DEF RxChunk, RxRtxChunk
<1>2. Head(wire[q]).msg \in Msgs /\ Head(wire[q]).off \in Nat
  BY <1>1, AcceptedChunk, ChunkFields, SMTT(30)
<1>3. placed' \in SUBSET (Msgs \X Nat)
  BY <1>1, <1>2 DEF FlowInv, TypeOK, ReceiverTypeOK
<1>4. /\ cum_wqe \in Nat /\ cons_ooo \in Nat /\ ack_pending \in BOOLEAN
  BY SMTT(30) DEF FlowInv, TypeOK, ReceiverTypeOK
<1>5. cum_wqe' \in Nat /\ cons_ooo' \in Nat
  BY <1>4 DEF RxChunk, RxRtxChunk
<1>6. ack_pending' \in BOOLEAN /\ acks' \subseteq acks \cup {Ack'}
  BY Zenon DEF RxChunk, RxRtxChunk
<1> QED
  BY <1>1, <1>3, <1>5, <1>6, TryUpdateCsnFlowInv, SMTT(30)
=============================================================================
