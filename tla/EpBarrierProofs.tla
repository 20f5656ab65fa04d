-------------------------- MODULE EpBarrierProofs --------------------------
(***************************************************************************)
(* The barrier of the expert-parallel library is a barrier, and the        *)
(* assertions of its completion handler hold, for any number of nodes, of  *)
(* ranks of a node and of barriers, and any number of sequence numbers     *)
(* from two on.                                                            *)
(***************************************************************************)
EXTENDS EpBarrier, FiniteSetTheorems, TLAPS

\* What the code keeps of a barrier's number.
W(k) == k % SeqMod

\* The barriers that rank 0 has seen complete: its own is complete once it starts
\* to release.
Done ==
  IF inflight[Leader(0)] /\ ~acked[Leader(0)] /\ Idle(0)
  THEN entered[Leader(0)] - 1 ELSE entered[Leader(0)]

\* The types of the variables.
TypeOK ==
  /\ seq \in [Ranks -> Nat] /\ arrive \in [Ranks -> Nat]
  /\ release \in [Ranks -> Nat]
  /\ entered \in [Ranks -> Nat] /\ left \in [Ranks -> Nat]
  /\ inflight \in [Ranks -> BOOLEAN] /\ acked \in [Ranks -> BOOLEAN]
  /\ lastSent \in [Nodes -> Nat] /\ releaseSeq \in [Nodes -> Nat]
  /\ released \in [Nodes -> BOOLEAN]
  /\ fanout \in [Nodes -> 0..NumLocal]
  /\ sized \in BOOLEAN /\ arrived \in SUBSET Nodes /\ count \in Nat
  /\ msgs \subseteq [ack : BOOLEAN, seq : Nat, node : Nodes]

\* The numbers of a rank are those of its barrier.
Numbered ==
  \A r \in Ranks :
    /\ seq[r] = W(entered[r]) /\ arrive[r] = W(entered[r])
    /\ entered[r] = left[r] + (IF inflight[r] THEN 1 ELSE 0)
    /\ acked[r] => inflight[r]

\* No rank is more than one barrier from what rank 0 has seen complete.
Bounded ==
  \A r \in Ranks :
    /\ left[r] <= Done /\ Done <= entered[r]
    /\ acked[r] => entered[r] = Done

\* A rank that leads no node and is through finds no later release.
Signalled ==
  \A r \in Ranks :
    r[2] # 0 /\ (left[r] = Done \/ acked[r]) => release[r] = W(Done)

\* A leader that releases, or has its release, is in the completed barrier.
InCompleted(n) ==
  entered[Leader(n)] = Done /\ inflight[Leader(n)] /\ ~acked[Leader(n)]
Releasing ==
  \A n \in Nodes :
    /\ ~Idle(n) \/ released[n] => InCompleted(n)
    /\ released[n] => n # 0 /\ releaseSeq[n] = W(Done)
    /\ ~Idle(n) => n = 0 \/ released[n]

\* Nobody announces a completed barrier again.
Told == \A n \in Nodes : entered[Leader(n)] = Done => lastSent[n] = W(Done)

\* A node that is marked or announced is in the next barrier with all its ranks.
Gathered(n) ==
  /\ lastSent[n] = W(Done + 1)
  /\ \A l \in Locals : entered[<<n, l>>] = Done + 1
Marked == Idle(0) => \A n \in arrived : Gathered(n)
UnderWay ==
  \A m \in msgs :
    /\ m.node # 0
    /\ m.ack => /\ m.seq = W(Done) /\ InCompleted(m.node)
                /\ ~released[m.node]
    /\ ~m.ack => /\ m.seq = W(Done + 1) /\ Gathered(m.node)
                 /\ Idle(0) => m.node \notin arrived

\* The inductive invariant.
BarrierInv ==
  /\ Numbered /\ Bounded /\ Signalled /\ Releasing /\ Told /\ Marked /\ UnderWay
  /\ CountMatches

-----------------------------------------------------------------------------
(* Numbers and places *)

\* Division with remainder.
LEMMA Remainder ==
  ASSUME NEW k \in Nat
  PROVE  /\ W(k) \in 0..(SeqMod - 1)
         /\ k \div SeqMod \in Int
         /\ k = SeqMod * (k \div SeqMod) + W(k)
  BY BarrierAssumption DEF W

\* The remainder is the only number below SeqMod that is congruent.
LEMMA RemainderUnique ==
  ASSUME NEW q \in Int, NEW c \in 0..(SeqMod - 1)
  PROVE  (SeqMod * q + c) % SeqMod = c
  BY BarrierAssumption

\* Adding one to a wrapped number wraps, and neighbours differ.
LEMMA Neighbours ==
  ASSUME NEW k \in Nat
  PROVE  /\ W(k) \in Nat
         /\ (W(k) + 1) % SeqMod = W(k + 1)
         /\ W(k + 1) # W(k)
<1> DEFINE q == k \div SeqMod
           x == SeqMod * q
<1>1. W(k) \in 0..(SeqMod - 1) /\ q \in Int /\ k = x + W(k)
  BY Remainder
<1>2. SeqMod \in Nat /\ SeqMod > 1 /\ x \in Int
  BY <1>1, BarrierAssumption
<1>3. CASE W(k) + 1 < SeqMod
  <2>0. W(k) + 1 \in 0..(SeqMod - 1)
    BY <1>1, <1>2, <1>3
  <2>1. (x + (W(k) + 1)) % SeqMod = W(k) + 1
    BY <1>1, <2>0, RemainderUnique
  <2>2. (SeqMod * 0 + (W(k) + 1)) % SeqMod = W(k) + 1
    BY <2>0, RemainderUnique
  <2>3. SeqMod * 0 + (W(k) + 1) = W(k) + 1 /\ x + (W(k) + 1) = k + 1
    <3> HIDE DEF x
    <3> QED BY <1>1, <1>2
  <2>4. (k + 1) % SeqMod = W(k) + 1 /\ (W(k) + 1) % SeqMod = W(k) + 1
    BY <2>1, <2>2, <2>3
  <2>5. W(k + 1) = W(k) + 1
    BY <2>4 DEF W
  <2> QED
    BY <1>1, <1>2, <2>4, <2>5
<1>4. CASE W(k) + 1 = SeqMod
  <2>1. (SeqMod * (q + 1) + 0) % SeqMod = 0 /\ (SeqMod * 1 + 0) % SeqMod = 0
    BY <1>1, <1>2, RemainderUnique
  <2>2. SeqMod * (q + 1) = x + SeqMod
    BY <1>1, <1>2
  <2>3. SeqMod * (q + 1) + 0 = k + 1 /\ SeqMod * 1 + 0 = SeqMod
    <3> HIDE DEF x
    <3> QED BY <1>1, <1>2, <1>4, <2>2
  <2>4. (k + 1) % SeqMod = 0 /\ SeqMod % SeqMod = 0
    BY <2>1, <2>3
  <2>5. W(k + 1) = 0 /\ (W(k) + 1) % SeqMod = 0
    BY <1>4, <2>4 DEF W
  <2> QED
    BY <1>1, <1>2, <1>4, <2>5
<1> QED
  BY <1>1, <1>2, <1>3, <1>4

\* Ranks, leaders and rank 0.
LEMMA Places ==
  /\ 0 \in Nodes /\ 0 \in Locals
  /\ \A n \in Nodes : /\ Leader(n) \in Ranks
                      /\ Leader(n)[1] = n /\ Leader(n)[2] = 0
  /\ \A n \in Nodes, l \in Locals : <<n, l>> \in Ranks
  /\ \A n, k \in Nodes : Leader(n) = Leader(k) => n = k
  /\ \A r \in Ranks : /\ r = <<r[1], r[2]>> /\ r[1] \in Nodes /\ r[2] \in Locals
                      /\ r[2] = 0 => r = Leader(r[1])
  BY BarrierAssumption DEF Nodes, Locals, Ranks, Leader

\* The nodes and the marked ones can be counted.
LEMMA Countable ==
  /\ IsFiniteSet(Nodes) /\ Cardinality(Nodes) = NumNodes
  /\ TypeOK => IsFiniteSet(arrived)
<1>1. NumNodes \in Nat \ {0} /\ 0 \in Int /\ NumNodes - 1 \in Int
  BY BarrierAssumption
<1>2. /\ IsFiniteSet(0..(NumNodes - 1))
      /\ Cardinality(0..(NumNodes - 1)) =
           IF 0 > NumNodes - 1 THEN 0 ELSE (NumNodes - 1) - 0 + 1
  BY <1>1, FS_Interval
<1>3. IsFiniteSet(Nodes) /\ Cardinality(Nodes) = NumNodes
  BY <1>1, <1>2 DEF Nodes
<1> QED
  BY <1>3, FS_Subset DEF TypeOK

\* A rank is in the barrier completed last or in the next one.
LEMMA Position ==
  ASSUME TypeOK, Numbered, Bounded
  PROVE  /\ Done \in Nat
         /\ \A r \in Ranks :
              /\ entered[r] \in {Done, Done + 1}
              /\ entered[r] = Done + 1 => inflight[r] /\ left[r] = Done
              /\ ~inflight[r] => entered[r] = Done
<1>1. Done \in Nat
  BY Places DEF TypeOK, Numbered, Done
<1>2. ASSUME NEW r \in Ranks
      PROVE  /\ entered[r] \in {Done, Done + 1}
             /\ entered[r] = Done + 1 => inflight[r] /\ left[r] = Done
             /\ ~inflight[r] => entered[r] = Done
  <2>1. /\ entered[r] \in Nat /\ left[r] \in Nat
        /\ left[r] <= Done /\ Done <= entered[r]
    BY DEF TypeOK, Bounded
  <2>2. CASE inflight[r]
    BY <1>1, <2>1, <2>2 DEF Numbered
  <2>3. CASE ~inflight[r]
    BY <1>1, <2>1, <2>3 DEF Numbered
  <2> QED
    BY <2>2, <2>3
<1> QED
  BY <1>1, <1>2

-----------------------------------------------------------------------------
(* One lemma for each action *)

\* A rank that enters a barrier enters the one after the last completed.
LEMMA SendBarrierKeeps ==
  ASSUME TypeOK, BarrierInv, NEW r \in Ranks, SendBarrier(r)
  PROVE  TypeOK' /\ BarrierInv'
<1> USE DEF BarrierInv
<1>1. /\ Done \in Nat /\ entered[r] = Done /\ left[r] = Done
      /\ ~inflight[r] /\ ~acked[r]
  BY Position DEF SendBarrier, Numbered, TypeOK
<1>2. NextSeq(r) = W(Done + 1) /\ NextSeq(r) \in Nat
  BY <1>1, Neighbours DEF NextSeq, Numbered
<1>3. /\ seq' = [seq EXCEPT ![r] = W(Done + 1)]
      /\ arrive' = [arrive EXCEPT ![r] = W(Done + 1)]
      /\ entered' = [entered EXCEPT ![r] = Done + 1]
      /\ inflight' = [inflight EXCEPT ![r] = TRUE]
      /\ UNCHANGED <<acked, release, lastSent, released, releaseSeq, fanout,
                     msgs, left>>
  BY <1>1, <1>2 DEF SendBarrier
<1>4. /\ arrived' \subseteq arrived
      /\ \/ UNCHANGED global
         \/ r = Leader(0) /\ sized' = TRUE /\ arrived' = {} /\ count' = 0
      /\ r = Leader(0) => sized' = TRUE
  BY DEF SendBarrier, SizeArrived, global, TypeOK
<1>5. Done' = Done
  BY <1>1, <1>3, Places DEF Done, Idle, Free, TypeOK, SendBarrier
<1>6. TypeOK'
  <2>1. sized' \in BOOLEAN /\ arrived' \in SUBSET Nodes /\ count' \in Nat
    <3>1. CASE UNCHANGED global
      BY <3>1 DEF TypeOK, global
    <3>2. CASE sized' = TRUE /\ arrived' = {} /\ count' = 0
      BY <3>2
    <3> QED
      BY <1>4, <3>1, <3>2
  <2>2. /\ seq' \in [Ranks -> Nat] /\ arrive' \in [Ranks -> Nat]
        /\ entered' \in [Ranks -> Nat] /\ inflight' \in [Ranks -> BOOLEAN]
    BY <1>1, <1>2, <1>3 DEF TypeOK
  <2> QED
    BY <1>3, <2>1, <2>2 DEF TypeOK
<1>7. Numbered'
  BY <1>1, <1>3 DEF Numbered, TypeOK
<1>8. Bounded'
  BY <1>1, <1>3, <1>5 DEF Bounded, TypeOK
<1>9. Signalled'
  BY <1>3, <1>5 DEF Signalled
<1>10. \A n \in Nodes : InCompleted(n) => r # Leader(n) /\ InCompleted(n)'
  BY <1>1, <1>3, <1>5, Places DEF InCompleted, TypeOK
<1>11. \A n \in Nodes : Gathered(n) => Gathered(n)'
  BY <1>1, <1>3, <1>5, Places DEF Gathered, TypeOK
<1>12. Releasing'
  BY <1>3, <1>5, <1>10 DEF Releasing, Idle
<1>13. Told'
  BY <1>1, <1>3, <1>5, Places DEF Told, TypeOK
<1>14. Marked'
  BY <1>3, <1>4, <1>11 DEF Marked, Idle, TypeOK
<1>15. UnderWay'
  BY <1>3, <1>4, <1>5, <1>10, <1>11 DEF UnderWay, Idle, TypeOK
<1>16. CountMatches'
  <2>1. count' = Cardinality(arrived') /\ (arrived' # {} => sized')
    BY <1>4, FS_EmptySet DEF CountMatches, global
  <2>2. CASE r = Leader(0)
    BY <1>4, <2>1, <2>2 DEF CountMatches
  <2>3. CASE r # Leader(0)
    BY <1>3, <1>4, <2>1, <2>3, Places DEF CountMatches, Announces, global, TypeOK
  <2> QED
    BY <2>2, <2>3
<1> QED
  BY <1>6, <1>7, <1>8, <1>9, <1>12, <1>13, <1>14, <1>15, <1>16

\* A rank that leads no node finds the release of its own barrier.
LEMMA FollowerCheckKeeps ==
  ASSUME TypeOK, BarrierInv, NEW r \in Ranks, FollowerCheck(r)
  PROVE  TypeOK' /\ BarrierInv'
<1> USE DEF BarrierInv
<1>1. /\ r[2] # 0 /\ inflight[r] /\ release[r] = seq[r]
      /\ acked' = [acked EXCEPT ![r] = TRUE]
      /\ UNCHANGED <<seq, inflight, arrive, release, lastSent, sized, arrived,
                     count, released, releaseSeq, fanout, msgs, entered, left>>
  BY DEF FollowerCheck, shared, global, counts
<1>2. \A n \in Nodes : Leader(n) # r /\ acked'[Leader(n)] = acked[Leader(n)]
  BY <1>1, Places, Zenon DEF TypeOK
<1>3. Done \in Nat /\ Done' = Done
  BY <1>1, <1>2, Position, Places DEF Done, Idle
<1>4. entered[r] = Done
  <2> SUFFICES ASSUME entered[r] = Done + 1 PROVE FALSE
    BY Position
  <2>1. release[r] = W(Done) /\ seq[r] = W(Done + 1)
    BY <1>1, Position DEF Signalled, Numbered
  <2> QED
    BY <1>1, <1>3, <2>1, Neighbours, Zenon
<1>5. TypeOK'
  BY <1>1 DEF TypeOK
<1>6. Numbered' /\ Bounded'
  BY <1>1, <1>3, <1>4 DEF Numbered, Bounded, TypeOK
<1>7. Signalled'
  BY <1>1, <1>3, <1>4 DEF Signalled, Numbered, TypeOK
<1>8. \A n \in Nodes : /\ InCompleted(n)' <=> InCompleted(n)
                       /\ Gathered(n)' <=> Gathered(n)
                       /\ Idle(n)' <=> Idle(n)
  BY <1>1, <1>2, <1>3 DEF InCompleted, Gathered, Idle
<1>9. Releasing' /\ Told' /\ Marked' /\ UnderWay'
  BY <1>1, <1>3, <1>8, Places DEF Releasing, Told, Marked, UnderWay, TypeOK
<1>10. CountMatches'
  BY <1>1 DEF CountMatches, Announces
<1> QED
  BY <1>5, <1>6, <1>7, <1>9, <1>10

\* A rank leaves the barrier completed last.
LEMMA NotifyKeeps ==
  ASSUME TypeOK, BarrierInv, NEW r \in Ranks, Notify(r)
  PROVE  TypeOK' /\ BarrierInv'
<1> USE DEF BarrierInv
<1>1. /\ acked[r] /\ Free(r)
      /\ acked' = [acked EXCEPT ![r] = FALSE]
      /\ inflight' = [inflight EXCEPT ![r] = FALSE]
      /\ left' = [left EXCEPT ![r] = @ + 1]
      /\ UNCHANGED <<seq, arrive, release, lastSent, sized, arrived, count,
                     released, releaseSeq, fanout, msgs, entered>>
  BY DEF Notify, shared, global
<1>2. /\ Done \in Nat /\ inflight[r] /\ entered[r] = Done
      /\ left[r] \in Nat /\ left[r] + 1 = Done
  BY <1>1, Position DEF Bounded, Numbered, TypeOK
<1>3. Done' = Done
  BY <1>1, <1>2, Places DEF Done, Idle, TypeOK
<1>4. TypeOK'
  BY <1>1, <1>2 DEF TypeOK
<1>5. Numbered' /\ Bounded'
  BY <1>1, <1>2, <1>3 DEF Numbered, Bounded, TypeOK
<1>6. Signalled'
  BY <1>1, <1>2, <1>3 DEF Signalled, TypeOK
<1>7. \A n \in Nodes : /\ InCompleted(n) => InCompleted(n)'
                       /\ Gathered(n)' <=> Gathered(n)
                       /\ Idle(n)' <=> Idle(n)
  BY <1>1, <1>3, Places DEF InCompleted, Gathered, Idle, TypeOK
<1>8. Releasing' /\ Told' /\ Marked' /\ UnderWay'
  BY <1>1, <1>3, <1>7, Places DEF Releasing, Told, Marked, UnderWay, TypeOK
<1>9. CountMatches'
  BY <1>1, Places DEF CountMatches, Announces, TypeOK
<1> QED
  BY <1>4, <1>5, <1>6, <1>8, <1>9

\* Rank 0 marks a node that is in the next barrier.
LEMMA RecvArrivalKeeps ==
  ASSUME TypeOK, BarrierInv, NEW m \in msgs, RecvArrival(m)
  PROVE  TypeOK' /\ BarrierInv'
<1> USE DEF BarrierInv
<1>1. /\ ~m.ack /\ Idle(0) /\ m.node \notin arrived /\ sized' = TRUE
      /\ arrived' = arrived \cup {m.node} /\ count' = count + 1
      /\ msgs' = msgs \ {m}
      /\ UNCHANGED <<seq, inflight, acked, arrive, release, lastSent, released,
                     releaseSeq, fanout, entered, left>>
  BY DEF RecvArrival, shared, counts
<1>2. Done' = Done /\ m.node \in Nodes
  BY <1>1 DEF Done, Idle, TypeOK
<1>3. TypeOK'
  BY <1>1, <1>2 DEF TypeOK
<1>4. Numbered' /\ Bounded' /\ Signalled'
  BY <1>1, <1>2 DEF Numbered, Bounded, Signalled
<1>5. \A n \in Nodes : /\ InCompleted(n)' <=> InCompleted(n)
                       /\ Gathered(n)' <=> Gathered(n)
                       /\ Idle(n)' <=> Idle(n)
  BY <1>1, <1>2 DEF InCompleted, Gathered, Idle
<1>6. Releasing' /\ Told'
  BY <1>1, <1>2, <1>5 DEF Releasing, Told
<1>7. Marked'
  BY <1>1, <1>2, <1>5, Places DEF Marked, UnderWay, TypeOK
<1>8. \A k \in msgs' : ~k.ack => k.node # m.node
  <2> SUFFICES ASSUME NEW k \in msgs, ~k.ack, k.node = m.node PROVE k = m
    BY <1>1
  <2>1. k.seq = m.seq
    BY <1>1 DEF UnderWay
  <2>2. /\ k \in [ack : BOOLEAN, seq : Nat, node : Nodes]
        /\ m \in [ack : BOOLEAN, seq : Nat, node : Nodes]
    BY DEF TypeOK
  <2> QED
    BY <1>1, <2>1, <2>2
<1>9. UnderWay'
  BY <1>1, <1>2, <1>5, <1>8, Places DEF UnderWay, TypeOK
<1>10. CountMatches'
  <2>1. IsFiniteSet(arrived)
    BY Countable
  <2>2. count' = Cardinality(arrived')
    BY <1>1, <2>1, FS_AddElement, Zenon DEF CountMatches
  <2> QED
    BY <1>1, <2>2 DEF CountMatches
<1> QED
  BY <1>3, <1>4, <1>6, <1>7, <1>9, <1>10

\* A leader has its release, and no other is under way to it.
LEMMA RecvReleaseKeeps ==
  ASSUME TypeOK, BarrierInv, NEW m \in msgs, RecvRelease(m)
  PROVE  TypeOK' /\ BarrierInv'
<1> USE DEF BarrierInv
<1>1. /\ m.ack
      /\ released' = [released EXCEPT ![m.node] = TRUE]
      /\ releaseSeq' = [releaseSeq EXCEPT ![m.node] = m.seq]
      /\ msgs' = msgs \ {m}
      /\ UNCHANGED <<seq, inflight, acked, arrive, release, lastSent, sized,
                     arrived, count, fanout, entered, left>>
  BY DEF RecvRelease, shared, global, counts
<1>2. Done' = Done /\ m.node \in Nodes /\ m.seq \in Nat
  BY <1>1 DEF Done, Idle, TypeOK
<1>3. TypeOK'
  BY <1>1, <1>2 DEF TypeOK
<1>4. Numbered' /\ Bounded' /\ Signalled'
  BY <1>1, <1>2 DEF Numbered, Bounded, Signalled
<1>5. \A n \in Nodes : /\ InCompleted(n)' <=> InCompleted(n)
                       /\ Gathered(n)' <=> Gathered(n)
                       /\ Idle(n)' <=> Idle(n)
  BY <1>1, <1>2 DEF InCompleted, Gathered, Idle
<1>6. m.node # 0 /\ m.seq = W(Done) /\ InCompleted(m.node)
  BY <1>1 DEF UnderWay
<1>7. Releasing'
  BY <1>1, <1>2, <1>5, <1>6 DEF Releasing, TypeOK
<1>8. Told' /\ Marked'
  BY <1>1, <1>2, <1>5, Places DEF Told, Marked, TypeOK
<1>9. \A k \in msgs' : k.ack => k.node # m.node
  <2> SUFFICES ASSUME NEW k \in msgs, k.ack, k.node = m.node PROVE k = m
    BY <1>1
  <2>1. k.seq = m.seq
    BY <1>1 DEF UnderWay
  <2>2. /\ k \in [ack : BOOLEAN, seq : Nat, node : Nodes]
        /\ m \in [ack : BOOLEAN, seq : Nat, node : Nodes]
    BY DEF TypeOK
  <2> QED
    BY <1>1, <2>1, <2>2
<1>10. UnderWay'
  BY <1>1, <1>2, <1>5, <1>9, Places DEF UnderWay, TypeOK
<1>11. CountMatches'
  BY <1>1 DEF CountMatches, Announces
<1> QED
  BY <1>3, <1>4, <1>7, <1>8, <1>10, <1>11

\* A leader releases its local ranks from the barrier completed last.
LEMMA FanOutKeeps ==
  ASSUME TypeOK, BarrierInv, NEW n \in Nodes, FanOut(n)
  PROVE  TypeOK' /\ BarrierInv'
<1> USE DEF BarrierInv
<1> DEFINE L == Leader(n)
<1>1. /\ ~Idle(n) /\ InCompleted(n) /\ L \in Ranks /\ Done \in Nat
      /\ fanout[n] \in Locals /\ <<n, fanout[n]>> \in Ranks
      /\ seq[L] = W(Done) /\ W(Done) \in Nat
  <2>1. ~Idle(n) /\ InCompleted(n) /\ L \in Ranks /\ Done \in Nat
    BY Places, Position DEF FanOut, Releasing
  <2>2. fanout[n] \in Locals
    BY <2>1, BarrierAssumption DEF Idle, Locals, TypeOK
  <2> QED
    BY <2>1, <2>2, Places, Neighbours DEF InCompleted, Numbered
<1>2. /\ release' = [release EXCEPT ![<<n, fanout[n]>>] = W(Done)]
      /\ fanout' = [fanout EXCEPT ![n] = @ + 1]
      /\ UNCHANGED <<seq, inflight, arrive, lastSent, releaseSeq, msgs,
                     entered, left>>
  BY <1>1 DEF FanOut, counts
<1>3. TypeOK' /\ Numbered' /\ Bounded' /\ Releasing' /\ UnderWay' /\ Marked'
      /\ CountMatches' /\ Done' = Done
      /\ (\A r \in Ranks : r[2] # 0 => acked'[r] = acked[r])
  <2>1. CASE fanout[n] # NumLocal - 1
    <3>1. UNCHANGED <<acked, released, sized, arrived, count>> /\ ~Idle(n)'
      BY <1>1, <1>2, <2>1, BarrierAssumption
         DEF FanOut, Idle, global, TypeOK, Locals
    <3>2. Done' = Done
      BY <1>1, <1>2, <3>1, Places DEF Done, Idle, TypeOK
    <3>3. TypeOK'
      BY <1>1, <1>2, <3>1, BarrierAssumption DEF TypeOK, Locals
    <3>4. \A k \in Nodes : /\ InCompleted(k)' <=> InCompleted(k)
                           /\ Gathered(k)' <=> Gathered(k)
                           /\ Idle(k)' <=> Idle(k)
      BY <1>1, <1>2, <3>1, <3>2 DEF InCompleted, Gathered, Idle, TypeOK
    <3>5. Numbered' /\ Bounded'
      BY <1>2, <3>1, <3>2 DEF Numbered, Bounded
    <3>6. Releasing' /\ Marked'
      BY <1>2, <3>1, <3>2, <3>4, Places DEF Releasing, Marked, TypeOK
    <3>8. UnderWay'
      BY <1>2, <3>1, <3>2, <3>4, Places DEF UnderWay, TypeOK
    <3>7. CountMatches'
      BY <1>2, <3>1 DEF CountMatches, Announces
    <3> QED
      BY <3>1, <3>2, <3>3, <3>5, <3>6, <3>7, <3>8
  <2>2. CASE fanout[n] = NumLocal - 1
    <3>1. /\ acked' = [acked EXCEPT ![L] = TRUE] /\ Idle(n)'
          /\ \A k \in Nodes : k # n => (Idle(k)' <=> Idle(k))
      BY <1>1, <1>2, <2>2, BarrierAssumption DEF FanOut, Idle, TypeOK
    <3>2. Done' = Done
      BY <1>1, <1>2, <3>1, Places DEF Done, TypeOK, InCompleted
    <3>3. /\ \/ n = 0 /\ sized' = FALSE /\ arrived' = {} /\ count' = 0
                      /\ UNCHANGED released
             \/ n # 0 /\ released' = [released EXCEPT ![n] = FALSE]
                      /\ UNCHANGED <<sized, arrived, count>>
      BY <2>2 DEF FanOut, ForgetArrivals, global
    <3>4. TypeOK'
      <4>1. /\ fanout' \in [Nodes -> 0..NumLocal]
            /\ release' \in [Ranks -> Nat] /\ acked' \in [Ranks -> BOOLEAN]
        BY <1>1, <1>2, <3>1, BarrierAssumption DEF TypeOK, Locals
      <4>2. CASE n = 0
        <5>0. sized' = FALSE /\ arrived' = {} /\ count' = 0
          BY <3>3, <4>2
        <5>1. sized' \in BOOLEAN /\ arrived' \in SUBSET Nodes /\ count' \in Nat
          BY <5>0, Zenon
        <5>2. released' \in [Nodes -> BOOLEAN]
          BY <3>3, <4>2 DEF TypeOK
        <5> QED
          BY <1>2, <4>1, <5>1, <5>2 DEF TypeOK
      <4>3. CASE n # 0
        BY <1>2, <3>3, <4>1, <4>3, Zenon DEF TypeOK
      <4> QED
        BY <4>2, <4>3
    <3>5. Numbered' /\ Bounded'
      BY <1>1, <1>2, <3>1, <3>2 DEF Numbered, Bounded, InCompleted, TypeOK
    <3>6. \A k \in Nodes : /\ k # n => (InCompleted(k)' <=> InCompleted(k))
                           /\ Gathered(k)' <=> Gathered(k)
      BY <1>1, <1>2, <3>1, <3>2, Places DEF InCompleted, Gathered, TypeOK
    <3>7. ~released'[n] /\ \A k \in Nodes : k # n => released'[k] = released[k]
      BY <3>3 DEF TypeOK, Releasing
    <3>8. Releasing'
      BY <1>2, <3>1, <3>2, <3>6, <3>7 DEF Releasing
    <3>9. Marked'
      BY <3>1, <3>3, <3>6, Places DEF Marked, TypeOK
    <3>10. \A m \in msgs : m.ack => m.node # n
      BY <1>1, <3>3 DEF UnderWay, Releasing
    <3>11. UnderWay'
      BY <1>2, <3>1, <3>2, <3>3, <3>6, <3>7, <3>10, Places DEF UnderWay, TypeOK
    <3>12. CountMatches'
      <4>1. CASE n = 0
        <5>1. ~Announces(0)'
          BY <1>1, <1>2, <4>1 DEF Announces, Told, InCompleted
        <5> QED
          BY <3>3, <4>1, <5>1, FS_EmptySet DEF CountMatches
      <4>2. CASE n # 0
        BY <1>2, <3>3, <4>2 DEF CountMatches, Announces
      <4> QED
        BY <4>1, <4>2
    <3>13. \A r \in Ranks : r[2] # 0 => acked'[r] = acked[r]
      BY <3>1, Places, Zenon DEF TypeOK
    <3> QED
      BY <3>2, <3>4, <3>5, <3>8, <3>9, <3>11, <3>12, <3>13
  <2> QED
    BY <2>1, <2>2
<1>4. Signalled'
  BY <1>1, <1>2, <1>3 DEF Signalled, TypeOK
<1>5. Told'
  BY <1>2, <1>3, Zenon DEF Told
<1> QED
  BY <1>3, <1>4, <1>5

\* What a leader that finds its local ranks arrived knows: if it has not announced
\* its barrier, that is the next one, and all its ranks are in it.
LEMMA AnnouncesNext ==
  ASSUME TypeOK, BarrierInv, NEW n \in Nodes, LeaderCheck(n), Announces(n)
  PROVE  /\ entered[Leader(n)] = Done + 1
         /\ \A l \in Locals : entered[<<n, l>>] = Done + 1
         /\ lastSent[n] # W(Done + 1)
<1> USE DEF BarrierInv
<1>1. Leader(n) \in Ranks /\ Done \in Nat
  BY Places, Position
<1>2. entered[Leader(n)] = Done + 1
  <2> SUFFICES ASSUME entered[Leader(n)] = Done PROVE FALSE
    BY <1>1, Position
  <2> QED
    BY <1>1 DEF Told, Numbered, Announces
<1>3. ASSUME NEW l \in Locals PROVE entered[<<n, l>>] = Done + 1
  <2>1. <<n, l>> \in Ranks /\ arrive[<<n, l>>] = seq[Leader(n)]
    BY Places DEF LeaderCheck, AllLocalArrived
  <2>2. W(entered[<<n, l>>]) = W(Done + 1)
    BY <1>1, <1>2, <2>1 DEF Numbered
  <2> QED
    BY <1>1, <2>1, <2>2, Position, Neighbours
<1> QED
  BY <1>1, <1>2, <1>3 DEF Numbered, Announces

\* Rank 0 has every node: the next barrier is complete.
LEMMA CompletingKeeps ==
  ASSUME TypeOK, BarrierInv, LeaderCheck(0), count' = NumNodes,
         arrived' \in SUBSET Nodes, count' = Cardinality(arrived'),
         sized' \in BOOLEAN, arrived' # {} => sized',
         arrived' = (IF Announces(0) THEN arrived \cup {0} ELSE arrived)
  PROVE  TypeOK' /\ BarrierInv'
<1> USE DEF BarrierInv
<1>1. /\ inflight[Leader(0)] /\ Idle(0) /\ 0 \in Nodes /\ Leader(0) \in Ranks
      /\ Done \in Nat /\ seq[Leader(0)] \in Nat
      /\ msgs' = msgs \cup [ack : {TRUE}, seq : {seq[Leader(0)]},
                            node : Nodes \ {0}]
      /\ lastSent' = [lastSent EXCEPT ![0] = seq[Leader(0)]]
      /\ fanout' = [fanout EXCEPT ![0] = 0]
      /\ UNCHANGED <<seq, inflight, acked, arrive, release, released,
                     releaseSeq, entered, left>>
  BY Places, Position DEF LeaderCheck, ArrivalOf, ReleasesOf, AllNodesArrived,
                          shared, counts, TypeOK
<1>2. arrived' = Nodes
  BY Countable, FS_Subset
<1>3. /\ \A n \in Nodes : \A l \in Locals : entered[<<n, l>>] = Done + 1
      /\ \A n \in Nodes : n # 0 => n \in arrived /\ lastSent[n] = W(Done + 1)
  BY <1>1, <1>2, AnnouncesNext DEF Marked, Gathered
<1>4. \A r \in Ranks : /\ entered[r] = Done + 1 /\ left[r] = Done
                       /\ inflight[r] /\ ~acked[r]
  <2> SUFFICES ASSUME NEW r \in Ranks
               PROVE  /\ entered[r] = Done + 1 /\ left[r] = Done
                      /\ inflight[r] /\ ~acked[r]
    OBVIOUS
  <2>1. entered[r] = Done + 1
    BY <1>3, Places
  <2> QED
    BY <1>1, <2>1, Position DEF Bounded
<1>5. seq[Leader(0)] = W(Done + 1) /\ ~Idle(0)'
  BY <1>1, <1>4, BarrierAssumption DEF Numbered, Idle, TypeOK
<1>6. Done' = Done + 1
  BY <1>1, <1>4, <1>5, Zenon DEF Done
<1>7. TypeOK'
  <2>1. fanout' \in [Nodes -> 0..NumLocal] /\ lastSent' \in [Nodes -> Nat]
    BY <1>1, BarrierAssumption DEF TypeOK
  <2>2. msgs' \subseteq [ack : BOOLEAN, seq : Nat, node : Nodes]
    BY <1>1, Zenon DEF TypeOK
  <2>3. count' \in Nat
    BY BarrierAssumption
  <2> QED
    BY <1>1, <2>1, <2>2, <2>3, Zenon DEF TypeOK
<1>8. Numbered'
  BY <1>1 DEF Numbered
<1>9. Bounded' /\ Signalled'
  BY <1>1, <1>4, <1>6 DEF Bounded, Signalled, TypeOK
<1>10. \A n \in Nodes : InCompleted(n)' /\ ~InCompleted(n)
  BY <1>1, <1>4, <1>6, Places DEF InCompleted
<1>11. \A n \in Nodes : ~released[n] /\ (n # 0 => Idle(n) /\ Idle(n)')
  BY <1>1, <1>10 DEF Releasing, Idle, TypeOK
<1>12. Releasing'
  BY <1>1, <1>10, <1>11 DEF Releasing
<1>13. Told'
  BY <1>1, <1>3, <1>5, <1>6 DEF Told, TypeOK
<1>14. Marked'
  BY <1>5 DEF Marked
<1>15. msgs = {}
  BY <1>1, <1>3, <1>10 DEF UnderWay, TypeOK
<1>16. UnderWay'
  BY <1>1, <1>5, <1>6, <1>10, <1>11, <1>15, Zenon DEF UnderWay
<1>17. CountMatches'
  BY <1>1, <1>2, <1>5 DEF CountMatches
<1> QED
  BY <1>7, <1>8, <1>9, <1>12, <1>13, <1>14, <1>16, <1>17

\* A leader announces its node, or starts to release it.
LEMMA LeaderCheckKeeps ==
  ASSUME TypeOK, BarrierInv, NEW n \in Nodes, LeaderCheck(n)
  PROVE  TypeOK' /\ BarrierInv'
<1> USE DEF BarrierInv
<1> DEFINE L == Leader(n)
<1>1. /\ L \in Ranks /\ inflight[L] /\ Idle(n) /\ Done \in Nat
      /\ 0 \in Nodes /\ seq[L] \in Nat /\ seq[L] = W(entered[L])
      /\ lastSent' = [lastSent EXCEPT ![n] = seq[L]]
      /\ UNCHANGED <<seq, inflight, acked, arrive, release, released,
                     releaseSeq, entered, left>>
  BY Places, Position DEF LeaderCheck, shared, counts, TypeOK, Numbered
<1>2. Announces(n) => n \notin arrived \/ ~Idle(0)
  BY <1>1, AnnouncesNext DEF Marked, Gathered
<1>3. /\ arrived' = (IF n = 0 /\ Announces(0) THEN arrived \cup {0} ELSE arrived)
      /\ sized' \in BOOLEAN /\ (sized => sized')
      /\ count' = Cardinality(arrived') /\ (arrived' # {} => sized')
      /\ count' \in Nat
  <2>1. CASE n = 0 /\ Announces(0)
    <3>1. /\ sized' = TRUE /\ arrived' = arrived \cup {0}
          /\ 0 \notin arrived /\ count' = count + 1
      BY <1>1, <1>2, <2>1 DEF LeaderCheck, MarkSelf
    <3>2. count' = Cardinality(arrived')
      BY <3>1, Countable, FS_AddElement, Zenon DEF CountMatches
    <3> QED
      BY <2>1, <3>1, <3>2 DEF TypeOK
  <2>2. CASE ~(n = 0 /\ Announces(0))
    BY <2>2 DEF LeaderCheck, MarkSelf, global, CountMatches, TypeOK
  <2> QED
    BY <2>1, <2>2
<1>4. arrived' \in SUBSET Nodes
  BY <1>1, <1>3 DEF TypeOK
<1>5. CASE AllNodesArrived(n)
  <2>1. n = 0 /\ count' = NumNodes
    BY <1>5 DEF AllNodesArrived
  <2> QED
    BY <1>3, <1>4, <2>1, CompletingKeeps
<1>6. CASE ~AllNodesArrived(n)
  <2>1. /\ msgs' = msgs \cup ArrivalOf(n)
        /\ \/ fanout' = fanout
           \/ n # 0 /\ released[n] /\ fanout' = [fanout EXCEPT ![n] = 0]
    BY <1>1, <1>6, Zenon DEF LeaderCheck, ReleasesOf, Releasing
  <2>2. Done' = Done
    BY <1>1, <2>1 DEF Done, Idle, TypeOK
  <2>3. ArrivalOf(n) \subseteq [ack : BOOLEAN, seq : Nat, node : Nodes]
    <3>1. [ack |-> FALSE, seq |-> seq[L], node |-> n]
            \in [ack : BOOLEAN, seq : Nat, node : Nodes]
      BY <1>1
    <3> QED
      BY <3>1, Zenon DEF ArrivalOf
  <2>4. TypeOK'
    <3>1. fanout' \in [Nodes -> 0..NumLocal] /\ lastSent' \in [Nodes -> Nat]
      BY <1>1, <2>1, BarrierAssumption DEF TypeOK
    <3> QED
      BY <1>1, <1>3, <1>4, <2>1, <2>3, <3>1 DEF TypeOK
  <2>5. Numbered' /\ Bounded' /\ Signalled'
    BY <1>1, <2>2 DEF Numbered, Bounded, Signalled
  <2>6. /\ \A k \in Nodes : /\ InCompleted(k)' <=> InCompleted(k)
                            /\ k # n => (Idle(k)' <=> Idle(k))
        /\ Idle(0)' <=> Idle(0)
        /\ Idle(n)' \/ released[n]
    BY <1>1, <2>1, <2>2 DEF InCompleted, Idle, TypeOK
  <2>7. Releasing'
    BY <1>1, <2>1, <2>2, <2>6 DEF Releasing
  <2>8. Told'
    BY <1>1, <2>2 DEF Told, TypeOK
  <2>9. \A k \in Nodes : Gathered(k) => Gathered(k)'
    BY <1>1, <2>2, Places DEF Gathered, TypeOK, Leader
  <2>10. Announces(n) => Gathered(n)' /\ seq[L] = W(Done + 1)
    BY <1>1, <2>2, AnnouncesNext DEF Gathered, TypeOK
  <2>11. Marked'
    BY <1>3, <2>6, <2>9, <2>10 DEF Marked, TypeOK
  <2>12. UnderWay'
    <3> SUFFICES ASSUME NEW m \in msgs'
                 PROVE  /\ m.node # 0
                        /\ m.ack => /\ m.seq = W(Done) /\ InCompleted(m.node)
                                    /\ ~released[m.node]
                        /\ ~m.ack => /\ m.seq = W(Done + 1)
                                     /\ Gathered(m.node)'
                                     /\ Idle(0) => m.node \notin arrived'
      BY <1>1, <2>2, <2>4, <2>6 DEF UnderWay, TypeOK
    <3>1. CASE m \in msgs
      BY <1>3, <2>9, <3>1 DEF UnderWay, TypeOK
    <3>2. CASE m \in ArrivalOf(n)
      BY <1>1, <1>2, <1>3, <2>10, <3>2 DEF ArrivalOf
    <3> QED
      BY <2>1, <3>1, <3>2
  <2>13. CountMatches'
    BY <1>1, <1>3 DEF CountMatches, Announces, TypeOK
  <2> QED
    BY <2>4, <2>5, <2>7, <2>8, <2>11, <2>12, <2>13
<1> QED
  BY <1>5, <1>6

-----------------------------------------------------------------------------
(* The theorems *)

\* BarrierInv is an inductive invariant: it holds before any rank enters a
\* barrier, and every step of send_barrier, barrier_check, notify_gpu_completion
\* and the completion handler preserves it.
THEOREM BarrierInvariant == Spec => [](TypeOK /\ BarrierInv)
<1>1. Init => TypeOK /\ BarrierInv
  <2> SUFFICES ASSUME Init PROVE TypeOK /\ BarrierInv
    OBVIOUS
  <2>1. Done = 0 /\ \A n \in Nodes : Idle(n) /\ ~InCompleted(n)
    BY Places DEF Init, Done, Idle, InCompleted
  <2>2. W(0) = 0
    <3>1. (SeqMod * 0 + 0) % SeqMod = 0
      BY RemainderUnique, BarrierAssumption
    <3> QED
      BY <3>1, BarrierAssumption DEF W
  <2>3. TypeOK
    <3>1. sized \in BOOLEAN /\ arrived \in SUBSET Nodes /\ count \in Nat
      <4>1. sized = FALSE /\ arrived = {} /\ count = 0
        BY DEF Init
      <4> QED
        BY <4>1
    <3> QED
      BY <3>1, BarrierAssumption DEF Init, TypeOK
  <2>4. Numbered /\ Bounded /\ Signalled /\ Releasing /\ Told
    BY <2>1, <2>2, Places
       DEF Init, Numbered, Bounded, Signalled, Releasing, Told
  <2>5. Marked /\ UnderWay
    BY DEF Init, Marked, UnderWay
  <2>6. CountMatches
    BY FS_EmptySet, Places DEF Init, CountMatches
  <2> QED
    BY <2>3, <2>4, <2>5, <2>6 DEF BarrierInv
<1>2. TypeOK /\ BarrierInv /\ [Next]_vars => (TypeOK /\ BarrierInv)'
  <2> SUFFICES ASSUME TypeOK, BarrierInv, [Next]_vars
               PROVE  TypeOK' /\ BarrierInv'
    OBVIOUS
  <2>1. CASE \E r \in Ranks : Proxy(r)
    BY <2>1, SendBarrierKeeps, FollowerCheckKeeps, NotifyKeeps DEF Proxy
  <2>2. CASE \E n \in Nodes : LeaderStep(n)
    BY <2>2, LeaderCheckKeeps, FanOutKeeps DEF LeaderStep
  <2>3. CASE Receive
    BY <2>3, RecvArrivalKeeps, RecvReleaseKeeps DEF Receive
  <2>4. CASE UNCHANGED vars
    <3>1. Done' = Done
      BY <2>4 DEF vars, Done, Idle
    <3>2. TypeOK'
      BY <2>4 DEF vars, TypeOK
    <3>3. Numbered' /\ Bounded'
      BY <2>4, <3>1 DEF vars, BarrierInv, Numbered, Bounded
    <3>8. Signalled' /\ Told'
      BY <2>4, <3>1 DEF vars, BarrierInv, Signalled, Told
    <3>4. \A n : /\ InCompleted(n)' <=> InCompleted(n)
                 /\ Gathered(n)' <=> Gathered(n)
                 /\ Idle(n)' <=> Idle(n)
      BY <2>4, <3>1 DEF vars, InCompleted, Gathered, Idle
    <3>5. Releasing'
      BY <2>4, <3>1, <3>4 DEF vars, BarrierInv, Releasing
    <3>6. Marked' /\ UnderWay'
      BY <2>4, <3>1, <3>4 DEF vars, BarrierInv, Marked, UnderWay
    <3>7. CountMatches'
      BY <2>4 DEF vars, BarrierInv, CountMatches, Announces
    <3> QED
      BY <3>2, <3>3, <3>5, <3>6, <3>7, <3>8 DEF BarrierInv
  <2> QED
    BY <2>1, <2>2, <2>3, <2>4 DEF Next
<1> QED
  BY <1>1, <1>2, PTL DEF Spec

\* No rank leaves a barrier (notify_gpu_completion) that some rank has not
\* entered (send_barrier).
THEOREM BarrierIsSafe == Spec => []BarrierSafe
<1>1. TypeOK /\ BarrierInv => BarrierSafe
  <2> SUFFICES ASSUME TypeOK, BarrierInv, NEW r \in Ranks, NEW q \in Ranks
               PROVE  left[r] <= entered[q]
    BY DEF BarrierSafe
  <2> QED
    BY Position DEF BarrierInv, Bounded, TypeOK
<1> QED
  BY <1>1, BarrierInvariant, PTL

\* The assertions of the completion handler hold: no arrival is counted twice and
\* no release reaches a leader that still has one.
THEOREM NothingArrivesTwice == Spec => []NoDuplicateArrival
<1>1. TypeOK /\ BarrierInv => NoDuplicateArrival
  BY DEF BarrierInv, UnderWay, NoDuplicateArrival
<1> QED
  BY <1>1, BarrierInvariant, PTL

\* Rank 0 releases when its vector of arrivals is full, never by a count that has
\* drifted from it (barrier_arrived and barrier_arrival_count).
THEOREM CountIsExact == Spec => []CountMatches
<1>1. BarrierInv => CountMatches
  BY DEF BarrierInv
<1> QED
  BY <1>1, BarrierInvariant, PTL
=============================================================================
