--------------------------- MODULE D2hFifoProofs ----------------------------
(***************************************************************************)
(* The FIFO between the GPU and a proxy thread loses, doubles and reorders *)
(* nothing, for any number of slots, threads and triggers.                 *)
(***************************************************************************)
EXTENDS D2hFifo, TLAPS

\* Division with remainder.
LEMMA SlotRemainder ==
  ASSUME NEW a \in Int
  PROVE  /\ a % Size \in Slots
         /\ a \div Size \in Int
         /\ a = Size * (a \div Size) + (a % Size)
  BY D2hAssumption DEF Slots

\* A positive multiple of Size is at least Size.
LEMMA MultipleIsLarge ==
  ASSUME NEW q \in Int, NEW r \in Int, q > r
  PROVE  Size * q - Size * r >= Size
<1>1. q - r >= 1 /\ Size >= 1 /\ Size \in Int
  BY D2hAssumption
<1>2. Size * (q - r) >= Size
  BY <1>1
<1>3. Size * (q - r) = Size * q - Size * r
  BY <1>1
<1> QED
  BY <1>2, <1>3

\* Two tickets less than Size apart that share a slot are the same.
LEMMA SameSlot ==
  ASSUME NEW a \in Int, NEW b \in Int,
         a % Size = b % Size, a - b < Size, b - a < Size
  PROVE  a = b
<1> DEFINE q == a \div Size
           r == b \div Size
           x == Size * q
           y == Size * r
<1>1. q \in Int /\ a = x + (a % Size) /\ a % Size \in Int /\ x \in Int
  BY SlotRemainder, D2hAssumption DEF Slots
<1>2. r \in Int /\ b = y + (b % Size) /\ b % Size \in Int /\ y \in Int
  BY SlotRemainder, D2hAssumption DEF Slots
<1>3. a - b = x - y
  <2> HIDE DEF x, y
  <2> QED BY <1>1, <1>2
<1>4. ~(q > r)
  <2> SUFFICES ASSUME q > r PROVE FALSE
    OBVIOUS
  <2>1. x - y >= Size
    BY <1>1, <1>2, MultipleIsLarge
  <2> HIDE DEF x, y
  <2> QED BY <1>1, <1>2, <1>3, <2>1, D2hAssumption
<1>5. ~(r > q)
  <2> SUFFICES ASSUME r > q PROVE FALSE
    OBVIOUS
  <2>1. y - x >= Size
    BY <1>1, <1>2, MultipleIsLarge
  <2> HIDE DEF x, y
  <2> QED BY <1>1, <1>2, <1>3, <2>1, D2hAssumption
<1>6. q = r
  <2> HIDE DEF q, r
  <2> QED BY <1>1, <1>2, <1>4, <1>5
<1> QED
  BY <1>1, <1>2, <1>6

IInv == TypeOK /\ FifoInv

\* The empty FIFO satisfies the invariant.
LEMMA InitInv == Init => IInv
<1> SUFFICES ASSUME Init PROVE IInv
  OBVIOUS
<1> USE DEF Init
<1>1. TypeOK
  <2>1. {head, tail, tailCache} \subseteq 0..MaxPush
    BY D2hAssumption
  <2>2. triggers \in [Slots -> Nat] /\ ticket \in [Threads -> Nat]
        /\ seen \in [Threads -> Nat] /\ pc \in [Threads -> Labels]
    BY DEF Labels
  <2>3. popping \in BOOLEAN
    BY Zenon
  <2> QED
    BY <2>1, <2>2, <2>3, Zenon DEF TypeOK
<1>2. Counters
  BY D2hAssumption DEF Counters, Unread
<1>3. Held
  BY DEF Held, Holds
<1>4. Stored
  BY DEF Stored
<1>5. WaitIsSound
  BY DEF WaitIsSound
<1> QED
  BY <1>1, <1>2, <1>3, <1>4, <1>5 DEF IInv, FifoInv

\* What a full slot at the tail holds: the ticket of the tail.
LEMMA TailSlot ==
  ASSUME IInv, ~popping, triggers[tail % Size] # 0
  PROVE  triggers[tail % Size] = tail + 1
<1> DEFINE v == triggers[tail % Size]
<1>1. tail \in Int /\ tail % Size \in Slots /\ v \in Int
  BY SlotRemainder DEF IInv, TypeOK
<1>2. tail < v /\ v <= tail + Size /\ (v - 1) % Size = tail % Size
  BY <1>1 DEF IInv, FifoInv, Stored, Unread
<1>3. v - 1 = tail
  BY <1>1, <1>2, SameSlot, D2hAssumption
<1> QED
  BY <1>1, <1>3

\* A thread about to store finds its slot empty.
LEMMA FreeSlot ==
  ASSUME IInv, NEW t \in Threads, pc[t] = "store"
  PROVE  triggers[ticket[t] % Size] = 0
<1> DEFINE i == ticket[t] % Size
           v == triggers[i]
<1>1. ticket[t] \in Int /\ i \in Slots /\ v \in Nat /\ tail \in Nat
  BY SlotRemainder DEF IInv, TypeOK
<1>2. tail <= ticket[t] /\ ticket[t] < tail + Size /\ Holds(t)
  BY <1>1 DEF IInv, FifoInv, Held, Unread, Holds
<1> SUFFICES ASSUME v # 0 PROVE FALSE
  OBVIOUS
<1>3. tail < v /\ v <= tail + Size /\ (v - 1) % Size = i /\ ticket[t] # v - 1
  BY <1>1, <1>2 DEF IInv, FifoInv, Stored, Unread
<1>4. v - 1 = ticket[t]
  <2>1. /\ v - 1 \in Int
        /\ (v - 1) - ticket[t] < Size /\ ticket[t] - (v - 1) < Size
    BY <1>1, <1>2, <1>3, D2hAssumption
  <2> HIDE DEF v
  <2> QED
    BY <1>1, <1>3, <2>1, SameSlot
<1> QED
  BY <1>3, <1>4

\* Two threads about to store use different slots.
LEMMA DistinctSlots ==
  ASSUME IInv, NEW t \in Threads, NEW u \in Threads, t # u,
         pc[t] = "store", pc[u] = "store"
  PROVE  ticket[u] % Size # ticket[t] % Size
<1>1. ticket[t] \in Int /\ ticket[u] \in Int /\ tail \in Int
  BY DEF IInv, TypeOK
<1>2. /\ tail <= ticket[t] /\ ticket[t] < tail + Size
      /\ tail <= ticket[u] /\ ticket[u] < tail + Size
      /\ ticket[t] # ticket[u]
  BY <1>1 DEF IInv, FifoInv, Held, Unread, Holds
<1>3. ticket[t] - ticket[u] < Size /\ ticket[u] - ticket[t] < Size
  BY <1>1, <1>2, D2hAssumption
<1> QED
  BY <1>1, <1>2, <1>3, SameSlot

\* push takes a ticket nobody holds.
LEMMA PushInv ==
  ASSUME IInv, NEW t \in Threads, Push(t)
  PROVE  IInv'
<1> USE DEF Push, IInv, TypeOK
<1>1. TypeOK'
  BY D2hAssumption DEF Labels, FifoInv, Counters
<1>2. Counters'
  BY D2hAssumption DEF FifoInv, Counters, Unread
<1>3. Held'
  BY D2hAssumption DEF FifoInv, Held, Counters, Unread, Holds
<1>4. Stored'
  BY D2hAssumption DEF FifoInv, Stored, Held, Counters, Unread, Holds
<1>5. WaitIsSound'
  BY D2hAssumption DEF FifoInv, WaitIsSound
<1> QED
  BY <1>1, <1>2, <1>3, <1>4, <1>5 DEF FifoInv

\* The look at the cached tail.
LEMMA CheckCacheInv ==
  ASSUME IInv, NEW t \in Threads, CheckCache(t)
  PROVE  IInv'
<1> USE DEF CheckCache, IInv, TypeOK
<1>1. TypeOK'
  BY D2hAssumption DEF Labels, FifoInv, Counters
<1>2. Counters'
  BY D2hAssumption DEF FifoInv, Counters, Unread
<1>3. Held'
  BY D2hAssumption DEF FifoInv, Held, Counters, Unread, Holds
<1>4. Stored'
  BY D2hAssumption DEF FifoInv, Stored, Held, Counters, Unread, Holds
<1>5. WaitIsSound'
  BY D2hAssumption DEF FifoInv, WaitIsSound
<1> QED
  BY <1>1, <1>2, <1>3, <1>4, <1>5 DEF FifoInv

\* The wait for a slot.
LEMMA SyncInv ==
  ASSUME IInv, NEW t \in Threads, Sync(t)
  PROVE  IInv'
<1> USE DEF Sync, IInv, TypeOK
<1>1. TypeOK'
  BY D2hAssumption DEF Labels, FifoInv, Counters
<1>2. Counters'
  BY D2hAssumption DEF FifoInv, Counters, Unread
<1>3. Held'
  BY D2hAssumption DEF FifoInv, Held, Counters, Unread, Holds
<1>4. Stored'
  BY D2hAssumption DEF FifoInv, Stored, Held, Counters, Unread, Holds
<1>5. WaitIsSound'
  BY D2hAssumption DEF FifoInv, WaitIsSound
<1> QED
  BY <1>1, <1>2, <1>3, <1>4, <1>5 DEF FifoInv

\* The store to the cached tail.
LEMMA WriteCacheInv ==
  ASSUME IInv, NEW t \in Threads, WriteCache(t)
  PROVE  IInv'
<1> USE DEF WriteCache, IInv, TypeOK
<1>1. TypeOK'
  BY D2hAssumption DEF Labels, FifoInv, Counters
<1>2. Counters'
  BY D2hAssumption DEF FifoInv, Counters, Unread
<1>3. Held'
  BY D2hAssumption DEF FifoInv, Held, Counters, Unread, Holds
<1>4. Stored'
  BY D2hAssumption DEF FifoInv, Stored, Held, Counters, Unread, Holds
<1>5. WaitIsSound'
  BY D2hAssumption DEF FifoInv, WaitIsSound
<1> QED
  BY <1>1, <1>2, <1>3, <1>4, <1>5 DEF FifoInv

\* The end of a wait.
LEMMA ConsumedInv ==
  ASSUME IInv, NEW t \in Threads, Consumed(t)
  PROVE  IInv'
<1> USE DEF Consumed, IInv, TypeOK
<1>1. TypeOK'
  BY D2hAssumption DEF Labels, FifoInv, Counters
<1>2. Counters'
  BY D2hAssumption DEF FifoInv, Counters, Unread
<1>3. Held'
  BY D2hAssumption DEF FifoInv, Held, Counters, Unread, Holds
<1>4. Stored'
  BY D2hAssumption DEF FifoInv, Stored, Held, Counters, Unread, Holds
<1>5. WaitIsSound'
  BY D2hAssumption DEF FifoInv, WaitIsSound
<1> QED
  BY <1>1, <1>2, <1>3, <1>4, <1>5 DEF FifoInv

\* The store of the trigger: the ticket passes from its thread to its slot.
LEMMA StoreInv ==
  ASSUME IInv, NEW t \in Threads, Store(t)
  PROVE  IInv'
<1> DEFINE i == ticket[t] % Size
<1> USE DEF Store, IInv, TypeOK
<1>0. /\ i \in Slots /\ ticket[t] \in Nat
      /\ ticket[t] + 1 - 1 = ticket[t]
      /\ Unread' = Unread /\ Unread \in Nat
  BY SlotRemainder DEF Unread
<1>a. Holds(t) /\ ~Holds(t)'
  BY DEF Holds
<1>b. \A u \in Threads : u # t => Holds(u)' = Holds(u) /\ pc'[u] = pc[u]
  BY DEF Holds
<1>c. triggers[i] = 0
  BY FreeSlot
<1> HIDE DEF i
<1>1. TypeOK'
  BY <1>0 DEF i, Labels
<1>2. Counters'
  <2>1. ~popping \/ tail % Size # i
    <3> SUFFICES ASSUME popping, tail % Size = i PROVE FALSE
      OBVIOUS
    <3>1. /\ tail \in Int /\ tail < ticket[t] /\ ticket[t] < tail + Size
      BY <1>a DEF FifoInv, Held, Unread
    <3>2. tail - ticket[t] < Size /\ ticket[t] - tail < Size
      BY <1>0, <3>1, D2hAssumption
    <3> QED
      BY <1>0, <3>1, <3>2, SameSlot DEF i
  <2>2. triggers' = [triggers EXCEPT ![i] = ticket[t] + 1]
    BY DEF i
  <2>3. popping => triggers'[tail % Size] = triggers[tail % Size]
    BY <2>1, <2>2, SlotRemainder
  <2> QED
    BY <1>0, <2>3 DEF FifoInv, Counters
<1>3. Held'
  BY <1>0, <1>a, <1>b DEF FifoInv, Held
<1>4. Stored'
  <2> SUFFICES ASSUME NEW j \in Slots, triggers'[j] # 0
               PROVE  /\ Unread < triggers'[j] /\ triggers'[j] <= head
                      /\ triggers'[j] <= tail + Size
                      /\ (triggers'[j] - 1) % Size = j
                      /\ \A u \in Threads :
                           Holds(u)' => ticket[u] # triggers'[j] - 1
    BY <1>0 DEF Stored
  <2>1. CASE j = i
    <3>1. triggers'[j] = ticket[t] + 1
      BY <1>0, <2>1 DEF i
    <3>2. /\ Unread <= ticket[t] /\ ticket[t] < head /\ ticket[t] < tail + Size
          /\ \A u \in Threads : u # t /\ Holds(u) => ticket[u] # ticket[t]
      BY <1>a DEF FifoInv, Held
    <3>3. (triggers'[j] - 1) % Size = j
      BY <1>0, <2>1, <3>1 DEF i
    <3> QED
      BY <1>0, <1>a, <1>b, <3>1, <3>2, <3>3, D2hAssumption
  <2>2. CASE j # i
    <3>1. triggers'[j] = triggers[j]
      BY <1>0, <2>2 DEF i
    <3> QED
      BY <1>0, <1>a, <1>b, <3>1 DEF FifoInv, Stored
  <2> QED
    BY <2>1, <2>2
<1>5. WaitIsSound'
  BY DEF FifoInv, WaitIsSound
<1> QED
  BY <1>1, <1>2, <1>3, <1>4, <1>5 DEF FifoInv

\* The host reads and clears the slot at the tail.
LEMMA PopInv ==
  ASSUME IInv, Pop
  PROVE  IInv'
<1> DEFINE i == tail % Size
<1> USE DEF Pop, IInv, TypeOK
<1>0. /\ i \in Slots /\ triggers[i] = tail + 1
      /\ Unread = tail /\ Unread' = tail + 1 /\ tail \in Nat
      /\ tail + 1 - 1 = tail
  BY SlotRemainder, TailSlot DEF Unread
<1>a. \A t \in Threads : Holds(t)' = Holds(t)
  BY DEF Holds
<1>b. \A t \in Threads : Holds(t) => ticket[t] # tail
  BY <1>0 DEF FifoInv, Stored
<1>c. /\ triggers'[i] = 0
      /\ \A j \in Slots : j # i => triggers'[j] = triggers[j]
  BY <1>0
<1>1. TypeOK'
  BY <1>0
<1>2. Counters'
  <2>1. tail + 1 <= head
    BY <1>0 DEF FifoInv, Stored
  <2> QED
    BY <1>0, <1>c, <2>1 DEF FifoInv, Counters
<1>3. Held'
  BY <1>0, <1>a, <1>b DEF FifoInv, Held
<1>4. Stored'
  <2> SUFFICES ASSUME NEW j \in Slots, triggers'[j] # 0
               PROVE  /\ tail + 1 < triggers'[j] /\ triggers'[j] <= head
                      /\ triggers'[j] <= tail + Size
                      /\ (triggers'[j] - 1) % Size = j
                      /\ \A u \in Threads :
                           Holds(u)' => ticket[u] # triggers'[j] - 1
    BY <1>0 DEF Stored
  <2>1. j # i /\ triggers'[j] = triggers[j] /\ triggers[j] # 0
    BY <1>c
  <2>2. /\ tail < triggers[j] /\ triggers[j] <= head
        /\ triggers[j] <= tail + Size
        /\ (triggers[j] - 1) % Size = j
        /\ \A u \in Threads : Holds(u) => ticket[u] # triggers[j] - 1
    BY <1>0, <2>1 DEF FifoInv, Stored
  <2>3. triggers[j] # tail + 1
    BY <1>0, <2>1, <2>2
  <2> HIDE DEF i
  <2> QED
    BY <1>0, <1>a, <2>1, <2>2, <2>3
<1>5. WaitIsSound'
  BY DEF FifoInv, WaitIsSound
<1> QED
  BY <1>1, <1>2, <1>3, <1>4, <1>5 DEF FifoInv

\* The tail moves on.
LEMMA AdvanceInv ==
  ASSUME IInv, Advance
  PROVE  IInv'
<1> USE DEF Advance, IInv, TypeOK
<1>0. Unread' = Unread /\ Unread = tail + 1
  BY DEF Unread
<1>a. \A t \in Threads : Holds(t)' = Holds(t)
  BY DEF Holds
<1>1. TypeOK'
  <2>1. {head, tail, tailCache}' \subseteq 0..MaxPush
    BY <1>0, D2hAssumption DEF FifoInv, Counters
  <2>2. popping' \in BOOLEAN
    BY Zenon
  <2> QED
    BY <2>1, <2>2, Zenon
<1>2. Counters'
  BY <1>0 DEF FifoInv, Counters
<1>3. Held'
  BY <1>0, <1>a, D2hAssumption DEF FifoInv, Held
<1>4. Stored'
  BY <1>0, <1>a, D2hAssumption DEF FifoInv, Stored
<1>5. WaitIsSound'
  BY DEF FifoInv, WaitIsSound
<1> QED
  BY <1>1, <1>2, <1>3, <1>4, <1>5 DEF FifoInv

\* FifoInv and the types hold in every reachable state, whatever the number of
\* slots, threads and triggers.
THEOREM FifoInvariant == Spec => [](TypeOK /\ FifoInv)
<1>1. IInv /\ [Next]_vars => IInv'
  <2> SUFFICES ASSUME IInv, [Next]_vars PROVE IInv'
    OBVIOUS
  <2>1. ASSUME NEW t \in Threads, Step(t) PROVE IInv'
    BY <2>1, PushInv, CheckCacheInv, SyncInv, WriteCacheInv, StoreInv,
       ConsumedInv, Zenon DEF Step
  <2>2. CASE Pop
    BY <2>2, PopInv
  <2>3. CASE Advance
    BY <2>3, AdvanceInv
  <2>4. CASE UNCHANGED vars
    BY <2>4 DEF vars, IInv, TypeOK, FifoInv, Counters, Held, Stored,
                WaitIsSound, Unread, Holds
  <2> QED
    BY <2>1, <2>2, <2>3, <2>4, Zenon DEF Next
<1> QED
  BY InitInv, <1>1, PTL DEF Spec, IInv

\* The invariant gives the properties of one state.
LEMMA InvImplies == IInv => NoOverwrite /\ InOrder /\ WaitIsSound
<1> SUFFICES ASSUME IInv PROVE NoOverwrite /\ InOrder /\ WaitIsSound
  OBVIOUS
<1>1. NoOverwrite
  BY FreeSlot, DistinctSlots DEF NoOverwrite
<1>2. InOrder
  BY TailSlot DEF InOrder
<1> QED
  BY <1>1, <1>2 DEF IInv, FifoInv

\* No trigger is stored over another, however stale the cached tail is and
\* however many threads push.
THEOREM NothingOverwritten == Spec => []NoOverwrite
  BY FifoInvariant, InvImplies, PTL DEF IInv

\* The proxy reads triggers in ticket order, none left out and none twice.
THEOREM ReadInOrder == Spec => []InOrder
  BY FifoInvariant, InvImplies, PTL DEF IInv

\* A thread that waits for a command returns after the proxy consumed it.
THEOREM WaitsAreSound == Spec => []WaitIsSound
  BY FifoInvariant, InvImplies, PTL DEF IInv
=============================================================================
