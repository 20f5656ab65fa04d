------------------------------ MODULE D2hFifo -------------------------------
(***************************************************************************)
(* The FIFO by which the threads of a GPU hand commands to a proxy thread  *)
(* of UCCL-EP.  A thread takes a ticket from the device-side head, waits   *)
(* until the host has freed the slot of the ticket, and stores its         *)
(* trigger; the host reads the slot at the tail, clears it and advances    *)
(* the tail.  The device keeps a cached copy of the tail that any thread   *)
(* may overwrite with an older value.                                      *)
(*                                                                         *)
(* A trigger is represented by its ticket plus one; 0 is an empty slot.    *)
(***************************************************************************)
EXTENDS Integers

CONSTANTS
  Threads,        \* threads of the GPU
  Size,           \* slots of the FIFO
  MaxPush         \* bound: triggers pushed

ASSUME D2hAssumption ==
  /\ Size \in Nat \ {0}
  /\ MaxPush \in Nat

VARIABLES
  head,           \* on the device
  tail,           \* written by the host
  tailCache,      \* on the device
  triggers,
  pc,             \* where each thread is
  ticket,         \* prevHead of its push
  seen,           \* the tail it read and has not cached yet, or 0
  popping         \* the host has cleared the slot at the tail

vars == <<head, tail, tailCache, triggers, pc, ticket, seen, popping>>

Slots == 0..(Size - 1)
Labels == {"idle", "check", "sync", "cache", "store", "wait", "return"}

Init ==
  /\ head = 0 /\ tail = 0 /\ tailCache = 0
  /\ triggers = [i \in Slots |-> 0]
  /\ pc = [t \in Threads |-> "idle"]
  /\ ticket = [t \in Threads |-> 0]
  /\ seen = [t \in Threads |-> 0]
  /\ popping = FALSE

-----------------------------------------------------------------------------
(* Device *)

\* push: the fetch-and-add of the head.
Push(t) ==
  /\ pc[t] = "idle" /\ head < MaxPush
  /\ ticket' = [ticket EXCEPT ![t] = head]
  /\ head' = head + 1
  /\ pc' = [pc EXCEPT ![t] = "check"]
  /\ UNCHANGED <<tail, tailCache, triggers, seen, popping>>

\* Mutant: one slot more than there is.
CheckCacheOffByOne(t) ==
  /\ pc[t] = "check"
  /\ pc' = [pc EXCEPT ![t] = IF ticket[t] > Size + tailCache THEN "sync"
                             ELSE "store"]
  /\ UNCHANGED <<head, tail, tailCache, triggers, ticket, seen, popping>>

\* The cached tail may show that the slot is free.
CheckCache(t) ==
  /\ pc[t] = "check"
  /\ pc' = [pc EXCEPT ![t] = IF ticket[t] >= Size + tailCache THEN "sync"
                             ELSE "store"]
  /\ UNCHANGED <<head, tail, tailCache, triggers, ticket, seen, popping>>

\* sync: wait for the real tail ...
Sync(t) ==
  /\ pc[t] = "sync" /\ ticket[t] - Size < tail
  /\ seen' = [seen EXCEPT ![t] = tail]
  /\ pc' = [pc EXCEPT ![t] = "cache"]
  /\ UNCHANGED <<head, tail, tailCache, triggers, ticket, popping>>

\* ... and cache what was read, which others may have overtaken by now.
WriteCache(t) ==
  /\ pc[t] \in {"cache", "return"}
  /\ tailCache' = seen[t]
  /\ seen' = [seen EXCEPT ![t] = 0]
  /\ pc' = [pc EXCEPT ![t] = IF @ = "cache" THEN "store" ELSE "idle"]
  /\ UNCHANGED <<head, tail, triggers, ticket, popping>>

\* The 16-byte store of the trigger.  The caller goes on, or waits until its
\* command is consumed (a QUIET or a BARRIER).
Store(t) ==
  /\ pc[t] = "store"
  /\ triggers' = [triggers EXCEPT ![ticket[t] % Size] = ticket[t] + 1]
  /\ \E l \in {"idle", "wait"} : pc' = [pc EXCEPT ![t] = l]
  /\ UNCHANGED <<head, tail, tailCache, ticket, seen, popping>>

\* wait_until_cmd_consumed and FifoDeviceHandle::poll.
Consumed(t) ==
  /\ pc[t] = "wait" /\ ticket[t] < tail
  /\ seen' = [seen EXCEPT ![t] = tail]
  /\ pc' = [pc EXCEPT ![t] = "return"]
  /\ UNCHANGED <<head, tail, tailCache, triggers, ticket, popping>>

-----------------------------------------------------------------------------
(* Host *)

\* Mutant: the tail is advanced and the slot left as it is.
PopKeepsSlot ==
  /\ ~popping /\ triggers[tail % Size] # 0
  /\ popping' = TRUE
  /\ UNCHANGED <<head, tail, tailCache, triggers, pc, ticket, seen>>

\* poll finds a trigger, and pop clears its slot.
Pop ==
  /\ ~popping /\ triggers[tail % Size] # 0
  /\ triggers' = [triggers EXCEPT ![tail % Size] = 0]
  /\ popping' = TRUE
  /\ UNCHANGED <<head, tail, tailCache, pc, ticket, seen>>

\* pop: the store of the tail, after which the slot is the device's.
Advance ==
  /\ popping
  /\ tail' = tail + 1
  /\ popping' = FALSE
  /\ UNCHANGED <<head, tailCache, triggers, pc, ticket, seen>>

Step(t) == Push(t) \/ CheckCache(t) \/ Sync(t) \/ WriteCache(t) \/ Store(t)
           \/ Consumed(t)

Next == (\E t \in Threads : Step(t)) \/ Pop \/ Advance

Spec == Init /\ [][Next]_vars

\* Warps are scheduled, the proxy polls for ever; no thread need push.
Fairness ==
  /\ \A t \in Threads :
       /\ WF_vars(CheckCache(t)) /\ WF_vars(Sync(t)) /\ WF_vars(WriteCache(t))
       /\ WF_vars(Store(t)) /\ WF_vars(Consumed(t))
  /\ WF_vars(Pop) /\ WF_vars(Advance)

FairSpec == Spec /\ Fairness

-----------------------------------------------------------------------------
(* Properties *)

\* Every variable has its type.
TypeOK ==
  /\ {head, tail, tailCache} \subseteq 0..MaxPush
  /\ triggers \in [Slots -> Nat]
  /\ pc \in [Threads -> Labels]
  /\ ticket \in [Threads -> Nat]
  /\ seen \in [Threads -> Nat]
  /\ popping \in BOOLEAN

\* Threads whose ticket is not stored yet.
Holds(t) == pc[t] \in {"check", "sync", "cache", "store"}

\* The next ticket the host will read.
Unread == tail + IF popping THEN 1 ELSE 0

\* A trigger is only ever stored into an empty slot, and no two threads are
\* about to store into the same one, however stale the cached tail is and
\* however many threads push.
NoOverwrite ==
  \A t \in Threads : pc[t] = "store" =>
    /\ triggers[ticket[t] % Size] = 0
    /\ \A u \in Threads \ {t} :
         pc[u] = "store" => ticket[u] % Size # ticket[t] % Size

\* The host reads the triggers in the order of their tickets, none left out and
\* none twice: the slot at the tail is empty or holds the ticket of the tail.
InOrder == ~popping => triggers[tail % Size] \in {0, tail + 1}

\* A thread that waited for its command returns only after the host has read
\* it, and so all that were pushed before it.
WaitIsSound == \A t \in Threads : pc[t] = "return" => ticket[t] < tail

\* What is known of the tail is never ahead of it.
Counters ==
  /\ tailCache <= tail
  /\ \A t \in Threads : seen[t] <= tail
  /\ Unread <= head
  /\ popping => triggers[tail % Size] = 0

\* Held tickets are unread and held once; their slot is free from "cache" on.
Held ==
  /\ \A t \in Threads : Holds(t) => Unread <= ticket[t] /\ ticket[t] < head
  /\ \A t \in Threads : pc[t] \in {"cache", "store"} => ticket[t] < tail + Size
  /\ \A t, u \in Threads : Holds(t) /\ Holds(u) /\ ticket[t] = ticket[u] => t = u

\* A stored ticket is unread, in its slot, and held by nobody.
Stored ==
  \A i \in Slots : triggers[i] # 0 =>
    /\ Unread < triggers[i] /\ triggers[i] <= head
    /\ triggers[i] <= tail + Size
    /\ (triggers[i] - 1) % Size = i
    /\ \A t \in Threads : Holds(t) => ticket[t] # triggers[i] - 1

\* The invariant from which the three follow: the tickets from the tail to the
\* head are stored or held, each once.
FifoInv == Counters /\ Held /\ Stored /\ WaitIsSound

\* Every ticket that was taken is read in the end: no thread waits for ever for
\* a slot or for its command.
EveryTriggerRead == \A k \in 1..MaxPush : (head >= k) ~> (tail >= k)
=============================================================================
