------------------------------ MODULE EpBarrier ------------------------------
(***************************************************************************)
(* The barrier across the ranks of the expert-parallel library, normal     *)
(* mode, verbs build (ep/src/proxy.cpp send_barrier, barrier_check and the  *)
(* completion handler of ep/src/rdma.cpp).  Every rank has one proxy thread *)
(* that takes part.  Ranks of a node meet in shared memory (LocalBarrier),  *)
(* the leader of each node tells rank 0, and rank 0 releases the leaders,   *)
(* which release their local ranks.                                         *)
(*                                                                          *)
(* A rank is a pair <<node, local rank>>; <<n, 0>> leads node n and rank 0  *)
(* is <<0, 0>>.  entered and left count the barriers of a rank without      *)
(* wrapping; the code only sees barrier_seq, 21 bits of the count.          *)
(***************************************************************************)
EXTENDS Integers, FiniteSets

CONSTANTS NumNodes,      \* nodes
          NumLocal,      \* ranks of a node
          SeqMod,        \* BarrierImm::kSeqMask + 1
          MaxBarriers    \* bound: barriers a rank enters

ASSUME BarrierAssumption ==
  /\ NumNodes \in Nat \ {0} /\ NumLocal \in Nat \ {0}
  /\ SeqMod \in Nat \ {0, 1} /\ MaxBarriers \in Nat

Nodes == 0..NumNodes - 1
Locals == 0..NumLocal - 1
Ranks == Nodes \X Locals
Leader(n) == <<n, 0>>

VARIABLES seq,          \* barrier_seq of each rank
          inflight,     \* barrier_inflight
          acked,        \* acked_wrs_ holds barrier_wr
          arrive,       \* LocalBarrier::arrive_seq, shared by a node
          release,      \* LocalBarrier::release_seq
          lastSent,     \* last_sent_seq of each leader
          sized,        \* rank 0: barrier_arrived is not empty
          arrived,      \* rank 0: nodes marked in barrier_arrived
          count,        \* rank 0: barrier_arrival_count
          released,     \* barrier_released of each leader
          releaseSeq,   \* barrier_release_seq of each leader
          fanout,       \* local ranks a leader has released, NumLocal if none to
          msgs,         \* barrier messages under way
          entered, left
vars == <<seq, inflight, acked, arrive, release, lastSent, sized, arrived,
          count, released, releaseSeq, fanout, msgs, entered, left>>
shared == <<arrive, release>>
global == <<sized, arrived, count>>
counts == <<entered, left>>

Init ==
  /\ seq = [r \in Ranks |-> 0]
  /\ inflight = [r \in Ranks |-> FALSE]
  /\ acked = [r \in Ranks |-> FALSE]
  /\ arrive = [r \in Ranks |-> 0]
  /\ release = [r \in Ranks |-> 0]
  /\ lastSent = [n \in Nodes |-> 0]
  /\ sized = FALSE /\ arrived = {} /\ count = 0
  /\ released = [n \in Nodes |-> FALSE]
  /\ releaseSeq = [n \in Nodes |-> 0]
  /\ fanout = [n \in Nodes |-> NumLocal]
  /\ msgs = {}
  /\ entered = [r \in Ranks |-> 0]
  /\ left = [r \in Ranks |-> 0]

\* A leader that is storing releases does nothing else: one thread.
Idle(n) == fanout[n] = NumLocal
Free(r) == r[2] # 0 \/ Idle(r[1])

-----------------------------------------------------------------------------
(* The proxy of a rank *)

NextSeq(r) == (seq[r] + 1) % SeqMod

\* A leader sizes the vector of arrivals if it has not its size; only rank 0's is
\* ever used.  The alternative clears it whatever it holds.
SizeArrivedAlways(r) ==
  IF r = Leader(0)
  THEN sized' = TRUE /\ arrived' = {} /\ count' = 0
  ELSE UNCHANGED global
SizeArrived(r) ==
  IF r = Leader(0) /\ ~sized
  THEN sized' = TRUE /\ arrived' = {} /\ count' = 0
  ELSE UNCHANGED global

\* send_barrier: the proxy takes a BARRIER command from the device.
SendBarrier(r) ==
  /\ ~inflight[r] /\ Free(r)
  /\ entered[r] < MaxBarriers
  /\ inflight' = [inflight EXCEPT ![r] = TRUE]
  /\ seq' = [seq EXCEPT ![r] = NextSeq(r)]
  /\ arrive' = [arrive EXCEPT ![r] = NextSeq(r)]
  /\ entered' = [entered EXCEPT ![r] = @ + 1]
  /\ SizeArrived(r)
  /\ UNCHANGED <<acked, release, lastSent, released, releaseSeq, fanout, msgs,
                 left>>

\* The leader found the sequence number of its barrier in every arrive_seq of
\* its node.  An arrive_seq that equals it stays until the leader's release, so
\* the scan is as good as one read of them all.  The alternative stops at the
\* first match.
AnyLocalArrived(n) == \E l \in Locals : arrive[<<n, l>>] = seq[Leader(n)]
AllLocalArrived(n) == \A l \in Locals : arrive[<<n, l>>] = seq[Leader(n)]

\* The leader has not announced this barrier yet; and without last_sent_seq.
AnnouncesAlways(n) == TRUE
Announces(n) == lastSent[n] # seq[Leader(n)]

\* Rank 0 announces its own node by marking it.
MarkSelf(n) ==
  IF n = 0 /\ Announces(0)
  THEN /\ sized' = TRUE
       /\ arrived' = arrived \cup {0}
       /\ count' = IF 0 \in arrived THEN count ELSE count + 1
  ELSE UNCHANGED global

\* Another leader announces its node to rank 0.
ArrivalOf(n) ==
  IF n # 0 /\ Announces(n)
  THEN {[ack |-> FALSE, seq |-> seq[Leader(n)], node |-> n]}
  ELSE {}

\* Rank 0 has the arrival of every node and posts one release for each of the
\* other leaders.
AllNodesArrived(n) == n = 0 /\ count' = NumNodes
ReleasesOf(n) ==
  IF AllNodesArrived(n)
  THEN [ack : {TRUE}, seq : {seq[Leader(0)]}, node : Nodes \ {0}]
  ELSE {}

\* barrier_check of a leader, up to the stores that release its local ranks.
LeaderCheck(n) ==
  /\ inflight[Leader(n)] /\ Idle(n)
  /\ AllLocalArrived(n)
  /\ MarkSelf(n)
  /\ msgs' = msgs \cup ArrivalOf(n) \cup ReleasesOf(n)
  /\ lastSent' = [lastSent EXCEPT ![n] = seq[Leader(n)]]
  /\ fanout' = IF \/ AllNodesArrived(n)
                  \/ released[n] /\ releaseSeq[n] = seq[Leader(n)]
               THEN [fanout EXCEPT ![n] = 0]
               ELSE fanout
  /\ UNCHANGED <<seq, inflight, acked, shared, released, releaseSeq, counts>>

\* Rank 0 forgets the arrivals of the barrier it released.  The alternatives keep
\* the count, or everything.
ForgetVectorOnly == sized' = FALSE /\ arrived' = {} /\ UNCHANGED count
ForgetNothing == UNCHANGED global
ForgetArrivals == sized' = FALSE /\ arrived' = {} /\ count' = 0

\* barrier_check of a leader stores the release of one local rank after another.
\* After the last, rank 0 forgets the arrivals and another leader its release, and
\* the leader's own barrier is acknowledged.
FanOut(n) ==
  /\ ~Idle(n)
  /\ release' = [release EXCEPT ![<<n, fanout[n]>>] = seq[Leader(n)]]
  /\ fanout' = [fanout EXCEPT ![n] = @ + 1]
  /\ IF fanout[n] = NumLocal - 1
     THEN /\ acked' = [acked EXCEPT ![Leader(n)] = TRUE]
          /\ IF n = 0
             THEN ForgetArrivals /\ UNCHANGED released
             ELSE released' = [released EXCEPT ![n] = FALSE] /\ UNCHANGED global
     ELSE UNCHANGED <<acked, released, global>>
  /\ UNCHANGED <<seq, inflight, arrive, lastSent, releaseSeq, msgs, counts>>

\* barrier_check of a rank that leads no node.
FollowerCheck(r) ==
  /\ r[2] # 0 /\ inflight[r] /\ ~acked[r]
  /\ release[r] = seq[r]
  /\ acked' = [acked EXCEPT ![r] = TRUE]
  /\ UNCHANGED <<seq, inflight, shared, lastSent, global, released, releaseSeq,
                 fanout, msgs, counts>>

\* notify_gpu_completion: the acknowledged barrier reached the front of the
\* pending commands, any time later, and the device may go on.
Notify(r) ==
  /\ acked[r] /\ Free(r)
  /\ acked' = [acked EXCEPT ![r] = FALSE]
  /\ inflight' = [inflight EXCEPT ![r] = FALSE]
  /\ left' = [left EXCEPT ![r] = @ + 1]
  /\ UNCHANGED <<seq, shared, lastSent, global, released, releaseSeq, fanout,
                 msgs, entered>>

-----------------------------------------------------------------------------
(* Messages between leaders *)

\* remote_process_completions at rank 0: an arrival.  A second arrival of a node
\* stops the process (assert), see NoDuplicateArrival.
RecvArrival(m) ==
  /\ ~m.ack /\ Idle(0)
  /\ m.node \notin arrived
  /\ sized' = TRUE
  /\ arrived' = arrived \cup {m.node}
  /\ count' = count + 1
  /\ msgs' = msgs \ {m}
  /\ UNCHANGED <<seq, inflight, acked, shared, lastSent, released, releaseSeq,
                 fanout, counts>>

\* remote_process_completions at another leader: the release.
RecvRelease(m) ==
  /\ m.ack /\ Idle(m.node)
  /\ released' = [released EXCEPT ![m.node] = TRUE]
  /\ releaseSeq' = [releaseSeq EXCEPT ![m.node] = m.seq]
  /\ msgs' = msgs \ {m}
  /\ UNCHANGED <<seq, inflight, acked, shared, lastSent, global, fanout, counts>>

-----------------------------------------------------------------------------
Proxy(r) == SendBarrier(r) \/ FollowerCheck(r) \/ Notify(r)
LeaderStep(n) == LeaderCheck(n) \/ FanOut(n)
Receive == \E m \in msgs : RecvArrival(m) \/ RecvRelease(m)

Next ==
  \/ \E r \in Ranks : Proxy(r)
  \/ \E n \in Nodes : LeaderStep(n)
  \/ Receive

Spec == Init /\ [][Next]_vars

\* Every proxy keeps turning its loop, every message arrives, and every rank
\* enters as many barriers as the others.
FairSpec ==
  /\ Spec
  /\ \A r \in Ranks : WF_vars(SendBarrier(r)) /\ WF_vars(FollowerCheck(r))
                      /\ WF_vars(Notify(r))
  /\ \A n \in Nodes : WF_vars(LeaderStep(n))
  /\ WF_vars(Receive)

-----------------------------------------------------------------------------
(* Properties *)

\* No rank leaves a barrier that some rank has not entered, although ranks only
\* compare wrapped sequence numbers and the next barrier's arrivals can reach
\* rank 0 before it left this one.
BarrierSafe == \A r, q \in Ranks : left[r] <= entered[q]

\* The assertions of the completion handler hold: an arrival never finds its node
\* already marked and is of the barrier rank 0 collects, and a release never
\* reaches a leader that has not used the one before.
NoDuplicateArrival ==
  \A m \in msgs :
    IF m.ack THEN ~released[m.node]
    ELSE m.node \notin arrived \/ ~Idle(0)

\* The count that releases the barrier is the number of nodes marked, and the
\* vector has its size before rank 0 marks itself: the fallback of barrier_check
\* would size it by ranks, and the next send_barrier throw the arrivals away.
CountMatches ==
  /\ count = Cardinality(arrived)
  /\ arrived # {} => sized
  /\ inflight[Leader(0)] /\ Announces(0) => sized

\* Every barrier a rank enters lets it go.
EveryBarrierCompletes == \A r \in Ranks : inflight[r] ~> ~inflight[r]
=============================================================================
