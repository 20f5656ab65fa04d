------------------------------- MODULE EpProxy -------------------------------
(***************************************************************************)
(* One proxy thread of the expert-parallel library (ep/src/proxy.cpp,      *)
(* run_dual, normal mode, verbs build, FIFO backend).  The device pushes    *)
(* commands into the rings of the proxy.  The proxy takes them within its   *)
(* budgets, posts writes and atomics, and retires the commands of a ring in *)
(* order as their work requests complete.  A write or atomic leaves its     *)
(* ring when it is taken; a QUIET or BARRIER leaves it when it is retired,  *)
(* which is what the device waits for.  Module D2hFifo has the ring itself. *)
(*                                                                          *)
(* fifo[r] is all the device ever pushed into ring r.  Command k of ring r  *)
(* is fifo[r][k]; <<r, k>> names it, and Wr(r, k) is its work-request id.   *)
(***************************************************************************)
EXTENDS Integers, Sequences, FiniteSets, FiniteSetsExt, Functions

CONSTANTS NumRings,          \* kChannelPerProxy
          MaxInflight,       \* get_max_inflight_normal()
          MaxInflightBytes,  \* get_max_inflight_bytes() / kNumProxyThs
          Sizes,             \* bytes of a write
          WrMod,             \* 2^32: what a work-request id keeps of fifo_seq_
          MaxCmds            \* bound: commands the device pushes

Rings == 0..NumRings - 1

ASSUME ProxyAssumption ==
  /\ {NumRings, MaxInflight, MaxInflightBytes, MaxCmds} \subseteq Nat \ {0}
  /\ Sizes \subseteq Nat \ {0} /\ WrMod \in Nat /\ WrMod > MaxInflight

NoWr == <<-1, -1>>

VARIABLES fifo,             \* commands pushed into each ring
          tail,             \* commands popped from each ring
          fifo_seq,         \* fifo_seq_: commands taken from each ring
          pending,          \* fifo_pending_: taken and not retired, in order
          batch,            \* wrs_to_post, cmds_to_post
          outstanding,      \* posted and not completed by the NIC
          cq,               \* completions not polled
          acked,            \* acked_wrs_: work-request ids
          inflight_bytes,   \* current_inflight_bytes
          quiet_inflight, quiet_wr, barrier_inflight, barrier_wr,
          pc, rb_idx        \* where the proxy is in its loop, and its ring
vars == <<fifo, tail, fifo_seq, pending, batch, outstanding, cq, acked,
          inflight_bytes, quiet_inflight, quiet_wr, barrier_inflight,
          barrier_wr, pc, rb_idx>>
fences == <<quiet_inflight, quiet_wr, barrier_inflight, barrier_wr>>

Init ==
  /\ fifo = [r \in Rings |-> <<>>]
  /\ tail = [r \in Rings |-> 0]
  /\ fifo_seq = [r \in Rings |-> 0]
  /\ pending = [r \in Rings |-> <<>>]
  /\ batch = <<>> /\ outstanding = {} /\ cq = {} /\ acked = {}
  /\ inflight_bytes = 0
  /\ quiet_inflight = FALSE /\ quiet_wr = NoWr
  /\ barrier_inflight = FALSE /\ barrier_wr = NoWr
  /\ pc = "poll" /\ rb_idx = 0

-----------------------------------------------------------------------------
(* The device *)

Write(n) == [type |-> "write", bytes |-> n]
Atomic == [type |-> "atomic", bytes |-> 0]
Barrier == [type |-> "barrier", bytes |-> 0]
Quiet == [type |-> "quiet", bytes |-> 0]
Fence(cmd) == cmd.type \in {"quiet", "barrier"}

\* The fences of a ring the device has not seen consumed.
Waiting(r) == \E k \in tail[r] + 1..Len(fifo[r]) : Fence(fifo[r][k])

\* Writes and atomics go to any ring.  nvshmemi_ibgda_quiet and
\* nvshmem_sync_with_same_gpu_idx push to the first ring of a proxy, and wait.
Push(r) ==
  /\ MapThenSumSet(LAMBDA q : Len(fifo[q]), Rings) < MaxCmds
  /\ \E cmd \in {Write(n) : n \in Sizes} \cup {Atomic, Quiet, Barrier} :
       /\ Fence(cmd) => r = 0 /\ ~Waiting(0)
       /\ fifo' = [fifo EXCEPT ![r] = Append(@, cmd)]
  /\ UNCHANGED <<tail, fifo_seq, pending, batch, outstanding, cq, acked,
                 inflight_bytes, fences, pc, rb_idx>>

-----------------------------------------------------------------------------
(* The NIC *)

\* A posted work request completes; every one is signaled.
Complete(c) ==
  /\ outstanding' = outstanding \ {c}
  /\ cq' = cq \cup {c}
  /\ UNCHANGED <<fifo, tail, fifo_seq, pending, batch, acked, inflight_bytes,
                 fences, pc, rb_idx>>

-----------------------------------------------------------------------------
(* One turn of the proxy's loop *)

Wr(r, k) == <<r, (k - 1) % WrMod>>
Wrs(S) == {Wr(c[1], c[2]) : c \in S}
Bytes(S) == MapThenSumSet(LAMBDA c : fifo[c[1]][c[2]].bytes, S)
Fences(S) == {c \in S : Fence(fifo[c[1]][c[2]])}

\* poll_cq_dual and local_process_completions.
PollCq ==
  /\ pc = "poll" /\ pc' = "notify"
  /\ acked' = acked \cup Wrs(cq)
  /\ cq' = {}
  /\ UNCHANGED <<fifo, tail, fifo_seq, pending, batch, outstanding,
                 inflight_bytes, fences, rb_idx>>

\* The commands of a ring that are retired: its pending ones up to the first
\* whose work request is not acknowledged.  The alternative retires every one
\* that is acknowledged.
RetiredAnyOrder(r) ==
  {<<r, k>> : k \in {j \in Range(pending[r]) : Wr(r, j) \in acked}}
Retired(r) ==
  {<<r, pending[r][i]>> :
     i \in {j \in DOMAIN pending[r] : \A h \in 1..j : Wr(r, pending[r][h]) \in acked}}

\* A retired QUIET is no longer in flight.  The alternative forgets to say so.
QuietStaysInflight(gone) == quiet_inflight
QuietInflightAfter(gone) == quiet_inflight /\ quiet_wr \notin Wrs(gone)

\* The acknowledgement of a retired command is used up; and left in the set.
AckedStays(gone) == acked
AckedAfter(gone) == acked \ Wrs(gone)

\* notify_gpu_completion: retires commands, gives their bytes back, and pops a
\* QUIET or BARRIER that is among them.
NotifyGpuCompletion ==
  LET gone == UNION {Retired(r) : r \in Rings}
  IN /\ pc = "notify" /\ pc' = "post"
     /\ pending' = [r \in Rings |->
                      SelectSeq(pending[r], LAMBDA k : <<r, k>> \notin gone)]
     /\ acked' = AckedAfter(gone)
     /\ inflight_bytes' = inflight_bytes - Bytes(gone)
     /\ tail' = [r \in Rings |-> tail[r] +
                   Cardinality({c \in gone : /\ c[1] = r
                                             /\ Wr(r, c[2]) \in {quiet_wr, barrier_wr}})]
     /\ quiet_inflight' = QuietInflightAfter(gone)
     /\ quiet_wr' = IF quiet_wr \in Wrs(gone) THEN NoWr ELSE quiet_wr
     /\ barrier_inflight' = (barrier_inflight /\ barrier_wr \notin Wrs(gone))
     /\ barrier_wr' = IF barrier_wr \in Wrs(gone) THEN NoWr ELSE barrier_wr
     /\ UNCHANGED <<fifo, fifo_seq, batch, outstanding, cq, rb_idx>>

Budget(r) == MaxInflight - Len(pending[r])

Blocked(cmd) ==
  \/ cmd.type = "barrier" /\ barrier_inflight
  \/ cmd.type = "quiet" /\ quiet_inflight

\* The i-th command the loop over ring r polls.
Polled(r, i) == fifo[r][tail[r] + i]

\* The bytes of the first n; the alternative leaves the last one out.
ChargeLate(r, n) == MapThenSumSet(LAMBDA j : Polled(r, j).bytes, 1..n - 1)
Charge(r, n) == MapThenSumSet(LAMBDA j : Polled(r, j).bytes, 1..n)

\* The loop takes an i-th command of ring r.
CanTake(r, i) ==
  /\ i <= Budget(r)
  /\ inflight_bytes + Charge(r, i - 1) < MaxInflightBytes
  /\ tail[r] + i <= Len(fifo[r])
  /\ ~Blocked(Polled(r, i))
  /\ i > 1 => ~Fence(Polled(r, i - 1))
Takes(r) == Max({n \in 0..MaxCmds : \A i \in 1..n : CanTake(r, i)})

\* post_gpu_command for the next ring: takes commands, and pops them unless they
\* are a QUIET or BARRIER, which end the loop.
PostGpuCommand ==
  LET r == rb_idx
      n == Takes(r)
      cmds == {Polled(r, i) : i \in 1..n}
      last == \E cmd \in cmds : Fence(cmd)
      seqs == [i \in 1..n |-> fifo_seq[r] + i]
  IN /\ pc = "post"
     /\ fifo_seq' = [fifo_seq EXCEPT ![r] = @ + n]
     /\ pending' = [pending EXCEPT ![r] = @ \o seqs]
     /\ batch' = batch \o [i \in 1..n |-> <<r, seqs[i]>>]
     /\ inflight_bytes' = inflight_bytes + Charge(r, n)
     /\ tail' = [tail EXCEPT ![r] = @ + n - (IF last THEN 1 ELSE 0)]
     /\ barrier_inflight' = (barrier_inflight \/ \E c \in cmds : c.type = "barrier")
     /\ quiet_inflight' = (quiet_inflight \/ \E c \in cmds : c.type = "quiet")
     /\ rb_idx' = (r + 1) % NumRings
     /\ pc' = IF r + 1 = NumRings THEN "mixed" ELSE "post"
     /\ UNCHANGED <<fifo, outstanding, cq, acked, quiet_wr, barrier_wr>>

OfType(t) == {c \in Range(batch) : fifo[c[1]][c[2]].type = t}

\* post_gpu_commands_mixed: posts writes and atomics, starts the barrier, and for
\* a QUIET polls the completion queue until it stays empty, whatever is still
\* outstanding, and acknowledges the QUIET.
PostGpuCommandsMixed ==
  /\ pc = "mixed" /\ pc' = "barrier"
  /\ batch' = <<>>
  /\ barrier_wr' = IF OfType("barrier") = {} THEN barrier_wr
                   ELSE Wr(0, (CHOOSE c \in OfType("barrier") : TRUE)[2])
  /\ IF OfType("quiet") = {}
     THEN /\ outstanding' = outstanding \cup OfType("write") \cup OfType("atomic")
          /\ UNCHANGED <<quiet_wr, cq, acked>>
     ELSE \E done \in SUBSET (outstanding \cup OfType("write") \cup OfType("atomic")) :
            /\ quiet_wr' = Wr(0, (CHOOSE c \in OfType("quiet") : TRUE)[2])
            /\ outstanding' = (outstanding \cup OfType("write") \cup OfType("atomic")) \ done
            /\ cq' = {}
            /\ acked' = acked \cup Wrs(cq \cup done) \cup {quiet_wr'}
  /\ UNCHANGED <<fifo, tail, fifo_seq, pending, inflight_bytes, quiet_inflight,
                 barrier_inflight, rb_idx>>

\* barrier_check: the barrier of module EpBarrier is released, or not yet.
BarrierReleased ==
  /\ pc = "barrier" /\ pc' = "poll"
  /\ barrier_inflight
  /\ acked' = acked \cup {barrier_wr}
  /\ UNCHANGED <<fifo, tail, fifo_seq, pending, batch, outstanding, cq,
                 inflight_bytes, fences, rb_idx>>
BarrierWaits ==
  /\ pc = "barrier" /\ pc' = "poll"
  /\ UNCHANGED <<fifo, tail, fifo_seq, pending, batch, outstanding, cq, acked,
                 inflight_bytes, fences, rb_idx>>

-----------------------------------------------------------------------------
Turn ==
  \/ PollCq \/ NotifyGpuCompletion \/ PostGpuCommand \/ PostGpuCommandsMixed
  \/ BarrierReleased \/ BarrierWaits

Next ==
  \/ \E r \in Rings : Push(r)
  \/ \E c \in outstanding : Complete(c)
  \/ Turn

Spec == Init /\ [][Next]_vars

\* The proxy turns its loop, every posted work request completes, and every
\* barrier is released in the end (EveryBarrierCompletes of EpBarrier).
FairSpec ==
  /\ Spec
  /\ WF_vars(Turn)
  /\ WF_vars(\E c \in outstanding : Complete(c))
  /\ SF_vars(BarrierReleased)

-----------------------------------------------------------------------------
(* Properties *)

Commands == {<<r, k>> : r \in Rings, k \in 1..MaxCmds}

Consumed(r) == {k \in 1..tail[r] : fifo[r][k].type = "quiet"}
Unfinished(r) ==
  {k \in DOMAIN fifo[r] : \/ k > fifo_seq[r]
                          \/ <<r, k>> \in Range(batch) \cup outstanding}

\* When the device sees a QUIET of a ring consumed, every write and atomic pushed
\* into that ring before it has completed, although quiet itself waits for none of
\* them: the QUIET is retired behind them.
QuietFencesRing ==
  \A r \in Rings : \A k \in Consumed(r) : Unfinished(r) \cap 1..k - 1 = {}

\* The byte counter is the bytes of the commands not retired, so that it cannot
\* drift and stall the proxy or lift its bound.
BytesExact ==
  inflight_bytes = Bytes({<<r, k>> \in Commands : k \in Range(pending[r])})

\* Every acknowledgement is of a command still pending, and of one only: none
\* outlives its command to retire a later one whose wrapped id is the same.
AcksArePending ==
  \A w \in acked \cup Wrs(cq) :
    Cardinality({k \in Range(pending[w[1]]) : Wr(w[1], k) = w}) = 1

\* Every command the device pushes is retired, so every quiet and barrier returns.
EveryCommandRetired ==
  \A r \in Rings : []<>(fifo_seq[r] = Len(fifo[r]) /\ pending[r] = <<>>)
=============================================================================
