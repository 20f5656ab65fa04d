----------------------------- MODULE EpReceiver -----------------------------
(***************************************************************************)
(* The low-latency dispatch and combine of the expert-parallel library over *)
(* a transport that reorders (EFA, USE_RECEIVER_BARRIER).  The kernels of   *)
(* every rank (ep/src/internode_ll.cu) put tokens and then one count or     *)
(* flag per expert; the proxy of the destination (ep/src/rdma.cpp) counts   *)
(* the tokens as they arrive and holds a count back until as many tokens    *)
(* as it announces are there.  The kernel of the destination spins on the   *)
(* signal the proxy then adds to.  Two signal buffers alternate, and every  *)
(* kernel zeroes the one the next kernel uses.                              *)
(*                                                                          *)
(* A target <<e, d>> is expert e and the rank d its tokens go to; a source  *)
(* <<e, s>> is expert e and the rank s they come from.                      *)
(***************************************************************************)
EXTENDS Integers, Sequences, FiniteSets, SequencesExt, FiniteSetsExt, Functions

CONSTANTS NumRanks,         \* num_ranks
          LocalExperts,     \* num_local_experts
          MaxNvlPeers,      \* max_nvl_peers: ranks of one node
          Programs,         \* the kernel sequences all ranks may run
          Loads,            \* tokens per expert that a rank may dispatch
          PollBatch         \* bound: completions one poll returns

Ranks == 0..NumRanks - 1
Experts == 0..NumRanks * LocalExperts - 1
Home(e) == e \div LocalExperts
Kernels == {"dispatch", "combine"}

\* A combine returns the tokens of an earlier dispatch.
ASSUME ReceiverAssumption ==
  /\ {NumRanks, LocalExperts, MaxNvlPeers, PollBatch} \subseteq Nat \ {0}
  /\ Loads \subseteq [Experts -> Nat]
  /\ \A p \in Programs : p \in Seq(Kernels) /\ p[1] = "dispatch"

VARIABLES program,    \* the kernels every rank launches, in order
          batching,   \* PER_EXPERT_BATCHING: one put for all of an expert
          op,         \* kernels each rank has launched
          phase,      \* "idle", "send" or "recv"
          cleaned,    \* whether the running kernel zeroed the next buffer
          todo,       \* tokens still to put, for each target
          flagged,    \* targets whose count or flag is sent
          got,        \* recv_range: tokens per source of the last dispatch
          sent,       \* history: tokens per target of each kernel
          net,        \* messages posted and not polled at their destination
          counter,    \* dispatch_token_counter and combine_token_counter
          pending,    \* pending_atomic_updates of each proxy
          signal      \* the signal buffers of each rank
kernel == <<op, phase, cleaned, todo, flagged, got, sent>>
vars == <<program, batching, op, phase, cleaned, todo, flagged, got, sent,
          net, counter, pending, signal>>

Buffers == {0, 1}
Indices == 0..NumRanks * LocalExperts - 1
Paths == {"ipc", "internode"}
Slots == Kernels \X Buffers \X Indices

Init ==
  /\ program \in Programs
  /\ batching \in BOOLEAN
  /\ op = [r \in Ranks |-> 0]
  /\ phase = [r \in Ranks |-> "idle"]
  /\ cleaned = [r \in Ranks |-> FALSE]
  /\ todo = [r \in Ranks |-> <<>>]
  /\ flagged = [r \in Ranks |-> {}]
  /\ got = [r \in Ranks |-> <<>>]
  /\ sent = [r \in Ranks |-> <<>>]
  /\ net = {}
  /\ counter = [r \in Ranks |-> [s \in Slots |-> 0]]
  /\ pending = [r \in Ranks |-> {}]
  /\ signal = [r \in Ranks |-> [c \in Paths \X Buffers \X Indices |-> 0]]

-----------------------------------------------------------------------------
(* Where things go.  low_latency_buffer_idx flips at every launch.          *)

Kernel(r) == program[op[r]]
Buffer(r) == (op[r] - 1) % 2
Path(r, d) ==
  IF r \div MaxNvlPeers = d \div MaxNvlPeers THEN "ipc" ELSE "internode"
Locals(r) == {e \in Experts : Home(e) = r}

Targets(r) == IF Kernel(r) = "dispatch" THEN {<<e, Home(e)>> : e \in Experts}
                                        ELSE Locals(r) \X Ranks
Sources(r) == IF Kernel(r) = "dispatch" THEN Locals(r) \X Ranks
                                        ELSE {<<e, Home(e)>> : e \in Experts}

\* rdma_recv_count[local expert][source rank], rdma_recv_flag[expert]: the two
\* kernels lay out one signal buffer differently.
Index(k, e, s) ==
  IF k = "dispatch" THEN (e % LocalExperts) * NumRanks + s ELSE e

-----------------------------------------------------------------------------
(* The kernels.                                                             *)

\* The host launches the next kernel on the buffer the last one left.
Launch(r) ==
  /\ phase[r] = "idle" /\ op[r] < Len(program)
  /\ UNCHANGED <<program, batching, got, net, counter, pending, signal>>
  /\ op' = [op EXCEPT ![r] = @ + 1]
  /\ \E n \in IF Kernel(r)' = "combine" THEN {got[r]}
             ELSE {[t \in Targets(r)' |-> load[t[1]]] : load \in Loads} :
       /\ todo' = [todo EXCEPT ![r] = n]
       /\ sent' = [sent EXCEPT ![r] = Append(@, n)]
  /\ phase' = [phase EXCEPT ![r] = "send"]
  /\ cleaned' = [cleaned EXCEPT ![r] = FALSE]
  /\ flagged' = [flagged EXCEPT ![r] = {}]

Zeroed(sig, b) == [c \in DOMAIN sig |-> IF c[2] = b THEN 0 ELSE sig[c]]

\* One warp of the kernel zeroes the other buffer.
Clean(r) ==
  /\ phase[r] = "send" /\ ~cleaned[r]
  /\ cleaned' = [cleaned EXCEPT ![r] = TRUE]
  /\ signal' = [signal EXCEPT ![r] = Zeroed(@, 1 - Buffer(r))]
  /\ UNCHANGED <<program, batching, op, phase, todo, flagged, got, sent, net,
                 counter, pending>>

Message(r, t, type, value) ==
  [type |-> type, op |-> op[r], src |-> r, dst |-> t[2], value |-> value,
   slot |-> <<Kernel(r), Buffer(r), Index(Kernel(r), t[1], r)>>,
   nth |-> todo[r][t]]

Batched(r, t) ==
  batching /\ Kernel(r) = "dispatch" /\ Path(r, t[2]) = "internode"

\* Other warps put the tokens: a copy within the node, a write with immediate
\* that carries their number to another.  The batched put follows a grid sync.
Put(r, t) ==
  /\ phase[r] = "send" /\ todo[r][t] > 0
  /\ Batched(r, t) => cleaned[r]
  /\ \E n \in {IF Batched(r, t) THEN todo[r][t] ELSE 1} :
       /\ todo' = [todo EXCEPT ![r][t] = @ - n]
       /\ net' = IF Path(r, t[2]) = "ipc" THEN net
                 ELSE net \cup {Message(r, t, "write", n)}
  /\ UNCHANGED <<program, batching, op, phase, cleaned, flagged, got, sent,
                 counter, pending, signal>>

\* The finish counter of a dispatch, the warp-group barrier and the clean
\* flag of a combine: the tokens are out and the next buffer is zero.
MayFlag(r, t) == todo[r][t] = 0 /\ cleaned[r]

Announced(r, t) == sent[r][op[r]][t]

\* Then one warp sends the count of a dispatch or the flag of a combine: a
\* store within the node, an atomic that carries the count to another.
Flag(r, t) ==
  /\ phase[r] = "send" /\ t \notin flagged[r] /\ MayFlag(r, t)
  /\ flagged' = [flagged EXCEPT ![r] = @ \cup {t}]
  /\ IF Path(r, t[2]) = "ipc"
     THEN /\ signal' = [signal EXCEPT ![t[2]][
                <<"ipc", Buffer(r), Index(Kernel(r), t[1], r)>>] =
                  IF Kernel(r) = "dispatch" THEN -Announced(r, t) - 1 ELSE 1]
          /\ UNCHANGED net
     ELSE /\ net' = net \cup {Message(r, t, "atomic",
                IF Kernel(r) = "dispatch" THEN -Announced(r, t) - 1
                                          ELSE Announced(r, t))}
          /\ UNCHANGED signal
  /\ UNCHANGED <<program, batching, op, phase, cleaned, todo, got, sent,
                 counter, pending>>

\* The grid sync between the phases, or the end of a send-only launch.
EndSend(r) ==
  /\ phase[r] = "send" /\ cleaned[r] /\ flagged[r] = Targets(r)
  /\ phase' = [phase EXCEPT ![r] = "recv"]
  /\ UNCHANGED <<program, batching, op, cleaned, todo, flagged, got, sent,
                 net, counter, pending, signal>>

Cell(r, s) == <<Path(r, s[2]), Buffer(r), Index(Kernel(r), s[1], s[2])>>

\* The receive phase spins until every signal it waits for is set.
Receive(r) ==
  /\ phase[r] = "recv"
  /\ \A s \in Sources(r) : signal[r][Cell(r, s)] # 0
  /\ phase' = [phase EXCEPT ![r] = "idle"]
  /\ got' = IF Kernel(r) = "combine" THEN got
            ELSE [got EXCEPT ![r] =
                    [s \in Sources(r) |-> -signal[r][Cell(r, s)] - 1]]
  /\ UNCHANGED <<program, batching, op, cleaned, todo, flagged, sent, net,
                 counter, pending, signal>>

-----------------------------------------------------------------------------
(* The proxy of a rank.  Its state here is a record of the counters, the    *)
(* held updates and the signals, which one poll carries through.            *)

Needs(m) == IF m.slot[1] = "dispatch" THEN -m.value - 1 ELSE m.value

\* MUTANT: a count is ready as soon as some token is there.
ReadyOnSome(p, m) == p.counter[m.slot] > 0 \/ Needs(m) = 0
\* MUTANT: no tokens, no count.
ReadyNotEmpty(p, m) == p.counter[m.slot] = Needs(m) /\ Needs(m) > 0
Ready(p, m) == p.counter[m.slot] = Needs(m)

Added(p, m) ==
  [p EXCEPT !.counter[m.slot] = 0,
            !.signal[<<"internode", m.slot[2], m.slot[3]>>] =
               @ + (IF m.slot[1] = "combine" THEN 1 ELSE m.value)]

\* MUTANT: the counter is not reset for a count that was held.
ReleaseNoReset(p, m) ==
  IF Ready(p, m)
  THEN [Added(p, m) EXCEPT !.counter = p.counter, !.pending = @ \ {m}] ELSE p

\* One turn of the loop of apply_pending_updates.
Release(p, m) ==
  IF Ready(p, m) THEN [Added(p, m) EXCEPT !.pending = @ \ {m}] ELSE p

\* std::set order; updates of different addresses do not meet.
ApplyPendingUpdates(p) ==
  FoldLeft(Release, p, SetToSortSeq(p.pending, LAMBDA a, b : a.value < b.value))

\* A write brought tokens.
CountTokens(p, m) == [p EXCEPT !.counter[m.slot] = @ + m.value]

\* A count or flag is applied if its tokens are there, held if not.
ApplyOrHold(p, m) ==
  IF Ready(p, m) THEN Added(p, m) ELSE [p EXCEPT !.pending = @ \cup {m}]

\* One completion of remote_process_completions_fast_mode.
Process(p, m) ==
  IF m.type = "write" THEN CountTokens(p, m) ELSE ApplyOrHold(p, m)

\* The transport delivers in any order, each message once.
Batches(r) ==
  LET here == {m \in net : m.dst = r}
      polled == UNION {kSubset(n, here) : n \in 1..PollBatch}
  IN  UNION {SetToSeqs(B) : B \in polled}

Poll(r) ==
  \E batch \in Batches(r) :
    /\ net' = net \ Range(batch)
    /\ \E p \in {ApplyPendingUpdates(
          FoldLeft(Process, [counter |-> counter[r], pending |-> pending[r],
                             signal |-> signal[r]], batch))} :
         /\ counter' = [counter EXCEPT ![r] = p.counter]
         /\ pending' = [pending EXCEPT ![r] = p.pending]
         /\ signal' = [signal EXCEPT ![r] = p.signal]
    /\ UNCHANGED <<program, batching, kernel>>

Next == \E r \in Ranks :
  \/ Launch(r) \/ Clean(r) \/ EndSend(r) \/ Receive(r) \/ Poll(r)
  \/ \E t \in DOMAIN todo[r] : Put(r, t) \/ Flag(r, t)

Spec == Init /\ [][Next]_vars

\* Kernels and proxies keep running and the transport loses nothing; every
\* behaviour is finite, so that some step is always taken is enough.
FairSpec == Spec /\ WF_vars(Next)

-----------------------------------------------------------------------------
(* Properties.                                                              *)

\* What a rank takes from a finished kernel is what was sent for that kernel:
\* no token of it is still on the way, and after a dispatch the number of
\* tokens from each source is the number that source put.  It rests on the
\* hold in the proxy, the reset of the counters and the clean of the signals.
ReceivedWhole ==
  \A r \in Ranks : (phase[r] = "idle" /\ op[r] > 0) =>
    /\ \A m \in net : ~(m.dst = r /\ m.op <= op[r])
    /\ Kernel(r) = "dispatch" =>
         \A s \in Sources(r) :
           /\ op[r] <= Len(sent[s[2]])
           /\ got[r][s] = sent[s[2]][op[r]][<<s[1], r>>]

\* The proxy never has more tokens for a count than the count announces (the
\* "Required ... value is smaller than received counter" case): tokens of the
\* next use of a buffer never meet the count of this one.
NeverOvershoots ==
  /\ \A m \in net : m.type = "atomic" => counter[m.dst][m.slot] <= Needs(m)
  /\ \A r \in Ranks : \A m \in pending[r] : counter[r][m.slot] <= Needs(m)

\* Every rank gets through every kernel: no signal is erased by a clean, and
\* no count is held for ever.
EveryKernelEnds ==
  <>(\A r \in Ranks : phase[r] = "idle" /\ op[r] = Len(program))

=============================================================================
