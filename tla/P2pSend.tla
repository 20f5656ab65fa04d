------------------------------ MODULE P2pSend ------------------------------
(***************************************************************************)
(* A connection of UCCL-P2P over RDMA (Reliable Connection queue pairs):    *)
(* threads post one-sided transfers on a SendConnection, whole, in chunks   *)
(* over several channels, as raw batches, or compressed; the NIC carries    *)
(* out the work requests of a channel in order; whoever drives send_routine *)
(* turns completions into acknowledged requests.                            *)
(*                                                                          *)
(* A compressed write goes to a region of the peer's decompress buffer.     *)
(* Once its data has landed the sender pushes a WriteReqMeta, the receiver  *)
(* acknowledges it in the sender's ack ring and starts the decompression,   *)
(* and the sender gives the region back.                                    *)
(*                                                                          *)
(* What a thread has still to do before it comes back to its loop is its    *)
(* list of operations work[t]; each operation is one step.  Left out:       *)
(* congestion control (cc_ is off by default), posts that fail, EFA.        *)
(***************************************************************************)
EXTENDS Integers, Sequences, SequencesExt, P2pTracker

CONSTANTS
  Batchers,        \* threads in writev or readv: g_uccl_batch_post is set
  Directs,         \* threads in write, read or run_raw_one_sided_pipeline
  NumChannels,
  Script,          \* the transfers each thread makes, in order
  MaxInflight,     \* max_one_sided_inflight_ops, 1 in write and read
  FlushBytes,      \* kBatchFlushBytes
  ArenaSize,       \* decompress_arena_.size
  AckDepth,        \* kAckRingDepth
  MetaCap          \* kWriteMetaRingCapacity

Threads == Batchers \cup Directs
Channels == 1..NumChannels

\* A transfer: "write" in as many chunks as sizes has entries, "raw" with one
\* single-chunk operation for each, "compressed" with one work request for each
\* of its pieces, the last being the encoded tail.  The first one of a call of
\* the endpoint waits until the call before has returned.
Transfer ==
  [kind : {"write", "raw", "compressed"}, sizes : Seq(Nat \ {0}),
   first : BOOLEAN]

ASSUME P2pSendAssumption ==
  /\ {NumChannels, FlushBytes, ArenaSize, AckDepth, MetaCap} \subseteq Nat \ {0}
  /\ MaxInflight \in [Threads -> Nat \ {0}]
  /\ Batchers \cap Directs = {}
  /\ DOMAIN Script = Threads
  /\ \A t \in Threads : \A i \in DOMAIN Script[t] :
       /\ Script[t][i] \in Transfer /\ Script[t][i].sizes # <<>>
       /\ Script[t][i].kind = "raw" => t \in Directs

VARIABLES
  \* Posting threads.
  todo,            \* transfers not begun
  work,            \* operations of the transfer being posted
  waits,           \* requests waited for: the number polled, and for which ones
  reported,        \* requests the thread took for complete
  \* SendConnection.
  tracker,
  round_robin,     \* channels selected so far
  \* RDMADataChannel, for each channel.
  batch,           \* batch_
  posting,         \* the holder of post_mu_, between doorbell and record
  groups,          \* pending_groups_
  sq, cq,          \* send queue and completion queue
  acking,          \* acks of poll_data_channels: requests to acknowledge
  missed,          \* a completion came before it was provided for (history)
  \* Compressed writes, at the sender.
  arena,           \* decompress_arena_: head and inflight
  source,          \* whose data the pieces of the compress buffer hold
  pendingc,        \* pending_compressed_
  next_ack_slot, ack_ring,
  \* Compressed writes, on the wire and at the receiver.
  metas, ring, recv_cq,
  acks, buffer,    \* ack writes in flight; contents of the decompress buffer
  stream, decompressed

thrVars == <<todo, work, waits, reported>>
chVars == <<batch, posting, groups, sq, cq, acking>>
sndVars == <<arena, source, pendingc, next_ack_slot, ack_ring>>
rcvVars == <<metas, ring, recv_cq, acks, buffer, stream, decompressed>>
vars == <<thrVars, tracker, round_robin, chVars, missed, sndVars, rcvVars>>

Cells == 0..ArenaSize - 1

Init ==
  /\ todo = Script
  /\ work = [t \in Threads |-> <<>>]
  /\ waits = [t \in Threads |-> {}] /\ reported = {}
  /\ tracker = NewTracker /\ round_robin = 0
  /\ batch = [c \in Channels |-> <<>>]
  /\ posting = [c \in Channels |-> {}]
  /\ groups = [c \in Channels |-> <<>>]
  /\ sq = [c \in Channels |-> <<>>] /\ cq = [c \in Channels |-> <<>>]
  /\ acking = <<>> /\ missed = FALSE
  /\ arena = [head |-> 0, inflight |-> {}]
  /\ source = [k \in 1..ArenaSize |-> -1]
  /\ pendingc = {} /\ next_ack_slot = 0
  /\ ack_ring = [s \in 0..AckDepth - 1 |-> 0]
  /\ metas = <<>> /\ recv_cq = <<>>
  /\ ring = [s \in 0..MetaCap - 1 |-> [id |-> -1]]
  /\ acks = {} /\ buffer = [o \in Cells |-> -1]
  /\ stream = <<>> /\ decompressed = {}

-----------------------------------------------------------------------------
(* Beginning a transfer *)

\* A work request of request id: piece k of it, its bytes, and for a compressed
\* write the cell of the decompress buffer it writes.
Wr(id, k, bytes, cell) == [id |-> id, k |-> k, bytes |-> bytes, cell |-> cell]
NoCell == -1

\* select_next_channel_round_robin_fast, and the channel of chunk k after it.
ChannelOf(first, k) == ((first + k - 1) % NumChannels) + 1

Inflight(t) == UNION {w.ids : w \in waits[t]}

\* The window assumption: no request is overtaken by as many as the window has.
WithinWindow == tracker.next < tracker.base + Window

CanBegin(t) ==
  /\ work[t] = <<>> /\ todo[t] # <<>>
  /\ Head(todo[t]).first => waits[t] = {}
  /\ Cardinality(Inflight(t)) < MaxInflight[t]
  /\ WithinWindow

Submit(c, wr) == [op |-> "submit", c |-> c, wr |-> wr]
Swap(c) == [op |-> "swap", c |-> c]

\* post_write_or_read without compression, whole or through
\* post_chunked_request: every chunk carries the number of the request.
BeginWrite(t) ==
  /\ CanBegin(t) /\ Head(todo[t]).kind = "write"
  /\ LET id == tracker.next
         sizes == Head(todo[t]).sizes
     IN  /\ tracker' = UpdateExpected(SendPacket(tracker), id, Len(sizes))
         /\ work' = [work EXCEPT ![t] = [k \in DOMAIN sizes |->
                       Submit(ChannelOf(round_robin, k),
                              Wr(id, k, sizes[k], NoCell))]]
         /\ waits' = [waits EXCEPT ![t] = @ \cup {[id |-> id, ids |-> {id}]}]
  /\ round_robin' = round_robin + 1
  /\ todo' = [todo EXCEPT ![t] = Tail(@)]
  /\ UNCHANGED <<reported, chVars, missed, sndVars, rcvVars>>

\* run_raw_one_sided_pipeline: as many operations as may be in flight go to
\* post_write_or_read_batch, which gives each a number, posts one batch on each
\* channel, and waits for the last number of each batch only.
BeginRaw(t) ==
  /\ CanBegin(t) /\ Head(todo[t]).kind = "raw"
  /\ LET all == Head(todo[t]).sizes
         n == Min({Len(all), MaxInflight[t] - Cardinality(Inflight(t))})
         sizes == SubSeq(all, 1, n)
         first == tracker.next
         wrs == [k \in DOMAIN sizes |-> Wr(first + k - 1, 1, sizes[k], NoCell)]
         of(c) == SelectSeq(wrs, LAMBDA w :
                    ChannelOf(round_robin, w.id - first + 1) = c)
         used == {c \in Channels : of(c) # <<>>}
     IN  /\ tracker.next + n <= tracker.base + Window
         /\ tracker' = FoldLeft(LAMBDA tr, w : SendPacket(tr), tracker, wrs)
         /\ work' = [work EXCEPT ![t] =
                       [i \in 1..Cardinality(used) |->
                          LET c == SetToSortSeq(used, <)[i]
                          IN  [op |-> "ring", c |-> c, wrs |-> of(c)]]]
         /\ waits' = [waits EXCEPT ![t] = @ \cup
                        {[id |-> Last(of(c)).id,
                          ids |-> {w.id : w \in Range(of(c))}] : c \in used}]
         /\ round_robin' = round_robin + n
         /\ todo' = [todo EXCEPT ![t] =
              IF n = Len(all) THEN Tail(@)
              ELSE <<[kind |-> "raw", sizes |-> SubSeq(all, n + 1, Len(all)),
                      first |-> FALSE]>> \o Tail(@)]
  /\ UNCHANGED <<reported, chVars, missed, sndVars, rcvVars>>

\* compress_write_request_split_first, up to the reservation: until its last
\* piece is posted the request expects more completions than it can get.
Never == 1000

BeginCompressed(t) ==
  /\ CanBegin(t) /\ Head(todo[t]).kind = "compressed"
  /\ LET id == tracker.next
     IN  /\ tracker' = UpdateExpected(SendPacket(tracker), id, Never)
         /\ work' = [work EXCEPT ![t] =
              <<[op |-> "reserve", id |-> id, sizes |-> Head(todo[t]).sizes]>>]
         /\ waits' = [waits EXCEPT ![t] = @ \cup {[id |-> id, ids |-> {id}]}]
  /\ todo' = [todo EXCEPT ![t] = Tail(@)]
  /\ UNCHANGED <<reported, round_robin, chVars, missed, sndVars, rcvVars>>

-----------------------------------------------------------------------------
(* The operations of a transfer *)

Doing(t, op) == work[t] # <<>> /\ Head(work[t]).op = op

\* The thread goes on with operations more, then with the rest.
Then(t, more) == work' = [work EXCEPT ![t] = more \o Tail(@)]

\* DecompressArena::try_reserve: where it would start, and whether that is free.
Start(bytes) == IF arena.head + bytes > ArenaSize THEN 0 ELSE arena.head
Free(start, bytes) ==
  \A r \in arena.inflight : start + bytes <= r.off \/ r.off + r.bytes <= start

\* Reservation, ack slot and compress_split_one_batch, and the list of what is
\* left: the pieces but the last, flush_batches, the encoded tail, and the number
\* of completions to expect.  The compress buffer is one for all writes.
Reserve(t) ==
  /\ Doing(t, "reserve")
  /\ LET op == Head(work[t])
         n == Len(op.sizes)
         off == Start(n)
         slot == next_ack_slot % AckDepth
         piece(k) == Submit(ChannelOf(round_robin, k),
                            Wr(op.id, k, op.sizes[k], off + k - 1))
     IN  /\ Free(off, n)
         /\ arena' = [head |-> off + n,
                      inflight |-> arena.inflight
                                     \cup {[off |-> off, bytes |-> n]}]
         /\ source' = [k \in DOMAIN source |->
                         IF k < n THEN op.id ELSE source[k]]
         /\ next_ack_slot' = next_ack_slot + 1
         /\ ack_ring' = [ack_ring EXCEPT ![slot] = 0]
         /\ pendingc' = pendingc \cup
              {[id |-> op.id, slot |-> slot, off |-> off, bytes |-> n,
                pushed |-> FALSE]}
         /\ Then(t, [k \in 1..n - 1 |-> piece(k)]
                    \o [c \in Channels |-> Swap(c)]
                    \o <<[op |-> "encode", id |-> op.id, n |-> n], piece(n),
                         [op |-> "expect", id |-> op.id, n |-> n]>>)
  /\ round_robin' = round_robin + 1
  /\ UNCHANGED <<todo, waits, reported, tracker, chVars, missed, rcvVars>>

\* A failed try_reserve leaves the head at the start of the arena all the same.
ReserveFails(t) ==
  /\ Doing(t, "reserve")
  /\ LET n == Len(Head(work[t]).sizes)
     IN  /\ ~Free(Start(n), n)
         /\ arena.head # Start(n)
         /\ arena' = [arena EXCEPT !.head = Start(n)]
  /\ UNCHANGED <<thrVars, tracker, round_robin, chVars, missed, source,
                 pendingc, next_ack_slot, ack_ring, rcvVars>>

\* compress_encode_one_batch.
Encode(t) ==
  /\ Doing(t, "encode")
  /\ source' = [source EXCEPT ![Head(work[t]).n] = Head(work[t]).id]
  /\ Then(t, <<>>)
  /\ UNCHANGED <<todo, waits, reported, tracker, round_robin, chVars, missed,
                 arena, pendingc, next_ack_slot, ack_ring, rcvVars>>

\* update_expected_ack_count of the compressed write.  When every completion
\* was counted before, no further one comes to push the WriteReqMeta.
Expect(t) ==
  /\ Doing(t, "expect")
  /\ LET op == Head(work[t])
     IN  \E tr \in {UpdateExpected(tracker, op.id, op.n)} :
           /\ tracker' = tr
           /\ missed' = (missed \/ IsAcknowledged(tr, op.id))
  /\ Then(t, <<>>)
  /\ UNCHANGED <<todo, waits, reported, round_robin, chVars, sndVars, rcvVars>>

BytesOf(wrs) == FoldLeft(LAMBDA sum, w : sum + w.bytes, 0, wrs)

\* submit_request: a batching thread appends to the batch of the channel, which
\* all of them share; another posts at once.
SubmitRequest(t) ==
  /\ Doing(t, "submit")
  /\ LET c == Head(work[t]).c
         wr == Head(work[t]).wr
         queued == Append(batch[c], wr)
     IN  IF t \in Batchers
         THEN /\ batch' = [batch EXCEPT ![c] = queued]
              /\ Then(t, IF BytesOf(queued) >= FlushBytes THEN <<Swap(c)>>
                         ELSE <<>>)
         ELSE /\ Then(t, <<[op |-> "ring", c |-> c, wrs |-> <<wr>>]>>)
              /\ UNCHANGED batch
  /\ UNCHANGED <<todo, waits, reported, tracker, round_robin, posting, groups,
                 sq, cq, acking, missed, sndVars, rcvVars>>

\* flush_batch takes the batch, whoever filled it.
SwapBatch(t) ==
  /\ Doing(t, "swap")
  /\ LET c == Head(work[t]).c
     IN  /\ Then(t, IF batch[c] = <<>> THEN <<>>
                    ELSE <<[op |-> "ring", c |-> c, wrs |-> batch[c]]>>)
         /\ batch' = [batch EXCEPT ![c] = <<>>]
  /\ UNCHANGED <<todo, waits, reported, tracker, round_robin, posting, groups,
                 sq, cq, acking, missed, sndVars, rcvVars>>

\* The doorbell of post_request, flush_batch and post_raw_batch: the last work
\* request is signaled.  post_mu_ is held until the group is recorded.
RingDoorbell(t) ==
  /\ Doing(t, "ring")
  /\ LET c == Head(work[t]).c
         wrs == Head(work[t]).wrs
         n == Len(wrs)
     IN  /\ posting[c] = {}
         /\ sq' = [sq EXCEPT ![c] = @ \o
                     [i \in 1..n |-> [wr |-> wrs[i], signaled |-> i = n]]]
         /\ IF n = 1 THEN Then(t, <<>>) /\ UNCHANGED posting
            ELSE /\ posting' = [posting EXCEPT ![c] = {t}]
                 /\ Then(t, <<[op |-> "record", c |-> c, wrs |-> wrs]>>)
  /\ UNCHANGED <<todo, waits, reported, tracker, round_robin, batch, groups,
                 cq, acking, missed, sndVars, rcvVars>>

IdsOf(wrs) == [i \in DOMAIN wrs |-> wrs[i].id]

\* The group of unsignaled work requests is recorded after the doorbell.
RecordGroup(t) ==
  /\ Doing(t, "record")
  /\ LET c == Head(work[t]).c
         ids == IdsOf(Head(work[t]).wrs)
     IN  /\ groups' = [groups EXCEPT ![c] =
               Append(@, [signal |-> Last(ids), unsignaled |-> Front(ids)])]
         /\ posting' = [posting EXCEPT ![c] = {}]
  /\ Then(t, <<>>)
  /\ UNCHANGED <<todo, waits, reported, tracker, round_robin, batch, sq, cq,
                 acking, missed, sndVars, rcvVars>>

\* The pass of writev and readv over everything batched, once no more can begin.
FlushPass(t) ==
  /\ t \in Batchers /\ work[t] = <<>> /\ ~CanBegin(t) /\ waits[t] # {}
  /\ \E c \in Channels : batch[c] # <<>>
  /\ work' = [work EXCEPT ![t] = [c \in Channels |-> Swap(c)]]
  /\ UNCHANGED <<todo, waits, reported, tracker, round_robin, chVars, missed,
                 sndVars, rcvVars>>

\* The thread asks for its requests: check_completion.
CheckCompletion(t) ==
  /\ work[t] = <<>> /\ ~CanBegin(t)
  /\ LET done == {w \in waits[t] : IsAcknowledged(tracker, w.id)}
     IN  /\ done # {}
         /\ waits' = [waits EXCEPT ![t] = @ \ done]
         /\ reported' = reported \cup UNION {w.ids : w \in done}
  /\ UNCHANGED <<todo, work, tracker, round_robin, chVars, missed, sndVars,
                 rcvVars>>

-----------------------------------------------------------------------------
(* The NIC, and send_routine, whoever drives it *)

\* External: a work request of a reliable queue pair is carried out, in order; a
\* piece of a compressed write is what the compress buffer holds by then.
Execute(c) ==
  /\ sq[c] # <<>>
  /\ LET e == Head(sq[c])
     IN  /\ buffer' = IF e.wr.cell = NoCell THEN buffer
                      ELSE [buffer EXCEPT ![e.wr.cell] = source[e.wr.k]]
         /\ cq' = IF e.signaled THEN [cq EXCEPT ![c] = Append(@, e.wr)] ELSE cq
  /\ sq' = [sq EXCEPT ![c] = Tail(@)]
  /\ UNCHANGED <<thrVars, tracker, round_robin, batch, posting, groups, acking,
                 missed, sndVars, metas, ring, recv_cq, acks, stream,
                 decompressed>>

FrontMatches(c, id) == groups[c] # <<>> /\ Head(groups[c]).signal = id

\* Mutant: a completion stands for the front group, whatever it completes.
ExpandAny(c, id) ==
  IF groups[c] # <<>> THEN Append(Head(groups[c]).unsignaled, id) ELSE <<id>>

\* Mutant: the unsignaled work requests of the batch are forgotten.
ExpandSelf(c, id) == <<id>>

\* expand_completion: the front group is recognised by the number of its
\* signaled work request.
ExpandCompletion(c, id) ==
  IF FrontMatches(c, id) THEN Append(Head(groups[c]).unsignaled, id) ELSE <<id>>

\* The completion of a batch whose group is not recorded yet.
Unrecorded(c, wr) ==
  \E t \in posting[c] : Last(Head(work[t]).wrs) = wr

\* poll_data_channels, under send_routine's mutex: the next completion.
PollDataChannel(c) ==
  /\ acking = <<>> /\ cq[c] # <<>>
  /\ LET wr == Head(cq[c])
     IN  /\ acking' = ExpandCompletion(c, wr.id)
         /\ groups' = IF Len(acking') = 1 THEN groups
                      ELSE [groups EXCEPT ![c] = Tail(@)]
         /\ missed' = (missed \/ Unrecorded(c, wr))
  /\ cq' = [cq EXCEPT ![c] = Tail(@)]
  /\ UNCHANGED <<thrVars, tracker, round_robin, batch, posting, sq, sndVars,
                 rcvVars>>

\* Mutant: the meta is pushed on the first completion of the write.
PushableOnFirst(tr, id) == {e \in pendingc : ~e.pushed /\ e.id = id}

\* maybe_push_compressed_meta: the write is pending, and now complete.
Pushable(tr, id) ==
  {e \in pendingc : ~e.pushed /\ e.id = id /\ IsAcknowledged(tr, id)}

\* The next request a completion stands for is acknowledged, and the meta of a
\* compressed write posted on the control channel (push_write_meta).
AcknowledgeNext ==
  /\ acking # <<>>
  /\ \E tr \in {Acknowledge(tracker, Head(acking))} :
       LET push == Pushable(tr, Head(acking))
       IN  /\ tracker' = tr
           /\ pendingc' = (pendingc \ push) \cup
                            {[e EXCEPT !.pushed = TRUE] : e \in push}
           /\ metas' = metas \o SetToSeq(push)
  /\ acking' = Tail(acking)
  /\ UNCHANGED <<thrVars, round_robin, batch, posting, groups, sq, cq, missed,
                 arena, source, next_ack_slot, ack_ring, ring, recv_cq, acks,
                 buffer, stream, decompressed>>

\* Mutant: the region is given back as soon as the data has been sent.
PollAckRingEarly ==
  /\ \E e \in pendingc :
       /\ e.pushed
       /\ pendingc' = pendingc \ {e}
       /\ arena' = [arena EXCEPT !.inflight =
                      @ \ {[off |-> e.off, bytes |-> e.bytes]}]
  /\ UNCHANGED <<thrVars, tracker, round_robin, chVars, missed, source,
                 next_ack_slot, ack_ring, rcvVars>>

\* poll_ack_ring: every slot that is not zero is cleared, and its region
\* released.
PollAckRing ==
  /\ acking = <<>>
  /\ LET answered == {e \in pendingc : ack_ring[e.slot] # 0}
     IN  /\ answered # {}
         /\ pendingc' = pendingc \ answered
         /\ ack_ring' = [s \in DOMAIN ack_ring |->
              IF \E e \in answered : e.slot = s THEN 0 ELSE ack_ring[s]]
         /\ arena' = [arena EXCEPT !.inflight =
              @ \ {[off |-> e.off, bytes |-> e.bytes] : e \in answered}]
  /\ UNCHANGED <<thrVars, tracker, round_robin, chVars, missed, source,
                 next_ack_slot, rcvVars>>

-----------------------------------------------------------------------------
(* The receiver *)

\* External: the control channel writes the meta in its slot, with an immediate.
MetaArrives ==
  /\ metas # <<>>
  /\ LET slot == Head(metas).id % MetaCap
     IN  /\ ring' = [ring EXCEPT ![slot] = Head(metas)]
         /\ recv_cq' = Append(recv_cq, slot)
  /\ metas' = Tail(metas)
  /\ UNCHANGED <<thrVars, tracker, round_robin, chVars, missed, sndVars, acks,
                 buffer, stream, decompressed>>

\* noblocking_poll reads the slot, handle_compressed_write_arrival acknowledges
\* the write and starts its decompression.
HandleArrival ==
  /\ recv_cq # <<>>
  /\ LET m == ring[Head(recv_cq)]
     IN  /\ acks' = acks \cup {[slot |-> m.slot, value |-> m.id + 1]}
         /\ stream' = Append(stream, m)
  /\ recv_cq' = Tail(recv_cq)
  /\ UNCHANGED <<thrVars, tracker, round_robin, chVars, missed, sndVars, metas,
                 ring, buffer, decompressed>>

\* External: the write of post_ack_write arrives in the sender's ack ring.
AckArrives ==
  /\ \E a \in acks :
       /\ ack_ring' = [ack_ring EXCEPT ![a.slot] = a.value]
       /\ acks' = acks \ {a}
  /\ UNCHANGED <<thrVars, tracker, round_robin, chVars, missed, arena, source,
                 pendingc, next_ack_slot, metas, ring, recv_cq, buffer, stream,
                 decompressed>>

\* External: the decompression kernel runs on its stream.
Decompress ==
  /\ stream # <<>>
  /\ decompressed' = decompressed \cup {Head(stream).id}
  /\ stream' = Tail(stream)
  /\ UNCHANGED <<thrVars, tracker, round_robin, chVars, missed, sndVars, metas,
                 ring, recv_cq, acks, buffer>>

-----------------------------------------------------------------------------

ThreadStep(t) ==
  \/ BeginWrite(t) \/ BeginRaw(t) \/ BeginCompressed(t)
  \/ Reserve(t) \/ ReserveFails(t) \/ Encode(t) \/ Expect(t)
  \/ SubmitRequest(t) \/ SwapBatch(t) \/ RingDoorbell(t) \/ RecordGroup(t)
  \/ FlushPass(t) \/ CheckCompletion(t)

Next ==
  \/ \E t \in Threads : ThreadStep(t)
  \/ \E c \in Channels : Execute(c) \/ PollDataChannel(c)
  \/ AcknowledgeNext \/ PollAckRing
  \/ MetaArrives \/ HandleArrival \/ AckArrives \/ Decompress

\* Fairness as weak as it can be: the posting threads, which drive send_routine
\* while they wait, the receiver's proxy thread and the NIC do not all stop while
\* one of them can go on.  No step is repeated for ever, so nothing more is needed.
Spec == Init /\ [][Next]_vars
FairSpec == Spec /\ WF_vars(Next)

-----------------------------------------------------------------------------
(* Properties *)

\* The work requests an operation has still to post.
WrsOf(op) ==
  IF op.op = "submit" THEN {op.wr}
  ELSE IF op.op = "ring" THEN ToSet(op.wrs) ELSE {}

\* The requests with a work request that is not carried out.
Unfinished ==
  {w.id : w \in UNION {UNION {WrsOf(op) : op \in ToSet(work[t])}
                         : t \in Threads}}
  \cup {w.id : w \in UNION {ToSet(batch[c]) : c \in Channels}}
  \cup {e.wr.id : e \in UNION {ToSet(sq[c]) : c \in Channels}}
  \cup {work[t][1].id : t \in {s \in Threads : Doing(s, "reserve")}}

\* A request that writev, readv or the raw pipeline took for complete has been
\* carried out whole: no chunk of it, and no operation of a raw batch whose last
\* number was acknowledged, is still to be posted or executed.
CompletionSound == reported \cap Unfinished = {}

\* The arrival of a WriteReqMeta means that the data of the write it announces is
\* in the decompress buffer (handle_compressed_write_arrival): all of it, and not
\* that of another write.
DataComplete ==
  \A i \in DOMAIN recv_cq :
    LET m == ring[recv_cq[i]]
    IN  \A o \in m.off..m.off + m.bytes - 1 : buffer[o] = m.id

\* The answer in the ack slot of a pending write is to that write: poll_ack_ring
\* does not compare it.
AckIsOwn ==
  \A e \in pendingc :
    /\ ack_ring[e.slot] \in {0, e.id + 1}
    /\ \A a \in acks : a.slot = e.slot => a.value = e.id + 1

\* Every transfer ends: what a thread waits for is acknowledged, the regions come
\* back, and every compressed write that was announced is decompressed; unless a
\* completion was polled between the doorbell and the record of its group, or
\* before a compressed write had its number of completions.
EveryTransferEnds ==
  <>(\/ missed
     \/ /\ \A t \in Threads : todo[t] = <<>> /\ work[t] = <<>> /\ waits[t] = {}
        /\ pendingc = {} /\ recv_cq = <<>> /\ stream = <<>>)
=============================================================================
