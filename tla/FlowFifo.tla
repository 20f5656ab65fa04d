------------------------------ MODULE FlowFifo ------------------------------
(***************************************************************************)
(* How a receive meets its send in collective/rdma.  The receiving         *)
(* application takes a slot of the flow's FIFO ring and hands the receive  *)
(* to one of several engines; the engine allocates a request id and RDMA-  *)
(* WRITEs the slot into the memory of the sending application, which polls *)
(* the slot at its own head, starts the transfer and clears the slot.      *)
(* Receives complete in any order across engines.                          *)
(*                                                                         *)
(* Receives and sends are numbered from 1; receive m sits in slot          *)
(* (m - 1) % MaxReq and carries idx = m.  kMaxRecv is 1 in this code base, *)
(* so a slot holds one item.                                               *)
(***************************************************************************)
EXTENDS Integers, Sequences, FiniteSets

CONSTANTS
  Engines,        \* engine offsets of the device
  MaxReq,         \* kMaxReq: slots of the ring, entries of a request pool
  NumMsgs,        \* bound: receives the application posts
  SlowApp         \* the sending thread may be descheduled for a round trip

Msgs == 1..NumMsgs
Slots == 0..(MaxReq - 1)
Rids == 0..(MaxReq - 1)
None == 0

ASSUME FifoAssumption ==
  /\ MaxReq \in Nat \ {0}
  /\ NumMsgs \in Nat
  /\ SlowApp \in BOOLEAN

VARIABLES
  \* Receiving application.
  fifo_tail,
  outstanding_reqs,
  elems,          \* the receiver's copy of the ring
  polled,         \* receives whose completion the application has seen
  \* Receiving engines.
  rx_cmdq,        \* rx_cmdq_ and pending_rx_works_ of each engine
  reqs,           \* SubUcclFlow::reqs_ of each engine: the receive, or None
  done,           \* receives that were woken up
  \* The FIFO queue pair, in order, and the ring at the sender.
  wire,
  slots,
  \* Sending application and the transfers it started.
  fifo_head,
  clearing,       \* between post_multi_send and the memset of the slot
  transfers

vars == <<fifo_tail, outstanding_reqs, elems, polled, rx_cmdq, reqs, done,
          wire, slots, fifo_head, clearing, transfers>>

SlotOf(m) == (m - 1) % MaxReq

\* idx = 0 is the cleared slot.
Item == [idx : 0..NumMsgs, engine : Engines, rid : Rids]

Init ==
  /\ fifo_tail = 0 /\ outstanding_reqs = 0
  /\ elems \in [Slots -> {[idx |-> 0, engine |-> e, rid |-> 0] : e \in Engines}]
  /\ slots = elems
  /\ polled = {} /\ done = {}
  /\ rx_cmdq = [e \in Engines |-> <<>>]
  /\ reqs = [e \in Engines |-> [r \in Rids |-> None]]
  /\ wire = <<>>
  /\ fifo_head = 0 /\ clearing = FALSE
  /\ transfers = {}

-----------------------------------------------------------------------------
(* Receiving side *)

\* Mutant: one receive more than the ring has slots.
RecvAsyncOneTooMany(e) ==
  /\ fifo_tail < NumMsgs
  /\ outstanding_reqs <= MaxReq
  /\ outstanding_reqs' = outstanding_reqs + 1
  /\ elems' = [elems EXCEPT ![fifo_tail % MaxReq].idx = fifo_tail + 1,
                            ![fifo_tail % MaxReq].engine = e]
  /\ rx_cmdq' = [rx_cmdq EXCEPT ![e] = Append(@, fifo_tail + 1)]
  /\ fifo_tail' = fifo_tail + 1
  /\ UNCHANGED <<polled, reqs, done, wire, slots, fifo_head, clearing,
                 transfers>>

\* uccl_recv_async and post_fifo: any engine may be chosen.
RecvAsync(e) ==
  /\ fifo_tail < NumMsgs
  /\ outstanding_reqs < MaxReq
  /\ outstanding_reqs' = outstanding_reqs + 1
  /\ elems' = [elems EXCEPT ![fifo_tail % MaxReq].idx = fifo_tail + 1,
                            ![fifo_tail % MaxReq].engine = e]
  /\ rx_cmdq' = [rx_cmdq EXCEPT ![e] = Append(@, fifo_tail + 1)]
  /\ fifo_tail' = fifo_tail + 1
  /\ UNCHANGED <<polled, reqs, done, wire, slots, fifo_head, clearing,
                 transfers>>

\* Mutant: the request is not marked as used.
SupplyWithoutMark(e) ==
  /\ rx_cmdq[e] # <<>>
  /\ LET m == Head(rx_cmdq[e])
     IN  /\ elems' = [elems EXCEPT ![SlotOf(m)].rid = 0]
         /\ wire' = Append(wire, elems'[SlotOf(m)])
         /\ reqs' = [reqs EXCEPT ![e][0] = m]
  /\ rx_cmdq' = [rx_cmdq EXCEPT ![e] = Tail(@)]
  /\ UNCHANGED <<fifo_tail, outstanding_reqs, polled, done, slots, fifo_head,
                 clearing, transfers>>

\* handle_rx_work and supply_rx_buff: the first unused request, then the write
\* of the slot as it stands.  Without a free request the receive stays queued.
SupplyRxBuff(e) ==
  /\ rx_cmdq[e] # <<>>
  /\ \E r \in Rids :
       /\ reqs[e][r] = None
       /\ \A q \in Rids : q < r => reqs[e][q] # None
       /\ LET m == Head(rx_cmdq[e])
          IN  /\ elems' = [elems EXCEPT ![SlotOf(m)].rid = r]
              /\ wire' = Append(wire, elems'[SlotOf(m)])
              /\ reqs' = [reqs EXCEPT ![e][r] = m]
  /\ rx_cmdq' = [rx_cmdq EXCEPT ![e] = Tail(@)]
  /\ UNCHANGED <<fifo_tail, outstanding_reqs, polled, done, slots, fifo_head,
                 clearing, transfers>>

\* The last chunk of a transfer is consumed by its engine: the receive is woken
\* and its request freed.
TryUpdateCsn(t) ==
  /\ SlowApp \/ ~clearing
  /\ done' = done \cup {reqs[t.engine][t.rid]}
  /\ reqs' = [reqs EXCEPT ![t.engine][t.rid] = None]
  /\ transfers' = transfers \ {t}
  /\ UNCHANGED <<fifo_tail, outstanding_reqs, elems, polled, rx_cmdq, wire,
                 slots, fifo_head, clearing>>

\* Mutant: the completed receive keeps its place among the outstanding ones.
PollWithoutDec(m) ==
  /\ m \in done \ polled
  /\ polled' = polled \cup {m}
  /\ UNCHANGED <<fifo_tail, outstanding_reqs, elems, rx_cmdq, reqs, done, wire,
                 slots, fifo_head, clearing, transfers>>

\* uccl_poll_ureq_once: requests are polled in any order.
PollUreqOnce(m) ==
  /\ m \in done \ polled
  /\ polled' = polled \cup {m}
  /\ outstanding_reqs' = outstanding_reqs - 1
  /\ UNCHANGED <<fifo_tail, elems, rx_cmdq, reqs, done, wire, slots,
                 fifo_head, clearing, transfers>>

-----------------------------------------------------------------------------
(* The FIFO queue pair and the sending side *)

\* A write of the FIFO queue pair lands in the sender's ring.
Land ==
  /\ wire # <<>>
  /\ slots' = [slots EXCEPT ![SlotOf(Head(wire).idx)] = Head(wire)]
  /\ wire' = Tail(wire)
  /\ UNCHANGED <<fifo_tail, outstanding_reqs, elems, polled, rx_cmdq, reqs,
                 done, fifo_head, clearing, transfers>>

\* check_fifo_ready: the slot at the head holds the item of this round.
CheckFifoReady(slot) == slots[slot].idx = fifo_head + 1

\* uccl_send_async up to post_multi_send: the transfer is the engine's now.
SendAsync ==
  /\ ~clearing
  /\ LET slot == fifo_head % MaxReq
         item == slots[slot]
     IN  /\ CheckFifoReady(slot)
         /\ transfers' = transfers \cup
              {[send |-> fifo_head + 1, recv |-> item.idx,
                engine |-> item.engine, rid |-> item.rid]}
  /\ clearing' = TRUE
  /\ UNCHANGED <<fifo_tail, outstanding_reqs, elems, polled, rx_cmdq, reqs,
                 done, wire, slots, fifo_head>>

\* ... and from there: the head moves on and the slot is zeroed.
ClearSlot ==
  /\ clearing
  /\ fifo_head' = fifo_head + 1
  /\ slots' = [slots EXCEPT ![fifo_head % MaxReq].idx = 0,
                            ![fifo_head % MaxReq].rid = 0]
  /\ clearing' = FALSE
  /\ UNCHANGED <<fifo_tail, outstanding_reqs, elems, polled, rx_cmdq, reqs,
                 done, wire, transfers>>

Next ==
  \/ \E e \in Engines : RecvAsync(e) \/ SupplyRxBuff(e)
  \/ \E t \in transfers : TryUpdateCsn(t)
  \/ \E m \in Msgs : PollUreqOnce(m)
  \/ Land \/ SendAsync \/ ClearSlot

Spec == Init /\ [][Next]_vars

\* The applications keep calling Irecv, Isend and Test; the engines run their
\* loops; the queue pairs are reliable here.
Fairness ==
  /\ \A e \in Engines : WF_vars(SupplyRxBuff(e))
  /\ WF_vars(\E e \in Engines : RecvAsync(e))
  /\ WF_vars(\E t \in transfers : TryUpdateCsn(t))
  /\ WF_vars(\E m \in Msgs : PollUreqOnce(m))
  /\ WF_vars(Land) /\ WF_vars(SendAsync) /\ WF_vars(ClearSlot)

FairSpec == Spec /\ Fairness

-----------------------------------------------------------------------------
(* Properties *)

\* Sends whose item was read from the ring.
Consumed == fifo_head + IF clearing THEN 1 ELSE 0

Queued(m) == \E e \in Engines : \E i \in DOMAIN rx_cmdq[e] : rx_cmdq[e][i] = m
OnWire(m) == \E i \in DOMAIN wire : wire[i].idx = m

\* Every receive that was posted and not yet met by its send is queued at an
\* engine, on the wire or readable in its slot of the sender's ring: reusing a
\* slot neither overwrites an item the sender has still to read nor erases one
\* (uccl_send_async clears the slot after it posted the transfer).
NoItemLost ==
  \A m \in Msgs :
    Consumed < m /\ m <= fifo_tail =>
      Queued(m) \/ OnWire(m) \/ slots[SlotOf(m)].idx = m

\* The request a transfer names is the one allocated for the receive it writes
\* to, and that is the receive of the same rank as the send: no data is counted
\* for, and no wake-up given to, another receive.
RightRequest ==
  \A t \in transfers :
    /\ t.recv = t.send
    /\ reqs[t.engine][t.rid] = t.recv

\* An engine always has a free request for the receives queued to it: the limit
\* of check_room covers the request pool of every engine, and pending_rx_works_
\* stays empty.
RequestsSuffice ==
  \A e \in Engines :
    Len(rx_cmdq[e]) <= Cardinality({r \in Rids : reqs[e][r] = None})

\* Every receive the application means to post is delivered.
EveryRecvDelivered == <>(polled = Msgs)
=============================================================================
