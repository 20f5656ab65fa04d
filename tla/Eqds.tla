-------------------------------- MODULE Eqds --------------------------------
(***************************************************************************)
(* EQDS, the receiver-driven congestion control of collective/rdma: a      *)
(* sender spends credit to transmit and puts a pull target into every data *)
(* packet; the receiving engine records the highest target and asks the    *)
(* pacer thread of the device for a pull; the pacer keeps the flows with   *)
(* unmet demand in an active list and the satisfied ones in an idle list,  *)
(* and sends pull packets that carry a cumulative pull number.             *)
(*                                                                         *)
(* Credit is counted in pull quanta and all sizes are multiples of one.    *)
(* Pull numbers are unwrapped here; the code compares them as PullQuanta   *)
(* (8 bits, PullMod = 256), which is what PullGt does.  Data packets and   *)
(* ACKs are not lost: their recovery is the subject of UcFlow.             *)
(***************************************************************************)
EXTENDS Integers, Sequences, SequencesExt

CONSTANTS
  Flows,
  PullMod,        \* 256: values of PullQuanta
  InitPull,       \* INIT_PULL_QUANTA
  MaxCwnd,        \* kEQDSMaxCwnd
  CreditPerPull,  \* kCreditPerPull
  ChunkSize,      \* chunk_size_
  MsgSizes,       \* sizes of the messages of each flow
  MaxMsgs,        \* bound: messages per flow
  PoolSize,       \* buffers of pacer_credit_chunk_pool_
  PullCap,        \* bound: pull packets of a flow in flight
  MaxLoss,        \* bound: pull packets the network loses
  LateSenders     \* flows the sender may install after the receiver

ASSUME EqdsAssumption ==
  /\ {PullMod, InitPull, MaxCwnd, CreditPerPull, ChunkSize, MaxMsgs, PoolSize,
      PullCap, MaxLoss} \subseteq Nat
  /\ PullMod > 0 /\ PullMod % 2 = 0
  /\ MsgSizes \in [Flows -> SUBSET (Nat \ {0})]
  /\ LateSenders \subseteq Flows

VARIABLES
  \* Sender: EQDSCC and SubUcclFlow of each flow.
  installed,      \* the flow is in sender_flow_tbl_
  pull, last_target,
  credit_pull, credit_spec,
  speculating,
  backlog,        \* backlog_bytes_
  in_tx,          \* the engine is inside tx_message of this flow
  posted,         \* messages the application has sent
  \* Network.
  data,           \* pull targets of the data packets in flight
  acked,          \* an ACK is in flight
  pulls,          \* pull packets in flight
  losses,
  missed,         \* flows a pull was lost of, or dropped (history)
  \* Receiving engine and pacer.
  hpt,            \* highest_pull_target_
  requesting,     \* the engine has stored a target and not yet enqueued
  cmdq,           \* EQDSChannel
  latest_pull,
  active, idle,   \* active_senders_ and idle_senders_
  granting,       \* the flow grant_credit runs for
  looping,        \* handle_grant_credit is walking the idle list
  pool            \* free buffers for pull packets

sndVars == <<installed, pull, last_target, credit_pull, credit_spec,
             speculating, backlog, in_tx, posted>>
netVars == <<data, acked, pulls, losses, missed>>
pacerVars == <<cmdq, latest_pull, active, idle, granting, looping, pool>>
vars == <<sndVars, netVars, hpt, requesting, pacerVars>>

NoGrant == [on |-> FALSE]

Init ==
  /\ installed = [f \in Flows |-> f \notin LateSenders]
  /\ pull = [f \in Flows |-> InitPull]
  /\ last_target = [f \in Flows |-> InitPull]
  /\ credit_pull = [f \in Flows |-> 0]
  /\ credit_spec = [f \in Flows |-> MaxCwnd]
  /\ speculating = [f \in Flows |-> TRUE]
  /\ backlog = [f \in Flows |-> 0]
  /\ in_tx = [f \in Flows |-> FALSE]
  /\ posted = [f \in Flows |-> 0]
  /\ data = [f \in Flows |-> <<>>]
  /\ acked = [f \in Flows |-> FALSE]
  /\ pulls = [f \in Flows |-> <<>>]
  /\ losses = 0 /\ missed = {}
  /\ hpt = [f \in Flows |-> InitPull]
  /\ requesting = [f \in Flows |-> FALSE]
  /\ cmdq \in SetToSeqs(Flows)       \* handle_install_flow requested a pull
  /\ latest_pull = [f \in Flows |-> InitPull]
  /\ active = <<>> /\ idle = <<>>
  /\ granting = NoGrant /\ looping = FALSE
  /\ pool = PoolSize

\* pullno_gt: the difference as a signed byte.
PullGt(a, b) == LET d == (a - b) % PullMod IN 0 < d /\ d < PullMod \div 2

Least(a, b) == IF a < b THEN a ELSE b
Minus(a, b) == IF a > b THEN a - b ELSE 0

-----------------------------------------------------------------------------
(* Sender *)

\* handle_install_flow at the sender.
Install(f) ==
  /\ ~installed[f]
  /\ installed' = [installed EXCEPT ![f] = TRUE]
  /\ UNCHANGED <<pull, last_target, credit_pull, credit_spec, speculating,
                 backlog, in_tx, posted, netVars, hpt, requesting, pacerVars>>

\* tx_message sees a message for the first time.
PostMessage(f, s) ==
  /\ installed[f] /\ posted[f] < MaxMsgs
  /\ posted' = [posted EXCEPT ![f] = @ + 1]
  /\ backlog' = [backlog EXCEPT ![f] = @ + s]
  /\ in_tx' = [in_tx EXCEPT ![f] = TRUE]
  /\ UNCHANGED <<installed, pull, last_target, credit_pull, credit_spec,
                 speculating, netVars, hpt, requesting, pacerVars>>

\* EQDSRDMAContext::EventOnChunkSize before it spends.
ChunkOf(f) ==
  Least(Least(ChunkSize, credit_pull[f] + credit_spec[f]), backlog[f])

CanSpend(f) == credit_pull[f] > 0 \/ (speculating[f] /\ credit_spec[f] > 0)

\* EQDSCC::compute_pull_target, with what is left of the backlog and of the
\* credit: the new target, and the speculative credit.  A sender that stopped
\* speculating trades unspent speculative credit for a higher target.
ComputePullTarget(f, left, cp, cs) ==
  LET want  == Minus(Least(left, MaxCwnd), cp + cs)
      trade == /\ ~speculating[f] /\ cs > 0
               /\ (pull[f] % PullMod) + want = last_target[f] % PullMod
  IN  [target |-> pull[f] + want + (IF trade THEN 1 ELSE 0),
       spec   |-> IF trade THEN cs - 1 ELSE cs]

\* One round of the loop of receiverCC_tx_message that transmits.
TxChunk(f) ==
  /\ in_tx[f] /\ backlog[f] > 0 /\ CanSpend(f)
  /\ LET c  == ChunkOf(f)
         cp == Minus(credit_pull[f], c)
         cs == IF credit_pull[f] > 0 THEN credit_spec[f]
               ELSE Minus(credit_spec[f], c)
         t  == ComputePullTarget(f, backlog[f] - c, cp, cs)
     IN  /\ credit_pull' = [credit_pull EXCEPT ![f] = cp]
         /\ credit_spec' = [credit_spec EXCEPT ![f] = t.spec]
         /\ backlog' = [backlog EXCEPT ![f] = @ - c]
         /\ last_target' = [last_target EXCEPT ![f] = t.target]
         /\ data' = [data EXCEPT ![f] = Append(@, t.target)]
         /\ in_tx' = [in_tx EXCEPT ![f] = backlog[f] > c]
  /\ UNCHANGED <<installed, pull, speculating, posted, acked, pulls, losses,
                 missed, hpt, requesting, pacerVars>>

\* The round that finds no credit to spend: it burns speculative credit and
\* leaves the message to a later call.
TxBlocked(f) ==
  /\ in_tx[f] /\ backlog[f] > 0 /\ ~CanSpend(f)
  /\ credit_spec' = [credit_spec EXCEPT ![f] = Minus(@, ChunkOf(f))]
  /\ in_tx' = [in_tx EXCEPT ![f] = FALSE]
  /\ UNCHANGED <<installed, pull, last_target, credit_pull, speculating,
                 backlog, posted, netVars, hpt, requesting, pacerVars>>

\* handle_tx_work calls tx_message again for a pending message.
TxAgain(f) ==
  /\ ~in_tx[f] /\ backlog[f] > 0
  /\ CanSpend(f) \/ credit_spec[f] > 0      \* otherwise the call changes nothing
  /\ in_tx' = [in_tx EXCEPT ![f] = TRUE]
  /\ UNCHANGED <<installed, pull, last_target, credit_pull, credit_spec,
                 speculating, backlog, posted, netVars, hpt, requesting,
                 pacerVars>>

\* EventOnRxACK.
RxAck(f) ==
  /\ acked[f] /\ ~in_tx[f]
  /\ acked' = [acked EXCEPT ![f] = FALSE]
  /\ speculating' = [speculating EXCEPT ![f] = FALSE]
  /\ UNCHANGED <<installed, pull, last_target, credit_pull, credit_spec,
                 backlog, in_tx, posted, data, pulls, losses, missed, hpt,
                 requesting, pacerVars>>

\* rx_credit for a flow that is not installed: the pull is dropped.
RxCreditDropped(f) ==
  /\ pulls[f] # <<>> /\ ~installed[f]
  /\ pulls' = [pulls EXCEPT ![f] = Tail(@)]
  /\ missed' = missed \union {f}
  /\ UNCHANGED <<sndVars, data, acked, losses, hpt, requesting, pacerVars>>

\* rx_credit, EventOnRxCredit and handle_pull.
RxCredit(f) ==
  /\ pulls[f] # <<>> /\ installed[f] /\ ~in_tx[f]
  /\ LET n == Head(pulls[f])
     IN  IF PullGt(n, pull[f])
         THEN /\ credit_pull' = [credit_pull EXCEPT ![f] =
                                   Least(@ + ((n - pull[f]) % PullMod), MaxCwnd)]
              /\ pull' = [pull EXCEPT ![f] = n]
         ELSE UNCHANGED <<credit_pull, pull>>
  /\ speculating' = [speculating EXCEPT ![f] = FALSE]
  /\ pulls' = [pulls EXCEPT ![f] = Tail(@)]
  /\ UNCHANGED <<installed, last_target, credit_spec, backlog, in_tx, posted,
                 data, acked, losses, missed, hpt, requesting, pacerVars>>

\* The credit queue pair is an Unreliable Connection.
LosePull(f) ==
  /\ pulls[f] # <<>> /\ losses < MaxLoss
  /\ pulls' = [pulls EXCEPT ![f] = Tail(@)]
  /\ losses' = losses + 1 /\ missed' = missed \union {f}
  /\ UNCHANGED <<sndVars, data, acked, hpt, requesting, pacerVars>>

-----------------------------------------------------------------------------
(* Receiving engine *)

\* The fabric: a packet is not overtaken by one sent a quarter of the pull
\* number space later.
MayArrive(f, i) == data[f][i] - Head(data[f]) < PullMod \div 4

\* Mutant: the pacer is not told of the higher target.
RxDataWithoutRequest(f) ==
  /\ data[f] # <<>>
  /\ data' = [data EXCEPT ![f] = Tail(@)]
  /\ hpt' = [hpt EXCEPT ![f] = IF PullGt(Head(data[f]), @)
                               THEN Head(data[f]) ELSE @]
  /\ acked' = [acked EXCEPT ![f] = TRUE]
  /\ UNCHANGED <<sndVars, pulls, losses, missed, requesting, pacerVars>>

\* EventOnRxData, first half: handle_pull_target stores a higher target; the
\* packet is acknowledged.
RxData(f) ==
  /\ ~requesting[f]
  /\ \E i \in DOMAIN data[f] :
       /\ MayArrive(f, i)
       /\ data' = [data EXCEPT ![f] = RemoveAt(@, i)]
       /\ IF PullGt(data[f][i], hpt[f])
          THEN /\ hpt' = [hpt EXCEPT ![f] = data[f][i]]
               /\ requesting' = [requesting EXCEPT ![f] = TRUE]
          ELSE UNCHANGED <<hpt, requesting>>
  /\ acked' = [acked EXCEPT ![f] = TRUE]
  /\ UNCHANGED <<sndVars, pulls, losses, missed, pacerVars>>

\* Second half: request_pull.
RequestPull(f) ==
  /\ requesting[f]
  /\ requesting' = [requesting EXCEPT ![f] = FALSE]
  /\ cmdq' = Append(cmdq, f)
  /\ UNCHANGED <<sndVars, netVars, hpt, latest_pull, active, idle, granting,
                 looping, pool>>

-----------------------------------------------------------------------------
(* Pacer thread *)

OnList(f, list) == \E i \in DOMAIN list : list[i] = f

\* EQDSCC::backlog and idle_credit_enough.
Backlog(f) ==
  IF PullGt(hpt[f], latest_pull[f]) THEN (hpt[f] - latest_pull[f]) % PullMod
  ELSE 0

\* Mutant: idle flows are granted credit without a limit.
NeverEnough(f) == FALSE

IdleCreditEnough(f) ==
  /\ PullGt(latest_pull[f], hpt[f])
  /\ (latest_pull[f] - hpt[f]) % PullMod >= MaxCwnd

\* Mutant: the flow stays on the idle list when it becomes active.
HandlePullRequestKeepsIdle ==
  /\ cmdq # <<>> /\ ~granting.on /\ ~looping
  /\ IF OnList(Head(cmdq), active) THEN UNCHANGED active
     ELSE active' = Append(active, Head(cmdq))
  /\ cmdq' = Tail(cmdq)
  /\ UNCHANGED <<sndVars, netVars, hpt, requesting, latest_pull, idle,
                 granting, looping, pool>>

\* Mutant: the request of a flow on the idle list is taken for served.
HandlePullRequestSkipsIdle ==
  /\ cmdq # <<>> /\ ~granting.on /\ ~looping
  /\ LET f == Head(cmdq)
     IN  active' = IF OnList(f, active \o idle) THEN active ELSE Append(active, f)
  /\ cmdq' = Tail(cmdq)
  /\ UNCHANGED <<sndVars, netVars, hpt, requesting, latest_pull, idle,
                 granting, looping, pool>>

\* handle_pull_request, one message.
HandlePullRequest ==
  /\ cmdq # <<>> /\ ~granting.on /\ ~looping
  /\ LET f == Head(cmdq)
     IN  IF OnList(f, active) THEN UNCHANGED <<active, idle>>
         ELSE /\ active' = Append(active, f)
              /\ idle' = SelectSeq(idle, LAMBDA g : g # f)
  /\ cmdq' = Tail(cmdq)
  /\ UNCHANGED <<sndVars, netVars, hpt, requesting, latest_pull, granting,
                 looping, pool>>

\* grant_credit up to send_pull_packet: without a buffer nothing is sent and
\* latest_pull_ is rolled back.
Grant(f, increment, is_idle) ==
  /\ Len(pulls[f]) < PullCap
  /\ IF pool > 0
     THEN /\ latest_pull' = [latest_pull EXCEPT ![f] = @ + increment]
          /\ pulls' = [pulls EXCEPT ![f] = Append(@, latest_pull'[f])]
          /\ pool' = pool - 1
     ELSE UNCHANGED <<latest_pull, pulls, pool>>
  /\ granting' = [on |-> TRUE, flow |-> f, idle |-> is_idle]
  /\ UNCHANGED <<sndVars, data, acked, losses, missed, hpt, requesting, cmdq>>

\* handle_grant_credit: the first active sender.
GrantActive ==
  /\ active # <<>> /\ ~granting.on /\ ~looping
  /\ Grant(Head(active), Least(CreditPerPull, Backlog(Head(active))), FALSE)
  /\ active' = Tail(active)
  /\ UNCHANGED <<idle, looping>>

\* Mutant: the walk does not notice that it is at its end.
GrantIdleWalksOn ==
  /\ active = <<>> /\ idle # <<>> /\ ~granting.on
  /\ looping' = TRUE
  /\ Grant(Head(idle), CreditPerPull, TRUE)
  /\ idle' = Tail(idle)
  /\ UNCHANGED active

\* Without an active sender, the idle ones: list_for_each_safe read the next
\* node before it served this one, and a served node goes back to the tail, so
\* the walk ends only with a node that was alone on the list.
GrantIdle ==
  /\ active = <<>> /\ idle # <<>> /\ ~granting.on
  /\ looping' = (Len(idle) > 1)
  /\ Grant(Head(idle), CreditPerPull, TRUE)
  /\ idle' = Tail(idle)
  /\ UNCHANGED active

\* The rest: the demand is read again, the engine may have raised it.
Granted ==
  /\ granting.on
  /\ LET f == granting.flow
     IN  IF granting.idle
         THEN /\ idle' = IF Backlog(f) = 0 /\ ~IdleCreditEnough(f)
                         THEN Append(idle, f) ELSE idle
              /\ UNCHANGED active
         ELSE IF Backlog(f) = 0
              THEN idle' = Append(idle, f) /\ UNCHANGED active
              ELSE active' = Append(active, f) /\ UNCHANGED idle
  /\ granting' = NoGrant
  /\ UNCHANGED <<sndVars, netVars, hpt, requesting, cmdq, latest_pull,
                 looping, pool>>

\* handle_poll_cq: the NIC has sent the pull packets.
HandlePollCq ==
  /\ pool < PoolSize /\ ~granting.on /\ ~looping
  /\ pool' = PoolSize
  /\ UNCHANGED <<sndVars, netVars, hpt, requesting, cmdq, latest_pull, active,
                 idle, granting, looping>>

Next ==
  \/ \E f \in Flows :
       \/ Install(f) \/ TxChunk(f) \/ TxBlocked(f) \/ TxAgain(f) \/ RxAck(f)
       \/ RxCreditDropped(f) \/ RxCredit(f) \/ LosePull(f)
       \/ RxData(f) \/ RequestPull(f)
       \/ \E s \in MsgSizes[f] : PostMessage(f, s)
  \/ HandlePullRequest \/ GrantActive \/ GrantIdle \/ Granted \/ HandlePollCq

Spec == Init /\ [][Next]_vars

\* Engines and pacer run forever; packets that are not lost arrive.  Every turn
\* of run_pacer handles requests and completions before it grants.
Fairness ==
  /\ \A f \in Flows :
       /\ WF_vars(Install(f)) /\ WF_vars(TxChunk(f)) /\ WF_vars(TxBlocked(f))
       /\ WF_vars(TxAgain(f)) /\ WF_vars(RxAck(f))
       /\ WF_vars(RxCreditDropped(f)) /\ WF_vars(RxCredit(f))
       /\ WF_vars(RxData(f)) /\ WF_vars(RequestPull(f))
  /\ SF_vars(HandlePullRequest) /\ WF_vars(GrantActive) /\ WF_vars(GrantIdle)
  /\ WF_vars(Granted) /\ SF_vars(HandlePollCq)

FairSpec == Spec /\ Fairness

-----------------------------------------------------------------------------
(* Properties *)

\* A flow is on at most one of the pacer's lists, once, and on none while it is
\* being served: the UCCL_CHECK of handle_grant_credit (the idle link of an
\* active flow is empty) never fails and no list node is inserted twice.
ListsExclusive ==
  LET all == active \o idle \o
             (IF granting.on THEN <<granting.flow>> ELSE <<>>)
  IN  IsInjective(all)

\* Unmet demand is never forgotten: a flow whose highest target is above what
\* was granted is active, being served, or has a request on its way to the
\* pacer, although the engine raises the target while the pacer decides.
NoLostDemand ==
  \A f \in Flows :
    hpt[f] > latest_pull[f] =>
      \/ OnList(f, active) \/ OnList(f, cmdq) \/ requesting[f]
      \/ granting.on /\ granting.flow = f /\ ~granting.idle

\* The 8-bit comparisons of pull numbers order them as the numbers they stand
\* for: demand, granted and received credit stay within half the space.
PullsUnambiguous ==
  \A f \in Flows :
    /\ PullGt(hpt[f], latest_pull[f]) <=> hpt[f] > latest_pull[f]
    /\ PullGt(latest_pull[f], hpt[f]) <=> latest_pull[f] > hpt[f]
    /\ \A i \in 1..Least(Len(pulls[f]), MaxLoss + 1) :
         PullGt(pulls[f][i], pull[f]) <=> pulls[f][i] > pull[f]
    /\ \A i \in DOMAIN data[f] :
         PullGt(data[f][i], hpt[f]) <=> data[f][i] > hpt[f]

\* The pacer never stays in the walk over its idle list: it comes back to the
\* requests and completions that only run_pacer handles.
PacerReturns == []<>(~looping)

\* Every byte handed to the transport of a flow is eventually transmitted, unless
\* a pull of the flow was lost or came before rx_credit knew the flow: such
\* credit is not granted again.
EveryByteSent == \A f \in Flows : []<>(backlog[f] = 0 \/ f \in missed)
=============================================================================
