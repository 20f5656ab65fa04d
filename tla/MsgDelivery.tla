---------------------------- MODULE MsgDelivery -----------------------------
(***************************************************************************)
(* What collective/rdma promises the two applications at the ends of a     *)
(* flow: the receiver posts receives in order; a receive that was posted   *)
(* is delivered at most once and stays delivered; a send completes only    *)
(* when its message has been delivered.                                    *)
(***************************************************************************)
EXTENDS Naturals

CONSTANT Msgs        \* the messages of the flow, 1..n

VARIABLES
  posted,            \* receives posted so far
  delivered,         \* messages whose receive has completed
  completed          \* messages whose send has completed

msgVars == <<posted, delivered, completed>>

Init == posted = 0 /\ delivered = {} /\ completed = {}

\* uccl_recv_async reaches the engine.
Post ==
  /\ posted + 1 \in Msgs
  /\ posted' = posted + 1
  /\ UNCHANGED <<delivered, completed>>

\* uccl_poll_ureq succeeds for some receives.
Deliver ==
  /\ \E D \in (SUBSET {m \in Msgs : m <= posted}) \ {{}} :
       /\ D \cap delivered = {}
       /\ delivered' = delivered \cup D
  /\ UNCHANGED <<posted, completed>>

\* uccl_poll_ureq succeeds for some sends.
Complete ==
  /\ \E C \in (SUBSET delivered) \ {{}} : completed' = completed \cup C
  /\ UNCHANGED <<posted, delivered>>

Next == Post \/ Deliver \/ Complete

Spec == Init /\ [][Next]_msgVars
=============================================================================
