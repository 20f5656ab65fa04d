----------------------------- MODULE MCFlowFifo -----------------------------
(* Instances of FlowFifo for TLC. *)
EXTENDS FlowFifo

CONSTANTS e1, e2
=============================================================================
