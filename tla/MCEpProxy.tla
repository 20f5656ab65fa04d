------------------------------ MODULE MCEpProxy ------------------------------
(* Two rings, and budgets small enough to bind. *)
EXTENDS EpProxy
=============================================================================
