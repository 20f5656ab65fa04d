----------------------------- MODULE MCEpBarrier -----------------------------
(* Three nodes of two ranks and more barriers than sequence numbers.          *)
EXTENDS EpBarrier
=============================================================================
