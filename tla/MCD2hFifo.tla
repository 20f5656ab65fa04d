----------------------------- MODULE MCD2hFifo ------------------------------
(* An instance of D2hFifo for TLC: more threads than slots. *)
EXTENDS D2hFifo

CONSTANTS t1, t2, t3
=============================================================================
