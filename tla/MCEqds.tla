------------------------------- MODULE MCEqds -------------------------------
(* An instance of Eqds for TLC: the first flow has a message, the second is   *)
(* idle at the pacer.                                                         *)
EXTENDS Eqds, TLC

CONSTANTS f1, f2

MCSizes == (f1 :> {2} @@ f2 :> {})
=============================================================================
