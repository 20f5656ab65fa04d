---------------------------- MODULE MCUcFlowLive ----------------------------
(* UcFlow under fairness: three messages. *)
EXTENDS UcFlow

MCMsgSize == <<3, 0, 2>>
=============================================================================
