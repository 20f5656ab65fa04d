------------------------------ MODULE MCUcFlow ------------------------------
(* Instances of UcFlow for TLC. *)
EXTENDS UcFlow, TLC

MCMsgSize == <<3, 0, 2, 2>>
MCPaths == Permutations(Paths)
=============================================================================
