--------------------------- MODULE MCUcFlowSmall ----------------------------
(* UcFlow with chunks so small that the byte budgets let more of them be     *)
(* outstanding than half the sequence space holds.                           *)
EXTENDS UcFlow, TLC

MCMsgSize == <<3, 1>>
MCPaths == Permutations(Paths)
=============================================================================
