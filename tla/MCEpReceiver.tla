---------------------------- MODULE MCEpReceiver ----------------------------
(* Two nodes of one rank.  An expert gets no token, one or two.  The first  *)
(* program dispatches twice into the same buffer; in the second a combine   *)
(* uses the signal cells of a dispatch.                                     *)
EXTENDS EpReceiver

MCPrograms == {<<"dispatch", "combine", "dispatch">>,
               <<"dispatch", "dispatch", "combine">>}
MCLoads == {[e \in Experts |-> tokens[e + 1]] : tokens \in {<<0, 1>>, <<2, 0>>}}

=============================================================================
