----------------------------- MODULE MCP2pSend ------------------------------
(* Instances of P2pSend for TLC.                                              *)
EXTENDS P2pSend

CONSTANTS writev, raw

Also(kind, sizes) == [kind |-> kind, sizes |-> sizes, first |-> FALSE]
Call(kind, sizes) == [kind |-> kind, sizes |-> sizes, first |-> TRUE]

\* One thread in writev: a small write, one in three chunks and a compressed one
\* in one call, another compressed one in the next.  One thread in the raw
\* pipeline, and then in write.
MCScript ==
  [t \in {writev, raw} |->
     IF t = raw THEN <<Call("raw", <<1, 1, 1>>), Call("write", <<1>>)>>
     ELSE <<Call("write", <<1>>), Also("write", <<2, 2, 2>>),
            Also("compressed", <<2, 2>>), Call("compressed", <<2>>)>>]
MCInflight == [t \in {writev, raw} |-> 3]

\* A call of writev with two compressed writes.
MCTwoCompressed ==
  [t \in {writev} |-> <<Call("compressed", <<2, 2>>),
                        Also("compressed", <<2, 2>>)>>]
MCInflightTwo == [t \in {writev} |-> 2]
=============================================================================
