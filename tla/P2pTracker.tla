----------------------------- MODULE P2pTracker -----------------------------
(***************************************************************************)
(* AtomicBitmapPacketTrackerMultiAck of p2p/util/seq_num: the window of     *)
(* request numbers of a send connection.  A request is acknowledged once as *)
(* many of its work requests completed as it expects; the base of the       *)
(* window slides over acknowledged requests.                                *)
(*                                                                          *)
(* Each operator is one call.  The entries are atomics the calls read and   *)
(* write one by one; a number is known to no other thread before its first  *)
(* work request is posted, and completions are counted under send_routine's *)
(* mutex, so that only the slide races, and it moves over entries no call    *)
(* counts for any more.  Numbers are unwrapped (32 bits in the code).       *)
(***************************************************************************)
EXTENDS Naturals

CONSTANT Window     \* WINDOW_SIZE

ASSUME WindowAssumption == Window \in Nat \ {0}

Positions == 0..Window - 1
Pos(n) == n % Window

NewTracker ==
  [base |-> 0, next |-> 0,
   acked    |-> [p \in Positions |-> FALSE],
   expected |-> [p \in Positions |-> 1],
   count    |-> [p \in Positions |-> 0]]

Outside(t, n) == n < t.base \/ n - t.base >= Window

\* slide_window: over the acknowledged entries at the base, clearing them.
SlideWindow(t) ==
  LET stops == {n \in t.base..t.next :
                  n = t.next \/ n = t.base + Window \/ ~t.acked[Pos(n)]}
      base  == CHOOSE n \in stops : \A k \in stops : n <= k
      passed == {Pos(n) : n \in t.base..base - 1}
  IN  [t EXCEPT
         !.base = base,
         !.acked    = [p \in Positions |-> p \notin passed /\ @[p]],
         !.expected = [p \in Positions |-> IF p \in passed THEN 1 ELSE @[p]],
         !.count    = [p \in Positions |-> IF p \in passed THEN 0 ELSE @[p]]]

\* send_packet: the number it returns is t.next.
SendPacket(t) ==
  LET s == IF t.next - t.base >= Window
           THEN SlideWindow([t EXCEPT !.next = @ + 1])
           ELSE [t EXCEPT !.next = @ + 1]
      p == Pos(t.next)
  IN  [s EXCEPT !.acked[p] = FALSE, !.expected[p] = 1, !.count[p] = 0]

\* The tail of acknowledge and of update_expected_ack_count.
IfSatisfied(t, p) ==
  IF t.count[p] >= t.expected[p] THEN SlideWindow([t EXCEPT !.acked[p] = TRUE])
  ELSE t

\* acknowledge: one more work request of n has completed.
Acknowledge(t, n) ==
  IF Outside(t, n) THEN t
  ELSE IfSatisfied([t EXCEPT !.count[Pos(n)] = @ + 1], Pos(n))

\* update_expected_ack_count.
UpdateExpected(t, n, k) ==
  IF Outside(t, n) \/ n >= t.next THEN t
  ELSE IfSatisfied([t EXCEPT !.expected[Pos(n)] = k], Pos(n))

\* is_acknowledged.
IsAcknowledged(t, n) == Outside(t, n) \/ t.acked[Pos(n)]
=============================================================================
