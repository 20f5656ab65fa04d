-------------------------------- MODULE Csn --------------------------------
(***************************************************************************)
(* Chunk sequence numbers: class UINT_CSN and the seqno_* comparisons.     *)
(*                                                                         *)
(* The modules of this project count chunks with unwrapped naturals and    *)
(* hand the code only what it can see of them, Csn(n): the low             *)
(* UINT_CSN_BIT bits.  Comparisons are those of the code, the sign of the  *)
(* signed difference of two wrapped values.                                *)
(***************************************************************************)
EXTENDS Integers

CONSTANT CsnMod            \* 2^UINT_CSN_BIT, 256 in the code

ASSUME CsnModAssumption == /\ CsnMod \in Nat \ {0}
                           /\ CsnMod % 2 = 0

HalfCsn == CsnMod \div 2

Csn(n) == n % CsnMod                       \* value_ & UINT_CSN_MASK

CsnDiff(a, b) == (a - b) % CsnMod          \* UINT_CSN::operator-

\* Mutant: wrapped values compared as they are.
SeqnoLtPlain(a, b) == a < b

\* static_cast<int8_t>(a - b) < 0, for wrapped a and b.
SeqnoLt(a, b) == CsnDiff(a, b) >= HalfCsn

\* static_cast<int8_t>(a - b) > 0, for wrapped a and b.
SeqnoGt(a, b) == CsnDiff(a, b) \in 1..(HalfCsn - 1)
=============================================================================
