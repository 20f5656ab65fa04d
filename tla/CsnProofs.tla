----------------------------- MODULE CsnProofs -----------------------------
(***************************************************************************)
(* Wrapped chunk sequence numbers compare as the unwrapped ones do, for    *)
(* every even size of the sequence space.                                  *)
(***************************************************************************)
EXTENDS Csn, TLAPS

\* Division with remainder.
LEMMA ModIsRemainder ==
  ASSUME NEW a \in Int, NEW m \in Nat \ {0}
  PROVE  /\ a % m \in 0..(m - 1)
         /\ a \div m \in Int
         /\ a = m * (a \div m) + (a % m)
  OBVIOUS

\* The remainder is the only number of 0..(m-1) that is congruent.
LEMMA ModUnique ==
  ASSUME NEW m \in Nat \ {0}, NEW q \in Int, NEW r \in 0..(m - 1)
  PROVE  (m * q + r) % m = r
  OBVIOUS

\* Distributivity, which the provers do not find inside larger terms.
LEMMA Distributes ==
  ASSUME NEW m \in Int, NEW q \in Int, NEW r \in Int, NEW k \in Int
  PROVE  /\ m * (r - q + k) = m * r - m * q + m * k
         /\ m * q \in Int /\ m * r \in Int /\ m * k \in Int
  OBVIOUS

\* The difference of the wrapped numbers is that of the unwrapped ones, up to
\* the multiple of CsnMod that brings it into range.
LEMMA CsnDiffOf ==
  ASSUME NEW a \in Nat, NEW b \in Nat, NEW k \in Int,
         NEW d \in 0..(CsnMod - 1), a - b = CsnMod * k + d
  PROVE  CsnDiff(Csn(a), Csn(b)) = d
<1> DEFINE m == CsnMod
           q == a \div m
           r == b \div m
<1>0. m \in Nat \ {0}
  BY CsnModAssumption
<1>1. Csn(a) \in 0..(m - 1) /\ q \in Int /\ a = m * q + Csn(a)
  BY <1>0, ModIsRemainder DEF Csn
<1>2. Csn(b) \in 0..(m - 1) /\ r \in Int /\ b = m * r + Csn(b)
  BY <1>0, ModIsRemainder DEF Csn
<1>3. Csn(a) - Csn(b) = m * (r - q + k) + d
  <2> DEFINE x == m * q
             y == m * r
             w == m * k
             z == m * (r - q + k)
  <2>1. z = y - x + w /\ x \in Int /\ y \in Int /\ w \in Int
    BY <1>0, <1>1, <1>2, Distributes
  <2>2. a = x + Csn(a) /\ b = y + Csn(b) /\ a - b = w + d
    BY <1>1, <1>2
  <2>3. Csn(a) \in Int /\ Csn(b) \in Int /\ d \in Int
    BY <1>0, <1>1, <1>2
  <2> HIDE DEF x, y, z, w
  <2>4. Csn(a) - Csn(b) = z + d
    BY <2>1, <2>2, <2>3
  <2> QED
    BY <2>4 DEF z
<1>4. r - q + k \in Int
  BY <1>1, <1>2
<1> HIDE DEF m, q, r
<1>5. (m * (r - q + k) + d) % m = d
  <2>1. d \in 0..(m - 1)
    BY DEF m
  <2> QED
    BY <1>0, <1>4, <2>1, ModUnique
<1> QED
  BY <1>3, <1>5 DEF CsnDiff, m

\* HalfCsn is half of CsnMod.
LEMMA HalfCsnProps ==
  /\ HalfCsn \in Nat \ {0}
  /\ CsnMod = 2 * HalfCsn
  BY CsnModAssumption DEF HalfCsn

\* The distance uc_rx_chunk and uc_rx_ack compute is the true distance of a
\* number that is not behind by as much as the sequence space.
LEMMA CsnDiffAhead ==
  ASSUME NEW a \in Nat, NEW b \in Nat, a >= b, a - b < CsnMod
  PROVE  CsnDiff(Csn(a), Csn(b)) = a - b
<1>1. a - b \in 0..(CsnMod - 1) /\ CsnMod * 0 = 0
  BY CsnModAssumption
<1>2. a - b = CsnMod * 0 + (a - b)
  BY <1>1
<1> QED
  BY <1>1, <1>2, CsnDiffOf

\* A number behind by at most half the sequence space shows as one ahead by at
\* least half of it.
LEMMA CsnDiffBehind ==
  ASSUME NEW a \in Nat, NEW b \in Nat, a < b, b - a <= HalfCsn
  PROVE  CsnDiff(Csn(a), Csn(b)) = CsnMod - (b - a)
<1> DEFINE d == CsnMod - (b - a)
<1>1. d \in 0..(CsnMod - 1)
  BY CsnModAssumption, HalfCsnProps
<1>2. CsnMod * (-1) = - CsnMod
  BY CsnModAssumption
<1>3. a - b = CsnMod * (-1) + d
  BY <1>1, <1>2, CsnModAssumption
<1> HIDE DEF d
<1>4. CsnDiff(Csn(a), Csn(b)) = d
  BY <1>1, <1>3, CsnDiffOf
<1> QED
  BY <1>4 DEF d

\* seqno_lt and seqno_gt on wrapped numbers decide the order of the unwrapped
\* ones, as long as these are within half the sequence space: behind by at most
\* half of it, or ahead by less.
THEOREM CsnOrder ==
  ASSUME NEW a \in Nat, NEW b \in Nat, b - a <= HalfCsn, a - b < HalfCsn
  PROVE  /\ SeqnoLt(Csn(a), Csn(b)) <=> a < b
         /\ SeqnoGt(Csn(a), Csn(b)) <=> a > b
         /\ Csn(a) = Csn(b) <=> a = b
<1>1. CASE a < b
  <2>1. CsnDiff(Csn(a), Csn(b)) = CsnMod - (b - a)
    BY <1>1, CsnDiffBehind
  <2>2. CsnDiff(Csn(a), Csn(b)) >= HalfCsn
    BY <1>1, <2>1, HalfCsnProps
  <2>3. Csn(a) # Csn(b)
    <3>1. CsnDiff(Csn(b), Csn(a)) = b - a
      BY <1>1, HalfCsnProps, CsnDiffAhead
    <3>2. CsnDiff(Csn(a), Csn(a)) = 0
      BY HalfCsnProps, CsnDiffAhead
    <3> QED
      BY <1>1, <3>1, <3>2
  <2> QED
    BY <1>1, <2>2, <2>3, HalfCsnProps DEF SeqnoLt, SeqnoGt
<1>2. CASE a >= b
  <2>1. CsnDiff(Csn(a), Csn(b)) = a - b
    BY <1>2, CsnDiffAhead, HalfCsnProps
  <2>2. CsnDiff(Csn(b), Csn(b)) = 0
    BY CsnDiffAhead, HalfCsnProps
  <2> QED
    BY <1>2, <2>1, <2>2, HalfCsnProps DEF SeqnoLt, SeqnoGt
<1> QED
  BY <1>1, <1>2
=============================================================================
