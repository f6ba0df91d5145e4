----------------------------- MODULE BracketProofs -----------------------------
(***************************************************************************)
(* Proofs about generateBracket, for any number of participants.           *)
(***************************************************************************)
EXTENDS BracketGeneration, FiniteSetTheorems, WellFoundedInduction, TLAPS

-----------------------------------------------------------------------------
(* Induction over the natural numbers, and the functions defined by it.      *)

\* A set of natural numbers has a least one.
LEMMA LeastOf ==
  ASSUME NEW S \in SUBSET Nat, S # {}
  PROVE  \E m \in S : \A k \in S : m <= k
<1> DEFINE less == {p \in Nat \X Nat : p[1] < p[2]}
<1>1. IsWellFoundedOn(less, Nat)
  BY NatLessThanWellFounded DEF OpToRel
<1> HIDE DEF less
<1>2. PICK m \in S : \A k \in S : ~ (<<k, m>> \in less)
  BY <1>1, WFMin
<1>3. ASSUME NEW k \in S PROVE m <= k
  <2>1. k \in Nat /\ m \in Nat
    BY <1>2
  <2>2. k < m => <<k, m>> \in less
    BY <2>1 DEF less
  <2> QED
    BY <1>2, <2>1, <2>2
<1> QED
  BY <1>3

\* What holds of 0 and of the successor of whatever it holds of holds of all,
\* here up to a bound.
LEMMA Induction ==
  ASSUME NEW S, NEW N \in Nat, 0 \in S, \A n \in 0 .. N : n \in S /\ n < N => n + 1 \in S
  PROVE  0 .. N \subseteq S
<1> SUFFICES ASSUME (0 .. N) \ S # {} PROVE FALSE
  OBVIOUS
<1>1. (0 .. N) \ S \in SUBSET Nat
  OBVIOUS
<1>2. PICK m \in (0 .. N) \ S : \A k \in (0 .. N) \ S : m <= k
  BY <1>1, LeastOf
<1>3. m # 0 /\ m - 1 \in 0 .. N /\ m - 1 \in S /\ m - 1 < N
  BY <1>2
<1>4. (m - 1) + 1 \in S
  BY <1>3
<1> QED
  BY <1>2, <1>4

LEMMA MinIs ==
  ASSUME NEW S \in SUBSET Nat, S # {}
  PROVE  Min(S) \in S /\ \A k \in S : Min(S) <= k
  BY LeastOf DEF Min

LEMMA MaxOf ==
  ASSUME NEW N \in Nat, NEW S \in SUBSET (1 .. N), S # {}
  PROVE  Max(S) \in S /\ \A k \in S : k <= Max(S)
<1> DEFINE T == {k \in 0 .. N : N - k \in S}
<1>1. T \in SUBSET Nat
  OBVIOUS
<1>2. PICK x \in S : TRUE
  OBVIOUS
<1>3. N - x \in 0 .. N /\ N - (N - x) = x
  OBVIOUS
<1>4. N - x \in T
  BY <1>2, <1>3
<1>5. PICK m \in T : \A k \in T : m <= k
  BY <1>1, <1>4, LeastOf
<1>6. ASSUME NEW k \in S PROVE N - m >= k
  <2>1. N - k \in 0 .. N /\ N - (N - k) = k
    OBVIOUS
  <2>2. N - k \in T
    BY <2>1
  <2> QED
    BY <1>5, <2>2
<1>7. \E y \in S : \A k \in S : y >= k
  BY <1>5, <1>6
<1>8. Max(S) \in S /\ \A k \in S : Max(S) >= k
  BY <1>7 DEF Max
<1> QED
  BY <1>8

LEMMA MaxIs ==
  ASSUME NEW S \in SUBSET Int, NEW m \in S, \A k \in S : k <= m
  PROVE  Max(S) = m
<1>1. \E x \in S : \A k \in S : x >= k
  OBVIOUS
<1>2. Max(S) \in S /\ \A k \in S : Max(S) >= k
  BY <1>1 DEF Max
<1>3. m \in Int /\ Max(S) \in Int
  BY <1>2
<1>4. Max(S) <= m /\ m <= Max(S)
  BY <1>2
<1> QED
  BY <1>3, <1>4

\* g is defined by recursion over 0 .. n, from d by the steps F.
Recurs(g, n, d, F) == \A k \in 0 .. n : g[k] = IF k = 0 THEN d ELSE F[<<g[k - 1], k>>]

LEMMA RecursionExists ==
  ASSUME NEW N \in Nat, NEW D, NEW d \in D, NEW F \in [D \X (1 .. N) -> D]
  PROVE  \E g \in [0 .. N -> D] : Recurs(g, N, d, F)
<1> DEFINE S == {n \in 0 .. N : \E g \in [0 .. n -> D] : Recurs(g, n, d, F)}
<1>1. 0 \in S
  <2> DEFINE g == [k \in 0 .. 0 |-> d]
  <2>1. g \in [0 .. 0 -> D] /\ Recurs(g, 0, d, F)
    BY DEF Recurs
  <2> HIDE DEF g
  <2>2. \E f \in [0 .. 0 -> D] : Recurs(f, 0, d, F)
    BY <2>1
  <2> QED
    BY <2>2
<1>2. ASSUME NEW n \in 0 .. N, n \in S, n < N
      PROVE  n + 1 \in S
  <2>1. PICK g \in [0 .. n -> D] : Recurs(g, n, d, F)
    BY <1>2
  <2>2. n + 1 \in 1 .. N /\ n \in 0 .. n /\ n + 1 \in 0 .. N
    BY <1>2
  <2>3. F[<<g[n], n + 1>>] \in D
    BY <2>1, <2>2
  <2> DEFINE h == [k \in 0 .. n + 1 |-> IF k = n + 1 THEN F[<<g[n], n + 1>>] ELSE g[k]]
  <2>4. h \in [0 .. n + 1 -> D]
    BY <2>2, <2>3
  <2>5. ASSUME NEW k \in 0 .. n + 1
        PROVE  h[k] = IF k = 0 THEN d ELSE F[<<h[k - 1], k>>]
    <3>1. CASE k = n + 1
      <4>1. k - 1 = n /\ k # 0 /\ n \in 0 .. n + 1 /\ n # n + 1
        BY <2>2, <3>1
      <4>2. h[k] = F[<<g[n], n + 1>>] /\ h[k - 1] = g[n]
        BY <3>1, <4>1
      <4> QED
        BY <3>1, <4>1, <4>2
    <3>2. CASE k # n + 1
      <4>1. k \in 0 .. n /\ (k # 0 => k - 1 \in 0 .. n /\ k - 1 # n + 1)
        BY <2>2, <3>2
      <4>2. h[k] = g[k] /\ (k # 0 => h[k - 1] = g[k - 1])
        BY <3>2, <4>1
      <4>3. g[k] = IF k = 0 THEN d ELSE F[<<g[k - 1], k>>]
        BY <2>1, <4>1 DEF Recurs
      <4> QED
        BY <4>2, <4>3
    <3> QED
      BY <3>1, <3>2
  <2> HIDE DEF h
  <2>6. Recurs(h, n + 1, d, F)
    BY <2>5 DEF Recurs
  <2> QED
    BY <2>2, <2>4, <2>6
<1> HIDE DEF S
<1>3. N \in S
  BY <1>1, <1>2, Induction
<1> QED
  BY <1>3 DEF S

-----------------------------------------------------------------------------
(* Powers of two.                                                            *)

DoublesUpTo(g, k) == g = [i \in 0 .. k |-> IF i = 0 THEN 1 ELSE 2 * g[i - 1]]

LEMMA DoublesExist ==
  ASSUME NEW N \in Nat
  PROVE  \E g : DoublesUpTo(g, N)
<1> DEFINE double == [x \in Nat \X (1 .. N) |-> 2 * x[1]]
<1>1. double \in [Nat \X (1 .. N) -> Nat]
  OBVIOUS
<1>2. \A a \in Nat, k \in 1 .. N : double[<<a, k>>] = 2 * a
  OBVIOUS
<1> HIDE DEF double
<1>3. PICK g \in [0 .. N -> Nat] : Recurs(g, N, 1, double)
  BY <1>1, RecursionExists
<1>4. ASSUME NEW k \in 0 .. N PROVE g[k] = IF k = 0 THEN 1 ELSE 2 * g[k - 1]
  <2>1. k # 0 => k - 1 \in 0 .. N /\ k \in 1 .. N
    OBVIOUS
  <2>2. k # 0 => double[<<g[k - 1], k>>] = 2 * g[k - 1]
    BY <1>2, <1>3, <2>1
  <2> QED
    BY <1>3, <2>2 DEF Recurs
<1>5. DoublesUpTo(g, N)
  BY <1>3, <1>4 DEF DoublesUpTo
<1> QED
  BY <1>5

LEMMA DoublesAgree ==
  ASSUME NEW k \in Nat, NEW g, NEW h, DoublesUpTo(g, k), DoublesUpTo(h, k + 1)
  PROVE  h[k] = g[k]
<1> DEFINE S == {i \in 0 .. k : h[i] = g[i]}
<1>1. 0 \in S
  BY DEF DoublesUpTo
<1>2. ASSUME NEW n \in 0 .. k, n \in S, n < k
      PROVE  n + 1 \in S
  <2>1. g[n + 1] = 2 * g[n] /\ h[n + 1] = 2 * h[n]
    BY <1>2 DEF DoublesUpTo
  <2> QED
    BY <1>2, <2>1
<1> HIDE DEF S
<1>3. k \in S
  BY <1>1, <1>2, Induction
<1> QED
  BY <1>3 DEF S

LEMMA DoublesAt ==
  ASSUME NEW k \in Nat, NEW g, DoublesUpTo(g, k)
  PROVE  g[k] = IF k = 0 THEN 1 ELSE 2 * g[k - 1]
<1>1. k \in 0 .. k
  OBVIOUS
<1> QED
  BY <1>1 DEF DoublesUpTo

\* The recursive definition defines what it says.
LEMMA PowerOf2Is ==
  PowerOf2 = [k \in Nat |-> IF k = 0 THEN 1 ELSE 2 * PowerOf2[k - 1]]
<1> DEFINE upTo(k) == CHOOSE g : DoublesUpTo(g, k)
           f == [k \in Nat |-> upTo(k)[k]]
<1>1. \A k \in Nat : DoublesUpTo(upTo(k), k)
  BY DoublesExist
<1>2. ASSUME NEW k \in Nat
      PROVE  upTo(k)[k] = IF k = 0 THEN 1 ELSE 2 * upTo(k - 1)[k - 1]
  <2>1. CASE k = 0
    BY <1>1, <2>1, DoublesAt
  <2>2. CASE k # 0
    <3>1. k - 1 \in Nat /\ (k - 1) + 1 = k
      BY <2>2
    <3>2. upTo(k)[k - 1] = upTo(k - 1)[k - 1]
      BY <1>1, <3>1, DoublesAgree
    <3>3. upTo(k)[k] = 2 * upTo(k)[k - 1]
      BY <1>1, <2>2, DoublesAt
    <3> QED
      BY <2>2, <3>2, <3>3
  <2> QED
    BY <2>1, <2>2
<1> HIDE DEF upTo
<1>3. f = [k \in Nat |-> IF k = 0 THEN 1 ELSE 2 * f[k - 1]]
  BY <1>2
<1> HIDE DEF f
<1> QED
  BY <1>3 DEF PowerOf2

LEMMA Doubling ==
  /\ PowerOf2[0] = 1
  /\ \A k \in Nat : PowerOf2[k + 1] = 2 * PowerOf2[k]
<1>1. \A k \in Nat : k + 1 \in Nat /\ k + 1 # 0 /\ (k + 1) - 1 = k
  OBVIOUS
<1> QED
  BY <1>1, PowerOf2Is

\* A power of two is more than its exponent.
LEMMA PowerIsMore ==
  ASSUME NEW k \in Nat
  PROVE  PowerOf2[k] \in Nat /\ PowerOf2[k] > k
<1> DEFINE S == {i \in 0 .. k : PowerOf2[i] \in Nat /\ PowerOf2[i] > i}
<1>1. 0 \in S
  BY Doubling
<1>2. \A n \in 0 .. k : n \in S /\ n < k => n + 1 \in S
  BY Doubling
<1> HIDE DEF S
<1>3. k \in S
  BY <1>1, <1>2, Induction
<1> QED
  BY <1>3 DEF S

PowersOf2 == {PowerOf2[k] : k \in Nat}

LEMMA PowersAre ==
  ASSUME NEW q \in PowersOf2
  PROVE  /\ q \in Nat /\ q >= 1
         /\ q # 1 => q = 2 * (q \div 2) /\ q \div 2 \in PowersOf2
<1>1. PICK k \in Nat : q = PowerOf2[k]
  BY DEF PowersOf2
<1>2. q \in Nat /\ q >= 1
  BY <1>1, PowerIsMore
<1>3. ASSUME q # 1 PROVE q = 2 * (q \div 2) /\ q \div 2 \in PowersOf2
  <2>1. k - 1 \in Nat /\ (k - 1) + 1 = k
    BY <1>1, <1>3, Doubling
  <2>2. q = 2 * PowerOf2[k - 1] /\ PowerOf2[k - 1] \in Nat
    BY <1>1, <2>1, Doubling, PowerIsMore
  <2>3. q \div 2 = PowerOf2[k - 1]
    BY <2>2
  <2> QED
    BY <2>1, <2>2, <2>3 DEF PowersOf2
<1> QED
  BY <1>2, <1>3

\* The first round has the fewest slots that are a power of two and enough:
\* more than half of them are taken.
LEMMA BracketSizeIs ==
  ASSUME NEW n \in Nat, n >= 2
  PROVE  /\ BracketSize(n) \in PowersOf2 /\ BracketSize(n) \in Nat /\ BracketSize(n) >= n
         /\ BracketSize(n) = 2 * (BracketSize(n) \div 2)
         /\ BracketSize(n) \div 2 \in Nat /\ BracketSize(n) \div 2 < n
<1> DEFINE S == {PowerOf2[k] : k \in 0 .. n} \ 0 .. (n - 1)
           size == Min(S)
<1>1. S \in SUBSET Nat /\ \A q \in S : q >= n
  BY PowerIsMore
<1>2. PowerOf2[n] \in S
  BY PowerIsMore
<1>3. size \in S /\ \A q \in S : size <= q
  <2> HIDE DEF S
  <2> QED
    BY <1>1, <1>2, MinIs
<1>4. PICK k \in 0 .. n : size = PowerOf2[k]
  BY <1>3
<1>5. size \in Nat /\ size >= n
  BY <1>1, <1>3
<1>6. k - 1 \in 0 .. n /\ (k - 1) + 1 = k
  BY <1>4, <1>5, Doubling
<1>7. PowerOf2[k - 1] \in Nat /\ size = 2 * PowerOf2[k - 1]
  BY <1>4, <1>6, Doubling, PowerIsMore
<1>8. size \div 2 = PowerOf2[k - 1]
  BY <1>7
<1>9. PowerOf2[k - 1] < n
  <2>1. PowerOf2[k - 1] \notin S
    <3> HIDE DEF S, size
    <3> QED
      BY <1>3, <1>5, <1>7
  <2> QED
    BY <1>6, <1>7, <2>1
<1>10. BracketSize(n) = size
  BY DEF BracketSize
<1> HIDE DEF size
<1>11. size \in PowersOf2
  BY <1>4 DEF PowersOf2
<1> QED
  BY <1>5, <1>7, <1>8, <1>9, <1>10, <1>11

-----------------------------------------------------------------------------
(* The rounds of the tree.                                                   *)

\* Each round has half the matches of the round before it.
LEMMA Halving ==
  ASSUME NEW size \in Nat, NEW k \in Nat
  PROVE  /\ size \div PowerOf2[k] \in Nat
         /\ size \div PowerOf2[k + 1] = (size \div PowerOf2[k]) \div 2
<1>1. PowerOf2[k] \in Nat /\ PowerOf2[k] >= 1 /\ PowerOf2[k + 1] = 2 * PowerOf2[k]
  BY PowerIsMore, Doubling
<1> DEFINE p == PowerOf2[k]
<1> HIDE DEF p
<1>2. p \in Nat /\ p >= 1 /\ size \div PowerOf2[k] = size \div p
      /\ size \div PowerOf2[k + 1] = size \div (2 * p)
  BY <1>1 DEF p
<1>3. size \div p \in Nat
  BY <1>2
<1>4. size \div (2 * p) = (size \div p) \div 2
  BY <1>2
<1> QED
  BY <1>2, <1>3, <1>4

LEMMA HalvesArePowers ==
  ASSUME NEW size \in PowersOf2, NEW k \in Nat
  PROVE  size \div PowerOf2[k] \in PowersOf2 \cup {0}
<1>0. size \in Nat
  BY PowersAre
<1> DEFINE S == {i \in 0 .. k : size \div PowerOf2[i] \in PowersOf2 \cup {0}}
<1>1. 0 \in S
  BY <1>0, Doubling
<1>2. ASSUME NEW i \in 0 .. k, i \in S, i < k
      PROVE  i + 1 \in S
  <2> DEFINE q == size \div PowerOf2[i]
  <2>1. q \in PowersOf2 \cup {0} /\ size \div PowerOf2[i + 1] = q \div 2
    BY <1>0, <1>2, Halving
  <2> HIDE DEF q
  <2>2. q \div 2 \in PowersOf2 \cup {0}
    <3>1. CASE q \in {0, 1}
      <4>1. q \div 2 = 0
        BY <3>1
      <4> QED
        BY <4>1
    <3>2. CASE q \notin {0, 1}
      BY <2>1, <3>2, PowersAre
    <3> QED
      BY <3>1, <3>2
  <2> QED
    BY <1>2, <2>1, <2>2
<1> HIDE DEF S
<1>3. k \in S
  BY <1>1, <1>2, Induction
<1> QED
  BY <1>3 DEF S

LEMMA OffsetsAre ==
  ASSUME NEW size \in Nat, NEW r \in Nat, r >= 1
  PROVE  /\ RoundOffset(size, 1) = 0
         /\ RoundOffset(size, r) \in 0 .. size
         /\ RoundOffset(size, r) = size - (size \div PowerOf2[r - 1])
         /\ RoundOffset(size, r + 1) = size - ((size \div PowerOf2[r - 1]) \div 2)
         /\ RoundOffset(size, r) <= RoundOffset(size, r + 1)
<1>1. r - 1 \in Nat /\ (r - 1) + 1 = r /\ (r + 1) - 1 = r
  OBVIOUS
<1> DEFINE q == size \div PowerOf2[r - 1]
<1>2. q \in Nat /\ size \div PowerOf2[r] = q \div 2
  BY <1>1, Halving
<1>3. size \div PowerOf2[1 - 1] = size
  BY Doubling
<1>4. q <= size
  <2>1. PowerOf2[r - 1] \in Nat /\ PowerOf2[r - 1] >= 1
    BY <1>1, PowerIsMore
  <2> QED
    BY <2>1
<1>5. /\ RoundOffset(size, r) = size - q
      /\ RoundOffset(size, r + 1) = size - (q \div 2)
      /\ RoundOffset(size, 1) = size - size
  BY <1>1, <1>2, <1>3 DEF RoundOffset
<1>6. q = size \div PowerOf2[r - 1]
  OBVIOUS
<1> HIDE DEF q
<1> QED
  BY <1>2, <1>4, <1>5, <1>6

LEMMA OffsetsGrow ==
  ASSUME NEW size \in Nat, NEW r \in Nat, r >= 1, NEW later \in Nat, later > r
  PROVE  RoundOffset(size, r + 1) <= RoundOffset(size, later)
<1> DEFINE N == later - (r + 1)
           S == {d \in 0 .. N : RoundOffset(size, r + 1) <= RoundOffset(size, r + 1 + d)}
<1>0. N \in Nat /\ r + 1 + N = later
  OBVIOUS
<1>1. 0 \in S
  <2>1. RoundOffset(size, r + 1) \in 0 .. size
    BY OffsetsAre
  <2> QED
    BY <1>0, <2>1
<1>2. ASSUME NEW d \in 0 .. N, d \in S, d < N
      PROVE  d + 1 \in S
  <2>1. r + 1 + d \in Nat /\ r + 1 + d >= 1 /\ (r + 1 + d) + 1 = r + 1 + (d + 1)
    BY <1>0
  <2>2. /\ RoundOffset(size, r + 1) \in Int /\ RoundOffset(size, r + 1 + d) \in Int
        /\ RoundOffset(size, r + 1 + (d + 1)) \in Int
        /\ RoundOffset(size, r + 1 + d) <= RoundOffset(size, r + 1 + (d + 1))
    BY <2>1, OffsetsAre
  <2> QED
    BY <1>2, <2>2
<1> HIDE DEF S
<1>3. N \in S
  BY <1>0, <1>1, <1>2, Induction
<1> QED
  BY <1>0, <1>3 DEF S

InRound(size, i, r) == RoundOffset(size, r) < i /\ i <= RoundOffset(size, r + 1)

\* Every match is in exactly one round.
LEMMA RoundIs ==
  ASSUME NEW size \in Nat, NEW i \in 1 .. size
  PROVE  /\ RoundOf(size, i) \in 1 .. size
         /\ InRound(size, i, RoundOf(size, i))
         /\ \A r \in 1 .. size : InRound(size, i, r) => r = RoundOf(size, i)
<1> DEFINE S == {r \in 1 .. size : i <= RoundOffset(size, r + 1)}
<1>1. size \in S
  <2>1. PowerOf2[size] \in Nat /\ PowerOf2[size] > size
    BY PowerIsMore
  <2>2. size \div PowerOf2[size] = 0
    BY <2>1
  <2>3. (size + 1) - 1 = size
    OBVIOUS
  <2>4. RoundOffset(size, size + 1) = size
    BY <2>2, <2>3 DEF RoundOffset
  <2> QED
    BY <2>4
<1>2. PICK m \in S : \A r \in S : m <= r
  <2>1. S \in SUBSET Nat
    OBVIOUS
  <2> HIDE DEF S
  <2> QED
    BY <1>1, <2>1, LeastOf
<1>3. m \in 1 .. size /\ i <= RoundOffset(size, m + 1)
  BY <1>2
<1>4. RoundOffset(size, m) < i
  <2>1. CASE m = 1
    BY <2>1, OffsetsAre
  <2>2. CASE m # 1
    <3>1. m - 1 \in 1 .. size /\ (m - 1) + 1 = m /\ ~ (m <= m - 1)
      BY <1>3, <2>2
    <3>2. ~ (i <= RoundOffset(size, m))
      BY <1>2, <3>1
    <3>3. RoundOffset(size, m) \in Int
      BY <1>3, OffsetsAre
    <3> QED
      BY <3>2, <3>3
  <2> QED
    BY <2>1, <2>2
<1>5. ASSUME NEW r \in 1 .. size, NEW s \in 1 .. size, InRound(size, i, r), InRound(size, i, s), r < s
      PROVE  FALSE
  <2>1. /\ RoundOffset(size, r + 1) <= RoundOffset(size, s)
        /\ RoundOffset(size, r + 1) \in Int /\ RoundOffset(size, s) \in Int
    BY <1>5, OffsetsAre, OffsetsGrow
  <2> QED
    BY <1>5, <2>1 DEF InRound
<1>6. \A r, s \in 1 .. size : InRound(size, i, r) /\ InRound(size, i, s) => r = s
  BY <1>5
<1>7. RoundOf(size, i) = CHOOSE r \in 1 .. size : InRound(size, i, r)
  BY DEF RoundOf, InRound
<1>8. m \in 1 .. size /\ InRound(size, i, m)
  BY <1>3, <1>4 DEF InRound
<1>9. RoundOf(size, i) \in 1 .. size /\ InRound(size, i, RoundOf(size, i))
  BY <1>7, <1>8
<1> QED
  BY <1>6, <1>9

\* The first round is the first half of the matches.
LEMMA FirstRoundIs ==
  ASSUME NEW size \in Nat, size = 2 * (size \div 2), NEW i \in 1 .. size
  PROVE  RoundOf(size, i) = 1 <=> i <= size \div 2
<1>1. RoundOffset(size, 1) = 0 /\ RoundOffset(size, 2) = size - (size \div 2)
  <2>1. PowerOf2[0] = 1 /\ PowerOf2[0 + 1] = 2 * PowerOf2[0]
    BY Doubling
  <2>2. PowerOf2[1 - 1] = 1 /\ PowerOf2[2 - 1] = 2
    BY <2>1
  <2> QED
    BY <2>2 DEF RoundOffset
<1>2. InRound(size, i, 1) <=> i <= size \div 2
  BY <1>1 DEF InRound
<1>3. 1 \in 1 .. size
  OBVIOUS
<1> QED
  BY <1>2, <1>3, RoundIs

\* The slots that are left over before a round, and where its matches lead.
LEMMA RoundHalves ==
  ASSUME NEW size \in PowersOf2, size >= 2, NEW i \in 1 .. size - 1
  PROVE  \E h \in Nat :
           /\ h >= 1 /\ 2 * h <= size /\ (h = 1 \/ h = 2 * (h \div 2))
           /\ RoundOffset(size, RoundOf(size, i)) = size - 2 * h
           /\ RoundOffset(size, RoundOf(size, i) + 1) = size - h
           /\ RoundOffset(size, RoundOf(size, i) + 2) = size - (h \div 2)
           /\ size - 2 * h < i /\ i <= size - h
<1> DEFINE r == RoundOf(size, i)
           q == size \div PowerOf2[r - 1]
<1>0. size \in Nat /\ i \in 1 .. size
  BY PowersAre
<1>1. r \in 1 .. size /\ InRound(size, i, r)
  BY <1>0, RoundIs
<1> HIDE DEF r
<1>2. r \in Nat /\ r >= 1 /\ r + 1 \in Nat /\ r + 1 >= 1 /\ (r + 1) - 1 = r /\ (r + 1) + 1 = r + 2
      /\ r - 1 \in Nat /\ (r - 1) + 1 = r
  BY <1>0, <1>1
<1>3. q \in PowersOf2 \cup {0}
  BY <1>2, HalvesArePowers
<1>4. /\ RoundOffset(size, r) = size - q /\ RoundOffset(size, r) \in 0 .. size
      /\ RoundOffset(size, r + 1) = size - (q \div 2)
      /\ size \div PowerOf2[r] = q \div 2
      /\ RoundOffset(size, r + 2) = size - ((q \div 2) \div 2)
  <2>1. size \div PowerOf2[r] = q \div 2
    BY <1>0, <1>2, Halving
  <2>2. RoundOffset(size, (r + 1) + 1) = size - ((size \div PowerOf2[(r + 1) - 1]) \div 2)
    BY <1>0, <1>2, OffsetsAre
  <2> QED
    BY <1>0, <1>2, <2>1, <2>2, OffsetsAre
<1> HIDE DEF q
<1>5. q \in Nat /\ q # 0 /\ q # 1
  <2>1. q \in Nat
    BY <1>3, PowersAre
  <2>2. ASSUME q \in {0, 1} PROVE FALSE
    <3>1. RoundOffset(size, r) >= size - 1
      BY <1>0, <1>4, <2>2
    <3> QED
      BY <1>0, <1>1, <1>4, <3>1 DEF InRound
  <2> QED
    BY <2>1, <2>2
<1>6. q = 2 * (q \div 2) /\ q \div 2 \in PowersOf2
  BY <1>3, <1>5, PowersAre
<1> DEFINE h == q \div 2
<1>7. h \in Nat /\ h >= 1 /\ (h = 1 \/ h = 2 * (h \div 2)) /\ q = 2 * h
  BY <1>6, PowersAre
<1>8. /\ RoundOffset(size, r + 1) = size - h
      /\ RoundOffset(size, r + 2) = size - (h \div 2)
  BY <1>4
<1> HIDE DEF h
<1>9. 2 * h <= size /\ size - 2 * h < i /\ i <= size - h
  BY <1>0, <1>1, <1>4, <1>7, <1>8 DEF InRound
<1> QED
  BY <1>4, <1>7, <1>8, <1>9 DEF r

\* However the rounds are laid out, match i leads to a match of the next round,
\* two matches to each.
LEMMA NextIs ==
  ASSUME NEW size \in PowersOf2, size >= 2, NEW i \in 1 .. size - 2
  PROVE  /\ NextInTree(size, i) = (size \div 2) + ((i + 1) \div 2)
         /\ RoundOf(size, NextInTree(size, i)) = RoundOf(size, i) + 1
<1>0. /\ size \in Nat /\ size = 2 * (size \div 2) /\ size \div 2 \in Nat
      /\ i \in 1 .. size - 1 /\ i # size - 1
  BY PowersAre
<1> DEFINE r == RoundOf(size, i)
           s == size \div 2
<1>1. PICK h \in Nat :
           /\ h >= 1 /\ 2 * h <= size /\ (h = 1 \/ h = 2 * (h \div 2))
           /\ RoundOffset(size, r) = size - 2 * h
           /\ RoundOffset(size, r + 1) = size - h
           /\ RoundOffset(size, r + 2) = size - (h \div 2)
           /\ size - 2 * h < i /\ i <= size - h
  BY <1>0, RoundHalves
<1>2. r \in 1 .. size
  BY <1>0, RoundIs
<1>3. NextInTree(size, i)
        = RoundOffset(size, r + 1) + ((i - RoundOffset(size, r) - 1) \div 2) + 1
  BY <1>0 DEF NextInTree
<1> HIDE DEF r
<1> DEFINE next == NextInTree(size, i)
<1>4. next = size - h + ((i - (size - 2 * h) - 1) \div 2) + 1
  BY <1>1, <1>3
<1>5. size = 2 * s /\ s \in Nat
  BY <1>0
<1> HIDE DEF s
<1>6. (i - (size - 2 * h) - 1) \div 2 = ((i + 1) \div 2) - s + h - 1
  BY <1>1, <1>5
<1>7. next = s + ((i + 1) \div 2)
  BY <1>1, <1>4, <1>5, <1>6
<1>8. h # 1
  BY <1>0, <1>1
<1> HIDE DEF next
<1>9. size - h < next /\ next <= size - (h \div 2)
  BY <1>1, <1>5, <1>7, <1>8
<1>10. r + 1 \in 1 .. size /\ InRound(size, next, r + 1) /\ next \in 1 .. size
  <2>1. next \in 1 .. size
    <3>1. next \in Int
      BY <1>5, <1>7
    <3>2. size - h >= 1 /\ size - (h \div 2) <= size
      BY <1>0, <1>1
    <3> QED
      BY <1>0, <1>1, <1>9, <3>1, <3>2
  <2>2. InRound(size, next, r + 1)
    <3>1. (r + 1) + 1 = r + 2
      BY <1>2
    <3> QED
      BY <1>1, <1>9, <3>1 DEF InRound
  <2>3. r # size
    <3>1. ASSUME r = size PROVE FALSE
      <4>1. PowerOf2[size] \in Nat /\ PowerOf2[size] > size
        BY <1>0, PowerIsMore
      <4>2. size \div PowerOf2[size] = 0
        BY <1>0, <4>1
      <4>3. (size + 1) - 1 = size
        BY <1>0
      <4>4. RoundOffset(size, size + 1) = size - 0
        BY <4>2, <4>3 DEF RoundOffset
      <4> QED
        BY <1>0, <1>1, <3>1, <4>4
    <3> QED
      BY <3>1
  <2> QED
    BY <1>0, <1>2, <2>1, <2>2, <2>3
<1>11. RoundOf(size, next) = r + 1
  BY <1>0, <1>10, RoundIs
<1> QED
  BY <1>7, <1>11 DEF next, s, r

LEMMA LastLeadsNowhere ==
  ASSUME NEW size
  PROVE  NextInTree(size, size - 1) = 0
  BY DEF NextInTree

-----------------------------------------------------------------------------
(* The seed sort.                                                            *)

\* t is s with p after its first a elements.
Inserted(t, s, a, p) ==
  /\ Len(t) = Len(s) + 1
  /\ \A j \in 1 .. Len(s) + 1 :
       t[j] = IF j <= a THEN s[j] ELSE IF j = a + 1 THEN p ELSE s[j - 1]

LEMMA InsertedAt ==
  ASSUME NEW S, NEW s \in Seq(S), NEW p \in S, NEW a \in 0 .. Len(s)
  PROVE  InsertAt(s, a + 1, p) \in Seq(S) /\ Inserted(InsertAt(s, a + 1, p), s, a, p)
<1> DEFINE front == SubSeq(s, 1, a)
           back == SubSeq(s, a + 1, Len(s))
<1>1. /\ front \in Seq(S) /\ Len(front) = a
      /\ \A j \in 1 .. a : front[j] = s[j]
  OBVIOUS
<1>2. /\ back \in Seq(S) /\ Len(back) = Len(s) - a
      /\ \A j \in 1 .. Len(s) - a : back[j] = s[a + j]
  OBVIOUS
<1>3. InsertAt(s, a + 1, p) = front \o <<p>> \o back
  <2>1. (a + 1) - 1 = a
    OBVIOUS
  <2> QED
    BY <2>1 DEF InsertAt
<1> HIDE DEF front, back
<1>4. Len(s) \in Nat /\ a \in Nat /\ a <= Len(s)
  OBVIOUS
<1>5. /\ front \o <<p>> \in Seq(S) /\ Len(front \o <<p>>) = a + 1
      /\ \A j \in 1 .. a + 1 : (front \o <<p>>)[j] = IF j <= a THEN front[j] ELSE p
  BY <1>1, <1>4
<1> DEFINE t == front \o <<p>> \o back
<1>6. /\ t \in Seq(S) /\ Len(t) = Len(s) + 1
      /\ \A j \in 1 .. Len(s) + 1 :
           t[j] = IF j <= a + 1 THEN (front \o <<p>>)[j] ELSE back[j - (a + 1)]
  BY <1>2, <1>4, <1>5
<1>7. t = InsertAt(s, a + 1, p)
  BY <1>3
<1> HIDE DEF t
<1>8. ASSUME NEW j \in 1 .. Len(s) + 1
      PROVE  t[j] = IF j <= a THEN s[j] ELSE IF j = a + 1 THEN p ELSE s[j - 1]
  <2>1. CASE j <= a
    BY <1>1, <1>4, <1>5, <1>6, <2>1
  <2>2. CASE j = a + 1
    BY <1>4, <1>5, <1>6, <2>2
  <2>3. CASE ~ (j <= a) /\ j # a + 1
    <3>1. /\ j - (a + 1) \in 1 .. Len(s) - a /\ a + (j - (a + 1)) = j - 1
          /\ ~ (j <= a + 1)
      BY <1>4, <2>3
    <3>2. back[j - (a + 1)] = s[j - 1]
      BY <1>2, <3>1
    <3>3. t[j] = s[j - 1]
      BY <1>6, <3>1, <3>2
    <3> QED
      BY <2>3, <3>3
  <2> QED
    BY <2>1, <2>2, <2>3
<1> QED
  BY <1>6, <1>7, <1>8 DEF Inserted

Entry == [id : Nat, seed : SeedValues \cup {NoSeed}]

\* The rows of the participants, numbered in the order the query returns them.
Listed(list) == list \in Seq(Entry) /\ \A i \in 1 .. Len(list) : list[i].id = i

\* s is the first k rows in some order.
Arranged(s, k, list) ==
  /\ s \in Seq(Entry) /\ Len(s) = k
  /\ \A j \in 1 .. k : s[j].id \in 1 .. k /\ s[j] = list[s[j].id]
  /\ \A j, l \in 1 .. k : s[j].id = s[l].id => j = l
  /\ \A x \in 1 .. k : \E j \in 1 .. k : s[j].id = x

BySeed(s) == \A j, l \in 1 .. Len(s) : j < l => SeedKey(s[j]) <= SeedKey(s[l])

\* The place of the new row: after the last one it does not precede.
PlaceOf(s, p) ==
  LET stops == {k \in 1 .. Len(s) : CompareSeeds(p, s[k]) >= 0}
  IN  IF stops = {} THEN 0 ELSE Max(stops)

LEMMA PlaceIs ==
  ASSUME NEW s \in Seq(Entry), NEW p
  PROVE  /\ PlaceOf(s, p) \in 0 .. Len(s)
         /\ PlaceOf(s, p) # 0 => CompareSeeds(p, s[PlaceOf(s, p)]) >= 0
         /\ \A j \in 1 .. Len(s) : j > PlaceOf(s, p) => ~ (CompareSeeds(p, s[j]) >= 0)
         /\ InsertBySeed(s, p) = InsertAt(s, PlaceOf(s, p) + 1, p)
<1> DEFINE stops == {k \in 1 .. Len(s) : CompareSeeds(p, s[k]) >= 0}
<1>1. Len(s) \in Nat /\ stops \in SUBSET (1 .. Len(s))
  OBVIOUS
<1>2. PlaceOf(s, p) = IF stops = {} THEN 0 ELSE Max(stops)
  BY DEF PlaceOf
<1>3. InsertBySeed(s, p) = InsertAt(s, PlaceOf(s, p) + 1, p)
  BY DEF InsertBySeed, PlaceOf
<1>4. \A k \in 1 .. Len(s) : k \in stops <=> CompareSeeds(p, s[k]) >= 0
  OBVIOUS
<1> HIDE DEF stops
<1>5. CASE stops = {}
  <2>1. PlaceOf(s, p) = 0
    BY <1>2, <1>5
  <2> QED
    BY <1>1, <1>3, <1>4, <1>5, <2>1
<1>6. CASE stops # {}
  <2>1. PlaceOf(s, p) \in stops /\ \A k \in stops : k <= PlaceOf(s, p)
    BY <1>1, <1>2, <1>6, MaxOf
  <2>2. PlaceOf(s, p) \in 1 .. Len(s)
    BY <1>1, <2>1
  <2> QED
    BY <1>3, <1>4, <2>1, <2>2
<1> QED
  BY <1>5, <1>6

LEMMA InsertIs ==
  ASSUME NEW s \in Seq(Entry), NEW p \in Entry
  PROVE  /\ InsertBySeed(s, p) \in Seq(Entry)
         /\ Inserted(InsertBySeed(s, p), s, PlaceOf(s, p), p)
  BY PlaceIs, InsertedAt

Sorts(g, list) ==
  g = [k \in 0 .. Len(list) |-> IF k = 0 THEN <<>> ELSE InsertBySeed(g[k - 1], list[k])]

\* Sorting inserts one row after the other.
LEMMA SortIs ==
  ASSUME NEW list, Listed(list)
  PROVE  \E g :
           /\ g[0] = <<>>
           /\ \A k \in 1 .. Len(list) : g[k] = InsertBySeed(g[k - 1], list[k])
           /\ SortBySeed(list) = g[Len(list)]
<1> DEFINE n == Len(list)
           rows == Seq(Entry)
           insert == [x \in rows \X (1 .. n) |-> InsertBySeed(x[1], list[x[2]])]
<1>0. n \in Nat /\ list \in Seq(Entry)
  BY DEF Listed
<1>1. insert \in [rows \X (1 .. n) -> rows]
  <2>1. ASSUME NEW x \in rows \X (1 .. n) PROVE InsertBySeed(x[1], list[x[2]]) \in rows
    <3>1. x[1] \in Seq(Entry) /\ list[x[2]] \in Entry
      BY <1>0
    <3> QED
      BY <3>1, InsertIs
  <2> QED
    BY <2>1
<1>2. \A s \in rows, k \in 1 .. n : insert[<<s, k>>] = InsertBySeed(s, list[k])
  OBVIOUS
<1>3. <<>> \in rows
  OBVIOUS
<1> HIDE DEF rows, insert, n
<1>4. PICK g \in [0 .. n -> rows] : Recurs(g, n, <<>>, insert)
  BY <1>0, <1>1, <1>3, RecursionExists
<1>5. ASSUME NEW k \in 0 .. n
      PROVE  g[k] = IF k = 0 THEN <<>> ELSE InsertBySeed(g[k - 1], list[k])
  <2>1. k # 0 => k - 1 \in 0 .. n /\ k \in 1 .. n
    BY <1>0
  <2>2. k # 0 => insert[<<g[k - 1], k>>] = InsertBySeed(g[k - 1], list[k])
    BY <1>2, <1>4, <2>1
  <2> QED
    BY <1>4, <2>2 DEF Recurs
<1>6. g = [k \in 0 .. n |-> IF k = 0 THEN <<>> ELSE InsertBySeed(g[k - 1], list[k])]
  BY <1>4, <1>5
<1>7. \E h : Sorts(h, list)
  BY <1>6 DEF Sorts, n
<1>8. SortBySeed(list) = (CHOOSE h : Sorts(h, list))[Len(list)]
  BY DEF SortBySeed, Sorts
<1>9. PICK f : Sorts(f, list) /\ SortBySeed(list) = f[Len(list)]
  BY <1>7, <1>8
<1>10. \A k \in 0 .. n : f[k] = IF k = 0 THEN <<>> ELSE InsertBySeed(f[k - 1], list[k])
  BY <1>9 DEF Sorts, n
<1>11. 0 \in 0 .. n /\ \A k \in 1 .. n : k \in 0 .. n /\ k # 0
  BY <1>0
<1>12. f[0] = <<>> /\ \A k \in 1 .. n : f[k] = InsertBySeed(f[k - 1], list[k])
  BY <1>10, <1>11
<1> QED
  BY <1>9, <1>12 DEF n

\* One more row inserted is one more row arranged.
LEMMA InsertArranged ==
  ASSUME NEW list, Listed(list), NEW k \in Nat, k + 1 \in 1 .. Len(list), NEW s, Arranged(s, k, list)
  PROVE  Arranged(InsertBySeed(s, list[k + 1]), k + 1, list)
<1> DEFINE p == list[k + 1]
           a == PlaceOf(s, p)
           t == InsertBySeed(s, p)
<1>1. s \in Seq(Entry) /\ Len(s) = k /\ p \in Entry /\ p.id = k + 1
  BY DEF Arranged, Listed
<1>2. a \in 0 .. k
  BY <1>1, PlaceIs
<1>3. /\ t \in Seq(Entry) /\ Len(t) = k + 1
      /\ \A j \in 1 .. k + 1 : t[j] = IF j <= a THEN s[j] ELSE IF j = a + 1 THEN p ELSE s[j - 1]
  BY <1>1, InsertIs DEF Inserted
<1>4. /\ \A j \in 1 .. k : s[j].id \in 1 .. k /\ s[j] = list[s[j].id]
      /\ \A j, l \in 1 .. k : s[j].id = s[l].id => j = l
      /\ \A x \in 1 .. k : \E j \in 1 .. k : s[j].id = x
  BY DEF Arranged
<1>5. p = list[k + 1]
  OBVIOUS
<1> HIDE DEF p, a, t
\* Where a row of t was in s.
<1> DEFINE was(j) == IF j <= a THEN j ELSE j - 1
<1>6. \A j \in 1 .. k + 1 : j # a + 1 => was(j) \in 1 .. k /\ t[j] = s[was(j)]
  BY <1>2, <1>3
<1>7. t[a + 1] = p /\ a + 1 \in 1 .. k + 1
  BY <1>2, <1>3
<1>8. \A j, l \in 1 .. k + 1 : j # a + 1 /\ l # a + 1 /\ was(j) = was(l) => j = l
  BY <1>2
<1>9. \A i \in 1 .. k : \E j \in 1 .. k + 1 : j # a + 1 /\ was(j) = i
  <2>1. ASSUME NEW i \in 1 .. k PROVE \E j \in 1 .. k + 1 : j # a + 1 /\ was(j) = i
    <3>1. CASE i <= a
      BY <1>2, <3>1
    <3>2. CASE i > a
      <4>1. i + 1 \in 1 .. k + 1 /\ i + 1 # a + 1 /\ ~ (i + 1 <= a) /\ (i + 1) - 1 = i
        BY <1>2, <3>2
      <4> QED
        BY <4>1
    <3> QED
      BY <1>2, <3>1, <3>2
  <2> QED
    BY <2>1
<1> HIDE DEF was
<1>10. \A j \in 1 .. k + 1 : j # a + 1 => \E i \in 1 .. k : i = was(j) /\ t[j] = s[i]
  BY <1>6
<1>11. \A i \in 1 .. k : s[i].id \in Int /\ s[i].id >= 1 /\ s[i].id <= k
  BY <1>4
<1>12. ASSUME NEW j \in 1 .. k + 1
       PROVE  t[j].id \in 1 .. k + 1 /\ t[j] = list[t[j].id]
  <2>1. CASE j = a + 1
    BY <1>1, <1>5, <1>7, <2>1
  <2>2. CASE j # a + 1
    <3>1. PICK i \in 1 .. k : t[j] = s[i]
      BY <1>10, <2>2
    <3>2. s[i].id \in 1 .. k /\ s[i] = list[s[i].id]
      BY <1>4
    <3>3. s[i].id \in 1 .. k + 1
      BY <3>2
    <3> QED
      BY <3>1, <3>2, <3>3
  <2> QED
    BY <2>1, <2>2
<1>13. ASSUME NEW j \in 1 .. k + 1, j # a + 1 PROVE t[j].id # t[a + 1].id
  <2>1. PICK i \in 1 .. k : t[j] = s[i]
    BY <1>10, <1>13
  <2> QED
    BY <1>1, <1>7, <1>11, <2>1
<1>14. ASSUME NEW j \in 1 .. k + 1, NEW l \in 1 .. k + 1, t[j].id = t[l].id
       PROVE  j = l
  <2>1. CASE j # a + 1 /\ l # a + 1
    <3>1. PICK i \in 1 .. k : i = was(j) /\ t[j] = s[i]
      BY <1>10, <2>1
    <3>2. PICK h \in 1 .. k : h = was(l) /\ t[l] = s[h]
      BY <1>10, <2>1
    <3>3. s[i].id = s[h].id
      BY <1>14, <3>1, <3>2
    <3>4. i = h
      BY <1>4, <3>3
    <3> QED
      BY <1>8, <2>1, <3>1, <3>2, <3>4
  <2>2. CASE j = a + 1 \/ l = a + 1
    BY <1>13, <1>14, <2>2
  <2> QED
    BY <2>1, <2>2
<1>15. ASSUME NEW x \in 1 .. k + 1
       PROVE  \E j \in 1 .. k + 1 : t[j].id = x
  <2>1. CASE x = k + 1
    BY <1>1, <1>7, <2>1
  <2>2. CASE x # k + 1
    <3>0. x \in 1 .. k
      BY <2>2
    <3>1. PICK i \in 1 .. k : s[i].id = x
      BY <1>4, <3>0
    <3>2. PICK j \in 1 .. k + 1 : j # a + 1 /\ was(j) = i
      BY <1>9
    <3> QED
      BY <1>6, <3>1, <3>2
  <2> QED
    BY <2>1, <2>2
<1>16. Arranged(t, k + 1, list)
  BY <1>3, <1>12, <1>14, <1>15 DEF Arranged
<1> QED
  BY <1>16 DEF t, p

LEMMA SortArranges ==
  ASSUME NEW list, Listed(list)
  PROVE  Arranged(SortBySeed(list), Len(list), list)
<1> DEFINE n == Len(list)
<1>0. n \in Nat
  BY DEF Listed
<1>1. PICK g : /\ g[0] = <<>>
               /\ \A k \in 1 .. n : g[k] = InsertBySeed(g[k - 1], list[k])
               /\ SortBySeed(list) = g[n]
  BY SortIs
<1> DEFINE S == {k \in 0 .. n : Arranged(g[k], k, list)}
<1>2. 0 \in S
  <2>1. <<>> \in Seq(Entry) /\ Len(<<>>) = 0 /\ 1 .. 0 = {}
    OBVIOUS
  <2>2. Arranged(<<>>, 0, list)
    BY <2>1 DEF Arranged
  <2> QED
    BY <1>0, <1>1, <2>2
<1>3. ASSUME NEW k \in 0 .. n, k \in S, k < n
      PROVE  k + 1 \in S
  <2>1. k \in Nat /\ k + 1 \in 1 .. n /\ (k + 1) - 1 = k
    BY <1>0, <1>3
  <2>2. g[k + 1] = InsertBySeed(g[k], list[k + 1])
    BY <1>1, <2>1
  <2>3. Arranged(g[k + 1], k + 1, list)
    BY <1>3, <2>1, <2>2, InsertArranged
  <2> QED
    BY <2>1, <2>3
<1> HIDE DEF S, n
<1>4. n \in S
  BY <1>0, <1>2, <1>3, Induction
<1> QED
  BY <1>1, <1>4 DEF S, n

\* Seeds that are not negative subtract without overflow.
Comparable(e) == SeedKey(e) \in 0 .. IntMax

LEMMA CompareIs ==
  ASSUME NEW e, NEW f, Comparable(e), Comparable(f)
  PROVE  CompareSeeds(e, f) >= 0 <=> SeedKey(e) >= SeedKey(f)
<1> DEFINE d == SeedKey(e) - SeedKey(f)
           m == 2 * (IntMax + 1)
<1>1. IntMax \in Nat
  BY IntMaxAssumption
<1>2. d \in Int /\ -IntMax <= d /\ d <= IntMax
  BY <1>1 DEF Comparable
<1>3. m \in Nat /\ m > 0 /\ d + IntMax + 1 \in 0 .. m - 1
  BY <1>1, <1>2
<1>4. CompareSeeds(e, f) = ((d + IntMax + 1) % m) - (IntMax + 1)
  BY DEF CompareSeeds, Wrap
<1>5. d >= 0 <=> SeedKey(e) >= SeedKey(f)
  BY <1>1 DEF Comparable
<1> HIDE DEF d, m
<1>6. (d + IntMax + 1) % m = d + IntMax + 1
  BY <1>1, <1>2, <1>3
<1> QED
  BY <1>1, <1>2, <1>4, <1>5, <1>6

LEMMA InsertSorted ==
  ASSUME NEW s \in Seq(Entry), NEW p \in Entry, BySeed(s), Comparable(p),
         \A j \in 1 .. Len(s) : Comparable(s[j])
  PROVE  /\ BySeed(InsertBySeed(s, p))
         /\ \A j \in 1 .. Len(s) + 1 : Comparable(InsertBySeed(s, p)[j])
<1> DEFINE a == PlaceOf(s, p)
           k == Len(s)
           t == InsertBySeed(s, p)
<1>1. k \in Nat /\ a \in 0 .. k
  BY PlaceIs
<1>2. /\ t \in Seq(Entry) /\ Len(t) = k + 1
      /\ \A j \in 1 .. k + 1 : t[j] = IF j <= a THEN s[j] ELSE IF j = a + 1 THEN p ELSE s[j - 1]
  BY InsertIs DEF Inserted
<1>3. a # 0 => SeedKey(s[a]) <= SeedKey(p)
  <2>1. a # 0 => a \in 1 .. k /\ CompareSeeds(p, s[a]) >= 0
    BY <1>1, PlaceIs
  <2>2. a # 0 => SeedKey(p) >= SeedKey(s[a])
    BY <2>1, CompareIs
  <2> QED
    BY <2>1, <2>2 DEF Comparable
<1>4. ASSUME NEW j \in 1 .. k, j > a PROVE SeedKey(p) <= SeedKey(s[j])
  <2>1. ~ (CompareSeeds(p, s[j]) >= 0)
    BY <1>4, PlaceIs
  <2>2. ~ (SeedKey(p) >= SeedKey(s[j]))
    BY <2>1, CompareIs
  <2> QED
    BY <2>2 DEF Comparable
<1>5. \A j \in 1 .. k : SeedKey(s[j]) \in Int
  BY DEF Comparable
<1>6. \A j, l \in 1 .. k : j < l => SeedKey(s[j]) <= SeedKey(s[l])
  BY DEF BySeed
<1>7. SeedKey(p) \in Int
  BY DEF Comparable
<1> HIDE DEF a, k, t
<1>8. ASSUME NEW j \in 1 .. k, j <= a PROVE SeedKey(s[j]) <= SeedKey(p)
  <2>1. a \in 1 .. k /\ SeedKey(s[a]) <= SeedKey(p)
    BY <1>1, <1>3, <1>8
  <2>2. j = a \/ SeedKey(s[j]) <= SeedKey(s[a])
    BY <1>1, <1>6, <1>8, <2>1
  <2> QED
    BY <1>5, <1>7, <2>1, <2>2
<1>9. ASSUME NEW j \in 1 .. k + 1, NEW l \in 1 .. k + 1, j < l
      PROVE  SeedKey(t[j]) <= SeedKey(t[l])
  <2>1. CASE l <= a
    <3>1. j \in 1 .. k /\ l \in 1 .. k /\ t[j] = s[j] /\ t[l] = s[l]
      BY <1>1, <1>2, <1>9, <2>1
    <3> QED
      BY <1>6, <1>9, <3>1
  <2>2. CASE l = a + 1
    <3>1. j \in 1 .. k /\ j <= a /\ t[j] = s[j] /\ t[l] = p
      BY <1>1, <1>2, <1>9, <2>2
    <3> QED
      BY <1>8, <3>1
  <2>3. CASE l > a + 1
    <3>1. l - 1 \in 1 .. k /\ l - 1 > a /\ t[l] = s[l - 1]
      BY <1>1, <1>2, <2>3
    <3>2. CASE j <= a
      <4>1. j \in 1 .. k /\ j < l - 1 /\ t[j] = s[j]
        BY <1>1, <1>2, <2>3, <3>2
      <4> QED
        BY <1>6, <3>1, <4>1
    <3>3. CASE j = a + 1
      <4>1. t[j] = p
        BY <1>1, <1>2, <3>3
      <4> QED
        BY <1>4, <3>1, <4>1
    <3>4. CASE j > a + 1
      <4>1. j - 1 \in 1 .. k /\ j - 1 < l - 1 /\ t[j] = s[j - 1]
        BY <1>1, <1>2, <1>9, <3>4
      <4> QED
        BY <1>6, <3>1, <4>1
    <3> QED
      BY <1>1, <3>2, <3>3, <3>4
  <2> QED
    BY <1>1, <2>1, <2>2, <2>3
<1>10. ASSUME NEW j \in 1 .. k + 1 PROVE Comparable(t[j])
  <2>1. t[j] = p \/ \E i \in 1 .. k : t[j] = s[i]
    BY <1>1, <1>2
  <2> QED
    BY <2>1 DEF k
<1> QED
  BY <1>2, <1>9, <1>10 DEF BySeed, t, k

LEMMA SortSorts ==
  ASSUME NEW list, Listed(list), \A i \in 1 .. Len(list) : Comparable(list[i])
  PROVE  BySeed(SortBySeed(list))
<1> DEFINE n == Len(list)
<1>0. n \in Nat
  BY DEF Listed
<1>1. PICK g : /\ g[0] = <<>>
               /\ \A k \in 1 .. n : g[k] = InsertBySeed(g[k - 1], list[k])
               /\ SortBySeed(list) = g[n]
  BY SortIs
<1> DEFINE S == {k \in 0 .. n : /\ g[k] \in Seq(Entry) /\ Len(g[k]) = k /\ BySeed(g[k])
                                /\ \A j \in 1 .. k : Comparable(g[k][j])}
<1>2. 0 \in S
  <2>1. <<>> \in Seq(Entry) /\ Len(<<>>) = 0 /\ 1 .. 0 = {}
    OBVIOUS
  <2>2. BySeed(<<>>)
    BY <2>1 DEF BySeed
  <2>3. \A j \in 1 .. 0 : Comparable(g[0][j])
    BY <2>1
  <2>4. g[0] \in Seq(Entry) /\ Len(g[0]) = 0 /\ BySeed(g[0]) /\ 0 \in 0 .. n
    BY <1>0, <1>1, <2>1, <2>2
  <2> QED
    BY <2>3, <2>4
<1>3. ASSUME NEW k \in 0 .. n, k \in S, k < n
      PROVE  k + 1 \in S
  <2>1. k \in Nat /\ k + 1 \in 1 .. n /\ (k + 1) - 1 = k
    BY <1>0, <1>3
  <2>2. g[k + 1] = InsertBySeed(g[k], list[k + 1])
    BY <1>1, <2>1
  <2>3. list[k + 1] \in Entry /\ Comparable(list[k + 1])
    BY <2>1 DEF Listed
  <2> DEFINE s == g[k]
             p == list[k + 1]
  <2>4. s \in Seq(Entry) /\ Len(s) = k /\ BySeed(s) /\ \A j \in 1 .. k : Comparable(s[j])
    BY <1>3
  <2> HIDE DEF s, p
  <2>5. p \in Entry /\ Comparable(p)
    BY <2>3 DEF p
  <2>6. /\ InsertBySeed(s, p) \in Seq(Entry) /\ Len(InsertBySeed(s, p)) = k + 1
        /\ BySeed(InsertBySeed(s, p))
        /\ \A j \in 1 .. k + 1 : Comparable(InsertBySeed(s, p)[j])
    BY <2>4, <2>5, InsertIs, InsertSorted DEF Inserted
  <2>7. k + 1 \in 0 .. n
    BY <2>1
  <2> QED
    BY <2>2, <2>6, <2>7 DEF s, p
<1> HIDE DEF S, n
<1>4. \A k \in 0 .. n : k \in S /\ k < n => k + 1 \in S
  BY <1>3
<1>5. 0 .. n \subseteq S
  BY <1>0, <1>2, <1>4, Induction
<1>6. n \in S
  BY <1>0, <1>5
<1> QED
  BY <1>1, <1>6 DEF S, n

-----------------------------------------------------------------------------
(* What a generation leaves.                                                 *)

\* s is an order of the participants 1 .. n.
Order(s, n) ==
  /\ s \in [1 .. n -> 1 .. n]
  /\ \A i, j \in 1 .. n : s[i] = s[j] => i = j
  /\ \A x \in 1 .. n : \E i \in 1 .. n : s[i] = x

Generated ==
  /\ Listed(listed)
  /\ format # "none" => Len(listed) >= 2 /\ Order(seeded, Len(listed))
  /\ \/ format = "none"
     \/ /\ format \in Formats \ {"swiss"}
        /\ seeded = Ids(SortBySeed(listed))
        /\ matches = Draw(format, seeded)
     \/ format = "swiss" /\ matches = SwissRoundOne(seeded)

LEMMA ListsAreListed == ASSUME NEW list \in Lists PROVE Listed(list)
<1>0. \A n : n \in 0 .. MaxEntrants \/ n \in 1 .. MaxSeeded => n \in Nat
  BY ListAssumption
<1>1. PICK n \in Nat : \E f \in [1 .. n -> SeedValues \cup {NoSeed}] :
        list = [i \in 1 .. n |-> [id |-> i, seed |-> f[i]]]
  <2>1. ASSUME NEW n \in 0 .. MaxEntrants, list = [i \in 1 .. n |-> [id |-> i, seed |-> NoSeed]]
        PROVE  \E f \in [1 .. n -> SeedValues \cup {NoSeed}] :
                 list = [i \in 1 .. n |-> [id |-> i, seed |-> f[i]]]
    <3> DEFINE f == [i \in 1 .. n |-> NoSeed]
    <3>1. f \in [1 .. n -> SeedValues \cup {NoSeed}]
      OBVIOUS
    <3>2. list = [i \in 1 .. n |-> [id |-> i, seed |-> f[i]]]
      BY <2>1
    <3> HIDE DEF f
    <3> QED
      BY <3>1, <3>2
  <2>2. \/ \E n \in 0 .. MaxEntrants : list = [i \in 1 .. n |-> [id |-> i, seed |-> NoSeed]]
        \/ \E n \in 1 .. MaxSeeded : \E f \in [1 .. n -> SeedValues \cup {NoSeed}] :
             list = [i \in 1 .. n |-> [id |-> i, seed |-> f[i]]]
    BY DEF Lists
  <2> QED
    BY <1>0, <2>1, <2>2
<1> PICK f \in [1 .. n -> SeedValues \cup {NoSeed}] :
       list = [i \in 1 .. n |-> [id |-> i, seed |-> f[i]]]
  BY <1>1
<1>2. \A i \in 1 .. n : [id |-> i, seed |-> f[i]] \in Entry
  BY DEF Entry
<1>3. list \in [1 .. n -> Entry]
  BY <1>2
<1>4. list \in Seq(Entry) /\ Len(list) = n
  BY <1>3
<1>5. \A i \in 1 .. n : list[i].id = i
  OBVIOUS
<1> QED
  BY <1>4, <1>5 DEF Listed

LEMMA SortedOrder ==
  ASSUME NEW list, Listed(list)
  PROVE  Order(Ids(SortBySeed(list)), Len(list))
<1> DEFINE n == Len(list)
           s == SortBySeed(list)
<1>1. Arranged(s, n, list)
  BY SortArranges
<1> HIDE DEF s, n
<1>2. Ids(s) = [i \in 1 .. n |-> s[i].id]
  BY <1>1 DEF Ids, Arranged
<1>3. Order(Ids(s), n)
  BY <1>1, <1>2 DEF Arranged, Order
<1> QED
  BY <1>3 DEF s, n

\* A shuffle is an order too.
LEMMA ShuffledOrder ==
  ASSUME NEW n \in Nat, NEW s, Order(s, n), NEW t \in SetToSeqs(ToSet(s))
  PROVE  Order(t, n)
<1>1. ToSet(s) = 1 .. n
  BY DEF ToSet, Order
<1>2. IsFiniteSet(1 .. n) /\ Cardinality(1 .. n) = n
  BY FS_Interval
<1>3. t \in [1 .. n -> 1 .. n] /\ \A i, j \in 1 .. n : i # j => t[i] # t[j]
  BY <1>1, <1>2 DEF SetToSeqs
<1>4. t \in Injection(1 .. n, 1 .. n)
  BY <1>3 DEF Injection, IsInjective
<1>5. t \in Surjection(1 .. n, 1 .. n)
  BY <1>2, <1>4, FS_Injection
<1> QED
  BY <1>3, <1>5 DEF Surjection, Order

LEMMA InitGenerated == Init => Generated
  BY ListsAreListed DEF Init, Generated

LEMMA StepGenerated == Generated /\ [Next]_vars => Generated'
<1> SUFFICES ASSUME Generated, [Next]_vars PROVE Generated'
  OBVIOUS
<1>1. ASSUME NEW f \in Formats \ {"swiss"}, GenerateDrawn(f)
      PROVE  Generated'
  <2>1. listed' = listed /\ Len(listed) >= 2 /\ Listed(listed)
    BY <1>1 DEF GenerateDrawn, Generated
  <2>2. seeded' = Ids(SortBySeed(listed)) /\ format' = f /\ matches' = Draw(f, seeded')
    BY <1>1 DEF GenerateDrawn
  <2>3. Order(seeded', Len(listed))
    BY <2>1, <2>2, SortedOrder
  <2> QED
    BY <2>1, <2>2, <2>3 DEF Generated
<1>2. CASE GenerateSwiss
  <2>1. listed' = listed /\ Len(listed) >= 2 /\ Listed(listed) /\ Len(listed) \in Nat
    BY <1>2, ListAssumption DEF GenerateSwiss, Generated
  <2>2. /\ seeded' \in SetToSeqs(ToSet(Ids(SortBySeed(listed))))
        /\ format' = "swiss" /\ matches' = SwissRoundOne(seeded')
    BY <1>2 DEF GenerateSwiss
  <2>3. Order(seeded', Len(listed))
    BY <2>1, <2>2, SortedOrder, ShuffledOrder
  <2> QED
    BY <2>1, <2>2, <2>3 DEF Generated
<1>3. CASE UNCHANGED vars
  BY <1>3 DEF Generated, vars
<1> QED
  BY <1>1, <1>2, <1>3 DEF Next, RefuseGeneration

LEMMA AlwaysGenerated == Spec => []Generated
  BY InitGenerated, StepGenerated, PTL DEF Spec

\* As long as no seed is negative, seeds are drawn in their order and before
\* those without one (the comparator of generateBracket, seedA - seedB).
THEOREM SeedsComeFirst == Spec => []SeedsAreRespected
<1>1. Generated => SeedsAreRespected
  <2> SUFFICES ASSUME Generated, format \notin {"none", "swiss"},
                      \A i \in 1 .. Len(listed) : SeedKey(listed[i]) >= 0,
                      NEW i \in 1 .. Len(seeded), NEW j \in 1 .. Len(seeded),
                      SeedKey(listed[seeded[i]]) < SeedKey(listed[seeded[j]])
               PROVE  i < j
    BY DEF SeedsAreRespected
  <2> DEFINE n == Len(listed)
             s == SortBySeed(listed)
  <2>1. Listed(listed) /\ seeded = Ids(s) /\ n \in Nat
    BY DEF Generated, Listed
  <2>2. Arranged(s, n, listed)
    BY <2>1, SortArranges
  <2>3. ASSUME NEW k \in 1 .. n PROVE Comparable(listed[k])
    <3>1. listed[k] \in Entry /\ SeedKey(listed[k]) >= 0
      BY <2>1 DEF Listed
    <3>2. SeedKey(listed[k]) \in Int /\ SeedKey(listed[k]) <= IntMax
      <4>1. listed[k].seed \in SeedValues \cup {NoSeed}
        BY <3>1 DEF Entry
      <4>2. IntMax \in Int /\ \A v \in SeedValues : v \in Int /\ v <= IntMax
        BY ListAssumption, IntMaxAssumption
      <4>3. CASE listed[k].seed = NoSeed
        BY <4>2, <4>3 DEF SeedKey
      <4>4. CASE listed[k].seed # NoSeed
        BY <4>1, <4>2, <4>4 DEF SeedKey
      <4> QED
        BY <4>3, <4>4
    <3> QED
      BY <3>1, <3>2 DEF Comparable
  <2>4. BySeed(s)
    BY <2>1, <2>3, SortSorts
  <2> HIDE DEF s
  <2>5. Len(s) = n /\ seeded = [k \in 1 .. n |-> s[k].id]
    BY <2>1, <2>2 DEF Ids, Arranged
  <2>6. i \in 1 .. n /\ j \in 1 .. n
    BY <2>1, <2>5
  <2>7. listed[seeded[i]] = s[i] /\ listed[seeded[j]] = s[j]
    BY <2>2, <2>5, <2>6 DEF Arranged
  <2>8. SeedKey(s[i]) < SeedKey(s[j])
    BY <2>7
  <2>9. Comparable(s[i]) /\ Comparable(s[j])
    BY <2>2, <2>3, <2>6 DEF Arranged
  <2>10. SeedKey(s[i]) \in Int /\ SeedKey(s[j]) \in Int
    BY <2>9 DEF Comparable
  <2>11. i # j /\ ~ (j < i)
    BY <2>4, <2>5, <2>6, <2>8, <2>10 DEF BySeed
  <2> QED
    BY <2>6, <2>11
<1> QED
  BY <1>1, AlwaysGenerated, PTL

-----------------------------------------------------------------------------
(* The matches of a knockout.                                                *)

\* size slots for n participants.
Slots(size, n) ==
  /\ size \in PowersOf2 /\ size \in Nat /\ size >= 2 /\ size = 2 * (size \div 2)
  /\ size \div 2 \in Nat /\ size \div 2 < n /\ n \in Nat /\ n <= size

\* Match i of the first round: slot i meets slot size + 1 - i, if it is taken.
Seated(m, s, n, size, i) ==
  /\ m.p1 = s[i]
  /\ m.p2 = IF size + 1 - i <= n THEN s[size + 1 - i] ELSE NoParticipant
  /\ m.status = IF size + 1 - i <= n THEN "pending" ELSE "bye"
  /\ size + 1 - i > n => m.winner = s[i]

\* The matches 1 .. size - 1 of M, and they alone, are a winners' side.
Tree(M, size) ==
  /\ Len(M) \in Nat /\ size - 1 <= Len(M)
  /\ \A i \in 1 .. Len(M) : M[i].side = "winners" <=> i <= size - 1
  /\ \A i \in 1 .. Len(M) : M[i].round = 1 <=> i <= size \div 2
  /\ \A i \in 1 .. size - 1 : M[i].round = RoundOf(size, i)
  /\ \A i \in 1 .. size - 2 : M[i].next = NextInTree(size, i)
  /\ \A i \in 1 .. Len(M) : i > size - 2 => M[i].next = 0 \/ M[i].next > size - 1

Knockout(M, s, n, size) ==
  /\ Slots(size, n)
  /\ Tree(M, size)
  /\ \A i \in 1 .. size \div 2 : Seated(M[i], s, n, size, i)

Fields == {"round", "side", "p1", "p2", "winner", "status", "next", "loserNext"}

\* m is a record with the fields of a match.
IsMatch(m) == m = [x \in Fields |-> m[x]]

LEMMA OpenMatchIs ==
  ASSUME NEW r, NEW d
  PROVE  /\ OpenMatch(r, d).round = r /\ OpenMatch(r, d).side = d
         /\ OpenMatch(r, d).next = 0 /\ OpenMatch(r, d).loserNext = 0
         /\ IsMatch(OpenMatch(r, d))
  BY DEF OpenMatch, IsMatch, Fields

LeadingTo(m, next) == [m EXCEPT !.next = next]

LEMMA FirstRoundMatchIs ==
  ASSUME NEW n, NEW size, Slots(size, n), NEW s, Order(s, n), NEW i \in 1 .. (size \div 2),
         NEW next, NEW m, m = LeadingTo(FirstRoundMatch(s, size, i), next)
  PROVE  /\ m.round = 1 /\ m.side = "winners" /\ m.next = next /\ m.loserNext = 0
         /\ Seated(m, s, n, size, i) /\ IsMatch(m)
<1> DEFINE right == IF size + 1 - i <= n THEN s[size + 1 - i] ELSE NoParticipant
           bye == (s[i] = NoParticipant) # (right = NoParticipant)
           f == [OpenMatch(1, "winners") EXCEPT
                   !.p1     = s[i],
                   !.p2     = right,
                   !.status = IF bye THEN "bye" ELSE "pending",
                   !.winner = IF ~bye THEN NoParticipant
                              ELSE IF s[i] # NoParticipant THEN s[i] ELSE right]
<1>1. Len(s) = n /\ i <= n /\ i \in 1 .. n /\ n \in Nat /\ size \in Nat /\ i \in Nat
  BY DEF Order, Slots
<1>2. FirstRoundMatch(s, size, i) = f
  BY <1>1 DEF FirstRoundMatch
<1>3. s[i] # NoParticipant
  BY <1>1, NoParticipantAssumption DEF Order
<1>4. right = NoParticipant <=> ~ (size + 1 - i <= n)
  <2>1. size + 1 - i <= n => size + 1 - i \in 1 .. n
    BY <1>1 DEF Slots
  <2> QED
    BY <2>1, NoParticipantAssumption DEF Order
<1>5. bye <=> ~ (size + 1 - i <= n)
  BY <1>3, <1>4
<1> HIDE DEF bye, right
<1>6. /\ f.round = 1 /\ f.side = "winners" /\ f.loserNext = 0
      /\ f.p1 = s[i] /\ f.p2 = right
      /\ f.status = IF bye THEN "bye" ELSE "pending"
      /\ bye => f.winner = s[i]
  BY <1>3 DEF OpenMatch
<1>7. \A g : g = [f EXCEPT !.next = next] =>
        /\ g.round = f.round /\ g.side = f.side /\ g.next = next /\ g.loserNext = f.loserNext
        /\ g.p1 = f.p1 /\ g.p2 = f.p2 /\ g.status = f.status /\ g.winner = f.winner
  BY DEF OpenMatch
<1>9. IsMatch(f) /\ \A g : g = [f EXCEPT !.next = next] => IsMatch(g)
  BY DEF OpenMatch, IsMatch, Fields
<1> HIDE DEF f
<1>8. size + 1 - i > n => ~ (size + 1 - i <= n)
  BY <1>1
<1> QED
  BY <1>2, <1>5, <1>6, <1>7, <1>8, <1>9 DEF right, Seated, LeadingTo

LEMMA OpenMatchNext ==
  ASSUME NEW r, NEW next
  PROVE  LET m == [OpenMatch(r, "winners") EXCEPT !.next = next]
         IN  /\ m.round = r /\ m.side = "winners" /\ m.next = next /\ m.loserNext = 0
             /\ IsMatch(m)
  BY DEF OpenMatch, IsMatch, Fields

LEMMA SizeHasSlots ==
  ASSUME NEW n \in Nat, n >= 2
  PROVE  Slots(BracketSize(n), n)
BY BracketSizeIs DEF Slots

\* A single elimination is a winners' side and nothing else.
LEMMA SingleIs ==
  ASSUME NEW n \in Nat, n >= 2, NEW s, Order(s, n)
  PROVE  /\ Knockout(SingleElimination(s), s, n, BracketSize(n))
         /\ Len(SingleElimination(s)) = BracketSize(n) - 1
         /\ \A i \in 1 .. BracketSize(n) - 1 :
              SingleElimination(s)[i].loserNext = 0 /\ IsMatch(SingleElimination(s)[i])
         /\ SingleElimination(s) = [i \in 1 .. BracketSize(n) - 1 |-> SingleElimination(s)[i]]
<1> DEFINE size == BracketSize(n)
           half == size \div 2
           match(i) == IF i <= half THEN FirstRoundMatch(s, size, i)
                                    ELSE OpenMatch(RoundOf(size, i), "winners")
           M == SingleElimination(s)
<1>1. Slots(size, n)
  BY SizeHasSlots
<1>2. Len(s) = n
  BY DEF Order
<1>3. M = [i \in 1 .. size - 1 |-> [match(i) EXCEPT !.next = NextInTree(size, i)]]
  BY <1>2 DEF SingleElimination
<1>a. /\ size \in Nat /\ half \in Nat /\ size = 2 * half /\ half >= 1
  BY <1>1 DEF Slots
<1> HIDE DEF size, M
<1>4. Len(M) = size - 1 /\ M = [i \in 1 .. size - 1 |-> M[i]]
  BY <1>a, <1>3
<1>5. ASSUME NEW i \in 1 .. half
      PROVE  /\ M[i].round = 1 /\ M[i].side = "winners"
             /\ M[i].next = NextInTree(size, i) /\ M[i].loserNext = 0 /\ IsMatch(M[i])
             /\ Seated(M[i], s, n, size, i)
  <2>1. M[i] = LeadingTo(FirstRoundMatch(s, size, i), NextInTree(size, i))
    BY <1>a, <1>3 DEF LeadingTo
  <2> HIDE DEF half
  <2>2. size \div 2 = half
    BY DEF half
  <2>3. i \in 1 .. (size \div 2)
    BY <2>2
  <2> QED
    BY <1>1, <2>1, <2>3, FirstRoundMatchIs
<1>6. ASSUME NEW i \in 1 .. size - 1, i > half
      PROVE  /\ M[i].round = RoundOf(size, i) /\ M[i].side = "winners"
             /\ M[i].next = NextInTree(size, i) /\ M[i].loserNext = 0 /\ IsMatch(M[i])
  <2>1. M[i] = [OpenMatch(RoundOf(size, i), "winners") EXCEPT !.next = NextInTree(size, i)]
    BY <1>a, <1>3, <1>6
  <2> QED
    BY <2>1, OpenMatchNext
<1>7. \A i \in 1 .. size - 1 : i \in 1 .. size /\ (RoundOf(size, i) = 1 <=> i <= half)
  BY <1>a, FirstRoundIs
<1>8. ASSUME NEW i \in 1 .. size - 1
      PROVE  /\ M[i].round = RoundOf(size, i) /\ M[i].side = "winners"
             /\ M[i].next = NextInTree(size, i) /\ M[i].loserNext = 0 /\ IsMatch(M[i])
             /\ M[i].round = 1 <=> i <= half
  <2>1. CASE i <= half
    <3>1. i \in 1 .. half
      BY <1>a, <2>1
    <3> QED
      BY <1>5, <1>7, <2>1, <3>1
  <2>2. CASE i > half
    BY <1>6, <1>7, <2>2
  <2> QED
    BY <1>a, <2>1, <2>2
<1>9. \A i \in 1 .. size - 1 : i > size - 2 => M[i].next = 0
  <2>1. \A i \in 1 .. size - 1 : i > size - 2 => i = size - 1
    BY <1>a
  <2> QED
    BY <1>8, <2>1, LastLeadsNowhere
<1>10. Tree(M, size)
  <2>1. size - 1 \in Nat /\ 1 .. Len(M) = 1 .. size - 1
    BY <1>a, <1>4
  <2>2. \A i \in 1 .. size - 1 : i <= size - 1
    BY <1>a
  <2>3. \A i \in 1 .. size - 2 : M[i].next = NextInTree(size, i)
    BY <1>a, <1>8
  <2>4. \A i \in 1 .. size - 1 : M[i].side = "winners" <=> i <= size - 1
    BY <1>8, <2>2
  <2>5. \A i \in 1 .. size - 1 : M[i].round = RoundOf(size, i) /\ (M[i].round = 1 <=> i <= half)
    BY <1>8
  <2>6. Len(M) \in Nat /\ size - 1 <= Len(M)
    BY <1>4, <2>1
  <2> QED
    BY <1>9, <2>1, <2>3, <2>4, <2>5, <2>6 DEF Tree
<1>11. Knockout(M, s, n, size)
  BY <1>1, <1>5, <1>10 DEF Knockout
<1> QED
  BY <1>4, <1>8, <1>11 DEF size, M

\* A sequence after another.
Joined(f, g, h, a, b) ==
  /\ Len(h) = a + b
  /\ \A i \in 1 .. a + b : h[i] = IF i <= a THEN f[i] ELSE g[i - a]

OfLength(f, a) == f = [i \in 1 .. a |-> f[i]]

LEMMA JoinedIs ==
  ASSUME NEW a \in Nat, NEW b \in Nat, NEW f, OfLength(f, a), NEW g, OfLength(g, b)
  PROVE  Joined(f, g, f \o g, a, b) /\ OfLength(f \o g, a + b)
<1> DEFINE S == {f[i] : i \in 1 .. a} \cup {g[i] : i \in 1 .. b}
<1>1. f \in [1 .. a -> S] /\ g \in [1 .. b -> S]
  BY DEF OfLength
<1> HIDE DEF S
<1>2. f \in Seq(S) /\ g \in Seq(S) /\ Len(f) = a /\ Len(g) = b
  BY <1>1
<1>3. f \o g \in Seq(S) /\ Len(f \o g) = a + b
  BY <1>2
<1>4. \A i \in 1 .. a + b : (f \o g)[i] = IF i <= a THEN f[i] ELSE g[i - a]
  BY <1>2
<1> QED
  BY <1>3, <1>4 DEF Joined, OfLength

Relinked(m, next, loser) == [m EXCEPT !.next = next, !.loserNext = loser]

LEMMA RelinkedIs ==
  ASSUME NEW m, IsMatch(m), NEW next, NEW loser
  PROVE  LET q == Relinked(m, next, loser)
         IN  /\ q.next = next /\ q.loserNext = loser
             /\ q.round = m.round /\ q.side = m.side /\ q.p1 = m.p1 /\ q.p2 = m.p2
             /\ q.status = m.status /\ q.winner = m.winner
  BY DEF Relinked, IsMatch, Fields

LEMMA LosersMatchIs ==
  ASSUME NEW next, NEW m, m = [OpenMatch(100, "losers") EXCEPT !.next = next]
  PROVE  m.round = 100 /\ m.side = "losers" /\ m.next = next /\ m.loserNext = 0
  BY DEF OpenMatch

\* The losers' matches and the grand final of a double elimination of nw
\* winners' matches, and the links that lead to them.
Losers(M, nw) ==
  LET nl == nw \div 2
      grand == nw + nl + 1
  IN  /\ nw \in Nat /\ nl \in Nat /\ Len(M) = grand
      /\ \A i \in 1 .. nw : M[i].loserNext = LoserNext(nw, i)
      /\ M[nw].next = grand
      /\ \A i \in nw + 1 .. nw + nl :
           /\ M[i].side = "losers" /\ M[i].loserNext = 0
           /\ M[i].next = IF i = nw + nl THEN grand ELSE 0
      /\ M[grand].side = "grand_final" /\ M[grand].next = 0 /\ M[grand].loserNext = 0

LEMMA DoubleIs ==
  ASSUME NEW n \in Nat, n >= 2, NEW s, Order(s, n)
  PROVE  /\ Knockout(DoubleElimination(s), s, n, BracketSize(n))
         /\ Losers(DoubleElimination(s), BracketSize(n) - 1)
<1> DEFINE W == SingleElimination(s)
           size == BracketSize(n)
           nw == size - 1
           nl == nw \div 2
           grand == nw + nl + 1
           f == [i \in 1 .. nw |-> Relinked(W[i], IF i = nw THEN grand ELSE W[i].next, LoserNext(nw, i))]
           g == [i \in 1 .. nl |-> [OpenMatch(100, "losers") EXCEPT !.next = IF i = nl THEN grand ELSE 0]]
           final == OpenMatch(999, "grand_final")
           e == <<final>>
           M == DoubleElimination(s)
<1>1. Knockout(W, s, n, size) /\ Len(W) = nw
  BY SingleIs
<1>2. \A i \in 1 .. nw : W[i].loserNext = 0 /\ IsMatch(W[i])
  BY SingleIs
<1>3. M = (f \o g) \o e
  BY <1>1 DEF DoubleElimination, Relinked
<1>4. Slots(size, n) /\ Tree(W, size) /\ \A i \in 1 .. size \div 2 : Seated(W[i], s, n, size, i)
  BY <1>1 DEF Knockout
<1>5. PICK half \in Nat : half = size \div 2 /\ size = 2 * half /\ half >= 1
  BY <1>4 DEF Slots
<1> HIDE DEF size, W, M
<1>6. nw \in Nat /\ nw >= 1 /\ nw = 2 * half - 1 /\ nl = half - 1 /\ nl \in Nat
  BY <1>5
<1> HIDE DEF nw, nl
<1>7. \A i \in 1 .. nw :
        /\ f[i].next = (IF i = nw THEN grand ELSE W[i].next) /\ f[i].loserNext = LoserNext(nw, i)
        /\ f[i].round = W[i].round /\ f[i].side = W[i].side /\ f[i].p1 = W[i].p1
        /\ f[i].p2 = W[i].p2 /\ f[i].status = W[i].status /\ f[i].winner = W[i].winner
  BY <1>2, RelinkedIs
<1>8. \A i \in 1 .. nl :
        /\ g[i].round = 100 /\ g[i].side = "losers" /\ g[i].loserNext = 0
        /\ g[i].next = IF i = nl THEN grand ELSE 0
  BY LosersMatchIs
<1>9. final.round = 999 /\ final.side = "grand_final" /\ final.next = 0 /\ final.loserNext = 0
  BY OpenMatchIs
<1>10. OfLength(f, nw) /\ OfLength(g, nl) /\ OfLength(e, 1)
  BY DEF OfLength
<1>11. e[1] = final
  OBVIOUS
<1> HIDE DEF f, g, e, final
<1>12. Joined(f, g, f \o g, nw, nl) /\ OfLength(f \o g, nw + nl)
  BY <1>6, <1>10, JoinedIs
<1> DEFINE fg == f \o g
<1> HIDE DEF fg
<1>13. Joined(fg, e, M, nw + nl, 1)
  <2>1. nw + nl \in Nat /\ 1 \in Nat
    BY <1>6
  <2> QED
    BY <1>3, <1>10, <1>12, <2>1, JoinedIs DEF fg
<1>14. Len(M) = grand
  BY <1>6, <1>13 DEF Joined
<1>15. \A i \in 1 .. nw : M[i] = f[i]
  <2>1. \A i \in 1 .. nw : i \in 1 .. nw + nl /\ i \in 1 .. nw + nl + 1 /\ i <= nw /\ i <= nw + nl
    BY <1>6
  <2> QED
    BY <1>12, <1>13, <2>1 DEF Joined, fg
<1>16. \A i \in nw + 1 .. nw + nl : M[i] = g[i - nw] /\ i - nw \in 1 .. nl /\ (i - nw = nl <=> i = nw + nl)
  <2>1. \A i \in nw + 1 .. nw + nl :
          /\ i \in 1 .. nw + nl /\ i \in 1 .. nw + nl + 1 /\ ~ (i <= nw) /\ i <= nw + nl
          /\ i - nw \in 1 .. nl /\ (i - nw = nl <=> i = nw + nl)
    BY <1>6
  <2> QED
    BY <1>12, <1>13, <2>1 DEF Joined, fg
<1>17. M[grand] = final
  <2>1. /\ grand \in 1 .. nw + nl + 1 /\ ~ (grand <= nw + nl) /\ grand - (nw + nl) = 1
    BY <1>6
  <2> QED
    BY <1>11, <1>13, <2>1 DEF Joined
<1>18. Losers(M, nw)
  <2>1. nw \in 1 .. nw
    BY <1>6
  <2>2. \A i \in 1 .. nw : M[i].loserNext = LoserNext(nw, i) /\ (i = nw => M[i].next = grand)
    BY <1>7, <1>15
  <2>3. \A i \in nw + 1 .. nw + nl :
           /\ M[i].side = "losers" /\ M[i].loserNext = 0
           /\ M[i].next = IF i = nw + nl THEN grand ELSE 0
    BY <1>8, <1>16
  <2> QED
    BY <1>6, <1>9, <1>14, <1>17, <2>1, <2>2, <2>3 DEF Losers, nl
<1>19. Tree(M, size)
  <2>1. size - 1 = nw /\ size \in Nat /\ half = size \div 2 /\ Len(M) \in Nat /\ nw <= Len(M) /\ half <= nw
    BY <1>5, <1>6, <1>14 DEF nw
  <2>2. Len(W) = nw
    BY <1>1, <2>1
  <2>3. \A i \in 1 .. nw : /\ M[i].side = "winners" /\ M[i].round = RoundOf(size, i)
                           /\ M[i].round = 1 <=> i <= half
                           /\ i # nw => M[i].next = W[i].next
                           /\ i = nw => M[i].next = grand
    <3>1. \A i \in 1 .. nw : i <= nw /\ W[i].side = "winners" /\ W[i].round = RoundOf(size, i)
                              /\ (W[i].round = 1 <=> i <= half)
      <4>1. \A i \in 1 .. nw : i <= nw
        BY <1>6
      <4> QED
        BY <1>4, <2>1, <2>2, <4>1 DEF Tree
    <3> QED
      BY <1>7, <1>15, <3>1
  <2>4. \A i \in 1 .. Len(M) : i \notin 1 .. nw =>
          M[i].side # "winners" /\ M[i].round # 1 /\ (M[i].next = 0 \/ M[i].next > nw)
    <3>1. \A i \in 1 .. Len(M) : i \notin 1 .. nw => i \in nw + 1 .. nw + nl \/ i = grand
      BY <1>6, <1>14
    <3>2. grand > nw
      BY <1>6
    <3>3. \A i \in nw + 1 .. nw + nl :
            M[i].side = "losers" /\ M[i].round = 100 /\ (M[i].next = grand \/ M[i].next = 0)
      BY <1>8, <1>16
    <3> HIDE DEF grand
    <3> QED
      BY <1>9, <1>17, <3>1, <3>2, <3>3
  <2>5. \A i \in 1 .. size - 2 : M[i].next = NextInTree(size, i)
    <3>1. \A i \in 1 .. size - 2 : i \in 1 .. nw /\ i # nw
      BY <1>6, <2>1
    <3>2. \A i \in 1 .. size - 2 : W[i].next = NextInTree(size, i)
      BY <1>4 DEF Tree
    <3> QED
      BY <2>3, <3>1, <3>2
  <2>6. \A i \in 1 .. Len(M) : i > size - 2 => M[i].next = 0 \/ M[i].next > size - 1
    <3>1. \A i \in 1 .. Len(M) : i > size - 2 => i = nw \/ i \notin 1 .. nw
      BY <1>6, <2>1
    <3>2. nw \in 1 .. nw /\ grand > nw
      BY <1>6
    <3> QED
      BY <2>1, <2>3, <2>4, <3>1, <3>2
  <2>7. \A i \in 1 .. Len(M) : (M[i].side = "winners" <=> i <= nw) /\ (M[i].round = 1 <=> i <= half)
    <3>1. \A i \in 1 .. Len(M) : (i \in 1 .. nw <=> i <= nw) /\ (i <= half => i \in 1 .. nw)
      BY <1>5, <1>6, <2>1
    <3> QED
      BY <2>3, <2>4, <3>1
  <2> HIDE DEF grand
  <2>8. /\ \A i \in 1 .. Len(M) : M[i].side = "winners" <=> i <= size - 1
        /\ \A i \in 1 .. Len(M) : M[i].round = 1 <=> i <= size \div 2
        /\ \A i \in 1 .. size - 1 : M[i].round = RoundOf(size, i)
    BY <2>1, <2>3, <2>7
  <2> QED
    BY <2>1, <2>5, <2>6, <2>8 DEF Tree
<1>20. \A i \in 1 .. size \div 2 : Seated(M[i], s, n, size, i)
  <2>1. \A i \in 1 .. size \div 2 : i \in 1 .. nw
    BY <1>5, <1>6
  <2> QED
    BY <1>4, <1>7, <1>15, <2>1 DEF Seated
<1> QED
  BY <1>4, <1>18, <1>19, <1>20 DEF Knockout, size, M, nw

\* What a knockout left behind.
LEMMA KnockoutIs ==
  ASSUME Generated, format \in {"single_elimination", "double_elimination"}
  PROVE  /\ Len(listed) \in Nat /\ Len(listed) >= 2 /\ Order(seeded, Len(listed))
         /\ Knockout(matches, seeded, Len(listed), BracketSize(Len(listed)))
         /\ format = "double_elimination" => Losers(matches, BracketSize(Len(listed)) - 1)
<1>1. Len(listed) \in Nat /\ Len(listed) >= 2 /\ Order(seeded, Len(listed))
  BY DEF Generated, Listed
<1>2. matches = Draw(format, seeded)
  BY DEF Generated
<1>3. CASE format = "single_elimination"
  <2>1. matches = SingleElimination(seeded)
    BY <1>2, <1>3 DEF Draw
  <2> QED
    BY <1>1, <1>3, <2>1, SingleIs
<1>4. CASE format = "double_elimination"
  <2>1. matches = DoubleElimination(seeded)
    BY <1>2, <1>4 DEF Draw
  <2> QED
    BY <1>1, <1>4, <2>1, DoubleIs
<1> QED
  BY <1>3, <1>4

LEMMA FirstRoundIsHalf ==
  ASSUME NEW size, NEW n, Slots(size, n), Tree(matches, size)
  PROVE  FirstRound = 1 .. size \div 2
<1> DEFINE half == size \div 2
<1>1. half \in Nat /\ size = 2 * half /\ size \in Nat /\ size - 1 <= Len(matches) /\ Len(matches) \in Nat
      /\ size >= 2
  BY DEF Slots, Tree
<1>2. \A i \in 1 .. Len(matches) : matches[i].round = 1 <=> i <= half
  BY DEF Tree
<1> HIDE DEF half
<1>3. \A i \in 1 .. half : i \in 1 .. Len(matches) /\ i <= half
  BY <1>1
<1>4. \A i \in 1 .. Len(matches) : i <= half => i \in 1 .. half
  BY <1>1
<1>5. FirstRound = 1 .. half
  BY <1>2, <1>3, <1>4 DEF FirstRound, Positions
<1> QED
  BY <1>5 DEF half

\* Exactly the best seeds sit alone in the first round of a knockout, and move
\* on (slots i and size - 1 - i of generateSingleEliminationMatches).
THEOREM ByesAreForTheBest == Spec => []ByesGoToTopSeeds
<1>1. Generated => ByesGoToTopSeeds
  <2> DEFINE n == Len(listed)
             size == BracketSize(n)
             half == size \div 2
             byes == {i \in FirstRound : matches[i].status = "bye"}
  <2> SUFFICES ASSUME Generated, format \in {"single_elimination", "double_elimination"}
               PROVE  /\ byes = 1 .. size - n
                      /\ \A i \in byes : /\ matches[i].winner = seeded[i]
                                         /\ {matches[i].p1, matches[i].p2} = {seeded[i], NoParticipant}
                      /\ \A i \in FirstRound \ byes :
                           NoParticipant \notin {matches[i].p1, matches[i].p2}
    BY DEF ByesGoToTopSeeds
  <2>1. n \in Nat /\ Order(seeded, n) /\ Knockout(matches, seeded, n, size)
    BY KnockoutIs
  <2> HIDE DEF n, size
  <2>2. Slots(size, n) /\ Tree(matches, size) /\ \A i \in 1 .. half : Seated(matches[i], seeded, n, size, i)
    BY <2>1 DEF Knockout
  <2>3. FirstRound = 1 .. half
    BY <2>2, FirstRoundIsHalf
  <2>4. size \in Nat /\ half \in Nat /\ size = 2 * half /\ half < n /\ n <= size
    BY <2>2 DEF Slots
  <2> HIDE DEF half
  <2>5. \A i \in 1 .. half : /\ size + 1 - i <= n <=> ~ (i \in 1 .. size - n)
                             /\ size + 1 - i > n <=> i \in 1 .. size - n
                             /\ i \in 1 .. n
                             /\ size + 1 - i <= n => size + 1 - i \in 1 .. n
    BY <2>1, <2>4
  <2>6. \A i \in 1 .. size - n : i \in 1 .. half
    BY <2>1, <2>4
  <2>7. \A i \in 1 .. half :
          /\ i \in 1 .. size - n => /\ matches[i].status = "bye" /\ matches[i].winner = seeded[i]
                                    /\ matches[i].p1 = seeded[i] /\ matches[i].p2 = NoParticipant
          /\ i \notin 1 .. size - n => /\ matches[i].status = "pending"
                                       /\ matches[i].p1 = seeded[i]
                                       /\ matches[i].p2 = seeded[size + 1 - i]
    BY <2>2, <2>5 DEF Seated
  <2>8. byes = 1 .. size - n
    BY <2>3, <2>6, <2>7
  <2>9. \A i \in 1 .. n : seeded[i] # NoParticipant
    BY <2>1, NoParticipantAssumption DEF Order
  <2>10. \A i \in FirstRound \ byes : NoParticipant \notin {matches[i].p1, matches[i].p2}
    BY <2>3, <2>5, <2>7, <2>8, <2>9
  <2>11. \A i \in byes : /\ matches[i].winner = seeded[i]
                         /\ {matches[i].p1, matches[i].p2} = {seeded[i], NoParticipant}
    BY <2>3, <2>6, <2>7, <2>8
  <2> HIDE DEF byes
  <2> QED
    BY <2>8, <2>10, <2>11
<1> QED
  BY <1>1, AlwaysGenerated, PTL

LEMMA PairHasTwo ==
  ASSUME NEW a, NEW b, a # b
  PROVE  Cardinality({a, b}) = 2
<1>1. IsFiniteSet({a}) /\ Cardinality({a}) = 1
  BY FS_Singleton
<1>2. Cardinality({a} \cup {b}) = 2
  BY <1>1, FS_AddElement
<1>3. {a, b} = {a} \cup {b}
  OBVIOUS
<1> QED
  BY <1>2, <1>3

\* The winners' side is the matches 1 .. size - 1, the last of which is the final.
LEMMA TreeIs ==
  ASSUME NEW size, NEW n, Slots(size, n), Tree(matches, size),
         NEW tree, tree = {i \in Positions : matches[i].side = "winners"}
  PROVE  tree = 1 .. size - 1 /\ Max(tree) = size - 1
<1>1. size \in Nat /\ size >= 2 /\ size - 1 <= Len(matches) /\ Len(matches) \in Nat
  BY DEF Slots, Tree
<1>2. \A i \in 1 .. Len(matches) : matches[i].side = "winners" <=> i <= size - 1
  BY DEF Tree
<1>3. \A i \in 1 .. size - 1 : i \in 1 .. Len(matches) /\ i <= size - 1
  BY <1>1
<1>4. \A i \in 1 .. Len(matches) : i <= size - 1 => i \in 1 .. size - 1
  BY <1>1
<1>5. tree = 1 .. size - 1
  BY <1>2, <1>3, <1>4 DEF Positions
<1>6. size - 1 \in tree /\ tree \subseteq Int /\ \A k \in tree : k <= size - 1
  BY <1>1, <1>5
<1>7. Max(tree) = size - 1
  BY <1>6, MaxIs
<1> QED
  BY <1>5, <1>7

\* The match 2k - 1 and the match 2k lead to the k-th match after the first round.
LEMMA FeedersAre ==
  ASSUME NEW size, NEW n, Slots(size, n), Tree(matches, size),
         NEW k \in 1 .. (size \div 2) - 1
  PROVE  FeedersOf((size \div 2) + k) = {2 * k - 1, 2 * k}
<1> DEFINE half == size \div 2
<1>1. /\ size \in Nat /\ size >= 2 /\ half \in Nat /\ size = 2 * half /\ size \in PowersOf2
      /\ size - 1 <= Len(matches) /\ Len(matches) \in Nat
  BY DEF Slots, Tree
<1>2. \A j \in 1 .. size - 2 : matches[j].next = half + ((j + 1) \div 2)
  <2>1. \A j \in 1 .. size - 2 : matches[j].next = NextInTree(size, j)
    BY DEF Tree
  <2> QED
    BY <1>1, <2>1, NextIs
<1>3. \A j \in 1 .. Len(matches) : j > size - 2 => matches[j].next = 0 \/ matches[j].next > size - 1
  BY DEF Tree
<1> HIDE DEF half
<1>4. k \in 1 .. half - 1
  BY DEF half
<1>5. /\ 2 * k - 1 \in 1 .. size - 2 /\ 2 * k \in 1 .. size - 2
      /\ 2 * k - 1 \in 1 .. Len(matches) /\ 2 * k \in 1 .. Len(matches)
      /\ ((2 * k - 1) + 1) \div 2 = k /\ (2 * k + 1) \div 2 = k
  BY <1>1, <1>4
<1>6. \A j \in 1 .. size - 2 : half + ((j + 1) \div 2) = half + k => j = 2 * k - 1 \/ j = 2 * k
  BY <1>1, <1>4
<1>7. \A j \in 1 .. Len(matches) : j \in 1 .. size - 2 \/ j > size - 2
  BY <1>1
<1>8. half + k # 0 /\ ~ (half + k > size - 1)
  BY <1>1, <1>4
<1>9. FeedersOf(half + k) = {2 * k - 1, 2 * k}
  BY <1>2, <1>3, <1>5, <1>6, <1>7, <1>8 DEF FeedersOf, Positions
<1> QED
  BY <1>9 DEF half

\* The winners' side is a balanced tree: every later match is fed by exactly two
\* of the round before, and only the final leads out of it (the rounds that
\* generateSingleEliminationMatches lays out and links).
THEOREM WinnersAreATree == Spec => []KnockoutIsATree
<1>1. Generated => KnockoutIsATree
  <2> DEFINE size == BracketSize(Len(listed))
             tree == {i \in Positions : matches[i].side = "winners"}
             final == Max(tree)
             half == size \div 2
  <2> SUFFICES ASSUME Generated, format \in {"single_elimination", "double_elimination"}
               PROVE  /\ Cardinality(tree) = size - 1
                      /\ \A i \in tree \ FirstRound :
                           /\ Cardinality(FeedersOf(i)) = 2
                           /\ \A j \in FeedersOf(i) :
                                j \in tree /\ matches[j].round = matches[i].round - 1
                      /\ \A i \in tree \ {final} : matches[i].next \in tree
                      /\ matches[final].next \notin tree
    BY DEF KnockoutIsATree
  <2>1. PICK n : n = Len(listed) /\ Knockout(matches, seeded, n, size)
    BY KnockoutIs
  <2>2. Slots(size, n) /\ Tree(matches, size)
    BY <2>1 DEF Knockout
  <2> HIDE DEF size
  <2>3. tree = 1 .. size - 1 /\ final = size - 1
    BY <2>2, TreeIs
  <2>4. FirstRound = 1 .. half
    BY <2>2, FirstRoundIsHalf
  <2>5. /\ size \in Nat /\ size >= 2 /\ half \in Nat /\ size = 2 * half /\ size \in PowersOf2
        /\ size - 1 <= Len(matches) /\ Len(matches) \in Nat
    BY <2>2 DEF Slots, Tree
  <2>6. \A i \in 1 .. half - 1 : FeedersOf(half + i) = {2 * i - 1, 2 * i}
    BY <2>2, FeedersAre
  <2> HIDE DEF tree, final, half
  <2>7. Cardinality(tree) = size - 1
    <3>1. Cardinality(1 .. size - 1) = size - 1
      BY <2>5, FS_Interval
    <3> QED
      BY <2>3, <3>1
  <2>8. ASSUME NEW i \in tree \ FirstRound
        PROVE  /\ Cardinality(FeedersOf(i)) = 2
               /\ \A j \in FeedersOf(i) : j \in tree /\ matches[j].round = matches[i].round - 1
    <3>1. PICK k \in 1 .. half - 1 : i = half + k
      <4>1. i - half \in 1 .. half - 1 /\ i = half + (i - half)
        BY <2>3, <2>4, <2>5
      <4> QED
        BY <4>1
    <3>2. FeedersOf(i) = {2 * k - 1, 2 * k}
      BY <2>6, <3>1
    <3>3. 2 * k - 1 # 2 * k /\ 2 * k - 1 \in 1 .. size - 2 /\ 2 * k \in 1 .. size - 2
      BY <2>5
    <3>4. Cardinality(FeedersOf(i)) = 2
      <4>1. PICK a, b : a = 2 * k - 1 /\ b = 2 * k
        OBVIOUS
      <4>2. Cardinality({a, b}) = 2
        BY <3>3, <4>1, PairHasTwo
      <4> QED
        BY <3>2, <4>1, <4>2
    <3>5. ASSUME NEW j \in FeedersOf(i)
          PROVE  j \in tree /\ matches[j].round = matches[i].round - 1
      <4>1. j \in 1 .. size - 2
        BY <3>2, <3>3
      <4>2. j \in 1 .. size - 1 /\ i \in 1 .. size - 1 /\ j \in tree
        BY <2>3, <2>5, <4>1
      <4>3. matches[j].round = RoundOf(size, j) /\ matches[i].round = RoundOf(size, i)
            /\ matches[j].next = NextInTree(size, j)
        BY <2>2, <4>1, <4>2 DEF Tree
      <4>4. matches[j].next = i
        BY DEF FeedersOf
      <4>5. RoundOf(size, i) = RoundOf(size, j) + 1
        BY <2>5, <4>1, <4>3, <4>4, NextIs
      <4>6. RoundOf(size, j) \in Nat
        <5>1. j \in 1 .. size
          BY <2>5, <4>1
        <5> QED
          BY <2>5, <5>1, RoundIs
      <4> QED
        BY <4>2, <4>3, <4>5, <4>6
    <3> QED
      BY <3>4, <3>5
  <2>9. \A i \in tree \ {final} : matches[i].next \in tree
    <3>1. \A i \in tree \ {final} : i \in 1 .. size - 2
      BY <2>3, <2>5
    <3>2. \A i \in 1 .. size - 2 : matches[i].next = half + ((i + 1) \div 2)
      <4>1. \A j \in 1 .. size - 2 : matches[j].next = NextInTree(size, j)
        BY <2>2 DEF Tree
      <4> QED
        BY <2>5, <4>1, NextIs DEF half
    <3>3. \A i \in 1 .. size - 2 : half + ((i + 1) \div 2) \in 1 .. size - 1
      BY <2>5
    <3> QED
      BY <2>3, <3>1, <3>2, <3>3
  <2>10. matches[final].next \notin tree
    <3>1. final \in 1 .. Len(matches) /\ final > size - 2
      BY <2>3, <2>5
    <3>2. matches[final].next = 0 \/ matches[final].next > size - 1
      BY <2>2, <3>1 DEF Tree
    <3> QED
      BY <2>3, <2>5, <3>2
  <2> QED
    BY <2>7, <2>8, <2>9, <2>10
<1> QED
  BY <1>1, AlwaysGenerated, PTL

\* With double elimination every match of the winners' side but its final drops
\* its loser into a losers' match, two into each, and the grand final waits for
\* two sides (the links generateDoubleEliminationMatches adds).
THEOREM LosersGoOn == Spec => []LosersDropDown
<1>1. Generated => LosersDropDown
  <2> DEFINE size == BracketSize(Len(listed))
             tree == {i \in Positions : matches[i].side = "winners"}
             losers == {i \in Positions : matches[i].side = "losers"}
             grand == Len(matches)
             nw == size - 1
             nl == nw \div 2
  <2> SUFFICES ASSUME Generated, format = "double_elimination"
               PROVE  /\ \A i \in tree \ {Max(tree)} : matches[i].loserNext \in losers
                      /\ \A i \in losers : Cardinality(LoserFeedersOf(i)) = 2 /\ FeedersOf(i) = {}
                      /\ Cardinality(FeedersOf(grand)) = IF losers = {} THEN 1 ELSE 2
    BY DEF LosersDropDown
  <2>1. PICK n : n = Len(listed) /\ Knockout(matches, seeded, n, size) /\ Losers(matches, nw)
    BY KnockoutIs
  <2>2. Slots(size, n) /\ Tree(matches, size)
    BY <2>1 DEF Knockout
  <2> HIDE DEF size
  <2>3. tree = 1 .. nw /\ Max(tree) = nw
    BY <2>2, TreeIs
  <2>4. PICK half \in Nat : half = size \div 2 /\ size = 2 * half /\ half >= 1 /\ size \in PowersOf2
    BY <2>2 DEF Slots
  <2>5. /\ grand = nw + nl + 1
        /\ \A i \in 1 .. nw : matches[i].loserNext = LoserNext(nw, i)
        /\ matches[nw].next = grand
        /\ \A i \in nw + 1 .. nw + nl :
             /\ matches[i].side = "losers" /\ matches[i].loserNext = 0
             /\ matches[i].next = IF i = nw + nl THEN grand ELSE 0
        /\ matches[grand].side = "grand_final" /\ matches[grand].next = 0
        /\ matches[grand].loserNext = 0
    BY <2>1 DEF Losers
  <2>6. nw = 2 * half - 1 /\ nl = half - 1 /\ nl \in Nat /\ nw \in Nat
    BY <2>4
  <2>7. \A i \in 1 .. nw : i # nw => matches[i].next \in 1 .. nw
    <3>1. \A i \in 1 .. size - 2 : matches[i].next = half + ((i + 1) \div 2)
      <4>1. \A j \in 1 .. size - 2 : matches[j].next = NextInTree(size, j)
        BY <2>2 DEF Tree
      <4> QED
        BY <2>4, <4>1, NextIs
    <3>2. \A i \in 1 .. nw : i # nw => i \in 1 .. size - 2
      BY <2>4
    <3>3. \A i \in 1 .. size - 2 : half + ((i + 1) \div 2) \in 1 .. nw
      BY <2>4
    <3> QED
      BY <3>1, <3>2, <3>3
  <2>8. \A i \in 1 .. nw : matches[i].side = "winners"
    BY <2>3
  <2> HIDE DEF tree, nw, nl, grand
  <2>9. Positions = 1 .. grand
    BY DEF Positions, grand
  <2>10. losers = nw + 1 .. nw + nl
    <3>1. \A i \in 1 .. grand : i \in 1 .. nw \/ i \in nw + 1 .. nw + nl \/ i = grand
      BY <2>5, <2>6
    <3>2. \A i \in nw + 1 .. nw + nl : i \in 1 .. grand /\ i \notin 1 .. nw /\ i # grand
      BY <2>5, <2>6
    <3> QED
      BY <2>5, <2>8, <2>9, <3>1, <3>2
  <2> HIDE DEF losers
  <2>11. ASSUME NEW i \in 1 .. nw
         PROVE  matches[i].loserNext = IF i = nw THEN 0 ELSE nw + ((i - 1) \div 2) + 1
    <3>1. nw \div 2 = nl
      BY DEF nl
    <3>2. (i - 1) \div 2 < nl <=> i # nw
      BY <2>6
    <3> QED
      BY <2>5, <3>1, <3>2 DEF LoserNext
  <2>12. \A i \in tree \ {Max(tree)} : matches[i].loserNext \in losers
    <3>1. \A i \in 1 .. nw : i # nw => nw + ((i - 1) \div 2) + 1 \in nw + 1 .. nw + nl
      BY <2>6
    <3> QED
      BY <2>3, <2>10, <2>11, <3>1
  <2>13. ASSUME NEW i \in losers
         PROVE  Cardinality(LoserFeedersOf(i)) = 2 /\ FeedersOf(i) = {}
    <3>1. PICK k \in 1 .. nl : i = nw + k
      <4>1. i - nw \in 1 .. nl /\ i = nw + (i - nw)
        BY <2>6, <2>10
      <4> QED
        BY <4>1
    <3>2. PICK a, b : a = 2 * k - 1 /\ b = 2 * k
      OBVIOUS
    <3>3. a # b /\ a \in 1 .. nw /\ b \in 1 .. nw /\ a # nw /\ b # nw
          /\ nw + ((a - 1) \div 2) + 1 = i /\ nw + ((b - 1) \div 2) + 1 = i
      BY <2>6, <3>1, <3>2
    <3>4. \A j \in 1 .. nw : nw + ((j - 1) \div 2) + 1 = i => j = a \/ j = b
      BY <2>6, <3>1, <3>2
    <3>5. i # 0 /\ i # grand /\ i \notin 1 .. nw
      BY <2>5, <2>6, <3>1
    <3>6. \A j \in 1 .. grand : j \in 1 .. nw \/ j \in nw + 1 .. nw + nl \/ j = grand
      BY <2>5, <2>6
    <3>7. a \in 1 .. grand /\ b \in 1 .. grand
      BY <2>5, <2>6, <3>3
    <3>8. LoserFeedersOf(i) = {a, b}
      BY <2>5, <2>9, <2>11, <3>3, <3>4, <3>5, <3>6, <3>7 DEF LoserFeedersOf
    <3>9. FeedersOf(i) = {}
      BY <2>5, <2>7, <2>9, <3>5, <3>6 DEF FeedersOf
    <3> QED
      BY <3>3, <3>8, <3>9, PairHasTwo
  <2>14. Cardinality(FeedersOf(grand)) = IF losers = {} THEN 1 ELSE 2
    <3>1. \A j \in 1 .. grand : j \in 1 .. nw \/ j \in nw + 1 .. nw + nl \/ j = grand
      BY <2>5, <2>6
    <3>2. grand # 0 /\ grand \notin 1 .. nw /\ nw \in 1 .. nw /\ nw \in 1 .. grand
      BY <2>4, <2>5, <2>6
    <3>3. CASE nl = 0
      <4>1. nw + 1 .. nw + nl = {}
        BY <2>6, <3>3
      <4>2. FeedersOf(grand) = {nw}
        BY <2>5, <2>7, <2>9, <3>1, <3>2, <4>1 DEF FeedersOf
      <4>3. Cardinality({nw}) = 1
        BY FS_Singleton
      <4> QED
        BY <2>10, <4>1, <4>2, <4>3
    <3>4. CASE nl # 0
      <4>1. PICK last : last = nw + nl
        OBVIOUS
      <4>2. last \in nw + 1 .. nw + nl /\ last \in 1 .. grand /\ nw # last
        BY <2>5, <2>6, <3>4, <4>1
      <4>3. FeedersOf(grand) = {nw, last}
        BY <2>5, <2>7, <2>9, <3>1, <3>2, <4>1, <4>2 DEF FeedersOf
      <4>4. Cardinality({nw, last}) = 2
        BY <4>2, PairHasTwo
      <4> QED
        BY <2>10, <4>2, <4>3, <4>4
    <3> QED
      BY <3>3, <3>4
  <2> QED
    BY <2>12, <2>13, <2>14
<1> QED
  BY <1>1, AlwaysGenerated, PTL

-----------------------------------------------------------------------------
(* The pairs of a round robin.                                               *)

Flattens(f, rows) ==
  f = [i \in 1 .. Len(rows) |-> IF i = 1 THEN rows[i] ELSE f[i - 1] \o rows[i]]

\* Flattening appends one row after the other.
LEMMA FlattenIs ==
  ASSUME NEW S, NEW N \in Nat, N >= 1, NEW rows \in [1 .. N -> Seq(S)]
  PROVE  \E f : /\ f[1] = rows[1]
                /\ \A i \in 1 .. N : i # 1 => f[i] = f[i - 1] \o rows[i]
                /\ FlattenSeq(rows) = f[N]
<1> DEFINE D == Seq(S)
           append == [x \in D \X (1 .. N - 1) |-> x[1] \o rows[x[2] + 1]]
<1>1. append \in [D \X (1 .. N - 1) -> D]
  <2>1. ASSUME NEW x \in D \X (1 .. N - 1) PROVE x[1] \o rows[x[2] + 1] \in D
    <3>1. x[2] + 1 \in 1 .. N /\ x[1] \in Seq(S)
      OBVIOUS
    <3>2. rows[x[2] + 1] \in Seq(S)
      BY <3>1
    <3> QED
      BY <3>1, <3>2
  <2> QED
    BY <2>1
<1>2. \A s \in D, k \in 1 .. N - 1 : append[<<s, k>>] = s \o rows[k + 1]
  OBVIOUS
<1>3. rows[1] \in D /\ 1 \in 1 .. N /\ N - 1 \in Nat /\ Len(rows) = N
  OBVIOUS
<1> HIDE DEF D, append
<1>4. PICK g \in [0 .. N - 1 -> D] : Recurs(g, N - 1, rows[1], append)
  BY <1>1, <1>3, RecursionExists
<1> DEFINE h == [i \in 1 .. N |-> g[i - 1]]
<1>5. ASSUME NEW i \in 1 .. N
      PROVE  h[i] = IF i = 1 THEN rows[i] ELSE h[i - 1] \o rows[i]
  <2>1. i - 1 \in 0 .. N - 1 /\ h[i] = g[i - 1] /\ (i - 1 = 0 <=> i = 1)
    OBVIOUS
  <2>2. i # 1 => i - 1 \in 1 .. N - 1 /\ (i - 1) - 1 \in 0 .. N - 1 /\ (i - 1) + 1 = i /\ i - 1 \in 1 .. N
    OBVIOUS
  <2>3. g[i - 1] = IF i - 1 = 0 THEN rows[1] ELSE append[<<g[(i - 1) - 1], i - 1>>]
    BY <1>4, <2>1 DEF Recurs
  <2>4. i # 1 => append[<<g[(i - 1) - 1], i - 1>>] = g[(i - 1) - 1] \o rows[i]
    <3>1. i # 1 => g[(i - 1) - 1] \in D
      BY <1>4, <2>2
    <3> QED
      BY <1>2, <2>2, <3>1
  <2>5. i # 1 => h[i - 1] = g[(i - 1) - 1]
    BY <2>2
  <2> HIDE DEF h
  <2> QED
    BY <2>1, <2>3, <2>4, <2>5
<1>6. h = [i \in 1 .. N |-> h[i]]
  OBVIOUS
<1> HIDE DEF h
<1>7. h = [i \in 1 .. N |-> IF i = 1 THEN rows[i] ELSE h[i - 1] \o rows[i]]
  BY <1>5, <1>6
<1>8. \E f : Flattens(f, rows)
  BY <1>3, <1>7 DEF Flattens
<1>9. FlattenSeq(rows) = (CHOOSE f : Flattens(f, rows))[N]
  <2>1. Len(rows) # 0
    BY <1>3
  <2> QED
    BY <1>3, <2>1 DEF FlattenSeq, Flattens
<1>10. PICK f : Flattens(f, rows) /\ FlattenSeq(rows) = f[N]
  BY <1>8, <1>9
<1>11. \A i \in 1 .. N : f[i] = IF i = 1 THEN rows[i] ELSE f[i - 1] \o rows[i]
  BY <1>3, <1>10 DEF Flattens
<1> QED
  BY <1>3, <1>10, <1>11

\* o lists the pairs a < b of 1 .. n whose first member is at most i, once each.
Pairs(o, i, n) ==
  /\ o \in Seq(Nat \X Nat)
  /\ \A k \in 1 .. Len(o) : o[k][1] \in 1 .. i /\ o[k][2] \in 1 .. n /\ o[k][1] < o[k][2]
  /\ \A k, l \in 1 .. Len(o) : o[k] = o[l] => k = l
  /\ \A a \in 1 .. i, b \in 1 .. n : a < b => \E k \in 1 .. Len(o) : o[k] = <<a, b>>

RowOf(n, i) == [d \in 1 .. n - i |-> <<i, i + d>>]

LEMMA RowPairs ==
  ASSUME NEW n \in Nat, NEW o, NEW i \in 1 .. n, Pairs(o, i - 1, n)
  PROVE  Pairs(o \o RowOf(n, i), i, n)
<1> DEFINE a == Len(o)
           b == n - i
           g == RowOf(n, i)
           p == o \o g
<1>1. o \in Seq(Nat \X Nat) /\ a \in Nat /\ b \in Nat /\ i \in Nat
  BY DEF Pairs
<1>2. g \in Seq(Nat \X Nat) /\ Len(g) = b /\ \A d \in 1 .. b : g[d] = <<i, i + d>>
  <2>1. g \in [1 .. b -> Nat \X Nat]
    BY <1>1 DEF RowOf
  <2> QED
    BY <1>1, <2>1 DEF RowOf
<1> HIDE DEF g
<1>3. /\ p \in Seq(Nat \X Nat) /\ Len(p) = a + b
      /\ \A k \in 1 .. a + b : p[k] = IF k <= a THEN o[k] ELSE g[k - a]
  BY <1>1, <1>2
<1> HIDE DEF p, a
<1>4. \A k \in 1 .. a : o[k] \in Nat \X Nat /\ o[k][1] \in 1 .. i - 1 /\ o[k][2] \in 1 .. n /\ o[k][1] < o[k][2]
  BY DEF Pairs, a
<1>5. \A k \in 1 .. a + b : /\ k <= a => k \in 1 .. a /\ p[k] = o[k]
                            /\ ~ (k <= a) => k - a \in 1 .. b /\ p[k] = <<i, i + (k - a)>>
  <2>1. a \in Nat
    BY <1>1 DEF a
  <2>2. \A k \in 1 .. a + b : /\ k <= a => k \in 1 .. a
                              /\ ~ (k <= a) => k - a \in 1 .. b
    BY <1>1, <2>1
  <2> HIDE DEF b
  <2> QED
    BY <1>2, <1>3, <2>2
<1>6. \A k \in 1 .. a + b : p[k][1] \in 1 .. i /\ p[k][2] \in 1 .. n /\ p[k][1] < p[k][2]
  <2> SUFFICES ASSUME NEW k \in 1 .. a + b
               PROVE  p[k][1] \in 1 .. i /\ p[k][2] \in 1 .. n /\ p[k][1] < p[k][2]
    OBVIOUS
  <2>1. CASE k <= a
    <3>1. p[k][1] \in 1 .. i - 1 /\ p[k][2] \in 1 .. n /\ p[k][1] < p[k][2]
      BY <1>4, <1>5, <2>1
    <3> QED
      BY <1>1, <3>1
  <2>2. CASE ~ (k <= a)
    <3>1. k - a \in 1 .. b /\ p[k][1] = i /\ p[k][2] = i + (k - a)
      BY <1>5, <2>2
    <3> QED
      BY <1>1, <3>1
  <2> QED
    BY <2>1, <2>2
<1>7. \A k, l \in 1 .. a + b : p[k] = p[l] => k = l
  <2> SUFFICES ASSUME NEW k \in 1 .. a + b, NEW l \in 1 .. a + b, p[k] = p[l]
               PROVE  k = l
    OBVIOUS
  <2>1. \A j \in 1 .. a + b : p[j][1] = i <=> ~ (j <= a)
    <3>1. \A j \in 1 .. a + b : j <= a => p[j][1] \in 1 .. i - 1
      BY <1>4, <1>5
    <3>2. \A j \in 1 .. a + b : ~ (j <= a) => p[j][1] = i
      BY <1>5
    <3>3. i \notin 1 .. i - 1
      OBVIOUS
    <3> QED
      BY <3>1, <3>2, <3>3
  <2>2. CASE k <= a
    <3>1. k \in 1 .. a /\ l \in 1 .. a /\ o[k] = o[l]
      BY <1>5, <2>1, <2>2
    <3> QED
      BY <3>1 DEF Pairs, a
  <2>3. CASE ~ (k <= a)
    <3>1. ~ (l <= a)
      BY <2>1, <2>3
    <3>2. i + (k - a) = i + (l - a)
      <4>1. p[k][2] = i + (k - a) /\ p[l][2] = i + (l - a)
        BY <1>5, <2>3, <3>1
      <4> QED
        BY <4>1
    <3> QED
      BY <1>1, <3>2
  <2> QED
    BY <2>2, <2>3
<1>8. ASSUME NEW x \in 1 .. i, NEW y \in 1 .. n, x < y
      PROVE  \E k \in 1 .. a + b : p[k] = <<x, y>>
  <2>1. CASE x = i
    <3>1. /\ a + (y - i) \in 1 .. a + b /\ ~ (a + (y - i) <= a)
          /\ i + ((a + (y - i)) - a) = y
      BY <1>1, <1>8, <2>1
    <3> QED
      BY <1>5, <2>1, <3>1
  <2>2. CASE x # i
    <3>1. x \in 1 .. i - 1
      BY <2>2
    <3>2. PICK k \in 1 .. a : o[k] = <<x, y>>
      BY <1>8, <3>1 DEF Pairs, a
    <3>3. k \in 1 .. a + b /\ k <= a
      BY <1>1
    <3> QED
      BY <1>5, <3>2, <3>3
  <2> QED
    BY <2>1, <2>2
<1>9. Pairs(p, i, n)
  <2> HIDE DEF b
  <2>1. Len(p) = a + b
    BY <1>3
  <2>2. \A x \in 1 .. i, y \in 1 .. n : x < y => \E k \in 1 .. a + b : p[k] = <<x, y>>
    BY <1>8
  <2>3. \A k, l \in 1 .. Len(p) : p[k] = p[l] => k = l
    BY <1>7, <2>1
  <2>4. \A k \in 1 .. Len(p) : p[k][1] \in 1 .. i /\ p[k][2] \in 1 .. n /\ p[k][1] < p[k][2]
    BY <1>6, <2>1
  <2>5. \A x \in 1 .. i, y \in 1 .. n : x < y => \E k \in 1 .. Len(p) : p[k] = <<x, y>>
    BY <2>1, <2>2
  <2> HIDE DEF p
  <2>6. p \in Seq(Nat \X Nat)
    BY <1>3
  <2> QED
    BY <2>3, <2>4, <2>5, <2>6 DEF Pairs
<1> QED
  BY <1>9 DEF p, g

\* The order in which a round robin of n lists its pairs.
RoundRobinOrder(n) == FlattenSeq([i \in 1 .. n - 1 |-> RowOf(n, i)])

LEMMA RoundRobinPairs ==
  ASSUME NEW n \in Nat, n >= 2
  PROVE  Pairs(RoundRobinOrder(n), n - 1, n)
<1> DEFINE N == n - 1
           rows == [i \in 1 .. N |-> RowOf(n, i)]
<1>1. rows \in [1 .. N -> Seq(Nat \X Nat)]
  <2>1. ASSUME NEW i \in 1 .. N PROVE RowOf(n, i) \in Seq(Nat \X Nat)
    <3>1. n - i \in Nat /\ RowOf(n, i) \in [1 .. n - i -> Nat \X Nat]
      BY DEF RowOf
    <3> QED
      BY <3>1
  <2> QED
    BY <2>1
<1>2. N \in Nat /\ N >= 1
  OBVIOUS
<1>3. \A i \in 1 .. N : rows[i] = RowOf(n, i) /\ i \in 1 .. n
  OBVIOUS
<1> HIDE DEF rows
<1>4. PICK f : /\ f[1] = rows[1]
               /\ \A i \in 1 .. N : i # 1 => f[i] = f[i - 1] \o rows[i]
               /\ FlattenSeq(rows) = f[N]
  BY <1>1, <1>2, FlattenIs
<1> DEFINE S == {i \in 0 .. N : i # 0 => Pairs(f[i], i, n)}
<1> HIDE DEF N
<1>5. 0 \in S
  BY <1>2
<1>6. ASSUME NEW i \in 0 .. N, i \in S, i < N
      PROVE  i + 1 \in S
  <2>1. i + 1 \in 1 .. N /\ i + 1 \in 0 .. N /\ (i + 1) - 1 = i
    BY <1>2, <1>6
  <2>2. rows[i + 1] = RowOf(n, i + 1) /\ i + 1 \in 1 .. n
    BY <1>3, <2>1
  <2>3. CASE i = 0
    <3>1. Pairs(<<>>, (i + 1) - 1, n)
      <4>1. <<>> \in Seq(Nat \X Nat) /\ 1 .. Len(<<>>) = {} /\ 1 .. (i + 1) - 1 = {}
        BY <2>1, <2>3
      <4> QED
        BY <4>1 DEF Pairs
    <3>2. Pairs(<<>> \o RowOf(n, i + 1), i + 1, n)
      BY <2>2, <3>1, RowPairs
    <3>3. f[i + 1] = RowOf(n, i + 1)
      BY <1>4, <2>2, <2>3
    <3>4. <<>> \o RowOf(n, i + 1) = RowOf(n, i + 1)
      <4>1. RowOf(n, i + 1) \in Seq(Nat \X Nat)
        BY <1>1, <2>1, <2>2
      <4> QED
        BY <4>1
    <3> QED
      BY <2>1, <3>2, <3>3, <3>4
  <2>4. CASE i # 0
    <3>1. Pairs(f[i], (i + 1) - 1, n)
      BY <1>6, <2>1, <2>4
    <3>2. Pairs(f[i] \o RowOf(n, i + 1), i + 1, n)
      BY <2>2, <3>1, RowPairs
    <3>3. f[i + 1] = f[i] \o RowOf(n, i + 1)
      <4>1. i + 1 # 1
        BY <2>4
      <4> QED
        BY <1>4, <2>1, <2>2, <4>1
    <3> QED
      BY <2>1, <3>2, <3>3
  <2> QED
    BY <2>3, <2>4
<1> HIDE DEF S
<1>7. N \in S
  BY <1>2, <1>5, <1>6, Induction
<1>8. Pairs(f[N], N, n)
  BY <1>2, <1>7 DEF S
<1> QED
  BY <1>4, <1>8 DEF RoundRobinOrder, rows, N

-----------------------------------------------------------------------------
(* Everyone is drawn.                                                        *)

\* Two participants for each match of the first round, of which the second may
\* be missing, and every participant in the seat of one of them.
Drawn(s, n, rounds, seat) ==
  /\ FirstRound = 1 .. rounds
  /\ seat \in [1 .. n -> 1 .. rounds]
  /\ \A i \in 1 .. rounds : matches[i].p1 # matches[i].p2
  /\ \A i \in 1 .. rounds, k \in 1 .. n :
       s[k] \in {matches[i].p1, matches[i].p2} <=> seat[k] = i

LEMMA DrawnOnce ==
  ASSUME NEW n \in Nat, NEW s, Order(s, n), NEW rounds, NEW seat, Drawn(s, n, rounds, seat)
  PROVE  /\ \A x \in 1 .. n : Cardinality(SeatsOf(x)) = 1
         /\ \A i \in FirstRound : matches[i].p1 # matches[i].p2
<1>1. ASSUME NEW x \in 1 .. n PROVE Cardinality(SeatsOf(x)) = 1
  <2>1. PICK k \in 1 .. n : s[k] = x
    BY DEF Order
  <2>2. SeatsOf(x) = {seat[k]}
    BY <2>1 DEF SeatsOf, Drawn
  <2> QED
    BY <2>2, FS_Singleton
<1> QED
  BY <1>1 DEF Drawn

LEMMA KnockoutDrawn ==
  ASSUME NEW n, NEW size, NEW s, Order(s, n), Knockout(matches, s, n, size)
  PROVE  Drawn(s, n, size \div 2, [k \in 1 .. n |-> IF k <= size \div 2 THEN k ELSE size + 1 - k])
<1> DEFINE half == size \div 2
           seat == [k \in 1 .. n |-> IF k <= half THEN k ELSE size + 1 - k]
<1>1. Slots(size, n) /\ Tree(matches, size) /\ \A i \in 1 .. half : Seated(matches[i], s, n, size, i)
  BY DEF Knockout
<1>2. size \in Nat /\ n \in Nat /\ half \in Nat /\ size = 2 * half /\ half < n /\ n <= size
  BY <1>1 DEF Slots
<1>3. FirstRound = 1 .. half
  BY <1>1, FirstRoundIsHalf
<1> HIDE DEF half
<1>4. seat \in [1 .. n -> 1 .. half]
  BY <1>2
<1>5. \A k \in 1 .. n : s[k] \in 1 .. n /\ s[k] # NoParticipant
  BY NoParticipantAssumption DEF Order
<1>6. ASSUME NEW i \in 1 .. half
      PROVE  /\ matches[i].p1 # matches[i].p2
             /\ \A k \in 1 .. n : s[k] \in {matches[i].p1, matches[i].p2} <=> seat[k] = i
  <2>1. i \in 1 .. n
    BY <1>2
  <2>2. \A k \in 1 .. n : seat[k] = i <=> k = i \/ k = size + 1 - i
    BY <1>2
  <2>3. CASE size + 1 - i <= n
    <3>1. size + 1 - i \in 1 .. n /\ i # size + 1 - i
      BY <1>2, <2>3
    <3>2. matches[i].p1 = s[i] /\ matches[i].p2 = s[size + 1 - i]
      BY <1>1, <2>3 DEF Seated
    <3>3. PICK j \in 1 .. n : j = size + 1 - i
      BY <3>1
    <3>4. \A k \in 1 .. n : s[k] \in {s[i], s[j]} <=> k = i \/ k = j
      BY <2>1 DEF Order
    <3>5. s[i] # s[j]
      BY <2>1, <3>1, <3>3 DEF Order
    <3> QED
      BY <2>2, <3>2, <3>3, <3>4, <3>5
  <2>4. CASE ~ (size + 1 - i <= n)
    <3>1. \A k \in 1 .. n : k # size + 1 - i
      BY <1>2, <2>4
    <3>2. matches[i].p1 = s[i] /\ matches[i].p2 = NoParticipant
      BY <1>1, <2>4 DEF Seated
    <3>3. \A k \in 1 .. n : s[k] \in {s[i], NoParticipant} <=> k = i
      BY <1>5, <2>1 DEF Order
    <3> QED
      BY <1>5, <2>1, <2>2, <3>1, <3>2, <3>3
  <2> QED
    BY <2>3, <2>4
<1> HIDE DEF seat
<1>7. Drawn(s, n, half, seat)
  BY <1>3, <1>4, <1>6 DEF Drawn
<1> QED
  BY <1>7 DEF half, seat

LEMMA SwissDrawn ==
  ASSUME NEW n \in Nat, NEW s, Order(s, n), matches = SwissRoundOne(s)
  PROVE  Drawn(s, n, (n + 1) \div 2, [k \in 1 .. n |-> (k + 1) \div 2])
<1> DEFINE half == (n + 1) \div 2
           seat == [k \in 1 .. n |-> (k + 1) \div 2]
           paired(i) == [OpenMatch(1, "winners") EXCEPT !.p1     = s[2 * i - 1],
                                                        !.p2     = s[2 * i],
                                                        !.status = "ready"]
           lone(i)   == [OpenMatch(1, "winners") EXCEPT !.p1     = s[n],
                                                        !.winner = s[n],
                                                        !.status = "bye"]
<1>1. Len(s) = n
  BY DEF Order
<1>2. matches = [i \in 1 .. half |-> IF 2 * i <= n THEN paired(i) ELSE lone(i)]
  BY <1>1 DEF SwissRoundOne
<1>3. half \in Nat /\ Len(matches) = half
  <2>1. half \in Nat
    OBVIOUS
  <2> HIDE DEF half, paired, lone
  <2> QED
    BY <1>2, <2>1
<1>4. ASSUME NEW i \in 1 .. half
      PROVE  /\ matches[i].round = 1
             /\ 2 * i <= n => matches[i].p1 = s[2 * i - 1] /\ matches[i].p2 = s[2 * i]
             /\ ~ (2 * i <= n) => matches[i].p1 = s[n] /\ matches[i].p2 = NoParticipant
  <2>1. CASE 2 * i <= n
    <3>1. matches[i] = paired(i)
      BY <1>2, <2>1
    <3>2. paired(i).round = 1 /\ paired(i).p1 = s[2 * i - 1] /\ paired(i).p2 = s[2 * i]
      BY DEF OpenMatch
    <3> QED
      BY <2>1, <3>1, <3>2
  <2>2. CASE ~ (2 * i <= n)
    <3>1. matches[i] = lone(i)
      BY <1>2, <2>2
    <3>2. lone(i).round = 1 /\ lone(i).p1 = s[n] /\ lone(i).p2 = NoParticipant
      BY DEF OpenMatch
    <3> QED
      BY <2>2, <3>1, <3>2
  <2> QED
    BY <2>1, <2>2
<1>5. FirstRound = 1 .. half
  BY <1>3, <1>4 DEF FirstRound, Positions
<1>6. seat \in [1 .. n -> 1 .. half]
  OBVIOUS
<1>7. \A k \in 1 .. n : s[k] \in 1 .. n /\ s[k] # NoParticipant
  BY NoParticipantAssumption DEF Order
<1>8. ASSUME NEW i \in 1 .. half
      PROVE  /\ matches[i].p1 # matches[i].p2
             /\ \A k \in 1 .. n : s[k] \in {matches[i].p1, matches[i].p2} <=> seat[k] = i
  <2>1. CASE 2 * i <= n
    <3>1. PICK a, b : a = 2 * i - 1 /\ b = 2 * i
      OBVIOUS
    <3>2. a \in 1 .. n /\ b \in 1 .. n /\ a # b
      BY <2>1, <3>1
    <3>3. \A k \in 1 .. n : seat[k] = i <=> k = a \/ k = b
      BY <2>1, <3>1
    <3>4. matches[i].p1 = s[a] /\ matches[i].p2 = s[b]
      BY <1>4, <2>1, <3>1
    <3>5. \A k \in 1 .. n : s[k] \in {s[a], s[b]} <=> k = a \/ k = b
      BY <3>2 DEF Order
    <3>6. s[a] # s[b]
      BY <3>2 DEF Order
    <3> HIDE DEF seat
    <3> QED
      BY <3>3, <3>4, <3>5, <3>6
  <2>2. CASE ~ (2 * i <= n)
    <3>1. n \in 1 .. n /\ 2 * i = n + 1
      BY <2>2
    <3>2. \A k \in 1 .. n : seat[k] = i <=> k = n
      BY <3>1
    <3>3. matches[i].p1 = s[n] /\ matches[i].p2 = NoParticipant
      BY <1>4, <2>2
    <3>4. \A k \in 1 .. n : s[k] \in {s[n], NoParticipant} <=> k = n
      BY <1>7, <3>1 DEF Order
    <3> HIDE DEF seat
    <3> QED
      BY <1>7, <3>1, <3>2, <3>3, <3>4
  <2> QED
    BY <2>1, <2>2
<1> HIDE DEF half, seat
<1>9. Drawn(s, n, half, seat)
  BY <1>5, <1>6, <1>8 DEF Drawn
<1> QED
  BY <1>9 DEF half, seat

\* The matches of a round robin, once for each pair of places.
LEMMA RoundRobinIs ==
  ASSUME NEW n \in Nat, n >= 2, NEW s, Order(s, n), matches = RoundRobin(s)
  PROVE  \E o : /\ Pairs(o, n - 1, n)
                /\ FirstRound = 1 .. Len(o)
                /\ \A k \in 1 .. Len(o) : matches[k].p1 = s[o[k][1]] /\ matches[k].p2 = s[o[k][2]]
<1>1. Len(s) = n
  BY DEF Order
<1>2. PICK o : o = RoundRobinOrder(n)
  OBVIOUS
<1>3. Pairs(o, n - 1, n)
  BY <1>2, RoundRobinPairs
<1>4. matches = [k \in 1 .. Len(o) |-> [OpenMatch(1, "winners") EXCEPT !.p1     = s[o[k][1]],
                                                                       !.p2     = s[o[k][2]],
                                                                       !.status = "ready"]]
  BY <1>1, <1>2 DEF RoundRobin, RoundRobinOrder, RowOf
<1>5. Len(o) \in Nat
  BY <1>3 DEF Pairs
<1>6. ASSUME NEW k \in 1 .. Len(o)
      PROVE  matches[k].round = 1 /\ matches[k].p1 = s[o[k][1]] /\ matches[k].p2 = s[o[k][2]]
  <2>1. matches[k] = [OpenMatch(1, "winners") EXCEPT !.p1     = s[o[k][1]],
                                                     !.p2     = s[o[k][2]],
                                                     !.status = "ready"]
    BY <1>4
  <2> QED
    BY <2>1 DEF OpenMatch
<1>7. Len(matches) = Len(o)
  <2> DEFINE ready(k) == [OpenMatch(1, "winners") EXCEPT !.p1     = s[o[k][1]],
                                                         !.p2     = s[o[k][2]],
                                                         !.status = "ready"]
  <2>1. PICK l \in Nat : l = Len(o)
    BY <1>5
  <2>2. matches = [k \in 1 .. l |-> ready(k)]
    BY <1>4, <2>1
  <2> HIDE DEF ready
  <2> QED
    BY <2>1, <2>2
<1>8. FirstRound = 1 .. Len(o)
  BY <1>6, <1>7 DEF FirstRound, Positions
<1> QED
  BY <1>3, <1>6, <1>8

\* Place a is drawn in match k.
Holds(o, k, a) == a = o[k][1] \/ a = o[k][2]

\* Match m, and it alone, holds both places.
Meeting(o, a, b, m) ==
  /\ m \in 1 .. Len(o) /\ Holds(o, m, a) /\ Holds(o, m, b)
  /\ \A k \in 1 .. Len(o) : Holds(o, k, a) /\ Holds(o, k, b) => k = m

LEMMA PairsMeetOnce ==
  ASSUME NEW n \in Nat, n >= 2, NEW o, Pairs(o, n - 1, n),
         NEW a \in 1 .. n, NEW b \in 1 .. n, a # b
  PROVE  \E m : Meeting(o, a, b, m)
<1>1. PICK x \in 1 .. n : \E y \in 1 .. n : {x, y} = {a, b} /\ x < y
  <2>1. CASE a < b
    BY <2>1
  <2>2. CASE b < a
    BY <2>2
  <2> QED
    BY <2>1, <2>2
<1>2. PICK y \in 1 .. n : {x, y} = {a, b} /\ x < y
  BY <1>1
<1>3. x \in 1 .. n - 1
  BY <1>2
<1>4. PICK m \in 1 .. Len(o) : o[m] = <<x, y>>
  BY <1>2, <1>3 DEF Pairs
<1>5. ASSUME NEW k \in 1 .. Len(o), Holds(o, k, a), Holds(o, k, b)
      PROVE  k = m
  <2>1. o[k] \in Nat \X Nat /\ o[k][1] < o[k][2]
    BY DEF Pairs
  <2>2. PICK v \in Nat, w \in Nat : o[k] = <<v, w>>
    BY <2>1
  <2>3. v < w /\ (a = v \/ a = w) /\ (b = v \/ b = w)
    BY <1>5, <2>1, <2>2 DEF Holds
  <2>4. v = x /\ w = y
    <3>1. (x = a /\ y = b) \/ (x = b /\ y = a)
      BY <1>2
    <3> QED
      BY <1>2, <2>3, <3>1
  <2>5. o[k] = o[m]
    BY <1>4, <2>2, <2>4
  <2> QED
    BY <2>5 DEF Pairs
<1>6. o[m][1] = x /\ o[m][2] = y
  BY <1>4
<1>7. Holds(o, m, a) /\ Holds(o, m, b)
  BY <1>2, <1>6 DEF Holds
<1>8. Meeting(o, a, b, m)
  BY <1>5, <1>7 DEF Meeting
<1> QED
  BY <1>8

\* Everyone meets everyone else, once.
LEMMA RoundRobinDrawn ==
  ASSUME NEW n \in Nat, n >= 2, NEW s, Order(s, n), matches = RoundRobin(s)
  PROVE  /\ \A x \in 1 .. n : Cardinality(SeatsOf(x)) = n - 1
         /\ \A i \in FirstRound : matches[i].p1 # matches[i].p2
         /\ \A x, y \in 1 .. n : x # y => Cardinality(SeatsOf(x) \cap SeatsOf(y)) = 1
<1>1. PICK o : /\ Pairs(o, n - 1, n)
               /\ FirstRound = 1 .. Len(o)
               /\ \A k \in 1 .. Len(o) : matches[k].p1 = s[o[k][1]] /\ matches[k].p2 = s[o[k][2]]
  BY RoundRobinIs
<1>2. ASSUME NEW k \in 1 .. Len(o)
      PROVE  o[k][1] \in 1 .. n /\ o[k][2] \in 1 .. n /\ o[k][1] # o[k][2]
  <2>1. o[k][1] \in 1 .. n - 1 /\ o[k][2] \in 1 .. n /\ o[k][1] < o[k][2]
    BY <1>1 DEF Pairs
  <2> QED
    BY <2>1
<1>3. \A i \in FirstRound : matches[i].p1 # matches[i].p2
  <2> SUFFICES ASSUME NEW k \in 1 .. Len(o) PROVE matches[k].p1 # matches[k].p2
    BY <1>1
  <2>1. PICK v \in 1 .. n, w \in 1 .. n : v = o[k][1] /\ w = o[k][2] /\ v # w
    BY <1>2
  <2>2. s[v] # s[w]
    BY <2>1 DEF Order
  <2> QED
    BY <1>1, <2>1, <2>2
<1>4. ASSUME NEW a \in 1 .. n, NEW k \in 1 .. Len(o)
      PROVE  k \in SeatsOf(s[a]) <=> Holds(o, k, a)
  <2>1. PICK v \in 1 .. n, w \in 1 .. n : v = o[k][1] /\ w = o[k][2]
    BY <1>2
  <2>2. s[a] \in {s[v], s[w]} <=> a = v \/ a = w
    BY DEF Order
  <2>3. matches[k].p1 = s[v] /\ matches[k].p2 = s[w] /\ k \in FirstRound
    BY <1>1, <2>1
  <2> QED
    BY <2>1, <2>2, <2>3 DEF SeatsOf, Holds
<1>5. \A a \in 1 .. n : SeatsOf(s[a]) \subseteq 1 .. Len(o)
  BY <1>1 DEF SeatsOf
<1>6. \A a, b \in 1 .. n : a # b => \E m : Meeting(o, a, b, m)
  BY <1>1, PairsMeetOnce
<1>7. ASSUME NEW x \in 1 .. n, NEW y \in 1 .. n, x # y
      PROVE  Cardinality(SeatsOf(x) \cap SeatsOf(y)) = 1
  <2>1. PICK a \in 1 .. n : s[a] = x
    BY DEF Order
  <2>2. PICK b \in 1 .. n : s[b] = y
    BY DEF Order
  <2>3. a # b
    BY <1>7, <2>1, <2>2
  <2>4. PICK m : Meeting(o, a, b, m)
    BY <1>6, <2>3
  <2>5. m \in SeatsOf(x) /\ m \in SeatsOf(y)
    BY <1>4, <2>1, <2>2, <2>4 DEF Meeting
  <2>6. \A k \in SeatsOf(x) \cap SeatsOf(y) : k = m
    BY <1>4, <1>5, <2>1, <2>2, <2>4 DEF Meeting
  <2>7. SeatsOf(x) \cap SeatsOf(y) = {m}
    BY <2>5, <2>6
  <2> QED
    BY <2>7, FS_Singleton
<1>8. ASSUME NEW x \in 1 .. n
      PROVE  Cardinality(SeatsOf(x)) = n - 1
  <2>1. PICK a \in 1 .. n : s[a] = x
    BY DEF Order
  <2> DEFINE others == (1 .. n) \ {a}
             f == [b \in others |-> CHOOSE m : Meeting(o, a, b, m)]
  <2>2. ASSUME NEW b \in others
        PROVE  Meeting(o, a, b, f[b])
    <3>1. b \in 1 .. n /\ a # b
      OBVIOUS
    <3>2. \E m : Meeting(o, a, b, m)
      BY <1>6, <3>1
    <3> QED
      BY <3>2
  <2>3. \A b \in others : b \in 1 .. n /\ a # b
    OBVIOUS
  <2>4. IsFiniteSet(others) /\ Cardinality(others) = n - 1
    <3>1. IsFiniteSet(1 .. n) /\ Cardinality(1 .. n) = n
      BY FS_Interval
    <3> QED
      BY <3>1, FS_RemoveElement
  <2>5. \A b \in 1 .. n : a # b => b \in others
    OBVIOUS
  <2> HIDE DEF others
  <2>6. DOMAIN f = others /\ f \in [others -> {f[b] : b \in others}]
    OBVIOUS
  <2> HIDE DEF f
  <2>7. \A b \in others : f[b] \in SeatsOf(x)
    BY <1>4, <2>1, <2>2 DEF Meeting
  <2>8. f \in [others -> SeatsOf(x)]
    BY <2>6, <2>7
  <2>9. ASSUME NEW b \in others, NEW c \in others, f[b] = f[c]
        PROVE  b = c
    <3>1. PICK k \in 1 .. Len(o) : k = f[b] /\ k = f[c]
      BY <2>2, <2>9 DEF Meeting
    <3>2. Holds(o, k, a) /\ Holds(o, k, b) /\ Holds(o, k, c)
      BY <2>2, <3>1 DEF Meeting
    <3> QED
      BY <2>3, <3>2 DEF Holds
  <2>10. ASSUME NEW k \in SeatsOf(x) PROVE \E b \in others : f[b] = k
    <3>1. k \in 1 .. Len(o) /\ Holds(o, k, a)
      BY <1>4, <1>5, <2>1
    <3>2. PICK b \in 1 .. n : a # b /\ Holds(o, k, b)
      BY <1>2, <3>1 DEF Holds
    <3>3. b \in others
      BY <2>5, <3>2
    <3>4. PICK m : Meeting(o, a, b, m)
      BY <1>6, <3>2
    <3>5. f[b] = m /\ k = m
      BY <2>2, <3>1, <3>2, <3>3, <3>4 DEF Meeting
    <3> QED
      BY <3>3, <3>5
  <2>11. f \in Bijection(others, SeatsOf(x))
    BY <2>6, <2>8, <2>9, <2>10 DEF Bijection, Injection, Surjection, IsInjective
  <2>12. ExistsBijection(others, SeatsOf(x))
    BY <2>11 DEF ExistsBijection
  <2> QED
    BY <2>4, <2>12, FS_Bijection
<1> QED
  BY <1>3, <1>7, <1>8

\* The draw loses nobody and gives nobody two seats; a round robin plays every
\* pair exactly once (the slot loops of the four generators).
THEOREM NobodyIsLost == Spec => []EveryoneIsDrawn
<1>1. Generated => EveryoneIsDrawn
  <2> DEFINE n == Len(listed)
  <2> SUFFICES ASSUME Generated, format # "none"
               PROVE  EveryoneIsDrawn
    BY DEF EveryoneIsDrawn
  <2>1. n \in Nat /\ n >= 2 /\ Order(seeded, n) /\ Listed(listed)
    BY DEF Generated, Listed
  <2>2. Entrants = 1 .. n
    BY <2>1 DEF Entrants, Listed
  <2> HIDE DEF n
  <2>3. CASE format \in {"single_elimination", "double_elimination"}
    <3>1. Knockout(matches, seeded, n, BracketSize(n))
      BY <2>3, KnockoutIs DEF n
    <3>2. PICK rounds, seat : Drawn(seeded, n, rounds, seat)
      BY <2>1, <3>1, KnockoutDrawn
    <3> QED
      BY <2>1, <2>2, <2>3, <3>2, DrawnOnce DEF EveryoneIsDrawn, n
  <2>4. CASE format = "swiss"
    <3>1. matches = SwissRoundOne(seeded)
      BY <2>4 DEF Generated
    <3>2. PICK rounds, seat : Drawn(seeded, n, rounds, seat)
      BY <2>1, <3>1, SwissDrawn
    <3> QED
      BY <2>1, <2>2, <2>4, <3>2, DrawnOnce DEF EveryoneIsDrawn, n
  <2>5. CASE format = "round_robin"
    <3>1. matches = RoundRobin(seeded)
      BY <2>5 DEF Generated, Draw
    <3> QED
      BY <2>1, <2>2, <2>5, <3>1, RoundRobinDrawn DEF EveryoneIsDrawn, n
  <2> QED
    BY <2>3, <2>4, <2>5 DEF Generated, Formats
<1> QED
  BY <1>1, AlwaysGenerated, PTL

=============================================================================
