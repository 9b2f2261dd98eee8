-------------------------- MODULE KestrelIndexProofs --------------------------
(***************************************************************************)
(* What holds of the segments and snapshots of KestrelIndex, for any       *)
(* documents, rows, sizes of words and of blocks: what a commit, a         *)
(* compaction and a replay make of a good snapshot.  KestrelSnapshotProofs *)
(* and KestrelSearchProofs build on it.                                    *)
(***************************************************************************)
EXTENDS KestrelIndex, FiniteSetTheorems, FunctionTheorems, SequenceTheorems,
        WellFoundedInduction,
        TLAPS

-----------------------------------------------------------------------------
(* Sorted sets.                                                            *)

\* The number of elements before x.
Rank(S, x) == Cardinality({y \in S : y < x})

\* Ranks count from 0, and are in the order of the elements.
LEMMA Ranks ==
  ASSUME NEW S \in SUBSET Int, IsFiniteSet(S)
  PROVE  /\ \A x \in S : Rank(S, x) \in 0..(Cardinality(S) - 1)
         /\ \A x, y \in S : x < y => Rank(S, x) < Rank(S, y)
<1>1. Cardinality(S) \in Nat
  BY FS_CardinalityType
<1>2. ASSUME NEW x \in S
      PROVE  /\ IsFiniteSet({z \in S : z < x}) /\ Rank(S, x) \in Nat
             /\ Rank(S, x) < Cardinality(S)
  <2> DEFINE T == {z \in S : z < x}
  <2>1. T \in SUBSET S /\ T # S
    OBVIOUS
  <2> HIDE DEF T
  <2>2. /\ IsFiniteSet(T) /\ Cardinality(T) \in Nat
        /\ Cardinality(T) <= Cardinality(S) /\ Cardinality(T) # Cardinality(S)
    BY <2>1, FS_Subset, FS_CardinalityType
  <2> QED BY <1>1, <2>2 DEF T, Rank
<1>3. ASSUME NEW x \in S, NEW y \in S, x < y PROVE Rank(S, x) < Rank(S, y)
  <2> DEFINE T == {z \in S : z < x}
             U == {z \in S : z < y}
  <2>1. T \in SUBSET U
    <3>1. ASSUME NEW z \in S, z < x PROVE z < y
      BY <1>3, <3>1
    <3> QED BY <3>1
  <2>2. x \in U /\ x \notin T
    BY <1>3
  <2>3. IsFiniteSet(U) /\ Cardinality(T) \in Nat /\ Cardinality(U) \in Nat
    BY <1>2 DEF Rank
  <2>4. Rank(S, x) = Cardinality(T) /\ Rank(S, y) = Cardinality(U)
    BY DEF Rank
  <2> HIDE DEF T, U
  <2>5. Cardinality(T) <= Cardinality(U) /\ Cardinality(T) # Cardinality(U)
    BY <2>1, <2>2, <2>3, FS_Subset
  <2> QED BY <2>3, <2>4, <2>5
<1>4. ASSUME NEW x \in S PROVE Rank(S, x) \in 0..(Cardinality(S) - 1)
  <2>1. Rank(S, x) \in Nat /\ Rank(S, x) < Cardinality(S)
    BY <1>2
  <2> QED BY <1>1, <2>1
<1> QED BY <1>3, <1>4

\* Ascending lists each element of a finite set of integers once, in order.
LEMMA AscendingLists ==
  ASSUME NEW S \in SUBSET Int, IsFiniteSet(S)
  PROVE  /\ Cardinality(S) \in Nat
         /\ Ascending(S) \in [1..Cardinality(S) -> S]
         /\ Ascending(S) \in Seq(S) /\ Len(Ascending(S)) = Cardinality(S)
         /\ \A i, j \in 1..Cardinality(S) : i < j => Ascending(S)[i] < Ascending(S)[j]
         /\ \A x \in S : \E i \in 1..Cardinality(S) : Ascending(S)[i] = x
<1> DEFINE n == Cardinality(S)
           rank == [x \in S |-> Rank(S, x)]
<1>1. n \in Nat
  BY FS_CardinalityType
<1>2. /\ rank \in [S -> 0..(n - 1)]
      /\ \A x, y \in S : x < y => rank[x] < rank[y]
  BY Ranks
<1>3. rank \in Injection(S, 0..(n - 1))
  <2>1. \A x, y \in S : x # y => x < y \/ y < x
    OBVIOUS
  <2>2. \A x, y \in S : rank[x] = rank[y] => x = y
    BY <1>1, <1>2, <2>1
  <2> QED BY <1>2, <2>2 DEF Injection, IsInjective
<1>4. /\ IsFiniteSet(0..(n - 1)) /\ Cardinality(0..(n - 1)) = n
  BY <1>1, FS_Interval, SMTT(30)
<1>5. rank \in Surjection(S, 0..(n - 1))
  BY <1>3, <1>4, FS_Injection
<1>6. \A k \in 0..(n - 1) : \E x \in S : rank[x] = k
  BY <1>5 DEF Surjection
<1>7. ASSUME NEW i \in 1..n
      PROVE  Ascending(S)[i] \in S /\ rank[Ascending(S)[i]] = i - 1
  <2>1. i - 1 \in 0..(n - 1)
    BY <1>1
  <2>2. \E x \in S : Cardinality({y \in S : y < x}) = i - 1
    BY <1>6, <2>1 DEF Rank
  <2>3. Ascending(S)[i] = CHOOSE x \in S : Cardinality({y \in S : y < x}) = i - 1
    BY DEF Ascending, SortedBy
  <2> QED BY <2>2, <2>3 DEF Rank
<1>8. Ascending(S) \in [1..n -> S]
  BY <1>7 DEF Ascending, SortedBy
<1>9. ASSUME NEW i \in 1..n, NEW j \in 1..n, i < j
      PROVE  Ascending(S)[i] < Ascending(S)[j]
  <2> DEFINE x == Ascending(S)[i]
             y == Ascending(S)[j]
  <2>1. x \in S /\ y \in S /\ rank[x] = i - 1 /\ rank[y] = j - 1
    BY <1>7
  <2>2. y < x => rank[y] < rank[x]
    BY <1>2, <2>1
  <2> HIDE DEF rank, x, y
  <2>3. x < y \/ x = y \/ y < x
    BY <2>1
  <2> QED BY <1>1, <1>9, <2>1, <2>2, <2>3 DEF x, y
<1>10. ASSUME NEW x \in S PROVE \E i \in 1..n : Ascending(S)[i] = x
  <2>1. rank[x] + 1 \in 1..n
    BY <1>1, <1>2
  <2> DEFINE y == Ascending(S)[rank[x] + 1]
  <2>2. y \in S /\ rank[y] = rank[x]
    <3>1. y \in S /\ rank[y] = (rank[x] + 1) - 1
      BY <1>7, <2>1
    <3>2. (rank[x] + 1) - 1 = rank[x]
      BY <1>2
    <3> QED BY <3>1, <3>2
  <2> QED BY <1>3, <2>1, <2>2 DEF Injection, IsInjective
<1>11. Ascending(S) \in Seq(S) /\ Len(Ascending(S)) = n
  BY <1>1, <1>8
<1> QED BY <1>1, <1>8, <1>9, <1>10, <1>11

\* R orders S strictly and totally.
Orders(R, S) ==
  /\ \A x, y \in S : <<x, y>> \in R => <<y, x>> \notin R
  /\ \A x, y \in S : x # y => <<x, y>> \in R \/ <<y, x>> \in R
  /\ \A x, y, z \in S : <<x, y>> \in R /\ <<y, z>> \in R => <<x, z>> \in R

RankIn(R, S, x) == Cardinality({y \in S : <<y, x>> \in R})

\* Ranks count from 0, each of them once, in the order of the elements.
LEMMA RanksIn ==
  ASSUME NEW S, IsFiniteSet(S), NEW R, Orders(R, S)
  PROVE  /\ Cardinality(S) \in Nat
         /\ \A x \in S : RankIn(R, S, x) \in 0..(Cardinality(S) - 1)
         /\ \A x, y \in S : <<x, y>> \in R => RankIn(R, S, x) < RankIn(R, S, y)
         /\ \A x, y \in S : RankIn(R, S, x) = RankIn(R, S, y) => x = y
         /\ \A i \in 1..Cardinality(S) : \E x \in S : RankIn(R, S, x) = i - 1
<1> DEFINE n == Cardinality(S)
           under(x) == {y \in S : <<y, x>> \in R}
           rank == [x \in S |-> RankIn(R, S, x)]
<1>1. n \in Nat
  BY FS_CardinalityType
<1>2. ASSUME NEW x \in S
      PROVE  /\ IsFiniteSet(under(x)) /\ RankIn(R, S, x) \in Nat
             /\ RankIn(R, S, x) < n
  <2> DEFINE T == under(x)
  <2>1. T \in SUBSET S /\ x \notin T
    BY DEF Orders
  <2> HIDE DEF T
  <2>2. /\ IsFiniteSet(T) /\ Cardinality(T) \in Nat
        /\ Cardinality(T) <= n /\ Cardinality(T) # n
    BY <2>1, FS_Subset, FS_CardinalityType
  <2> QED BY <1>1, <2>2 DEF T, RankIn
<1>3. ASSUME NEW x \in S, NEW y \in S, <<x, y>> \in R
      PROVE  RankIn(R, S, x) < RankIn(R, S, y)
  <2> DEFINE T == under(x)
             U == under(y)
  <2>1. T \in SUBSET U /\ x \in U /\ x \notin T
    BY <1>3 DEF Orders
  <2>2. IsFiniteSet(U) /\ Cardinality(T) \in Nat /\ Cardinality(U) \in Nat
    BY <1>2 DEF RankIn
  <2>3. RankIn(R, S, x) = Cardinality(T) /\ RankIn(R, S, y) = Cardinality(U)
    BY DEF RankIn
  <2> HIDE DEF T, U
  <2>4. Cardinality(T) <= Cardinality(U) /\ Cardinality(T) # Cardinality(U)
    BY <2>1, <2>2, FS_Subset
  <2> QED BY <2>2, <2>3, <2>4
<1>4. ASSUME NEW x \in S PROVE RankIn(R, S, x) \in 0..(n - 1)
  <2>1. RankIn(R, S, x) \in Nat /\ RankIn(R, S, x) < n
    BY <1>2
  <2> QED BY <1>1, <2>1
<1>5. ASSUME NEW x \in S, NEW y \in S, RankIn(R, S, x) = RankIn(R, S, y)
      PROVE  x = y
  <2>1. RankIn(R, S, x) \in Nat
    BY <1>2
  <2>2. ~(RankIn(R, S, x) < RankIn(R, S, y)) /\ ~(RankIn(R, S, y) < RankIn(R, S, x))
    BY <1>5, <2>1
  <2>3. <<x, y>> \notin R /\ <<y, x>> \notin R
    BY <1>3, <2>2
  <2> QED BY <2>3 DEF Orders
<1>6. rank \in Injection(S, 0..(n - 1))
  <2>1. rank \in [S -> 0..(n - 1)]
    BY <1>4
  <2> QED BY <1>5, <2>1 DEF Injection, IsInjective
<1>7. /\ IsFiniteSet(0..(n - 1)) /\ Cardinality(0..(n - 1)) = n
  <2> HIDE DEF n
  <2> QED BY <1>1, FS_Interval, SMTT(30)
<1>8. rank \in Surjection(S, 0..(n - 1))
  BY <1>6, <1>7, FS_Injection
<1>9. ASSUME NEW i \in 1..n PROVE \E x \in S : RankIn(R, S, x) = i - 1
  <2>1. i - 1 \in 0..(n - 1)
    BY <1>1
  <2> QED BY <1>8, <2>1 DEF Surjection
<1> QED BY <1>1, <1>3, <1>4, <1>5, <1>9

\* The list has each element of S once, in the order of R.
Lists(list, R, S) ==
  /\ list \in Seq(S) /\ Len(list) = Cardinality(S)
  /\ \A i, j \in DOMAIN list : i < j <=> <<list[i], list[j]>> \in R
  /\ \A i, j \in DOMAIN list : list[i] = list[j] => i = j
  /\ \A x \in S : \E i \in DOMAIN list : list[i] = x

\* The elements by their ranks are such a list.
LEMMA RankedLists ==
  ASSUME NEW S, IsFiniteSet(S), NEW R, Orders(R, S),
         NEW list \in [1..Cardinality(S) -> S],
         \A i \in 1..Cardinality(S) : RankIn(R, S, list[i]) = i - 1
  PROVE  Lists(list, R, S)
<1> DEFINE n == Cardinality(S)
<1>1. n \in Nat
  BY FS_CardinalityType
<1>2. list \in [1..n -> S] /\ DOMAIN list = 1..n
  OBVIOUS
<1>3. \A i, j \in 1..n : <<list[i], list[j]>> \in R => i < j
  <2> SUFFICES ASSUME NEW i \in 1..n, NEW j \in 1..n, <<list[i], list[j]>> \in R
               PROVE  i < j
    OBVIOUS
  <2>1. list[i] \in S /\ list[j] \in S
    BY <1>2
  <2>2. RankIn(R, S, list[i]) < RankIn(R, S, list[j])
    BY <2>1, RanksIn
  <2>3. RankIn(R, S, list[i]) = i - 1 /\ RankIn(R, S, list[j]) = j - 1
    OBVIOUS
  <2> QED BY <1>1, <2>2, <2>3
<1>4. \A i, j \in 1..n : list[i] = list[j] => i = j
  <2> SUFFICES ASSUME NEW i \in 1..n, NEW j \in 1..n, list[i] = list[j]
               PROVE  i = j
    OBVIOUS
  <2>1. RankIn(R, S, list[i]) = i - 1 /\ RankIn(R, S, list[j]) = j - 1
    OBVIOUS
  <2> QED BY <1>1, <2>1
<1>5. \A i, j \in 1..n : i < j => <<list[i], list[j]>> \in R
  <2> SUFFICES ASSUME NEW i \in 1..n, NEW j \in 1..n, i < j
               PROVE  <<list[i], list[j]>> \in R
    OBVIOUS
  <2>1. i # j /\ ~(j < i)
    BY <1>1
  <2>2. list[i] \in S /\ list[j] \in S /\ list[i] # list[j]
    BY <1>2, <1>4, <2>1
  <2>3. <<list[j], list[i]>> \notin R
    BY <1>3, <2>1
  <2> QED BY <2>2, <2>3 DEF Orders
<1>6. ASSUME NEW x \in S PROVE \E i \in 1..n : list[i] = x
  <2> DEFINE i == RankIn(R, S, x) + 1
  <2>1. RankIn(R, S, x) \in 0..(n - 1)
    BY RanksIn
  <2>2. i \in 1..n /\ i - 1 = RankIn(R, S, x)
    BY <1>1, <2>1
  <2> HIDE DEF i
  <2>3. list[i] \in S /\ RankIn(R, S, list[i]) = RankIn(R, S, x)
    BY <2>2
  <2>4. list[i] = x
    BY <2>3, RanksIn
  <2> QED BY <2>2, <2>4
<1>7. list \in Seq(S) /\ Len(list) = n
  BY <1>1, <1>2
<1> QED BY <1>1, <1>2, <1>3, <1>4, <1>5, <1>6, <1>7 DEF Lists

-----------------------------------------------------------------------------
(* Smallest and largest numbers, and sizes.                                *)

\* A set of natural numbers that is not empty has a least one.
LEMMA Least ==
  ASSUME NEW S, S \subseteq Nat, S # {}
  PROVE  \E m \in S : \A j \in S : m <= j
<1>1. PICK m \in S : \A j \in S : ~(<<j, m>> \in OpToRel(<, Nat))
  BY NatLessThanWellFounded, WFMin
<1>2. ASSUME NEW j \in S PROVE m <= j
  <2>1. j \in Nat /\ m \in Nat
    OBVIOUS
  <2>2. ~(<<j, m>> \in OpToRel(<, Nat))
    BY <1>1
  <2>3. ~(j < m)
    BY <2>1, <2>2 DEF OpToRel
  <2> QED BY <2>1, <2>3
<1> QED BY <1>2

\* If it has a bound it has a greatest one.
LEMMA Greatest ==
  ASSUME NEW S, S \subseteq Nat, S # {}, NEW n \in Nat, \A j \in S : j <= n
  PROVE  \E m \in S : \A j \in S : j <= m
<1> DEFINE T == {n - j : j \in S}
<1>1. T \subseteq Nat /\ T # {}
  <2>1. \A j \in S : j \in Nat /\ n - j \in Nat
    OBVIOUS
  <2> QED BY <2>1
<1>2. PICK k \in T : \A j \in T : k <= j
  <2> HIDE DEF T
  <2> QED BY <1>1, Least
<1>3. PICK m \in S : k = n - m
  BY <1>2
<1>4. ASSUME NEW j \in S PROVE j <= m
  <2>1. n - j \in T
    OBVIOUS
  <2>2. n - m <= n - j
    BY <1>2, <1>3, <2>1
  <2> QED BY <2>2
<1> QED BY <1>4

LEMMA MinIs ==
  ASSUME NEW S, S \subseteq Nat, S # {}
  PROVE  Min(S) \in S /\ \A j \in S : Min(S) <= j
BY Least DEF Min

LEMMA MaxIs ==
  ASSUME NEW S, S \subseteq Nat, S # {}, NEW n \in Nat, \A j \in S : j <= n
  PROVE  Max(S) \in S /\ \A j \in S : j <= Max(S)
<1>1. \E m \in S : \A j \in S : m >= j
  BY Greatest
<1> QED BY <1>1 DEF Max

\* The elements of a sequence.
LEMMA ToSetIs ==
  ASSUME NEW X, NEW seq \in Seq(X)
  PROVE  /\ IsFiniteSet(DOMAIN seq) /\ IsFiniteSet(ToSet(seq))
         /\ ToSet(seq) \subseteq X
         /\ \A x : x \in ToSet(seq) <=> \E i \in DOMAIN seq : seq[i] = x
<1>1. DOMAIN seq = 1..Len(seq) /\ Len(seq) \in Nat
  OBVIOUS
<1>2. IsFiniteSet(DOMAIN seq)
  BY <1>1, FS_Interval
<1>3. ToSet(seq) = {seq[i] : i \in DOMAIN seq}
  BY DEF ToSet
<1>4. IsFiniteSet(ToSet(seq))
  <2>1. seq \in Surjection(DOMAIN seq, ToSet(seq))
    BY <1>3 DEF Surjection
  <2> QED BY <1>2, <2>1, FS_Surjection
<1> QED BY <1>2, <1>3, <1>4

-----------------------------------------------------------------------------
(* Live masks.                                                             *)

\* Division with a remainder.
LEMMA DivMod ==
  \A n \in Nat, w \in Nat \ {0} :
    /\ n \div w \in Nat /\ n % w \in 0..(w - 1)
    /\ n = w * (n \div w) + (n % w)
OBVIOUS

LEMMA TimesMonotone ==
  ASSUME NEW w \in Nat, NEW a \in Nat, NEW b \in Nat, a <= b
  PROVE  w * a <= w * b
OBVIOUS

\* The quotient is determined by its bounds.
LEMMA DivBounds ==
  ASSUME NEW n \in Nat, NEW w \in Nat \ {0}, NEW q \in Nat
  PROVE  /\ w * q <= n => q <= n \div w
         /\ n < w * q => n \div w < q
<1>1. /\ n \div w \in Nat /\ n % w \in 0..(w - 1)
      /\ n = w * (n \div w) + (n % w)
  BY DivMod
<1> DEFINE p == n \div w
<1>2. w * (p + 1) = w * p + w
  BY <1>1
<1>3. p + 1 <= q => w * (p + 1) <= w * q
  BY <1>1, TimesMonotone
<1>4. q <= p => w * q <= w * p
  BY <1>1, TimesMonotone
<1>5. w * p \in Nat /\ w * q \in Nat
  BY <1>1
<1> HIDE DEF p
<1> QED BY <1>1, <1>2, <1>3, <1>4, <1>5 DEF p

\* A number has one quotient and one remainder.
LEMMA SameBit ==
  ASSUME NEW m \in Nat, NEW n \in Nat, NEW w \in Nat \ {0},
         m \div w = n \div w, m % w = n % w
  PROVE  m = n
BY DivMod

\* The mask of a segment has a word for every document, and its bit is set.
LEMMA FullMask ==
  ASSUME NEW n \in Nat
  PROVE  /\ FullLiveMask(n) \in Seq(SUBSET Nat)
         /\ Len(FullLiveMask(n)) = CeilDiv(n, WordBits)
         /\ \A d \in 0..(n - 1) :
              /\ d \div WordBits + 1 \in DOMAIN FullLiveMask(n)
              /\ d % WordBits \in FullLiveMask(n)[d \div WordBits + 1]
<1> DEFINE W == WordBits
           k == CeilDiv(n, W)
<1>1. W \in Nat \ {0}
  BY IndexAssumption
<1>2. k \in Nat
  <2>1. n + W - 1 \in Nat
    BY <1>1
  <2> QED BY <1>1, <2>1, DivMod DEF CeilDiv
<1>3. FullLiveMask(n) \in [1..k -> SUBSET Nat]
  <2>1. \A w \in 1..k : 0..((IF w * W <= n THEN W ELSE n % W) - 1) \in SUBSET Nat
    OBVIOUS
  <2> QED BY <2>1 DEF FullLiveMask
<1>4. FullLiveMask(n) \in Seq(SUBSET Nat) /\ Len(FullLiveMask(n)) = k
  BY <1>2, <1>3
<1>5. ASSUME NEW d \in 0..(n - 1)
      PROVE  /\ d \div W + 1 \in 1..k
             /\ d % W \in FullLiveMask(n)[d \div W + 1]
  <2> DEFINE q == d \div W
  <2>1. d \in Nat /\ q \in Nat /\ d % W \in 0..(W - 1) /\ d = W * q + (d % W)
    <3>1. d \in Nat
      OBVIOUS
    <3> QED BY <1>1, <3>1, DivMod
  <2>2. W * (q + 1) = W * q + W /\ W * q \in Nat /\ q + 1 \in Nat
    BY <1>1, <2>1
  <2>3. W * (q + 1) <= n + W - 1 /\ n + W - 1 \in Nat
    BY <1>1, <2>1, <2>2
  <2>4. q + 1 <= k
    BY <1>1, <2>2, <2>3, DivBounds DEF CeilDiv
  <2>5. q + 1 \in 1..k
    BY <1>2, <2>1, <2>4
  <2>6. CASE (q + 1) * W <= n
    <3>1. FullLiveMask(n)[q + 1] = 0..(W - 1)
      BY <2>5, <2>6 DEF FullLiveMask
    <3> QED BY <2>1, <2>5, <3>1
  <2>7. CASE ~((q + 1) * W <= n)
    <3>1. FullLiveMask(n)[q + 1] = 0..((n % W) - 1)
      BY <2>5, <2>7 DEF FullLiveMask
    <3>2. n < W * (q + 1)
      BY <1>1, <2>1, <2>7
    <3>3. n \div W < q + 1
      BY <1>1, <2>2, <3>2, DivBounds
    <3>4. W * q <= n
      BY <2>1, <2>2
    <3>5. q <= n \div W
      BY <1>1, <2>1, <3>4, DivBounds
    <3>6. /\ n \div W \in Nat /\ n % W \in 0..(W - 1)
          /\ n = W * (n \div W) + (n % W)
      BY <1>1, DivMod
    <3>7. n \div W = q
      BY <2>1, <3>3, <3>5, <3>6
    <3>8. n = W * q + (n % W)
      BY <3>6, <3>7
    <3>9. d % W < n % W
      BY <1>1, <2>1, <2>2, <3>6, <3>8
    <3> QED BY <2>1, <2>5, <3>1, <3>6, <3>9
  <2> QED BY <2>6, <2>7
<1> QED BY <1>4, <1>5

\* Clearing the bits of some documents leaves those of all others.
LEMMA ClearedMask ==
  ASSUME NEW mask \in Seq(SUBSET Nat), NEW docids \in SUBSET Nat
  PROVE  /\ ClearBits(mask, docids) \in Seq(SUBSET Nat)
         /\ Len(ClearBits(mask, docids)) = Len(mask)
         /\ \A d \in Nat : d \div WordBits + 1 \in DOMAIN mask =>
              (d % WordBits \in ClearBits(mask, docids)[d \div WordBits + 1] <=>
                 d % WordBits \in mask[d \div WordBits + 1] /\ d \notin docids)
<1> DEFINE W == WordBits
<1>1. W \in Nat \ {0}
  BY IndexAssumption
<1>2. \A w \in DOMAIN mask : ClearBits(mask, docids)[w] \in SUBSET Nat
  BY DEF ClearBits
<1>3. DOMAIN ClearBits(mask, docids) = 1..Len(mask) /\ Len(mask) \in Nat
  BY DEF ClearBits
<1>4. ClearBits(mask, docids) \in [1..Len(mask) -> SUBSET Nat]
  BY <1>2, <1>3 DEF ClearBits
<1>5. ASSUME NEW d \in Nat, d \div W + 1 \in DOMAIN mask
      PROVE  d % W \in ClearBits(mask, docids)[d \div W + 1] <=>
               d % W \in mask[d \div W + 1] /\ d \notin docids
  <2> DEFINE cleared == {m \in docids : m \div W = (d \div W + 1) - 1}
  <2>1. ClearBits(mask, docids)[d \div W + 1] =
          mask[d \div W + 1] \ {m % W : m \in cleared}
    BY <1>5 DEF ClearBits
  <2>2. (d \div W + 1) - 1 = d \div W
    BY <1>1, DivMod
  <2>3. \A m \in cleared : m % W = d % W => m = d
    BY <1>1, <2>2, SameBit
  <2>4. d \in docids => d \in cleared
    BY <2>2
  <2> HIDE DEF cleared
  <2>5. d % W \in {m % W : m \in cleared} <=> d \in docids
    <3>1. cleared \subseteq docids
      BY DEF cleared
    <3> QED BY <2>3, <2>4, <3>1
  <2> QED BY <2>1, <2>5
<1> QED BY <1>3, <1>4, <1>5

-----------------------------------------------------------------------------
(* Segments.                                                               *)

Stored == {StoredDocument(r, d) : r \in Rows, d \in Docs}

\* The segments that Segment::build makes of documents.
Segments == {Build(docs) : docs \in Seq(Stored) \ {<<>>}}

\* The documents that have a term, by their numbers.
Having(docs, t) == {n \in Numbers(docs) : t \in docs[n + 1].terms}
Docids(docs, t) == Ascending(Having(docs, t))

Distinct(docs) == \A i, j \in DOMAIN docs : docs[i].row = docs[j].row => i = j

LEMMA StoredIs ==
  ASSUME NEW x \in Stored
  PROVE  /\ x = StoredDocument(x.row, x.doc) /\ x.row \in Rows /\ x.doc \in Docs
         /\ x.len = Length(x.doc) /\ x.terms = UniqueTerms(x.doc)
BY DEF Stored, StoredDocument

LEMMA NumbersOf ==
  ASSUME NEW X, NEW docs \in Seq(X)
  PROVE  /\ Len(docs) \in Nat /\ DOMAIN docs = 1..Len(docs)
         /\ Numbers(docs) \in SUBSET Nat /\ Numbers(docs) \in SUBSET Int
         /\ IsFiniteSet(Numbers(docs))
         /\ \A n \in Numbers(docs) : n + 1 \in DOMAIN docs /\ docs[n + 1] \in X
         /\ \A i \in DOMAIN docs : i - 1 \in Numbers(docs) /\ docs[i] \in X
         /\ docs = <<>> <=> Numbers(docs) = {}
<1>1. Len(docs) \in Nat /\ DOMAIN docs = 1..Len(docs)
  OBVIOUS
<1>2. IsFiniteSet(0..(Len(docs) - 1))
  BY <1>1, FS_Interval
<1>3. docs = <<>> <=> Len(docs) = 0
  OBVIOUS
<1>4. \A n \in Numbers(docs) : n + 1 \in 1..Len(docs)
  BY <1>1 DEF Numbers
<1>5. \A i \in 1..Len(docs) : i - 1 \in Numbers(docs)
  BY <1>1 DEF Numbers
<1>6. docs = <<>> <=> Numbers(docs) = {}
  <2>1. Len(docs) = 0 => Numbers(docs) = {}
    BY DEF Numbers
  <2>2. Len(docs) # 0 => 0 \in Numbers(docs)
    BY <1>1 DEF Numbers
  <2> QED BY <1>3, <2>1, <2>2
<1> QED BY <1>1, <1>2, <1>4, <1>5, <1>6 DEF Numbers

\* What Segment::build lists for a term: each document that has it, in order.
LEMMA DocidsAre ==
  ASSUME NEW X, NEW docs \in Seq(X), NEW t
  PROVE  /\ Docids(docs, t) \in Seq(Nat)
         /\ \A i \in DOMAIN Docids(docs, t) : Docids(docs, t)[i] \in Having(docs, t)
         /\ \A n \in Having(docs, t) :
              \E i \in DOMAIN Docids(docs, t) : Docids(docs, t)[i] = n
         /\ \A i, j \in DOMAIN Docids(docs, t) :
              i < j => Docids(docs, t)[i] < Docids(docs, t)[j]
<1> DEFINE S == Having(docs, t)
           ids == Docids(docs, t)
           c == Cardinality(S)
<1>1. S \in SUBSET Int /\ S \in SUBSET Nat /\ IsFiniteSet(S)
  <2>1. S \in SUBSET Numbers(docs)
    BY DEF Having
  <2> HIDE DEF S
  <2> QED BY <2>1, NumbersOf, FS_Subset
<1>2. ids = Ascending(S)
  BY DEF Docids
<1> HIDE DEF S, ids
<1>3. /\ c \in Nat /\ ids \in [1..c -> S]
      /\ \A i, j \in 1..c : i < j => ids[i] < ids[j]
      /\ \A n \in S : \E i \in 1..c : ids[i] = n
  BY <1>1, <1>2, AscendingLists
<1> HIDE DEF c
<1>4. DOMAIN ids = 1..c /\ ids \in Seq(Nat) /\ \A i \in 1..c : ids[i] \in S
  <2>1. \A i \in 1..c : ids[i] \in S
    BY <1>3
  <2>2. ids \in [1..c -> Nat]
    BY <1>1, <1>3
  <2> QED BY <1>3, <2>1, <2>2
<1> QED BY <1>3, <1>4 DEF ids, S

\* The posting list of a term, from the postings r.
Listed(docs, r, t) ==
  FinishBlocks(docs, Docids(docs, t),
    [i \in DOMAIN Docids(docs, t) |-> r[Docids(docs, t)[i]][t].freq],
    [i \in DOMAIN Docids(docs, t) |-> r[Docids(docs, t)[i]][t].positions])

LEMMA SegmentLists ==
  ASSUME NEW docs, NEW r
  PROVE  SegmentOf(docs, r) =
           [docs |-> docs, terms |-> [t \in AllTerms(docs) |-> Listed(docs, r, t)]]
<1>1. ASSUME NEW t
      PROVE  LET docids == Ascending({n \in Numbers(docs) : t \in docs[n + 1].terms})
                 found == [i \in DOMAIN docids |-> r[docids[i]][t]]
             IN FinishBlocks(docs, docids, [i \in DOMAIN docids |-> found[i].freq],
                             [i \in DOMAIN docids |-> found[i].positions])
                = Listed(docs, r, t)
  <2> DEFINE docids == Ascending({n \in Numbers(docs) : t \in docs[n + 1].terms})
             found == [i \in DOMAIN docids |-> r[docids[i]][t]]
  <2>1. docids = Docids(docs, t)
    BY DEF Docids, Having
  <2> HIDE DEF docids
  <2>2. /\ [i \in DOMAIN docids |-> found[i].freq] =
             [i \in DOMAIN docids |-> r[docids[i]][t].freq]
        /\ [i \in DOMAIN docids |-> found[i].positions] =
             [i \in DOMAIN docids |-> r[docids[i]][t].positions]
    OBVIOUS
  <2> HIDE DEF found
  <2> QED BY <2>1, <2>2, Zenon DEF docids, found, Listed
<1> QED BY <1>1, ZenonT(60) DEF SegmentOf

\* Postings that agree where a document has a term make the same segment.
LEMMA SameSegment ==
  ASSUME NEW X, NEW docs \in Seq(X), NEW p, NEW q,
         \A t : \A n \in Having(docs, t) : /\ p[n][t].freq = q[n][t].freq
                                        /\ p[n][t].positions = q[n][t].positions
  PROVE  SegmentOf(docs, p) = SegmentOf(docs, q)
<1>1. ASSUME NEW t PROVE Listed(docs, p, t) = Listed(docs, q, t)
  <2> DEFINE ids == Docids(docs, t)
  <2>1. \A i \in DOMAIN ids : ids[i] \in Having(docs, t)
    BY DocidsAre
  <2>2. \A i \in DOMAIN ids : /\ p[ids[i]][t].freq = q[ids[i]][t].freq
                              /\ p[ids[i]][t].positions = q[ids[i]][t].positions
    BY <2>1
  <2> HIDE DEF ids
  <2>3. /\ [i \in DOMAIN ids |-> p[ids[i]][t].freq] =
             [i \in DOMAIN ids |-> q[ids[i]][t].freq]
        /\ [i \in DOMAIN ids |-> p[ids[i]][t].positions] =
             [i \in DOMAIN ids |-> q[ids[i]][t].positions]
    BY <2>2
  <2> QED BY <2>3 DEF ids, Listed
<1> QED BY <1>1, SegmentLists

\* The positions of a term in document n of a segment.
PositionsIn(docs, n, t) == Positions[docs[n + 1].doc][t]

\* A segment, list by list.
LEMMA BuildIs ==
  ASSUME NEW X, NEW docs \in Seq(X)
  PROVE  Build(docs) =
           [docs |-> docs,
            terms |-> [t \in AllTerms(docs) |->
              FinishBlocks(docs, Docids(docs, t),
                [i \in DOMAIN Docids(docs, t) |->
                   Len(PositionsIn(docs, Docids(docs, t)[i], t))],
                [i \in DOMAIN Docids(docs, t) |->
                   PositionsIn(docs, Docids(docs, t)[i], t)])]]
<1> DEFINE posting == [n \in Numbers(docs) |-> [t \in docs[n + 1].terms |->
              LET at == Positions[docs[n + 1].doc][t]
              IN [freq |-> Len(at), positions |-> at]]]
<1>1. Build(docs) = SegmentOf(docs, posting)
  BY DEF Build
<1>2. ASSUME NEW t
      PROVE  LET docids == Ascending({n \in Numbers(docs) : t \in docs[n + 1].terms})
                 found == [i \in DOMAIN docids |-> posting[docids[i]][t]]
             IN FinishBlocks(docs, docids, [i \in DOMAIN docids |-> found[i].freq],
                             [i \in DOMAIN docids |-> found[i].positions])
                = FinishBlocks(docs, Docids(docs, t),
                    [i \in DOMAIN Docids(docs, t) |->
                       Len(PositionsIn(docs, Docids(docs, t)[i], t))],
                    [i \in DOMAIN Docids(docs, t) |->
                       PositionsIn(docs, Docids(docs, t)[i], t)])
  <2> DEFINE docids == Ascending({n \in Numbers(docs) : t \in docs[n + 1].terms})
             found == [i \in DOMAIN docids |-> posting[docids[i]][t]]
  <2>1. docids = Docids(docs, t)
    BY DEF Docids, Having
  <2>2. \A i \in DOMAIN docids :
          docids[i] \in Numbers(docs) /\ t \in docs[docids[i] + 1].terms
    BY <2>1, DocidsAre DEF Having
  <2> HIDE DEF docids
  <2>3. \A i \in DOMAIN docids :
          /\ found[i].freq = Len(PositionsIn(docs, docids[i], t))
          /\ found[i].positions = PositionsIn(docs, docids[i], t)
    BY <2>2 DEF PositionsIn
  <2> HIDE DEF found
  <2>4. /\ [i \in DOMAIN docids |-> found[i].freq] =
             [i \in DOMAIN docids |-> Len(PositionsIn(docs, docids[i], t))]
        /\ [i \in DOMAIN docids |-> found[i].positions] =
             [i \in DOMAIN docids |-> PositionsIn(docs, docids[i], t)]
    BY <2>3
  <2> QED BY <2>1, <2>4, Zenon DEF docids, found
<1> HIDE DEF posting
<1> QED BY <1>1, <1>2, Zenon DEF SegmentOf

\* Find gives the posting of a document.
LEMMA FoundPosting ==
  ASSUME NEW X, NEW docs \in Seq(X), NEW t, NEW n \in Having(docs, t)
  PROVE  /\ t \in DOMAIN Build(docs).terms
         /\ LET list == Build(docs).terms[t]
                i == Find(list, n)
            IN /\ list.freqs[i] = Len(PositionsIn(docs, n, t))
               /\ list.positions[i] = PositionsIn(docs, n, t)
<1> DEFINE ids == Docids(docs, t)
           freqs == [i \in DOMAIN ids |-> Len(PositionsIn(docs, ids[i], t))]
           positions == [i \in DOMAIN ids |-> PositionsIn(docs, ids[i], t)]
           list == Build(docs).terms[t]
<1>1. t \in AllTerms(docs)
  <2>1. n + 1 \in DOMAIN docs /\ t \in docs[n + 1].terms
    BY NumbersOf DEF Having
  <2> QED BY <2>1 DEF AllTerms
<1>2. /\ DOMAIN Build(docs).terms = AllTerms(docs)
      /\ list = FinishBlocks(docs, ids, freqs, positions)
  BY <1>1, BuildIs
<1> HIDE DEF list
<1>3. list.docids = ids /\ list.freqs = freqs /\ list.positions = positions
  BY <1>2 DEF FinishBlocks
<1>4. \E i \in DOMAIN ids : ids[i] = n
  BY DocidsAre
<1> HIDE DEF ids
<1>5. Find(list, n) \in DOMAIN ids /\ ids[Find(list, n)] = n
  BY <1>3, <1>4 DEF Find
<1> QED BY <1>1, <1>2, <1>3, <1>5 DEF list

-----------------------------------------------------------------------------
(* Snapshots.                                                              *)

\* A snapshot has its fields and no others.
Whole(s) ==
  DOMAIN s = {"generation", "segments", "latest", "live_masks", "term_df",
              "live_docs", "total_doc_len"}

\* The map of locations has rows, finitely many; a row that is live is where
\* the map says.
Located(s) ==
  /\ DOMAIN s.latest \in SUBSET Rows /\ IsFiniteSet(DOMAIN s.latest)
  /\ s.latest \in [DOMAIN s.latest -> [segment : Nat, docid : Nat, deleted : BOOLEAN]]
  /\ \A r \in LiveRows(s) :
       /\ s.latest[r].segment \in Numbers(s.segments)
       /\ s.latest[r].docid \in Numbers(s.segments[s.latest[r].segment + 1].docs)
       /\ DocAt(s, s.latest[r]).row = r

\* Document n of segment i is the latest of its row.
IsLatest(s, i, n) ==
  LET r == s.segments[i + 1].docs[n + 1].row
  IN r \in LiveRows(s) /\ s.latest[r].segment = i /\ s.latest[r].docid = n

\* Each segment has a mask, with a word for each document, and the bits of the
\* latest documents are set.
Masked(s) ==
  /\ s.live_masks \in Seq(Seq(SUBSET Nat))
  /\ Len(s.live_masks) = Len(s.segments)
  /\ \A i \in Numbers(s.segments) :
       /\ Len(s.live_masks[i + 1]) = CeilDiv(Len(s.segments[i + 1].docs), WordBits)
       /\ \A n \in Numbers(s.segments[i + 1].docs) :
            IsLive(s, i, n) <=> IsLatest(s, i, n)

\* The part of the invariant that is about one snapshot.
Good(s) ==
  /\ Whole(s)
  /\ s.generation \in Nat
  /\ s.segments \in Seq(Segments)
  /\ Located(s)
  /\ Masked(s)

\* The first k commits are not newer than generation g.
AllOld(commits, k, g) ==
  \A n \in 1..k : commits[n].generation \in Nat /\ commits[n].generation <= g
-----------------------------------------------------------------------------
(* A commit, field by field.                                               *)

Gone(s, rows) == {s.latest[r] : r \in rows \cap LiveRows(s)}

\* What remove_latest leaves of the masks and of the counters.
Cleared(s, rows) ==
  [i \in DOMAIN s.live_masks |->
     ClearBits(s.live_masks[i],
               {l.docid : l \in {m \in Gone(s, rows) : m.segment = i - 1}})]
LessDocs(s, rows) == s.live_docs - Cardinality(Gone(s, rows))
LessLen(s, rows) ==
  s.total_doc_len - SumFunction([l \in Gone(s, rows) |-> DocAt(s, l).len])
LessDf(s, rows) ==
  Reweighed(s.term_df, [t \in DOMAIN s.term_df |->
    -Cardinality({l \in Gone(s, rows) : t \in DocAt(s, l).terms})])

\* The locations of the rows of a new segment.
NewPlaces(docs, index) ==
  [r \in RowsOf(docs) |->
     [segment |-> index, deleted |-> FALSE,
      docid |-> CHOOSE n \in Numbers(docs) : docs[n + 1].row = r]]

\* What they add to the counters.
NewDf(docs)  == [t \in AllTerms(docs) |-> HowMany(docs, t)]
NewLen(docs) == SumFunction([i \in DOMAIN docs |-> docs[i].len])

\* The rows that a commit changes.
Touched(docs, deletes) == deletes \cup RowsOf(docs)

Buried(s, deletes) == Updated(s.latest, [r \in deletes |-> Tombstone])

\* Append, as a name of its own for facts about every snapshot.
Pushed(seq, e) == Append(seq, e)

\* What remove_latest changes, and what it leaves alone.
LEMMA RemoveLatestIs ==
  ASSUME NEW s, Whole(s), NEW rows
  PROVE  LET c == RemoveLatest(s, rows)
         IN /\ Whole(c) /\ c.generation = s.generation /\ c.segments = s.segments
            /\ c.latest = s.latest /\ c.live_masks = Cleared(s, rows)
            /\ c.term_df = LessDf(s, rows) /\ c.live_docs = LessDocs(s, rows)
            /\ c.total_doc_len = LessLen(s, rows)
<1> DEFINE gone == {s.latest[r] : r \in rows \cap LiveRows(s)}
           masks == [i \in DOMAIN s.live_masks |->
             ClearBits(s.live_masks[i], {l.docid : l \in {m \in gone : m.segment = i - 1}})]
           docs == s.live_docs - Cardinality(gone)
           len == s.total_doc_len - SumFunction([l \in gone |-> DocAt(s, l).len])
           df == Reweighed(s.term_df, [t \in DOMAIN s.term_df |->
             -Cardinality({l \in gone : t \in DocAt(s, l).terms})])
<1>1. RemoveLatest(s, rows) =
        [s EXCEPT !.live_masks = masks, !.live_docs = docs, !.total_doc_len = len,
                  !.term_df = df]
  BY DEF RemoveLatest, Whole
<1>2. /\ masks = Cleared(s, rows) /\ docs = LessDocs(s, rows)
      /\ len = LessLen(s, rows) /\ df = LessDf(s, rows)
  BY DEF Cleared, LessDocs, LessLen, LessDf, Gone
<1> HIDE DEF gone, masks, docs, len, df
<1> QED BY <1>1, <1>2 DEF Whole

\* A commit without documents: rows are deleted.
LEMMA DeletesOnly ==
  ASSUME NEW s, Whole(s), NEW g, NEW segment, NEW deletes,
         segment.docs = <<>>,
         NEW c, c = WithPrebuiltCommit(s, g, segment, deletes)
  PROVE  /\ Whole(c) /\ c.generation = g /\ c.segments = s.segments
         /\ c.latest = Buried(s, deletes) /\ c.live_masks = Cleared(s, deletes)
         /\ c.term_df = LessDf(s, deletes)
         /\ c.live_docs = LessDocs(s, deletes)
         /\ c.total_doc_len = LessLen(s, deletes)
<1>1. deletes \cup RowsOf(segment.docs) = deletes
  BY DEF RowsOf
<1> DEFINE d == RemoveLatest(s, deletes)
<1>2. WithPrebuiltCommit(s, g, segment, deletes) =
        [d EXCEPT !.generation = g, !.latest = Updated(@, [r \in deletes |-> Tombstone])]
  BY <1>1 DEF WithPrebuiltCommit, AddSegment
<1>3. /\ Whole(d) /\ d.segments = s.segments
      /\ d.latest = s.latest /\ d.live_masks = Cleared(s, deletes)
      /\ d.term_df = LessDf(s, deletes) /\ d.live_docs = LessDocs(s, deletes)
      /\ d.total_doc_len = LessLen(s, deletes)
  BY RemoveLatestIs
<1> HIDE DEF d
<1> QED BY <1>2, <1>3 DEF Whole, Buried

\* A commit with documents pushes a segment.
LEMMA SegmentPushed ==
  ASSUME NEW s, Whole(s), NEW g, NEW segment, NEW deletes,
         NEW docs, docs = segment.docs, docs # <<>>,
         NEW rows, rows = Touched(docs, deletes),
         NEW c, c = WithPrebuiltCommit(s, g, segment, deletes)
  PROVE  /\ Whole(c) /\ c.generation = g
         /\ c.segments = Pushed(s.segments, segment)
         /\ c.latest = Updated(Buried(s, deletes), NewPlaces(docs, Len(s.segments)))
         /\ c.live_masks = Pushed(Cleared(s, rows), FullLiveMask(Len(docs)))
         /\ c.term_df = Reweighed(LessDf(s, rows), NewDf(docs))
         /\ c.live_docs = LessDocs(s, rows) + Len(docs)
         /\ c.total_doc_len = LessLen(s, rows) + NewLen(docs)
<1> DEFINE a == RemoveLatest(s, rows)
           b == [a EXCEPT !.generation = g,
                          !.latest = Updated(@, [r \in deletes |-> Tombstone])]
           counts == NewDf(docs)
           len == NewLen(docs)
<1>1. WithPrebuiltCommit(s, g, segment, deletes) = AddSegment(b, segment)
  BY DEF WithPrebuiltCommit, Touched
<1>2. /\ Whole(a) /\ a.segments = s.segments
      /\ a.latest = s.latest /\ a.live_masks = Cleared(s, rows)
      /\ a.term_df = LessDf(s, rows) /\ a.live_docs = LessDocs(s, rows)
      /\ a.total_doc_len = LessLen(s, rows)
  BY RemoveLatestIs
<1> HIDE DEF a
<1>3. /\ Whole(b) /\ b.generation = g /\ b.segments = s.segments
      /\ b.latest = Buried(s, deletes) /\ b.live_masks = Cleared(s, rows)
      /\ b.term_df = LessDf(s, rows) /\ b.live_docs = LessDocs(s, rows)
      /\ b.total_doc_len = LessLen(s, rows)
  BY <1>2 DEF Whole, Buried
<1> HIDE DEF b
<1> DEFINE d == AddDocs(b, docs, Len(s.segments))
<1>4. d = [b EXCEPT !.live_docs = @ + Len(docs), !.total_doc_len = @ + len,
                    !.term_df = Reweighed(@, counts),
                    !.latest = Updated(@, NewPlaces(docs, Len(s.segments)))]
  BY DEF AddDocs, NewPlaces, NewDf, NewLen
<1>5. AddSegment(b, segment) =
        [d EXCEPT !.live_masks = Append(@, FullLiveMask(Len(docs))),
                  !.segments = Append(@, segment)]
  BY <1>3 DEF AddSegment
<1> HIDE DEF d, counts, len
<1>6. /\ Whole(d) /\ d.generation = g /\ d.segments = s.segments
      /\ d.latest = Updated(Buried(s, deletes), NewPlaces(docs, Len(s.segments)))
      /\ d.live_masks = Cleared(s, rows)
      /\ d.term_df = Reweighed(LessDf(s, rows), counts)
      /\ d.live_docs = LessDocs(s, rows) + Len(docs)
      /\ d.total_doc_len = LessLen(s, rows) + len
  BY <1>3, <1>4 DEF Whole
<1>7. /\ Whole(c) /\ c.generation = g
      /\ c.segments = Append(s.segments, segment)
      /\ c.latest = d.latest /\ c.live_docs = d.live_docs
      /\ c.live_masks = Append(Cleared(s, rows), FullLiveMask(Len(docs)))
      /\ c.term_df = d.term_df /\ c.total_doc_len = d.total_doc_len
  BY <1>1, <1>5, <1>6 DEF Whole
<1> QED BY <1>1, <1>6, <1>7 DEF Pushed, counts, len

LEMMA SegmentIs ==
  ASSUME NEW segment \in Segments
  PROVE  /\ segment.docs \in Seq(Stored) /\ segment.docs # <<>>
         /\ segment = Build(segment.docs)
<1>1. PICK docs \in Seq(Stored) \ {<<>>} : segment = Build(docs)
  BY DEF Segments
<1>2. Build(docs).docs = docs
  BY BuildIs
<1> QED BY <1>1, <1>2

\* A word of a mask is there for every document.
LEMMA WordOf ==
  ASSUME NEW X, NEW docs \in Seq(X), NEW n \in Numbers(docs)
  PROVE  n \in Nat /\ n \div WordBits + 1 \in 1..CeilDiv(Len(docs), WordBits)
<1>1. Len(docs) \in Nat /\ n \in 0..(Len(docs) - 1) /\ n \in Nat
  BY NumbersOf DEF Numbers
<1>2. /\ n \div WordBits + 1 \in DOMAIN FullLiveMask(Len(docs))
      /\ Len(FullLiveMask(Len(docs))) = CeilDiv(Len(docs), WordBits)
      /\ FullLiveMask(Len(docs)) \in Seq(SUBSET Nat)
  BY <1>1, FullMask
<1> QED BY <1>1, <1>2

\* A document is among the gone if it is the latest of one of the rows.
LEMMA GoneIs ==
  ASSUME NEW s, Good(s), NEW rows, NEW i \in Numbers(s.segments),
         NEW n \in Numbers(s.segments[i + 1].docs)
  PROVE  n \in {l.docid : l \in {m \in Gone(s, rows) : m.segment = i}} <=>
           IsLatest(s, i, n) /\ s.segments[i + 1].docs[n + 1].row \in rows
<1> DEFINE row == s.segments[i + 1].docs[n + 1].row
<1>1. ASSUME NEW r \in rows \cap LiveRows(s), s.latest[r].segment = i,
             s.latest[r].docid = n
      PROVE  r = row
  BY <1>1 DEF Good, Located, DocAt
<1>2. ASSUME IsLatest(s, i, n), row \in rows
      PROVE  /\ row \in rows \cap LiveRows(s) /\ s.latest[row].segment = i
             /\ s.latest[row].docid = n
  BY <1>2 DEF IsLatest
<1>3. n \in {l.docid : l \in {m \in Gone(s, rows) : m.segment = i}} <=>
        \E r \in rows \cap LiveRows(s) : s.latest[r].segment = i /\ s.latest[r].docid = n
  BY SMTT(30) DEF Gone
<1> HIDE DEF row
<1>4. ASSUME NEW r \in rows \cap LiveRows(s), s.latest[r].segment = i,
             s.latest[r].docid = n
      PROVE  IsLatest(s, i, n) /\ row \in rows
  <2>1. r = row
    BY <1>1, <1>4
  <2> QED BY <1>4, <2>1 DEF IsLatest, row
<1> QED BY <1>2, <1>3, <1>4 DEF row

\* The masks once the documents of some rows are gone.
LEMMA ClearedIs ==
  ASSUME NEW s, Good(s), NEW rows
  PROVE  /\ Cleared(s, rows) \in Seq(Seq(SUBSET Nat))
         /\ Len(Cleared(s, rows)) = Len(s.segments)
         /\ \A i \in Numbers(s.segments) :
              Len(Cleared(s, rows)[i + 1]) = CeilDiv(Len(s.segments[i + 1].docs), WordBits)
         /\ \A i \in Numbers(s.segments) : \A n \in Numbers(s.segments[i + 1].docs) :
              n % WordBits \in Cleared(s, rows)[i + 1][n \div WordBits + 1] <=>
                /\ IsLatest(s, i, n)
                /\ s.segments[i + 1].docs[n + 1].row \notin rows
<1> DEFINE docids(i) == {l.docid : l \in {m \in Gone(s, rows) : m.segment = i}}
           masks == s.live_masks
<1>1. /\ masks \in Seq(Seq(SUBSET Nat)) /\ Len(masks) = Len(s.segments)
      /\ s.segments \in Seq(Segments) /\ Len(s.segments) \in Nat
  BY DEF Good, Masked
<1>2. \A l \in Gone(s, rows) : l.docid \in Nat
  <2>1. \A r \in rows \cap LiveRows(s) : s.latest[r].docid \in Nat
    BY DEF Good, Located, LiveRows
  <2> QED BY <2>1 DEF Gone
<1>3. \A i \in Int : docids(i) \in SUBSET Nat
  BY <1>2
<1> HIDE DEF docids
<1>4. ASSUME NEW i \in Numbers(s.segments)
      PROVE  /\ i \in Nat /\ i + 1 \in DOMAIN masks
             /\ masks[i + 1] \in Seq(SUBSET Nat)
             /\ Cleared(s, rows)[i + 1] = ClearBits(masks[i + 1], docids(i))
             /\ Len(masks[i + 1]) = CeilDiv(Len(s.segments[i + 1].docs), WordBits)
             /\ s.segments[i + 1].docs \in Seq(Stored)
  <2>1. i \in Nat /\ i + 1 \in DOMAIN masks /\ i + 1 \in DOMAIN s.segments
    BY <1>1, NumbersOf DEF Numbers
  <2>2. (i + 1) - 1 = i
    BY <2>1
  <2>3. Cleared(s, rows)[i + 1] = ClearBits(masks[i + 1], docids((i + 1) - 1))
    BY <2>1 DEF Cleared, docids
  <2>4. s.segments[i + 1] \in Segments
    BY <1>1, <2>1
  <2>5. s.segments[i + 1].docs \in Seq(Stored)
    BY <2>4, SegmentIs
  <2> QED BY <1>1, <2>1, <2>2, <2>3, <2>5 DEF Good, Masked
<1>5. Cleared(s, rows) \in Seq(Seq(SUBSET Nat)) /\ Len(Cleared(s, rows)) = Len(s.segments)
  <2>1. DOMAIN Cleared(s, rows) = 1..Len(s.segments)
    BY <1>1 DEF Cleared
  <2>2. ASSUME NEW k \in 1..Len(s.segments)
        PROVE  Cleared(s, rows)[k] \in Seq(SUBSET Nat)
    <3>1. k - 1 \in Numbers(s.segments) /\ (k - 1) + 1 = k
      BY <1>1 DEF Numbers
    <3>2. /\ masks[k] \in Seq(SUBSET Nat) /\ docids(k - 1) \in SUBSET Nat
          /\ Cleared(s, rows)[k] = ClearBits(masks[k], docids(k - 1))
      BY <1>3, <1>4, <3>1
    <3> QED BY <3>2, ClearedMask
  <2>3. Cleared(s, rows) \in [1..Len(s.segments) -> Seq(SUBSET Nat)]
    BY <2>1, <2>2 DEF Cleared
  <2> DEFINE X == Seq(SUBSET Nat)
             k == Len(s.segments)
             c == Cleared(s, rows)
  <2>4. k \in Nat /\ c \in [1..k -> X]
    BY <1>1, <2>3
  <2> HIDE DEF X, k, c
  <2>5. c \in Seq(X) /\ Len(c) = k
    BY <2>4
  <2> QED BY <2>5 DEF X, k, c
<1>6. ASSUME NEW i \in Numbers(s.segments)
      PROVE  Len(Cleared(s, rows)[i + 1]) = CeilDiv(Len(s.segments[i + 1].docs), WordBits)
  <2>1. docids(i) \in SUBSET Nat /\ masks[i + 1] \in Seq(SUBSET Nat)
    BY <1>3, <1>4
  <2> QED BY <1>4, <2>1, ClearedMask
<1>7. ASSUME NEW i \in Numbers(s.segments), NEW n \in Numbers(s.segments[i + 1].docs)
      PROVE  n % WordBits \in Cleared(s, rows)[i + 1][n \div WordBits + 1] <=>
               /\ IsLatest(s, i, n)
               /\ s.segments[i + 1].docs[n + 1].row \notin rows
  <2>1. /\ docids(i) \in SUBSET Nat /\ masks[i + 1] \in Seq(SUBSET Nat)
        /\ n \in Nat /\ n \div WordBits + 1 \in DOMAIN masks[i + 1]
    BY <1>3, <1>4, WordOf
  <2>2. n % WordBits \in ClearBits(masks[i + 1], docids(i))[n \div WordBits + 1] <=>
          n % WordBits \in masks[i + 1][n \div WordBits + 1] /\ n \notin docids(i)
    BY <2>1, ClearedMask
  <2>3. n % WordBits \in masks[i + 1][n \div WordBits + 1] <=> IsLatest(s, i, n)
    BY DEF Good, Masked, IsLive
  <2>4. n \in docids(i) <=>
          IsLatest(s, i, n) /\ s.segments[i + 1].docs[n + 1].row \in rows
    BY GoneIs DEF docids
  <2> QED BY <1>4, <2>2, <2>3, <2>4
<1> QED BY <1>5, <1>6, <1>7

\* Where a new segment puts the latest documents of its rows.
LEMMA NewPlacesAre ==
  ASSUME NEW docs \in Seq(Stored), Distinct(docs), NEW index \in Nat
  PROVE  /\ RowsOf(docs) \in SUBSET Rows /\ IsFiniteSet(RowsOf(docs))
         /\ NewPlaces(docs, index) \in
              [RowsOf(docs) -> [segment : Nat, docid : Nat, deleted : BOOLEAN]]
         /\ \A r \in RowsOf(docs) : \E n \in Numbers(docs) : docs[n + 1].row = r
         /\ \A n \in Numbers(docs) :
              /\ docs[n + 1].row \in RowsOf(docs)
              /\ NewPlaces(docs, index)[docs[n + 1].row] =
                   [segment |-> index, deleted |-> FALSE, docid |-> n]
<1>1. /\ \A i \in DOMAIN docs : docs[i].row \in Rows
      /\ Numbers(docs) \in SUBSET Nat
      /\ \A n \in Numbers(docs) : n + 1 \in DOMAIN docs
      /\ \A i \in DOMAIN docs : i - 1 \in Numbers(docs)
      /\ DOMAIN docs = 1..Len(docs) /\ Len(docs) \in Nat
  BY NumbersOf, StoredIs
<1>2. IsFiniteSet(RowsOf(docs))
  <2> DEFINE f == [i \in DOMAIN docs |-> docs[i].row]
  <2>1. f \in Surjection(DOMAIN docs, RowsOf(docs))
    BY DEF Surjection, RowsOf
  <2>2. IsFiniteSet(DOMAIN docs)
    BY <1>1, FS_Interval
  <2> HIDE DEF f
  <2> QED BY <2>1, <2>2, FS_Surjection
<1>3. ASSUME NEW r \in RowsOf(docs)
      PROVE  \E n \in Numbers(docs) : docs[n + 1].row = r
  <2>1. PICK i \in DOMAIN docs : docs[i].row = r
    BY DEF RowsOf
  <2>2. i - 1 \in Numbers(docs) /\ (i - 1) + 1 = i
    BY <1>1
  <2> QED BY <2>1, <2>2
<1>4. ASSUME NEW r \in RowsOf(docs)
      PROVE  NewPlaces(docs, index)[r] \in [segment : Nat, docid : Nat, deleted : BOOLEAN]
  <2> DEFINE n == CHOOSE n \in Numbers(docs) : docs[n + 1].row = r
  <2>1. n \in Nat
    BY <1>1, <1>3
  <2>2. NewPlaces(docs, index)[r] =
          [segment |-> index, deleted |-> FALSE, docid |-> n]
    BY DEF NewPlaces
  <2> HIDE DEF n
  <2> QED BY <2>1, <2>2
<1>5. ASSUME NEW n \in Numbers(docs)
      PROVE  /\ docs[n + 1].row \in RowsOf(docs)
             /\ NewPlaces(docs, index)[docs[n + 1].row] =
                  [segment |-> index, deleted |-> FALSE, docid |-> n]
  <2> DEFINE r == docs[n + 1].row
             m == CHOOSE k \in Numbers(docs) : docs[k + 1].row = r
  <2>1. r \in RowsOf(docs)
    BY <1>1 DEF RowsOf
  <2>2. m \in Numbers(docs) /\ docs[m + 1].row = r
    OBVIOUS
  <2>3. NewPlaces(docs, index)[r] =
          [segment |-> index, deleted |-> FALSE, docid |-> m]
    BY <2>1 DEF NewPlaces
  <2> HIDE DEF m
  <2>4. m + 1 \in DOMAIN docs /\ n + 1 \in DOMAIN docs /\ m \in Nat /\ n \in Nat
    BY <1>1, <2>2
  <2>5. m + 1 = n + 1
    BY <2>2, <2>4 DEF Distinct
  <2>6. m = n
    BY <2>4, <2>5
  <2> QED BY <2>1, <2>3, <2>6
<1>6. NewPlaces(docs, index) \in
        [RowsOf(docs) -> [segment : Nat, docid : Nat, deleted : BOOLEAN]]
  BY <1>4 DEF NewPlaces
<1>7. RowsOf(docs) \in SUBSET Rows
  BY <1>1 DEF RowsOf
<1> QED BY <1>2, <1>3, <1>5, <1>6, <1>7

\* The documents of a commit, and the rows it deletes.
Canonical(docs, deletes) ==
  /\ docs \in Seq(Stored) /\ Distinct(docs)
  /\ deletes \in SUBSET Rows /\ IsFiniteSet(deletes)
  /\ deletes \cap RowsOf(docs) = {}

\* The map of locations after a commit.
LEMMA CommitLatest ==
  ASSUME NEW s, Good(s), NEW g \in Nat, NEW docs, NEW deletes,
         Canonical(docs, deletes),
         NEW c, c = WithPrebuiltCommit(s, g, Build(docs), deletes)
  PROVE  /\ DOMAIN c.latest \in SUBSET Rows /\ IsFiniteSet(DOMAIN c.latest)
         /\ c.latest \in
              [DOMAIN c.latest -> [segment : Nat, docid : Nat, deleted : BOOLEAN]]
         /\ \A r : r \in LiveRows(c) <=>
                     r \in RowsOf(docs) \/ (r \in LiveRows(s) /\ r \notin deletes)
         /\ \A r \in LiveRows(s) : r \notin deletes /\ r \notin RowsOf(docs) =>
              c.latest[r] = s.latest[r]
         /\ \A r \in RowsOf(docs) : \E n \in Numbers(docs) : docs[n + 1].row = r
         /\ \A n \in Numbers(docs) :
              /\ docs[n + 1].row \in RowsOf(docs)
              /\ c.latest[docs[n + 1].row].segment = Len(s.segments)
              /\ c.latest[docs[n + 1].row].docid = n
<1> DEFINE Place == [segment : Nat, docid : Nat, deleted : BOOLEAN]
           buried == Buried(s, deletes)
           new == NewPlaces(docs, Len(s.segments))
<1>1. /\ DOMAIN s.latest \in SUBSET Rows /\ IsFiniteSet(DOMAIN s.latest)
      /\ s.latest \in [DOMAIN s.latest -> Place] /\ Whole(s)
      /\ Len(s.segments) \in Nat
  BY DEF Good, Located
<1>2. /\ docs \in Seq(Stored) /\ Distinct(docs)
      /\ deletes \in SUBSET Rows /\ IsFiniteSet(deletes)
      /\ deletes \cap RowsOf(docs) = {} /\ Build(docs).docs = docs
  BY BuildIs DEF Canonical
<1>3. Tombstone \in Place /\ Tombstone.deleted = TRUE
  BY DEF Tombstone
<1>4. /\ DOMAIN buried = DOMAIN s.latest \cup deletes
      /\ buried \in [DOMAIN buried -> Place]
      /\ \A r \in deletes : buried[r] = Tombstone
      /\ \A r \in DOMAIN s.latest \ deletes : buried[r] = s.latest[r]
  <2>1. /\ DOMAIN buried = DOMAIN s.latest \cup deletes
        /\ \A r \in deletes : buried[r] = Tombstone
        /\ \A r \in DOMAIN s.latest \ deletes : buried[r] = s.latest[r]
    BY DEF Buried, Updated
  <2>2. \A r \in DOMAIN buried : buried[r] \in Place
    BY <1>1, <1>3, <2>1
  <2>3. buried = [r \in DOMAIN buried |-> buried[r]]
    BY DEF Buried, Updated
  <2> QED BY <2>1, <2>2, <2>3
<1>5. /\ new \in [RowsOf(docs) -> Place] /\ RowsOf(docs) \in SUBSET Rows
      /\ IsFiniteSet(RowsOf(docs))
      /\ \A r \in RowsOf(docs) : new[r].deleted = FALSE
      /\ \A r \in RowsOf(docs) : \E n \in Numbers(docs) : docs[n + 1].row = r
      /\ \A n \in Numbers(docs) :
           /\ docs[n + 1].row \in RowsOf(docs)
           /\ new[docs[n + 1].row] =
                [segment |-> Len(s.segments), deleted |-> FALSE, docid |-> n]
  <2>1. \A r \in RowsOf(docs) : new[r].deleted = FALSE
    BY DEF NewPlaces
  <2> QED BY <1>1, <1>2, <2>1, NewPlacesAre
<1>6. c.latest = Updated(buried, new)
  <2>1. CASE docs = <<>>
    <3>1. c.latest = buried
      BY <1>1, <1>2, <2>1, DeletesOnly
    <3>2. RowsOf(docs) = {}
      BY <2>1 DEF RowsOf
    <3>3. DOMAIN new = {} /\ buried = [r \in DOMAIN buried |-> buried[r]]
      BY <1>4, <1>5, <3>2
    <3> HIDE DEF buried, new
    <3>4. Updated(buried, new) = [r \in DOMAIN buried |-> buried[r]]
      <4>1. DOMAIN buried \cup DOMAIN new = DOMAIN buried
        BY <3>3
      <4>2. \A r \in DOMAIN buried :
              (IF r \in DOMAIN new THEN new[r] ELSE buried[r]) = buried[r]
        BY <3>3
      <4> QED BY <4>1, <4>2 DEF Updated
    <3> DEFINE kept == [r \in DOMAIN buried |-> buried[r]]
    <3>5. buried = kept /\ Updated(buried, new) = kept
      BY <3>3, <3>4
    <3> HIDE DEF kept
    <3> QED BY <3>1, <3>5
  <2>2. CASE docs # <<>>
    <3> DEFINE segment == Build(docs)
               rows == Touched(docs, deletes)
    <3>1. /\ Whole(s) /\ docs = segment.docs /\ rows = Touched(docs, deletes)
          /\ c = WithPrebuiltCommit(s, g, segment, deletes)
      BY <1>1, <1>2
    <3> HIDE DEF buried, new, rows, segment
    <3>3. c.latest = Updated(Buried(s, deletes), NewPlaces(docs, Len(s.segments)))
      BY <2>2, <3>1, SegmentPushed
    <3> QED BY <3>3 DEF buried, new
  <2> QED BY <2>1, <2>2
<1> HIDE DEF buried, new, Place
<1>7. /\ DOMAIN c.latest = DOMAIN s.latest \cup deletes \cup RowsOf(docs)
      /\ \A r \in RowsOf(docs) : c.latest[r] = new[r]
      /\ \A r \in DOMAIN buried \ RowsOf(docs) : c.latest[r] = buried[r]
  BY <1>4, <1>5, <1>6 DEF Updated
<1>8. DOMAIN c.latest \in SUBSET Rows /\ IsFiniteSet(DOMAIN c.latest)
  <2>1. DOMAIN c.latest \in SUBSET Rows
    BY <1>1, <1>2, <1>5, <1>7
  <2>2. IsFiniteSet(DOMAIN s.latest \cup deletes)
    BY <1>1, <1>2, FS_Union
  <2>3. IsFiniteSet((DOMAIN s.latest \cup deletes) \cup RowsOf(docs))
    BY <1>5, <2>2, FS_Union
  <2> QED BY <1>7, <2>1, <2>3
<1>9. c.latest \in [DOMAIN c.latest -> Place]
  <2>1. \A r \in DOMAIN c.latest : c.latest[r] \in Place
    BY <1>4, <1>5, <1>7
  <2>2. c.latest = [r \in DOMAIN c.latest |-> c.latest[r]]
    BY <1>6 DEF Updated
  <2> QED BY <2>1, <2>2
<1>10. \A r : r \in LiveRows(c) <=>
               r \in RowsOf(docs) \/ (r \in LiveRows(s) /\ r \notin deletes)
  BY <1>2, <1>3, <1>4, <1>5, <1>7 DEF LiveRows
<1>11. \A r \in LiveRows(s) : r \notin deletes /\ r \notin RowsOf(docs) =>
         c.latest[r] = s.latest[r]
  BY <1>4, <1>7 DEF LiveRows
<1>12. \A n \in Numbers(docs) :
         /\ docs[n + 1].row \in RowsOf(docs)
         /\ c.latest[docs[n + 1].row].segment = Len(s.segments)
         /\ c.latest[docs[n + 1].row].docid = n
  <2>1. ASSUME NEW n \in Numbers(docs)
        PROVE  /\ docs[n + 1].row \in RowsOf(docs)
               /\ c.latest[docs[n + 1].row].segment = Len(s.segments)
               /\ c.latest[docs[n + 1].row].docid = n
    <3> DEFINE r == docs[n + 1].row
               place == [segment |-> Len(s.segments), deleted |-> FALSE, docid |-> n]
    <3>1. r \in RowsOf(docs) /\ new[r] = place
      BY <1>5
    <3>2. place.segment = Len(s.segments) /\ place.docid = n
      OBVIOUS
    <3> HIDE DEF place
    <3>3. c.latest[r] = place
      BY <1>7, <3>1
    <3> QED BY <3>1, <3>2, <3>3
  <2> QED BY <2>1
<1> QED BY <1>5, <1>8, <1>9, <1>10, <1>11, <1>12 DEF Place

\* Append on a sequence, by numbers that count from 0.
LEMMA PushedIs ==
  ASSUME NEW X, NEW seq, seq \in Seq(X), NEW e, e \in X, NEW p, p = Pushed(seq, e)
  PROVE  /\ p \in Seq(X) /\ Len(p) = Len(seq) + 1
         /\ \A i \in Numbers(p) : i \in Numbers(seq) \/ i = Len(seq)
         /\ Len(seq) \in Numbers(p) /\ Len(seq) \notin Numbers(seq)
         /\ \A i \in Numbers(seq) : i \in Numbers(p) /\ p[i + 1] = seq[i + 1]
         /\ p[Len(seq) + 1] = e
<1>1. Len(seq) \in Nat
  OBVIOUS
<1>2. /\ p \in Seq(X) /\ Len(p) = Len(seq) + 1
      /\ \A k \in 1..Len(seq) : p[k] = seq[k]
      /\ p[Len(seq) + 1] = e
  BY DEF Pushed
<1>3. /\ \A i \in Numbers(p) : i \in Numbers(seq) \/ i = Len(seq)
      /\ \A i \in Numbers(seq) : i \in Numbers(p)
      /\ Len(seq) \in Numbers(p) /\ Len(seq) \notin Numbers(seq)
  BY <1>1, <1>2 DEF Numbers
<1>4. \A i \in Numbers(seq) : i + 1 \in 1..Len(seq)
  BY <1>1 DEF Numbers
<1> QED BY <1>1, <1>2, <1>3, <1>4

\* The segments and the masks after a commit.
LEMMA CommitParts ==
  ASSUME NEW s, Good(s), NEW g \in Nat, NEW docs, NEW deletes,
         Canonical(docs, deletes),
         NEW rows, rows = Touched(docs, deletes),
         NEW c, c = WithPrebuiltCommit(s, g, Build(docs), deletes)
  PROVE  /\ Whole(c) /\ c.generation = g
         /\ c.segments \in Seq(Segments)
         /\ c.live_masks \in Seq(Seq(SUBSET Nat))
         /\ Len(c.live_masks) = Len(c.segments)
         /\ \A i \in Numbers(s.segments) :
              /\ i \in Numbers(c.segments) /\ c.segments[i + 1] = s.segments[i + 1]
              /\ c.live_masks[i + 1] = Cleared(s, rows)[i + 1]
         /\ \A i \in Numbers(c.segments) \ Numbers(s.segments) :
              /\ i = Len(s.segments) /\ c.segments[i + 1] = Build(docs)
              /\ c.live_masks[i + 1] = FullLiveMask(Len(docs))
         /\ docs # <<>> =>
              /\ Len(s.segments) \in Numbers(c.segments)
              /\ Len(s.segments) \notin Numbers(s.segments)
<1>1. /\ Whole(s) /\ s.segments \in Seq(Segments)
      /\ docs \in Seq(Stored) /\ Build(docs).docs = docs /\ Len(docs) \in Nat
  BY BuildIs DEF Good, Canonical
<1>2. /\ Cleared(s, rows) \in Seq(Seq(SUBSET Nat))
      /\ Len(Cleared(s, rows)) = Len(s.segments)
  BY ClearedIs
<1> DEFINE X == Seq(SUBSET Nat)
           masks == Cleared(s, rows)
           segment == Build(docs)
           full == FullLiveMask(Len(docs))
<1> HIDE DEF X, masks, segment, full
<1>3. CASE docs = <<>>
  <2>1. rows = deletes
    BY <1>3 DEF RowsOf, Touched
  <2>2. /\ Whole(c) /\ c.generation = g /\ c.segments = s.segments
        /\ c.live_masks = Cleared(s, rows)
    <3>1. /\ Whole(s) /\ segment.docs = <<>>
          /\ c = WithPrebuiltCommit(s, g, segment, deletes)
      BY <1>1, <1>3 DEF segment
    <3> QED BY <2>1, <3>1, DeletesOnly
  <2> QED BY <1>1, <1>2, <1>3, <2>2 DEF masks
<1>4. CASE docs # <<>>
  <2>1. segment \in Segments
    BY <1>1, <1>4 DEF segment, Segments
  <2>2. full \in X /\ masks \in Seq(X) /\ Len(masks) = Len(s.segments)
    BY <1>1, <1>2, FullMask DEF X, masks, full
  <2>3. /\ Whole(s) /\ docs = segment.docs
        /\ c = WithPrebuiltCommit(s, g, segment, deletes)
    BY <1>1 DEF segment
  <2>4. /\ Whole(c) /\ c.generation = g
        /\ c.segments = Pushed(s.segments, segment)
        /\ c.live_masks = Pushed(masks, full)
    BY <1>4, <2>3, SegmentPushed DEF masks, full
  <2>5. /\ c.segments \in Seq(Segments) /\ Len(c.segments) = Len(s.segments) + 1
        /\ \A i \in Numbers(c.segments) : i \in Numbers(s.segments) \/ i = Len(s.segments)
        /\ Len(s.segments) \in Numbers(c.segments)
        /\ Len(s.segments) \notin Numbers(s.segments)
        /\ \A i \in Numbers(s.segments) :
             i \in Numbers(c.segments) /\ c.segments[i + 1] = s.segments[i + 1]
        /\ c.segments[Len(s.segments) + 1] = segment
    <3> DEFINE old == s.segments
               new == c.segments
    <3>1. old \in Seq(Segments) /\ new = Pushed(old, segment)
      BY <1>1, <2>4
    <3> HIDE DEF old, new
    <3>2. new \in Seq(Segments)
      BY <2>1, <3>1, PushedIs, ZenonT(60)
    <3>3. Len(new) = Len(old) + 1
      BY <2>1, <3>1, PushedIs, ZenonT(60)
    <3>4. \A i \in Numbers(new) : i \in Numbers(old) \/ i = Len(old)
      BY <2>1, <3>1, PushedIs, ZenonT(60)
    <3>5. Len(old) \in Numbers(new) /\ Len(old) \notin Numbers(old)
      BY <2>1, <3>1, PushedIs
    <3>6. \A i \in Numbers(old) : i \in Numbers(new) /\ new[i + 1] = old[i + 1]
      BY <2>1, <3>1, PushedIs, ZenonT(60)
    <3>7. new[Len(old) + 1] = segment
      BY <2>1, <3>1, PushedIs, ZenonT(60)
    <3> QED BY <3>2, <3>3, <3>4, <3>5, <3>6, <3>7 DEF old, new
  <2>6. /\ c.live_masks \in Seq(X) /\ Len(c.live_masks) = Len(masks) + 1
        /\ \A i \in Numbers(masks) : c.live_masks[i + 1] = masks[i + 1]
        /\ c.live_masks[Len(masks) + 1] = full
    <3> DEFINE new == c.live_masks
    <3>1. new = Pushed(masks, full) /\ masks \in Seq(X) /\ full \in X
      BY <2>2, <2>4
    <3> HIDE DEF new
    <3>2. new \in Seq(X)
      BY <3>1, PushedIs
    <3>3. Len(new) = Len(masks) + 1
      BY <3>1, PushedIs, ZenonT(60)
    <3>4. \A i \in Numbers(masks) : new[i + 1] = masks[i + 1]
      BY <3>1, PushedIs, ZenonT(60)
    <3>5. new[Len(masks) + 1] = full
      BY <3>1, PushedIs, ZenonT(60)
    <3> QED BY <3>2, <3>3, <3>4, <3>5 DEF new
  <2>7. Numbers(masks) = Numbers(s.segments)
    BY <2>2 DEF Numbers
  <2> QED BY <2>2, <2>4, <2>5, <2>6, <2>7 DEF X, masks, segment, full
<1> QED BY <1>3, <1>4

\* A commit makes a good snapshot of a good one.  It replaces the documents of
\* the rows it names, and no others.
LEMMA CommitGood ==
  ASSUME NEW s, Good(s), NEW g \in Nat, NEW docs, NEW deletes,
         Canonical(docs, deletes),
         NEW c, c = WithPrebuiltCommit(s, g, Build(docs), deletes)
  PROVE  /\ Good(c) /\ c.generation = g
         /\ \A r \in deletes : View(c)[r] = Absent
         /\ \A n \in Numbers(docs) : View(c)[docs[n + 1].row] = docs[n + 1].doc
         /\ \A r \in Rows : r \notin deletes /\ r \notin RowsOf(docs) =>
              View(c)[r] = View(s)[r]
<1> DEFINE rows == Touched(docs, deletes)
           last == Len(s.segments)
<1>1. /\ docs \in Seq(Stored) /\ Distinct(docs) /\ Build(docs).docs = docs
      /\ \A r \in deletes : r \in Rows /\ r \notin RowsOf(docs)
      /\ \A r : r \in rows <=> r \in deletes \/ r \in RowsOf(docs)
      /\ Len(docs) \in Nat
  BY BuildIs DEF Canonical, Touched
<1>2. /\ Located(s) /\ s.segments \in Seq(Segments)
  BY DEF Good
<1> HIDE DEF rows, last
<1>3. /\ Whole(c) /\ c.generation = g /\ c.segments \in Seq(Segments)
      /\ c.live_masks \in Seq(Seq(SUBSET Nat))
      /\ Len(c.live_masks) = Len(c.segments)
  BY CommitParts DEF rows
<1>4. ASSUME NEW i \in Numbers(s.segments)
      PROVE  /\ i \in Numbers(c.segments) /\ c.segments[i + 1] = s.segments[i + 1]
             /\ c.live_masks[i + 1] = Cleared(s, rows)[i + 1]
             /\ i # last
  <2>1. rows = Touched(docs, deletes)
    BY DEF rows
  <2>2. /\ i \in Numbers(c.segments) /\ c.segments[i + 1] = s.segments[i + 1]
        /\ c.live_masks[i + 1] = Cleared(s, rows)[i + 1]
    BY <2>1, CommitParts
  <2>3. i # last
    BY <1>2 DEF Numbers, last
  <2> QED BY <2>2, <2>3
<1>5. ASSUME NEW i \in Numbers(c.segments), i \notin Numbers(s.segments)
      PROVE  /\ i = last /\ c.segments[i + 1] = Build(docs)
             /\ c.live_masks[i + 1] = FullLiveMask(Len(docs))
  BY <1>5, CommitParts DEF last, rows
<1>6. docs # <<>> => last \in Numbers(c.segments) /\ last \notin Numbers(s.segments)
  BY CommitParts DEF last, rows
<1>7. /\ DOMAIN c.latest \in SUBSET Rows /\ IsFiniteSet(DOMAIN c.latest)
      /\ c.latest \in
           [DOMAIN c.latest -> [segment : Nat, docid : Nat, deleted : BOOLEAN]]
      /\ \A r : r \in LiveRows(c) <=>
                  r \in RowsOf(docs) \/ (r \in LiveRows(s) /\ r \notin deletes)
      /\ \A r \in LiveRows(s) : r \notin deletes /\ r \notin RowsOf(docs) =>
           c.latest[r] = s.latest[r]
      /\ \A r \in RowsOf(docs) : \E n \in Numbers(docs) : docs[n + 1].row = r
      /\ \A n \in Numbers(docs) :
           /\ docs[n + 1].row \in RowsOf(docs)
           /\ c.latest[docs[n + 1].row].segment = last
           /\ c.latest[docs[n + 1].row].docid = n
  BY CommitLatest DEF last
<1>8. \A r \in RowsOf(docs) : c.latest[r].segment = last
  BY <1>7
<1>9. ASSUME NEW i \in Numbers(s.segments), NEW n \in Numbers(s.segments[i + 1].docs)
      PROVE  IsLatest(c, i, n) <=>
               IsLatest(s, i, n) /\ s.segments[i + 1].docs[n + 1].row \notin rows
  <2> DEFINE r == s.segments[i + 1].docs[n + 1].row
  <2>1. c.segments[i + 1].docs[n + 1].row = r /\ i # last
    BY <1>4
  <2>2. /\ IsLatest(c, i, n) <=>
             r \in LiveRows(c) /\ c.latest[r].segment = i /\ c.latest[r].docid = n
        /\ IsLatest(s, i, n) <=>
             r \in LiveRows(s) /\ s.latest[r].segment = i /\ s.latest[r].docid = n
    BY <2>1 DEF IsLatest
  <2> HIDE DEF r
  <2>3. CASE r \in rows
    <3>1. ~IsLatest(c, i, n)
      BY <1>1, <1>7, <1>8, <2>1, <2>2, <2>3
    <3> QED BY <2>3, <3>1 DEF r
  <2>4. CASE r \notin rows
    <3>1. r \in LiveRows(c) <=> r \in LiveRows(s)
      BY <1>1, <1>7, <2>4
    <3>2. r \in LiveRows(s) => c.latest[r] = s.latest[r]
      BY <1>1, <1>7, <2>4
    <3>3. IsLatest(c, i, n) <=> IsLatest(s, i, n)
      BY <2>2, <3>1, <3>2
    <3> QED BY <2>4, <3>3 DEF r
  <2> QED BY <2>3, <2>4
<1>10. ASSUME NEW i \in Numbers(c.segments), i \notin Numbers(s.segments),
              NEW n \in Numbers(docs)
       PROVE  IsLatest(c, i, n)
  <2>1. i = last /\ c.segments[i + 1] = Build(docs)
    BY <1>5, <1>10
  <2> DEFINE r == docs[n + 1].row
  <2>2. c.segments[i + 1].docs[n + 1].row = r
    BY <1>1, <2>1
  <2>3. r \in LiveRows(c) /\ c.latest[r].segment = last /\ c.latest[r].docid = n
    BY <1>7
  <2> QED BY <2>1, <2>2, <2>3 DEF IsLatest
<1>11. Masked(c)
  <2>1. ASSUME NEW i \in Numbers(s.segments)
        PROVE  /\ Len(c.live_masks[i + 1]) = CeilDiv(Len(c.segments[i + 1].docs), WordBits)
               /\ \A n \in Numbers(c.segments[i + 1].docs) :
                    IsLive(c, i, n) <=> IsLatest(c, i, n)
    <3>1. /\ c.segments[i + 1] = s.segments[i + 1]
          /\ c.live_masks[i + 1] = Cleared(s, rows)[i + 1]
      BY <1>4
    <3>2. Len(Cleared(s, rows)[i + 1]) = CeilDiv(Len(s.segments[i + 1].docs), WordBits)
      BY ClearedIs
    <3>3. ASSUME NEW n \in Numbers(s.segments[i + 1].docs)
          PROVE  IsLive(c, i, n) <=> IsLatest(c, i, n)
      <4>1. n % WordBits \in Cleared(s, rows)[i + 1][n \div WordBits + 1] <=>
              IsLatest(s, i, n) /\ s.segments[i + 1].docs[n + 1].row \notin rows
        BY ClearedIs
      <4>2. IsLive(c, i, n) <=>
              n % WordBits \in Cleared(s, rows)[i + 1][n \div WordBits + 1]
        BY <3>1 DEF IsLive
      <4> QED BY <1>9, <4>1, <4>2
    <3> QED BY <3>1, <3>2, <3>3
  <2>2. ASSUME NEW i \in Numbers(c.segments), i \notin Numbers(s.segments)
        PROVE  /\ Len(c.live_masks[i + 1]) = CeilDiv(Len(c.segments[i + 1].docs), WordBits)
               /\ \A n \in Numbers(c.segments[i + 1].docs) :
                    IsLive(c, i, n) <=> IsLatest(c, i, n)
    <3>1. /\ c.segments[i + 1].docs = docs
          /\ c.live_masks[i + 1] = FullLiveMask(Len(docs))
      BY <1>1, <1>5, <2>2
    <3>2. Len(FullLiveMask(Len(docs))) = CeilDiv(Len(docs), WordBits)
      BY <1>1, FullMask
    <3>3. ASSUME NEW n \in Numbers(docs) PROVE IsLive(c, i, n)
      <4>1. n \in 0..(Len(docs) - 1)
        BY DEF Numbers
      <4>2. n % WordBits \in FullLiveMask(Len(docs))[n \div WordBits + 1]
        BY <1>1, <4>1, FullMask
      <4> QED BY <3>1, <4>2 DEF IsLive
    <3> QED BY <1>10, <2>2, <3>1, <3>2, <3>3
  <2> QED BY <1>3, <2>1, <2>2 DEF Masked
<1>12. ASSUME NEW r \in LiveRows(c), r \in RowsOf(docs)
       PROVE  \E n \in Numbers(docs) :
                /\ docs[n + 1].row = r /\ c.latest[r].segment = last
                /\ c.latest[r].docid = n /\ last \in Numbers(c.segments)
                /\ c.segments[last + 1].docs = docs
                /\ DocAt(c, c.latest[r]) = docs[n + 1]
  <2>1. PICK n \in Numbers(docs) : docs[n + 1].row = r
    BY <1>7, <1>12
  <2>2. c.latest[r].segment = last /\ c.latest[r].docid = n
    BY <1>7, <2>1
  <2>3. docs # <<>>
    BY <1>1, <2>1, NumbersOf
  <2>4. last \in Numbers(c.segments) /\ c.segments[last + 1].docs = docs
    BY <1>1, <1>5, <1>6, <2>3
  <2>5. DocAt(c, c.latest[r]) = docs[n + 1]
    BY <2>2, <2>4 DEF DocAt
  <2> QED BY <2>1, <2>2, <2>4, <2>5
<1>13. ASSUME NEW r \in LiveRows(s), r \notin deletes, r \notin RowsOf(docs)
       PROVE  /\ r \in LiveRows(c) /\ c.latest[r] = s.latest[r]
              /\ s.latest[r].segment \in Numbers(s.segments)
              /\ DocAt(c, c.latest[r]) = DocAt(s, s.latest[r])
  <2>1. r \in LiveRows(c) /\ c.latest[r] = s.latest[r]
    BY <1>7, <1>13
  <2>2. s.latest[r].segment \in Numbers(s.segments)
    BY <1>2 DEF Located
  <2>3. c.segments[s.latest[r].segment + 1] = s.segments[s.latest[r].segment + 1]
    BY <1>4, <2>2
  <2> QED BY <2>1, <2>2, <2>3 DEF DocAt
<1>14. Located(c)
  <2>1. ASSUME NEW r \in LiveRows(c)
        PROVE  /\ c.latest[r].segment \in Numbers(c.segments)
               /\ c.latest[r].docid \in
                    Numbers(c.segments[c.latest[r].segment + 1].docs)
               /\ DocAt(c, c.latest[r]).row = r
    <3>1. CASE r \in RowsOf(docs)
      BY <1>12, <3>1
    <3>2. CASE r \notin RowsOf(docs)
      <4>1. r \in LiveRows(s) /\ r \notin deletes
        BY <1>7, <3>2
      <4> DEFINE l == s.latest[r]
      <4>2. /\ c.latest[r] = l /\ l.segment \in Numbers(s.segments)
            /\ DocAt(c, c.latest[r]) = DocAt(s, l)
        BY <1>13, <3>2, <4>1
      <4>3. /\ l.docid \in Numbers(s.segments[l.segment + 1].docs)
            /\ DocAt(s, l).row = r
        BY <1>2, <4>1 DEF Located
      <4>4. /\ l.segment \in Numbers(c.segments)
            /\ c.segments[l.segment + 1] = s.segments[l.segment + 1]
        BY <1>4, <4>2
      <4> QED BY <4>2, <4>3, <4>4
    <3> QED BY <3>1, <3>2
  <2> QED BY <1>7, <2>1 DEF Located
<1>15. \A r \in deletes : View(c)[r] = Absent
  BY <1>1, <1>7 DEF View
<1>16. ASSUME NEW n \in Numbers(docs)
       PROVE  View(c)[docs[n + 1].row] = docs[n + 1].doc
  <2> DEFINE r == docs[n + 1].row
  <2>1. r \in RowsOf(docs) /\ r \in LiveRows(c)
    BY <1>7
  <2>2. r \in Rows
    BY <1>7, <2>1 DEF LiveRows
  <2>3. PICK m \in Numbers(docs) :
          c.latest[r].docid = m /\ DocAt(c, c.latest[r]) = docs[m + 1]
    BY <1>12, <2>1
  <2>4. c.latest[r].docid = n
    BY <1>7
  <2>5. View(c)[r] = DocAt(c, c.latest[r]).doc
    BY <2>1, <2>2 DEF View
  <2> QED BY <2>3, <2>4, <2>5
<1>17. ASSUME NEW r \in Rows, r \notin deletes, r \notin RowsOf(docs)
       PROVE  View(c)[r] = View(s)[r]
  <2>1. CASE r \in LiveRows(s)
    <3>1. r \in LiveRows(c) /\ DocAt(c, c.latest[r]) = DocAt(s, s.latest[r])
      BY <1>13, <1>17, <2>1
    <3> QED BY <2>1, <3>1 DEF View
  <2>2. CASE r \notin LiveRows(s)
    <3>1. r \notin LiveRows(c)
      BY <1>7, <1>17, <2>2
    <3> QED BY <2>2, <3>1 DEF View
  <2> QED BY <2>1, <2>2
<1>18. Good(c)
  BY <1>3, <1>11, <1>14 DEF Good
<1> QED BY <1>3, <1>15, <1>16, <1>17, <1>18

\* A document for each row of a set, in the order of the rows.
LEMMA OneEach ==
  ASSUME NEW S \in SUBSET Rows, IsFiniteSet(S), NEW docs,
         docs \in [DOMAIN Ascending(S) -> Stored],
         \A i \in DOMAIN docs : docs[i].row = Ascending(S)[i]
  PROVE  /\ docs \in Seq(Stored) /\ Distinct(docs)
         /\ RowsOf(docs) = S
<1> DEFINE rows == Ascending(S)
           k == Cardinality(S)
<1>1. S \in SUBSET Int
  BY IndexAssumption
<1>2. /\ k \in Nat /\ rows \in [1..k -> S]
      /\ \A i, j \in 1..k : i < j => rows[i] < rows[j]
      /\ \A r \in S : \E i \in 1..k : rows[i] = r
  BY <1>1, AscendingLists
<1> HIDE DEF rows, k
<1>3. docs \in [1..k -> Stored] /\ \A i \in 1..k : docs[i].row = rows[i]
  BY <1>2 DEF rows
<1>4. docs \in Seq(Stored)
  BY <1>2, <1>3
<1>5. Distinct(docs)
  <2>1. ASSUME NEW i \in 1..k, NEW j \in 1..k, rows[i] = rows[j] PROVE i = j
    <3>1. rows[i] \in Int
      BY <1>1, <1>2
    <3>2. (i < j => rows[i] < rows[j]) /\ (j < i => rows[j] < rows[i])
      BY <1>2
    <3> DEFINE x == rows[i]
    <3>3. (i < j => x < x) /\ (j < i => x < x) /\ x \in Int
      BY <2>1, <3>1, <3>2
    <3> HIDE DEF x
    <3>4. i \in Int /\ j \in Int
      OBVIOUS
    <3> QED BY <3>3, <3>4
  <2> QED BY <1>3, <2>1 DEF Distinct
<1>6. RowsOf(docs) = S
  BY <1>2, <1>3 DEF RowsOf
<1> QED BY <1>4, <1>5, <1>6

\* The rows that a transaction stores.
Kept(tx) == {r \in DOMAIN tx : tx[r] # Absent}

\* What split_operations makes of a canonical transaction.
LEMMA UpsertsAre ==
  ASSUME NEW tx \in RowTransactions
  PROVE  /\ DOMAIN tx \in SUBSET Rows /\ DOMAIN tx # {}
         /\ tx \in [DOMAIN tx -> Docs \cup {Absent}]
         /\ Canonical(Upserts(tx), Deletes(tx))
         /\ RowsOf(Upserts(tx)) = Kept(tx)
         /\ \A n \in Numbers(Upserts(tx)) :
              Upserts(tx)[n + 1].doc = tx[Upserts(tx)[n + 1].row]
<1>1. PICK S \in {R \in SUBSET Rows : R # {} /\ IsFiniteSet(R)} :
             tx \in [S -> Docs \cup {Absent}]
  BY DEF RowTransactions
<1>2. S \in SUBSET Rows /\ S # {} /\ IsFiniteSet(S) /\ DOMAIN tx = S
  BY <1>1
<1> DEFINE T == Kept(tx)
           rows == Ascending(T)
           docs == Upserts(tx)
<1>3. T \in SUBSET S /\ T \in SUBSET Rows /\ T \in SUBSET Int
  BY <1>2, IndexAssumption DEF Kept
<1>4. IsFiniteSet(T) /\ IsFiniteSet(Deletes(tx)) /\ Deletes(tx) \in SUBSET Rows
  <2>1. Deletes(tx) \in SUBSET S
    BY <1>2 DEF Deletes
  <2> HIDE DEF T
  <2> QED BY <1>2, <1>3, <2>1, FS_Subset
<1>5. docs = [i \in DOMAIN rows |-> StoredDocument(rows[i], tx[rows[i]])]
  BY DEF Upserts, Kept
<1>6. \A i \in DOMAIN rows : rows[i] \in T
  BY <1>3, <1>4, AscendingLists
<1>7. \A r \in T : tx[r] \in Docs /\ r \in Rows
  BY <1>1, <1>2, <1>3 DEF Kept
<1> HIDE DEF T, rows, docs
<1>8. \A i \in DOMAIN rows :
        /\ docs[i] \in Stored /\ docs[i].row = rows[i]
        /\ docs[i].doc = tx[docs[i].row]
  <2>1. ASSUME NEW i \in DOMAIN rows
        PROVE  /\ docs[i] \in Stored /\ docs[i].row = rows[i]
               /\ docs[i].doc = tx[docs[i].row]
    <3> DEFINE r == rows[i]
               d == tx[r]
    <3>1. r \in Rows /\ d \in Docs
      BY <1>6, <1>7
    <3>2. docs[i] = StoredDocument(r, d)
      BY <1>5
    <3> HIDE DEF r, d
    <3>3. StoredDocument(r, d) \in Stored
      BY <3>1 DEF Stored
    <3>4. StoredDocument(r, d).row = r /\ StoredDocument(r, d).doc = d
      BY DEF StoredDocument
    <3> QED BY <3>2, <3>3, <3>4 DEF r, d
  <2> QED BY <2>1
<1>9. /\ docs \in [DOMAIN rows -> Stored] /\ DOMAIN docs = DOMAIN rows
      /\ \A i \in DOMAIN docs : docs[i].row = rows[i]
  BY <1>5, <1>8
<1>10. docs \in Seq(Stored) /\ Distinct(docs) /\ RowsOf(docs) = T
  BY <1>3, <1>4, <1>9, OneEach DEF rows
<1>11. \A n \in Numbers(docs) : docs[n + 1].doc = tx[docs[n + 1].row]
  BY <1>8, <1>9, <1>10, NumbersOf
<1>12. Deletes(tx) \cap T = {}
  BY DEF Deletes, T, Kept
<1> QED BY <1>1, <1>2, <1>4, <1>10, <1>11, <1>12 DEF docs, T, Canonical

\* The table that a transaction makes of another.
Changed(table, tx) == [r \in Rows |-> IF r \in DOMAIN tx THEN tx[r] ELSE table[r]]

\* with_commit makes a good snapshot, of the table that it should.
LEMMA TransactionGood ==
  ASSUME NEW s, Good(s), NEW g \in Nat, NEW tx \in RowTransactions,
         NEW c, c = WithCommit(s, g, tx)
  PROVE  Good(c) /\ c.generation = g /\ View(c) = Changed(View(s), tx)
<1> DEFINE docs == Upserts(tx)
           deletes == Deletes(tx)
<1>1. /\ DOMAIN tx \in SUBSET Rows /\ Canonical(docs, deletes)
      /\ RowsOf(docs) = Kept(tx)
      /\ \A n \in Numbers(docs) : docs[n + 1].doc = tx[docs[n + 1].row]
  BY UpsertsAre
<1>2. docs \in Seq(Stored)
  BY <1>1 DEF Canonical
<1>3. \A r \in RowsOf(docs) : \E n \in Numbers(docs) : docs[n + 1].row = r
  BY <1>1, NewPlacesAre DEF Canonical
<1> HIDE DEF docs, deletes
<1>4. c = WithPrebuiltCommit(s, g, Build(docs), deletes)
  BY DEF WithCommit, docs, deletes
<1>5. Good(c) /\ c.generation = g
  BY <1>1, <1>4, CommitGood
<1>6. /\ \A r \in deletes : View(c)[r] = Absent
      /\ \A n \in Numbers(docs) : View(c)[docs[n + 1].row] = docs[n + 1].doc
      /\ \A r \in Rows : r \notin deletes /\ r \notin RowsOf(docs) =>
           View(c)[r] = View(s)[r]
  BY <1>1, <1>4, CommitGood
<1>7. ASSUME NEW r \in Rows PROVE View(c)[r] = Changed(View(s), tx)[r]
  <2>1. CASE r \in RowsOf(docs)
    <3>1. View(c)[r] = tx[r]
      BY <1>1, <1>3, <1>6, <2>1
    <3> QED BY <1>1, <2>1, <3>1 DEF Changed, Kept
  <2>2. CASE r \in deletes
    <3>1. View(c)[r] = Absent /\ r \in DOMAIN tx /\ tx[r] = Absent
      BY <1>6, <2>2 DEF deletes, Deletes
    <3> QED BY <3>1 DEF Changed
  <2>3. CASE r \notin RowsOf(docs) /\ r \notin deletes
    <3>1. View(c)[r] = View(s)[r]
      BY <1>6, <2>3
    <3>2. r \notin DOMAIN tx
      BY <1>1, <2>3 DEF deletes, Deletes, Kept
    <3> QED BY <3>1, <3>2 DEF Changed
  <2> QED BY <2>1, <2>2, <2>3
<1>8. View(c) = Changed(View(s), tx)
  <2>1. /\ View(c) = [r \in Rows |-> View(c)[r]]
        /\ Changed(View(s), tx) = [r \in Rows |-> Changed(View(s), tx)[r]]
    BY DEF View, Changed
  <2> QED BY <1>7, <2>1
<1> QED BY <1>5, <1>8

-----------------------------------------------------------------------------
(* Compaction.                                                             *)

Empty(g) == [Default EXCEPT !.generation = g]

\* A snapshot without documents is good.
LEMMA EmptyGood ==
  ASSUME NEW g \in Nat
  PROVE  /\ Good(Empty(g)) /\ Empty(g).generation = g
         /\ View(Empty(g)) = [r \in Rows |-> Absent]
         /\ Good(Default) /\ View(Default) = [r \in Rows |-> Absent]
         /\ Empty(0) = Default
<1>1. ASSUME NEW h \in Nat
      PROVE  /\ Good(Empty(h)) /\ Empty(h).generation = h
             /\ View(Empty(h)) = [r \in Rows |-> Absent]
  <2> DEFINE e == Empty(h)
  <2>1. /\ DOMAIN e = DOMAIN Default /\ e.generation = h /\ e.segments = <<>>
        /\ e.latest = << >> /\ e.live_masks = <<>>
    BY DEF Empty, Default
  <2>2. Whole(e)
    BY <2>1 DEF Whole, Default
  <2> HIDE DEF e
  <2>3. DOMAIN e.latest = {} /\ LiveRows(e) = {}
    BY <2>1 DEF LiveRows
  <2>4. IsFiniteSet(DOMAIN e.latest)
    BY <2>3, FS_EmptySet
  <2>5. Located(e)
    <3>1. e.latest \in [DOMAIN e.latest -> [segment : Nat, docid : Nat, deleted : BOOLEAN]]
      BY <2>1
    <3> QED BY <2>3, <2>4, <3>1 DEF Located
  <2>6. Numbers(e.segments) = {}
    BY <2>1 DEF Numbers
  <2>7. Masked(e)
    BY <2>1, <2>6 DEF Masked
  <2>8. View(e) = [r \in Rows |-> Absent]
    BY <2>3 DEF View
  <2> QED BY <2>1, <2>2, <2>5, <2>7, <2>8 DEF Good, e
<1>2. Empty(0) = Default
  BY DEF Empty, Default
<1> QED BY <1>1, <1>2

\* Latest documents, as they are stored.
LEMMA LatestStored ==
  ASSUME NEW s, Good(s), NEW r \in LiveRows(s)
  PROVE  LET l == s.latest[r]
             docs == s.segments[l.segment + 1].docs
         IN /\ docs \in Seq(Stored) /\ l.docid \in Numbers(docs)
            /\ s.segments[l.segment + 1] = Build(docs)
            /\ DocAt(s, l) = docs[l.docid + 1]
            /\ DocAt(s, l) \in Stored /\ DocAt(s, l).row = r
<1> DEFINE l == s.latest[r]
           segment == s.segments[l.segment + 1]
<1>1. /\ l.segment \in Numbers(s.segments) /\ l.docid \in Numbers(segment.docs)
      /\ DocAt(s, l).row = r /\ s.segments \in Seq(Segments)
  BY DEF Good, Located
<1>2. segment \in Segments
  BY <1>1, NumbersOf
<1>3. DocAt(s, l) = segment.docs[l.docid + 1]
  BY DEF DocAt
<1> HIDE DEF segment
<1>4. segment.docs \in Seq(Stored) /\ segment = Build(segment.docs)
  BY <1>2, SegmentIs
<1>5. segment.docs[l.docid + 1] \in Stored
  <2> DEFINE docs == segment.docs
             n == l.docid
  <2>1. docs \in Seq(Stored) /\ n \in Numbers(docs)
    BY <1>1, <1>4
  <2> HIDE DEF docs, n
  <2>2. docs[n + 1] \in Stored
    BY <2>1, NumbersOf
  <2> QED BY <2>2 DEF docs, n
<1> QED BY <1>1, <1>3, <1>4, <1>5, Zenon DEF segment

\* The documents that compaction keeps.
LiveDocs(s) ==
  LET rows == Ascending(LiveRows(s))
  IN [i \in DOMAIN rows |-> DocAt(s, s.latest[rows[i]])]

LEMMA LiveDocsAre ==
  ASSUME NEW s, Good(s)
  PROVE  /\ LiveDocs(s) \in Seq(Stored) /\ Distinct(LiveDocs(s))
         /\ RowsOf(LiveDocs(s)) = LiveRows(s)
         /\ DOMAIN LiveDocs(s) = DOMAIN Ascending(LiveRows(s))
         /\ \A i \in DOMAIN LiveDocs(s) :
              /\ Ascending(LiveRows(s))[i] \in LiveRows(s)
              /\ LiveDocs(s)[i] = DocAt(s, s.latest[Ascending(LiveRows(s))[i]])
              /\ LiveDocs(s)[i].row = Ascending(LiveRows(s))[i]
<1> DEFINE S == LiveRows(s)
           rows == Ascending(S)
           docs == LiveDocs(s)
<1>1. S \in SUBSET Rows /\ S \in SUBSET Int /\ IsFiniteSet(S)
  <2>1. DOMAIN s.latest \in SUBSET Rows /\ IsFiniteSet(DOMAIN s.latest)
    BY DEF Good, Located
  <2>2. S \in SUBSET (DOMAIN s.latest)
    BY DEF LiveRows
  <2> HIDE DEF S
  <2> QED BY <2>1, <2>2, FS_Subset, IndexAssumption
<1>2. DOMAIN docs = DOMAIN rows /\ docs = [i \in DOMAIN rows |-> DocAt(s, s.latest[rows[i]])]
  BY DEF LiveDocs
<1>3. \A i \in DOMAIN rows : rows[i] \in S
  <2> HIDE DEF S
  <2> QED BY <1>1, AscendingLists
<1>4. \A r \in S : DocAt(s, s.latest[r]) \in Stored /\ DocAt(s, s.latest[r]).row = r
  BY LatestStored
<1> HIDE DEF docs, rows, S
<1>5. docs \in [DOMAIN rows -> Stored] /\ \A i \in DOMAIN docs : docs[i].row = rows[i]
  BY <1>2, <1>3, <1>4
<1>6. docs \in Seq(Stored) /\ Distinct(docs) /\ RowsOf(docs) = S
  BY <1>1, <1>5, OneEach DEF rows
<1> QED BY <1>2, <1>3, <1>5, <1>6 DEF docs, rows, S

\* compacted builds the segment of the live documents, although it takes the
\* postings from the segments that they were in.
LEMMA CompactedIs ==
  ASSUME NEW s, Good(s)
  PROVE  Compacted(s) =
           WithPrebuiltCommit(Default, s.generation, Build(LiveDocs(s)), {})
<1> DEFINE rows == Ascending(LiveRows(s))
           docs == LiveDocs(s)
           P(n, t) ==
             LET l    == s.latest[rows[n + 1]]
                 list == s.segments[l.segment + 1].terms[t]
                 i    == Find(list, l.docid)
             IN [freq |-> list.freqs[i], positions |-> list.positions[i]]
           Q(n, t) ==
             LET at == Positions[docs[n + 1].doc][t]
             IN [freq |-> Len(at), positions |-> at]
           p == [n \in Numbers(docs) |-> [t \in docs[n + 1].terms |-> P(n, t)]]
           q == [n \in Numbers(docs) |-> [t \in docs[n + 1].terms |-> Q(n, t)]]
<1>1. Compacted(s) = WithPrebuiltCommit(Default, s.generation, SegmentOf(docs, p), {})
  BY DEF Compacted, LiveDocs
<1>2. Build(docs) = SegmentOf(docs, q)
  BY DEF Build
<1>3. docs \in Seq(Stored)
  BY LiveDocsAre
<1>4. ASSUME NEW t, NEW n \in Having(docs, t)
      PROVE  /\ p[n][t].freq = q[n][t].freq
             /\ p[n][t].positions = q[n][t].positions
  <2>1. n \in Numbers(docs) /\ t \in docs[n + 1].terms
    BY DEF Having
  <2>2. p[n][t] = P(n, t) /\ q[n][t] = Q(n, t)
    BY <2>1, Zenon
  <2> DEFINE r == rows[n + 1]
             l == s.latest[r]
             there == s.segments[l.segment + 1].docs
  <2>3. r \in LiveRows(s) /\ docs[n + 1] = DocAt(s, l)
    BY <1>3, <2>1, NumbersOf, LiveDocsAre
  <2>4. /\ there \in Seq(Stored) /\ l.docid \in Numbers(there)
        /\ s.segments[l.segment + 1] = Build(there)
        /\ DocAt(s, l) = there[l.docid + 1]
    BY <2>3, LatestStored, Zenon
  <2> HIDE DEF r, l, there, docs, rows
  <2>5. l.docid \in Having(there, t)
    BY <2>1, <2>3, <2>4 DEF Having
  <2> DEFINE list == Build(there).terms[t]
             i == Find(list, l.docid)
  <2>6. /\ list.freqs[i] = Len(PositionsIn(there, l.docid, t))
        /\ list.positions[i] = PositionsIn(there, l.docid, t)
    BY <2>4, <2>5, FoundPosting
  <2>7. PositionsIn(there, l.docid, t) = Positions[docs[n + 1].doc][t]
    BY <2>3, <2>4 DEF PositionsIn
  <2>8. P(n, t).freq = list.freqs[i] /\ P(n, t).positions = list.positions[i]
    BY <2>4 DEF l, r
  <2>9. /\ Q(n, t).freq = Len(Positions[docs[n + 1].doc][t])
        /\ Q(n, t).positions = Positions[docs[n + 1].doc][t]
    OBVIOUS
  <2> HIDE DEF P, Q, p, q, list, i
  <2> QED BY <2>2, <2>6, <2>7, <2>8, <2>9
<1> HIDE DEF p, q, docs
<1>5. SegmentOf(docs, p) = SegmentOf(docs, q)
  BY <1>3, <1>4, SameSegment
<1> QED BY <1>1, <1>2, <1>5 DEF docs

\* A snapshot made of some documents at once, as compaction and open do.
LEMMA LoadedGood ==
  ASSUME NEW s, Good(s), View(s) = [r \in Rows |-> Absent], NEW g \in Nat,
         NEW docs \in Seq(Stored), Distinct(docs),
         NEW c, c = WithPrebuiltCommit(s, g, Build(docs), {})
  PROVE  /\ Good(c) /\ c.generation = g
         /\ \A n \in Numbers(docs) : View(c)[docs[n + 1].row] = docs[n + 1].doc
         /\ \A r \in Rows : r \notin RowsOf(docs) => View(c)[r] = Absent
<1>1. Canonical(docs, {})
  BY FS_EmptySet DEF Canonical
<1> DEFINE none == {}
<1>2. none = {} /\ \A r : r \notin none
  OBVIOUS
<1> HIDE DEF none
<1>3. Canonical(docs, none) /\ c = WithPrebuiltCommit(s, g, Build(docs), none)
  BY <1>1, <1>2
<1>4. /\ Good(c) /\ c.generation = g
      /\ \A n \in Numbers(docs) : View(c)[docs[n + 1].row] = docs[n + 1].doc
  BY <1>3, CommitGood
<1>5. \A r \in Rows : r \notin none /\ r \notin RowsOf(docs) => View(c)[r] = View(s)[r]
  BY <1>3, CommitGood
<1> QED BY <1>2, <1>4, <1>5

\* Compaction keeps the table and the generation.
LEMMA CompactedGood ==
  ASSUME NEW s, Good(s), NEW c, c = Compacted(s)
  PROVE  Good(c) /\ c.generation = s.generation /\ View(c) = View(s)
<1> DEFINE docs == LiveDocs(s)
<1>1. /\ Good(Default) /\ View(Default) = [r \in Rows |-> Absent]
      /\ s.generation \in Nat
  BY EmptyGood DEF Good
<1>2. docs \in Seq(Stored) /\ Distinct(docs) /\ RowsOf(docs) = LiveRows(s)
  BY LiveDocsAre
<1>3. c = WithPrebuiltCommit(Default, s.generation, Build(docs), {})
  BY CompactedIs
<1>4. /\ DOMAIN docs = DOMAIN Ascending(LiveRows(s))
      /\ \A i \in DOMAIN docs :
           /\ docs[i] = DocAt(s, s.latest[docs[i].row])
           /\ docs[i].row \in LiveRows(s)
  BY LiveDocsAre
<1>5. \A r \in RowsOf(docs) : \E n \in Numbers(docs) : docs[n + 1].row = r
  BY <1>2, NewPlacesAre
<1> HIDE DEF docs
<1>6. /\ Good(c) /\ c.generation = s.generation
      /\ \A n \in Numbers(docs) : View(c)[docs[n + 1].row] = docs[n + 1].doc
      /\ \A r \in Rows : r \notin RowsOf(docs) => View(c)[r] = Absent
  BY <1>1, <1>2, <1>3, LoadedGood
<1>7. ASSUME NEW r \in Rows PROVE View(c)[r] = View(s)[r]
  <2>1. CASE r \in RowsOf(docs)
    <3>1. PICK n \in Numbers(docs) : docs[n + 1].row = r
      BY <1>5, <2>1
    <3>2. docs[n + 1] = DocAt(s, s.latest[r])
      BY <1>2, <1>4, <3>1, NumbersOf
    <3>3. View(c)[r] = docs[n + 1].doc
      BY <1>6, <3>1
    <3> QED BY <1>2, <2>1, <3>2, <3>3 DEF View
  <2>2. CASE r \notin RowsOf(docs)
    BY <1>2, <1>6, <2>2 DEF View
  <2> QED BY <2>1, <2>2
<1>8. View(c) = View(s)
  <2>1. /\ View(c) = [r \in Rows |-> View(c)[r]]
        /\ View(s) = [r \in Rows |-> View(s)[r]]
    BY DEF View
  <2> QED BY <1>7, <2>1
<1> QED BY <1>6, <1>8

-----------------------------------------------------------------------------
(* Replay.                                                                 *)

\* Function f has what s becomes by each of the first k commits.
Unrolled(s, commits, k, f) ==
  f = [n \in 0..k |->
         IF n = 0 THEN s ELSE Applied(f[n - 1], commits[n])]

\* The same, as facts about f.
Linked(s, commits, k, f) ==
  /\ DOMAIN f = 0..k /\ f[0] = s
  /\ \A n \in 1..k : f[n] = Applied(f[n - 1], commits[n])

\* A run is given by its first element, and each other by the one before.
LEMMA UnrolledIs ==
  ASSUME NEW s, NEW commits, NEW k \in Nat, NEW f, f = [n \in 0..k |-> f[n]],
         Linked(s, commits, k, f)
  PROVE  Unrolled(s, commits, k, f)
<1> DEFINE v(n) == IF n = 0 THEN s
                   ELSE Applied(f[n - 1], commits[n])
<1>1. \A n \in 0..k : n = 0 \/ n \in 1..k
  OBVIOUS
<1>2. \A n \in 0..k : f[n] = v(n)
  BY <1>1 DEF Linked
<1> HIDE DEF v
<1>3. f = [n \in 0..k |-> v(n)]
  BY <1>2
<1> QED BY <1>3 DEF Unrolled, v

LEMMA UnrolledHas ==
  ASSUME NEW s, NEW commits, NEW k \in Nat, NEW f, Unrolled(s, commits, k, f)
  PROVE  Linked(s, commits, k, f)
<1> DEFINE v(n) == IF n = 0 THEN s
                   ELSE Applied(f[n - 1], commits[n])
<1>1. f = [n \in 0..k |-> v(n)]
  BY DEF Unrolled
<1>2. v(0) = s
  OBVIOUS
<1>3. \A n \in 1..k : n \in 0..k /\ n # 0
  OBVIOUS
<1>4. \A n \in 1..k : v(n) = Applied(f[n - 1], commits[n])
  BY <1>3
<1>5. 0 \in 0..k
  OBVIOUS
<1> HIDE DEF v
<1>6. DOMAIN f = 0..k /\ \A n \in 0..k : f[n] = v(n)
  BY <1>1
<1> QED BY <1>2, <1>3, <1>4, <1>5, <1>6 DEF Linked

\* One commit more.
LEMMA UnrollGrows ==
  ASSUME NEW s, NEW commits, NEW k \in Nat, NEW f, Unrolled(s, commits, k, f)
  PROVE  \E g : Unrolled(s, commits, k + 1, g)
<1> DEFINE next == Applied(f[k], commits[k + 1])
           g == [n \in 0..(k + 1) |-> IF n = k + 1 THEN next ELSE f[n]]
<1>1. /\ DOMAIN f = 0..k /\ f[0] = s
      /\ \A n \in 1..k : f[n] = Applied(f[n - 1], commits[n])
  <2>1. Linked(s, commits, k, f)
    BY UnrolledHas
  <2> QED BY <2>1 DEF Linked
<1>2. /\ DOMAIN g = 0..(k + 1) /\ g = [n \in 0..(k + 1) |-> g[n]]
      /\ g[k + 1] = next /\ \A n \in 0..k : g[n] = f[n]
  OBVIOUS
<1> HIDE DEF g
<1>3. g[0] = s
  <2>1. f[0] = s
    BY <1>1
  <2>2. 0 \in 0..k
    OBVIOUS
  <2> QED BY <1>2, <2>1, <2>2
<1>4. ASSUME NEW n \in 1..(k + 1)
      PROVE  g[n] = Applied(g[n - 1], commits[n])
  <2>1. n - 1 \in 0..k
    OBVIOUS
  <2>2. g[n - 1] = f[n - 1]
    BY <1>2, <2>1
  <2>3. CASE n = k + 1
    <3>1. n - 1 = k
      BY <2>3
    <3> QED BY <1>2, <2>2, <2>3, <3>1
  <2>4. CASE n # k + 1
    <3>1. n \in 1..k /\ n \in 0..k
      BY <2>4
    <3> QED BY <1>1, <1>2, <2>2, <3>1
  <2> QED BY <2>3, <2>4
<1>5. k + 1 \in Nat
  OBVIOUS
<1>6. Unrolled(s, commits, k + 1, g)
  <2>1. Linked(s, commits, k + 1, g)
    BY <1>2, <1>3, <1>4 DEF Linked
  <2> QED BY <1>2, <1>5, <2>1, UnrolledIs
<1> QED BY <1>6

\* There is a run of any length.
LEMMA UnrollExists ==
  ASSUME NEW s, NEW commits, NEW k \in Nat
  PROVE  \E f : Unrolled(s, commits, k, f)
<1> DEFINE Bad == {m \in Nat : ~\E f : Unrolled(s, commits, m, f)}
<1>1. SUFFICES ASSUME Bad # {} PROVE FALSE
  OBVIOUS
<1>2. PICK m \in Bad : \A j \in Bad : m <= j
  <2>1. Bad \subseteq Nat
    OBVIOUS
  <2> HIDE DEF Bad
  <2> QED BY <1>1, <2>1, Least
<1>3. m \in Nat /\ ~\E f : Unrolled(s, commits, m, f)
  BY <1>2
<1>4. CASE m = 0
  <2> DEFINE f == [n \in 0..0 |-> s]
  <2>1. /\ DOMAIN f = 0..0 /\ f = [n \in 0..0 |-> f[n]] /\ f[0] = s
        /\ 1..0 = {} /\ 0 \in Nat
    OBVIOUS
  <2> HIDE DEF f
  <2>2. Linked(s, commits, 0, f)
    BY <2>1 DEF Linked
  <2>3. Unrolled(s, commits, 0, f)
    BY <2>1, <2>2, UnrolledIs
  <2> QED BY <1>3, <1>4, <2>3
<1>5. CASE m # 0
  <2> DEFINE j == m - 1
  <2>1. j \in Nat /\ j < m /\ j + 1 = m
    BY <1>3, <1>5
  <2> HIDE DEF j
  <2>2. ~(m <= j)
    BY <1>3, <2>1
  <2>3. j \notin Bad
    BY <1>2, <2>2
  <2>4. PICK f : Unrolled(s, commits, j, f)
    BY <2>1, <2>3
  <2>5. \E g : Unrolled(s, commits, j + 1, g)
    BY <2>1, <2>4, UnrollGrows
  <2> QED BY <1>3, <2>1, <2>5
<1> QED BY <1>4, <1>5

\* The same commits up to the k-th.
SameUpTo(commits, more, k) == \A n \in 1..k : commits[n] = more[n]

\* Unrolled of commits that begin alike begin alike.
LEMMA UnrolledAgree ==
  ASSUME NEW s, NEW commits, NEW more, NEW k \in Nat, NEW l \in Nat, k <= l,
         SameUpTo(commits, more, k),
         NEW f, Unrolled(s, commits, k, f), NEW g, Unrolled(s, more, l, g)
  PROVE  f[k] = g[k]
<1> DEFINE Bad == {n \in 0..k : f[n] # g[n]}
<1>1. SUFFICES ASSUME Bad # {} PROVE FALSE
  <2>1. k \in 0..k
    OBVIOUS
  <2> QED BY <2>1
<1>2. PICK m \in Bad : \A j \in Bad : m <= j
  <2>1. Bad \subseteq Nat
    OBVIOUS
  <2> HIDE DEF Bad
  <2> QED BY <1>1, <2>1, Least
<1>3. m \in 0..k /\ m \in Nat /\ f[m] # g[m]
  BY <1>2
<1>4. /\ f[0] = s
      /\ \A n \in 1..k : f[n] = Applied(f[n - 1], commits[n])
  <2>1. Linked(s, commits, k, f)
    BY UnrolledHas
  <2> QED BY <2>1 DEF Linked
<1>5. /\ g[0] = s
      /\ \A n \in 1..l : g[n] = Applied(g[n - 1], more[n])
  <2>1. Linked(s, more, l, g)
    BY UnrolledHas
  <2> QED BY <2>1 DEF Linked
<1>6. m # 0
  BY <1>3, <1>4, <1>5
<1> DEFINE j == m - 1
<1>7. j \in Nat /\ j < m /\ j \in 0..k /\ m \in 1..k /\ m \in 1..l
  BY <1>3, <1>6
<1>8. ~(m <= j)
  BY <1>3, <1>7
<1>9. f[j] = g[j] /\ commits[m] = more[m]
  BY <1>2, <1>7, <1>8 DEF SameUpTo
<1> HIDE DEF Bad
<1>10. f[m] = Applied(f[j], commits[m])
  BY <1>4, <1>7
<1>11. g[m] = Applied(g[j], more[m])
  BY <1>5, <1>7
<1> QED BY <1>3, <1>7, <1>9, <1>10, <1>11

\* Replay goes through a run.
LEMMA ReplayIs ==
  ASSUME NEW s, NEW X, NEW commits \in Seq(X)
  PROVE  \E f : Unrolled(s, commits, Len(commits), f) /\ Replay(s, commits) = f[Len(commits)]
<1> DEFINE f == CHOOSE f : Unrolled(s, commits, Len(commits), f)
<1>1. Len(commits) \in Nat
  OBVIOUS
<1>2. Unrolled(s, commits, Len(commits), f)
  BY <1>1, UnrollExists
<1>3. Replay(s, commits) = f[Len(commits)]
  BY DEF Replay, Unrolled
<1> QED BY <1>2, <1>3

\* Nothing to replay.
LEMMA ReplayNone ==
  ASSUME NEW s
  PROVE  Replay(s, <<>>) = s
<1> DEFINE commits == <<>>
<1>1. commits \in Seq({}) /\ Len(commits) = 0
  OBVIOUS
<1> HIDE DEF commits
<1>2. PICK f : Unrolled(s, commits, Len(commits), f) /\ Replay(s, commits) = f[Len(commits)]
  BY <1>1, ReplayIs
<1>3. Unrolled(s, commits, 0, f) /\ 0 \in Nat /\ Replay(s, commits) = f[0]
  BY <1>1, <1>2
<1>4. f[0] = s
  BY <1>3, UnrolledHas DEF Linked
<1> QED BY <1>3, <1>4 DEF commits

\* The last commit of the log is the last one that is applied.
LEMMA ReplayOne ==
  ASSUME NEW s, NEW X, NEW commits \in Seq(X), NEW commit \in X
  PROVE  Replay(s, Append(commits, commit)) =
           Applied(Replay(s, commits), commit)
<1> DEFINE more == Append(commits, commit)
           k == Len(commits)
<1>1. /\ k \in Nat /\ more \in Seq(X) /\ Len(more) = k + 1
      /\ more[k + 1] = commit /\ \A n \in 1..k : commits[n] = more[n]
  OBVIOUS
<1> HIDE DEF more
<1>2. PICK f : Unrolled(s, commits, k, f) /\ Replay(s, commits) = f[k]
  BY ReplayIs
<1>3. PICK g : Unrolled(s, more, Len(more), g) /\ Replay(s, more) = g[Len(more)]
  BY <1>1, ReplayIs
<1> HIDE DEF k
<1> DEFINE l == k + 1
<1>4. /\ k \in Nat /\ l \in Nat /\ k <= l /\ k \in 0..k /\ l \in 1..l /\ l - 1 = k
  BY <1>1
<1>5. Unrolled(s, more, l, g) /\ Replay(s, more) = g[l] /\ more[l] = commit
  BY <1>1, <1>3
<1>6. SameUpTo(commits, more, k)
  BY <1>1 DEF SameUpTo
<1> HIDE DEF l
<1>7. Unrolled(s, commits, k, f) /\ Unrolled(s, more, l, g)
  BY <1>2, <1>5
<1>8. f[k] = g[k]
  BY <1>4, <1>6, <1>7, UnrolledAgree
<1>9. \A n \in 1..l :
        g[n] = Applied(g[n - 1], more[n])
  <2>1. Linked(s, more, l, g)
    BY <1>4, <1>7, UnrolledHas
  <2> QED BY <2>1 DEF Linked
<1>10. g[l] = Applied(g[k], commit)
  BY <1>4, <1>5, <1>9
<1> QED BY <1>2, <1>5, <1>8, <1>10 DEF more

\* Commits that the snapshot has are not applied again.
LEMMA ReplayOld ==
  ASSUME NEW s, NEW X, NEW commits \in Seq(X), s.generation \in Nat,
         AllOld(commits, Len(commits), s.generation)
  PROVE  Replay(s, commits) = s
<1> DEFINE k == Len(commits)
<1>1. PICK f : Unrolled(s, commits, k, f) /\ Replay(s, commits) = f[k]
  BY ReplayIs
<1>2. k \in Nat
  OBVIOUS
<1>3. \A n \in 1..k : Applied(s, commits[n]) = s
  <2> SUFFICES ASSUME NEW n \in 1..k PROVE Applied(s, commits[n]) = s
    OBVIOUS
  <2> DEFINE h == commits[n].generation
             g == s.generation
  <2>1. h \in Nat /\ g \in Nat /\ h <= g
    BY DEF AllOld
  <2>2. ~(h > g)
    <3> HIDE DEF h, g
    <3> QED BY <2>1
  <2> QED BY <2>2 DEF Applied
<1> HIDE DEF k
<1>4. f[0] = s /\ \A n \in 1..k : f[n] = Applied(f[n - 1], commits[n])
  BY <1>1, <1>2, UnrolledHas DEF Linked
<1> DEFINE Bad == {n \in 0..k : f[n] # s}
<1>5. ASSUME Bad # {} PROVE FALSE
  <2>1. PICK m \in Bad : \A j \in Bad : m <= j
    <3>1. Bad \subseteq Nat
      OBVIOUS
    <3> HIDE DEF Bad
    <3> QED BY <1>5, <3>1, Least
  <2>2. m \in 0..k /\ m \in Nat /\ f[m] # s
    BY <2>1
  <2>3. m # 0
    BY <1>4, <2>2
  <2> DEFINE j == m - 1
  <2>4. j \in 0..k /\ m \in 1..k /\ ~(m <= j)
    BY <1>2, <2>2, <2>3
  <2>5. f[j] = s
    BY <2>1, <2>4
  <2>6. f[m] = Applied(f[j], commits[m])
    BY <1>4, <2>4
  <2> HIDE DEF j
  <2> QED BY <1>3, <2>2, <2>4, <2>5, <2>6
<1>6. k \in 0..k
  BY <1>2
<1>7. f[k] = s
  BY <1>5, <1>6
<1> QED BY <1>1, <1>7

-----------------------------------------------------------------------------
(* Sums.                                                                   *)

\* As many pairs as the values of f over T add up to.
Units(T, f) == UNION {{x} \X (1..f[x]) : x \in T}

LEMMA UnitIs ==
  ASSUME NEW T, NEW f
  PROVE  \A u : u \in Units(T, f) <=>
           \E x \in T : \E k \in 1..f[x] : u = <<x, k>>
BY DEF Units

LEMMA UnitsFinite ==
  ASSUME NEW S, IsFiniteSet(S), NEW f \in [S -> Nat]
  PROVE  IsFiniteSet(Units(S, f)) /\ Cardinality(Units(S, f)) \in Nat
<1> DEFINE g == [x \in S |-> {x} \X (1..f[x])]
           parts == {{x} \X (1..f[x]) : x \in S}
<1>1. g \in Surjection(S, parts)
  BY DEF Surjection
<1>2. IsFiniteSet(parts)
  <2> HIDE DEF g, parts
  <2> QED BY <1>1, FS_Surjection
<1>3. \A x \in S : IsFiniteSet({x} \X (1..f[x]))
  <2> SUFFICES ASSUME NEW x \in S PROVE IsFiniteSet({x} \X (1..f[x]))
    OBVIOUS
  <2>1. f[x] \in Nat
    OBVIOUS
  <2> DEFINE n == f[x]
             one == {x}
             units == 1..n
  <2>2. IsFiniteSet(one)
    BY FS_Singleton
  <2>3. IsFiniteSet(units)
    BY <2>1, FS_Interval
  <2> HIDE DEF one, units
  <2>4. IsFiniteSet(one \X units)
    BY <2>2, <2>3, FS_Product
  <2> QED BY <2>4 DEF one, units
<1>4. \A part \in parts : IsFiniteSet(part)
  BY <1>3
<1> HIDE DEF parts
<1>5. IsFiniteSet(UNION parts)
  BY <1>2, <1>4, FS_UNION
<1> QED BY <1>5, FS_CardinalityType DEF Units, parts

\* One element more.
LEMMA UnitsOfOne ==
  ASSUME NEW S, IsFiniteSet(S), NEW f \in [S -> Nat], NEW x \in S
  PROVE  Cardinality(Units(S, f)) = f[x] + Cardinality(Units(S \ {x}, f))
<1> DEFINE one == {x} \X (1..f[x])
           rest == Units(S \ {x}, f)
           g == [y \in S \ {x} |-> f[y]]
<1>1. IsFiniteSet(one) /\ Cardinality(one) = f[x]
  <2> DEFINE n == f[x]
             only == {x}
             units == 1..n
  <2>1. n \in Nat
    OBVIOUS
  <2>2. IsFiniteSet(only) /\ Cardinality(only) = 1
    BY FS_Singleton
  <2> HIDE DEF n
  <2>3. IsFiniteSet(units) /\ Cardinality(units) = n
    BY <2>1, FS_Interval, SMTT(30)
  <2> HIDE DEF only, units
  <2>4. IsFiniteSet(only \X units) /\ Cardinality(only \X units) = 1 * n
    BY <2>2, <2>3, FS_Product
  <2>5. 1 * n = n
    BY <2>1
  <2> QED BY <2>4, <2>5 DEF n, only, units
<1>2. IsFiniteSet(rest) /\ Cardinality(rest) \in Nat
  <2>1. IsFiniteSet(S \ {x}) /\ g \in [S \ {x} -> Nat]
    BY FS_RemoveElement
  <2>2. Units(S \ {x}, g) = rest
    BY DEF Units
  <2> HIDE DEF g
  <2> QED BY <2>1, <2>2, UnitsFinite
<1>3. one \cup rest = Units(S, f)
  BY DEF Units
<1>4. one \cap rest = {}
  BY DEF Units
<1>5. f[x] \in Nat
  OBVIOUS
<1> HIDE DEF one, rest
<1>6. Cardinality(one \cup rest) =
        Cardinality(one) + Cardinality(rest) - Cardinality(one \cap rest)
  BY <1>1, <1>2, FS_Union
<1>7. Cardinality(one \cap rest) = 0
  BY <1>4, FS_EmptySet
<1>8. Cardinality(one \cup rest) = f[x] + Cardinality(rest)
  BY <1>1, <1>2, <1>5, <1>6, <1>7
<1> QED BY <1>3, <1>8 DEF rest

\* SumFunction counts units, in whatever order it goes through the elements.
LEMMA SumIs ==
  ASSUME NEW S, IsFiniteSet(S), NEW f \in [S -> Nat]
  PROVE  SumFunction(f) = Cardinality(Units(S, f)) /\ SumFunction(f) \in Nat
<1> DEFINE Step(g) == [T \in SUBSET S |->
             IF T = {} THEN 0
             ELSE LET x == CHOOSE x \in T : TRUE IN f[x] + g[T \ {x}]]
           iter == CHOOSE g : g = Step(g)
           h == [T \in SUBSET S |-> Cardinality(Units(T, f))]
<1>1. SumFunction(f) = iter[S]
  <2>1. DOMAIN f = S
    OBVIOUS
  <2> QED BY <2>1 DEF SumFunction, SumFunctionOnSet, FoldFunctionOnSet, MapThenFoldSet
<1>2. Cardinality(Units({}, f)) = 0
  BY FS_EmptySet DEF Units
<1>3. ASSUME NEW T \in SUBSET S, NEW x \in T
      PROVE  /\ Cardinality(Units(T, f)) = f[x] + Cardinality(Units(T \ {x}, f))
             /\ IsFiniteSet(T) /\ T \ {x} \in SUBSET S
             /\ Cardinality(T) \in Nat /\ Cardinality(T \ {x}) \in Nat
             /\ Cardinality(T \ {x}) < Cardinality(T)
  <2> DEFINE g == [y \in T |-> f[y]]
  <2>1. IsFiniteSet(T) /\ g \in [T -> Nat]
    BY FS_Subset
  <2>2. Units(T, g) = Units(T, f) /\ Units(T \ {x}, g) = Units(T \ {x}, f) /\ g[x] = f[x]
    BY DEF Units
  <2> HIDE DEF g
  <2>3. Cardinality(Units(T, g)) = g[x] + Cardinality(Units(T \ {x}, g))
    BY <2>1, UnitsOfOne
  <2>4. /\ Cardinality(T \ {x}) = Cardinality(T) - 1 /\ Cardinality(T) \in Nat
        /\ Cardinality(T \ {x}) \in Nat
    BY <2>1, FS_RemoveElement, FS_CardinalityType
  <2> QED BY <2>1, <2>2, <2>3, <2>4
<1>4. h = Step(h)
  <2>1. ASSUME NEW T \in SUBSET S, T # {}
        PROVE  h[T] = LET x == CHOOSE x \in T : TRUE IN f[x] + h[T \ {x}]
    <3> DEFINE x == CHOOSE x \in T : TRUE
    <3>1. x \in T
      BY <2>1
    <3> HIDE DEF x
    <3>2. h[T] = f[x] + h[T \ {x}]
      BY <1>3, <3>1
    <3> QED BY <3>2 DEF x
  <2>2. h[{}] = 0
    BY <1>2
  <2>3. h = [T \in SUBSET S |-> h[T]]
    OBVIOUS
  <2> HIDE DEF h
  <2> QED BY <2>1, <2>2, <2>3
<1> HIDE DEF h
<1>5. iter = Step(iter)
  <2> HIDE DEF Step
  <2> QED BY <1>4
<1> HIDE DEF iter
<1> DEFINE Bad == {n \in Nat : \E T \in SUBSET S :
                     Cardinality(T) = n /\ iter[T] # Cardinality(Units(T, f))}
<1>6. ASSUME Bad # {} PROVE FALSE
  <2>1. PICK n \in Bad : \A m \in Bad : n <= m
    <3>1. Bad \subseteq Nat
      OBVIOUS
    <3> HIDE DEF Bad
    <3> QED BY <1>6, <3>1, Least
  <2>2. PICK T \in SUBSET S : Cardinality(T) = n /\ iter[T] # Cardinality(Units(T, f))
    BY <2>1
  <2>3. T # {}
    <3>1. iter[{}] = 0
      BY <1>5
    <3> QED BY <1>2, <2>2, <3>1
  <2> DEFINE x == CHOOSE x \in T : TRUE
  <2>4. x \in T
    BY <2>3
  <2>5. iter[T] = f[x] + iter[T \ {x}]
    BY <1>5, <2>3
  <2> HIDE DEF x
  <2> DEFINE m == Cardinality(T \ {x})
  <2>6. /\ Cardinality(Units(T, f)) = f[x] + Cardinality(Units(T \ {x}, f))
        /\ T \ {x} \in SUBSET S /\ m \in Nat /\ n \in Nat /\ m < n
    BY <1>3, <2>2, <2>4
  <2>7. m \notin Bad
    <3> HIDE DEF m, Bad
    <3>1. ~(n <= m)
      BY <2>6
    <3> QED BY <2>1, <3>1
  <2>8. iter[T \ {x}] = Cardinality(Units(T \ {x}, f))
    BY <2>6, <2>7
  <2> QED BY <2>2, <2>5, <2>6, <2>8
<1>7. IsFiniteSet(S) /\ Cardinality(S) \in Nat /\ S \in SUBSET S
  BY FS_CardinalityType
<1>8. iter[S] = Cardinality(Units(S, f))
  BY <1>6, <1>7
<1> QED BY <1>1, <1>8, UnitsFinite

\* A sum over two parts.
LEMMA SumSplit ==
  ASSUME NEW A, NEW B, IsFiniteSet(A), IsFiniteSet(B), A \cap B = {},
         NEW f \in [A \cup B -> Nat], NEW g \in [A -> Nat], NEW h \in [B -> Nat],
         \A x \in A : g[x] = f[x], \A x \in B : h[x] = f[x]
  PROVE  SumFunction(f) = SumFunction(g) + SumFunction(h)
<1> DEFINE all == Units(A \cup B, f)
           left == Units(A, g)
           right == Units(B, h)
<1>1. /\ IsFiniteSet(left) /\ Cardinality(left) \in Nat
      /\ IsFiniteSet(right) /\ Cardinality(right) \in Nat
  BY UnitsFinite
<1>2. SumFunction(g) = Cardinality(left) /\ SumFunction(h) = Cardinality(right)
  BY SumIs
<1>3. SumFunction(f) = Cardinality(all)
  <2>1. IsFiniteSet(A \cup B)
    BY FS_Union
  <2> QED BY <2>1, SumIs
<1>4. left \cup right = all
  BY DEF Units
<1>5. left \cap right = {}
  <2>1. ASSUME NEW u \in left, u \in right PROVE FALSE
    <3>1. \E x \in A : \E k \in 1..g[x] : u = <<x, k>>
      BY UnitIs
    <3>2. \E x \in B : \E k \in 1..h[x] : u = <<x, k>>
      BY <2>1, UnitIs
    <3> QED BY <3>1, <3>2
  <2> QED BY <2>1
<1> HIDE DEF all, left, right
<1>6. Cardinality(left \cup right) =
        Cardinality(left) + Cardinality(right) - Cardinality(left \cap right)
  BY <1>1, FS_Union
<1>7. Cardinality(left \cap right) = 0
  BY <1>5, FS_EmptySet
<1>8. Cardinality(left \cup right) = Cardinality(left) + Cardinality(right)
  BY <1>1, <1>6, <1>7
<1> QED BY <1>2, <1>3, <1>4, <1>8

\* A part of a set, and its image under a bijection.
LEMMA SameSize ==
  ASSUME NEW S, NEW T, IsFiniteSet(S), NEW b \in Bijection(S, T),
         NEW V \in SUBSET S, NEW W \in SUBSET T, \A x \in S : x \in V <=> b[x] \in W
  PROVE  IsFiniteSet(W) /\ Cardinality(W) = Cardinality(V)
<1> DEFINE c == [x \in V |-> b[x]]
<1>1. /\ b \in [S -> T] /\ \A x, y \in S : b[x] = b[y] => x = y
      /\ \A y \in T : \E x \in S : b[x] = y
  BY DEF Bijection, Injection, Surjection, IsInjective
<1>2. c \in [V -> W]
  BY <1>1
<1>3. \A x, y \in V : c[x] = c[y] => x = y
  BY <1>1
<1>4. \A y \in W : \E x \in V : c[x] = y
  BY <1>1
<1> HIDE DEF c
<1>5. c \in Bijection(V, W)
  BY <1>2, <1>3, <1>4 DEF Bijection, Injection, Surjection, IsInjective
<1>6. IsFiniteSet(V) /\ ExistsBijection(V, W)
  BY <1>5, FS_Subset DEF ExistsBijection
<1> QED BY <1>6, FS_Bijection

\* Sums of the same values.
LEMMA SumMapped ==
  ASSUME NEW S, NEW T, IsFiniteSet(S), NEW b \in Bijection(S, T),
         NEW f \in [S -> Nat], NEW g \in [T -> Nat], \A x \in S : g[b[x]] = f[x]
  PROVE  SumFunction(f) = SumFunction(g)
<1> DEFINE U == Units(S, f)
           V == Units(T, g)
           c == [u \in U |-> <<b[u[1]], u[2]>>]
<1>1. /\ b \in [S -> T] /\ \A x, y \in S : b[x] = b[y] => x = y
      /\ \A y \in T : \E x \in S : b[x] = y
  BY DEF Bijection, Injection, Surjection, IsInjective
<1>2. /\ \A u \in U : u[1] \in S /\ u[2] \in 1..f[u[1]] /\ u = <<u[1], u[2]>>
      /\ \A x \in S : \A k \in 1..f[x] : <<x, k>> \in U
      /\ \A u \in V : u[1] \in T /\ u[2] \in 1..g[u[1]] /\ u = <<u[1], u[2]>>
      /\ \A x \in T : \A k \in 1..g[x] : <<x, k>> \in V
  BY UnitIs
<1> HIDE DEF U, V
<1>3. c \in [U -> V]
  BY <1>1, <1>2
<1>4. ASSUME NEW u \in U, NEW w \in U, c[u] = c[w] PROVE u = w
  <2>1. b[u[1]] = b[w[1]] /\ u[2] = w[2]
    BY <1>4
  <2>2. u[1] = w[1]
    BY <1>1, <1>2, <2>1
  <2> QED BY <1>2, <2>1, <2>2
<1>5. ASSUME NEW w \in V PROVE \E u \in U : c[u] = w
  <2>1. PICK x \in S : b[x] = w[1]
    BY <1>1, <1>2
  <2>2. w[2] \in 1..f[x]
    BY <1>2, <2>1
  <2> DEFINE u == <<x, w[2]>>
  <2>3. u \in U /\ u[1] = x /\ u[2] = w[2]
    BY <1>2, <2>2
  <2>4. c[u] = <<b[x], w[2]>>
    BY <2>3
  <2> QED BY <1>2, <2>1, <2>3, <2>4
<1> HIDE DEF c
<1>6. c \in Bijection(U, V)
  BY <1>3, <1>4, <1>5 DEF Bijection, Injection, Surjection, IsInjective
<1>7. IsFiniteSet(U) /\ ExistsBijection(U, V)
  BY <1>6, UnitsFinite DEF ExistsBijection, U
<1>8. Cardinality(V) = Cardinality(U)
  BY <1>7, FS_Bijection
<1>9. IsFiniteSet(T)
  BY FS_Bijection DEF ExistsBijection
<1>10. SumFunction(f) = Cardinality(U) /\ SumFunction(g) = Cardinality(V)
  BY <1>9, SumIs DEF U, V
<1> QED BY <1>8, <1>10

LEMMA SumOfNone ==
  ASSUME NEW f, DOMAIN f = {}
  PROVE  SumFunction(f) = 0
<1> DEFINE Step(g) == [S \in SUBSET {} |->
             IF S = {} THEN 0
             ELSE LET x == CHOOSE x \in S : TRUE IN f[x] + g[S \ {x}]]
           iter == CHOOSE g : g = Step(g)
           zero == [S \in SUBSET {} |-> 0]
<1>1. SumFunction(f) = iter[{}]
  BY DEF SumFunction, SumFunctionOnSet, FoldFunctionOnSet, MapThenFoldSet
<1>2. \A g : Step(g) = zero
  OBVIOUS
<1> HIDE DEF Step
<1>3. iter = Step(iter)
  BY <1>2
<1> HIDE DEF iter
<1>4. iter[{}] = 0
  BY <1>2, <1>3
<1> QED BY <1>1, <1>4

-----------------------------------------------------------------------------
(* What the counters count.                                                *)

\* The rows of a table that have a document, their lengths, and for each term
\* that one of them has how many have it.
Present(table)        == {r \in Rows : table[r] # Absent}
LensOf(table, R)      == [r \in R |-> Length(table[r])]
RowsWith(table, R, t) == {r \in R : t \in UniqueTerms(table[r])}
Freqs(table, R) ==
  [t \in {u \in Terms : RowsWith(table, R, u) # {}} |->
     Cardinality(RowsWith(table, R, t))]

\* The counters of a snapshot are those of its table.
Counted(s) ==
  /\ s.live_docs = Cardinality(Present(View(s)))
  /\ s.total_doc_len = SumFunction(LensOf(View(s), Present(View(s))))
  /\ s.term_df = Freqs(View(s), Present(View(s)))

LEMMA LengthIs ==
  ASSUME NEW d \in Docs
  PROVE  Length(d) \in Nat
<1> DEFINE fields == Fields[d]
           S == DOMAIN fields
           f == [c \in S |-> Len(fields[c])]
<1>1. fields \in Seq(Seq(Terms))
  BY IndexAssumption
<1>2. IsFiniteSet(S)
  BY <1>1, FS_Interval
<1>3. f \in [S -> Nat]
  BY <1>1
<1>4. Length(d) = SumFunction(f)
  BY DEF Length, TokenCount
<1> HIDE DEF f, S
<1> QED BY <1>2, <1>3, <1>4, SumIs

\* The live rows are those that have a document, whose length and terms are
\* stored with it.
LEMMA PresentIs ==
  ASSUME NEW s, Good(s)
  PROVE  /\ Present(View(s)) = LiveRows(s)
         /\ IsFiniteSet(LiveRows(s)) /\ LiveRows(s) \in SUBSET Rows
         /\ \A r \in LiveRows(s) :
              /\ View(s)[r] \in Docs
              /\ DocAt(s, s.latest[r]).len = Length(View(s)[r])
              /\ DocAt(s, s.latest[r]).terms = UniqueTerms(View(s)[r])
              /\ DocAt(s, s.latest[r]).row = r
<1>1. IsFiniteSet(LiveRows(s)) /\ LiveRows(s) \in SUBSET Rows
  <2>1. LiveRows(s) \in SUBSET DOMAIN s.latest
    BY DEF LiveRows
  <2>2. DOMAIN s.latest \in SUBSET Rows /\ IsFiniteSet(DOMAIN s.latest)
    BY DEF Good, Located
  <2> QED BY <2>1, <2>2, FS_Subset
<1>2. ASSUME NEW r \in LiveRows(s)
      PROVE  /\ View(s)[r] \in Docs
             /\ DocAt(s, s.latest[r]).len = Length(View(s)[r])
             /\ DocAt(s, s.latest[r]).terms = UniqueTerms(View(s)[r])
             /\ DocAt(s, s.latest[r]).row = r
  <2> DEFINE x == DocAt(s, s.latest[r])
  <2>1. x \in Stored /\ x.row = r
    BY LatestStored
  <2>2. View(s)[r] = x.doc
    BY <1>1 DEF View
  <2> HIDE DEF x
  <2>3. x.doc \in Docs /\ x.len = Length(x.doc) /\ x.terms = UniqueTerms(x.doc)
    BY <2>1, StoredIs
  <2> QED BY <2>1, <2>2, <2>3 DEF x
<1>3. \A r \in Rows : r \in LiveRows(s) <=> View(s)[r] # Absent
  <2>1. \A r \in Rows \ LiveRows(s) : View(s)[r] = Absent
    BY DEF View
  <2> QED BY <1>2, <2>1, IndexAssumption
<1>4. Present(View(s)) = LiveRows(s)
  BY <1>1, <1>3 DEF Present
<1> QED BY <1>1, <1>2, <1>4

\* What a map of counts says of a term.
CountIn(df, t) == IF t \in DOMAIN df THEN df[t] ELSE 0

LEMMA FreqsAre ==
  ASSUME NEW table, NEW R, IsFiniteSet(R), NEW t \in Terms
  PROVE  /\ CountIn(Freqs(table, R), t) = Cardinality(RowsWith(table, R, t))
         /\ IsFiniteSet(RowsWith(table, R, t))
         /\ Cardinality(RowsWith(table, R, t)) \in Nat
         /\ RowsWith(table, R, t) = {} <=> Cardinality(RowsWith(table, R, t)) = 0
<1> DEFINE W == RowsWith(table, R, t)
<1>1. IsFiniteSet(W)
  BY FS_Subset DEF RowsWith
<1>2. t \in DOMAIN Freqs(table, R) <=> W # {}
  BY DEF Freqs
<1>3. t \in DOMAIN Freqs(table, R) => Freqs(table, R)[t] = Cardinality(W)
  BY DEF Freqs
<1> HIDE DEF W
<1>4. Cardinality(W) \in Nat /\ (W = {} <=> Cardinality(W) = 0)
  BY <1>1, FS_EmptySet, FS_CardinalityType
<1>5. CountIn(Freqs(table, R), t) = Cardinality(W)
  BY <1>2, <1>3, <1>4 DEF CountIn
<1> QED BY <1>1, <1>4, <1>5 DEF W

\* Adding to the counts of each term, and dropping terms that come to nothing.
LEMMA ReweighedIs ==
  ASSUME NEW table, NEW R, IsFiniteSet(R), NEW next, NEW Q, IsFiniteSet(Q),
         NEW more, DOMAIN more \in SUBSET Terms,
         \A t \in Terms : Cardinality(RowsWith(next, Q, t)) =
                            Cardinality(RowsWith(table, R, t)) + CountIn(more, t)
  PROVE  Reweighed(Freqs(table, R), more) = Freqs(next, Q)
<1> DEFINE df == Freqs(table, R)
           D == DOMAIN df \cup DOMAIN more
           sum == [t \in D |-> (IF t \in DOMAIN df THEN df[t] ELSE 0) +
                               (IF t \in DOMAIN more THEN more[t] ELSE 0)]
           kept == {t \in DOMAIN sum : sum[t] # 0}
           goal == {u \in Terms : RowsWith(next, Q, u) # {}}
           size == [t \in Terms |-> Cardinality(RowsWith(next, Q, t))]
<1>1. D \in SUBSET Terms
  BY DEF Freqs
<1>2. ASSUME NEW t \in Terms
      PROVE  /\ size[t] = CountIn(df, t) + CountIn(more, t)
             /\ t \in goal <=> size[t] # 0
             /\ t \notin D => size[t] = 0
  <2>1. CountIn(df, t) = Cardinality(RowsWith(table, R, t))
    BY FreqsAre
  <2>2. size[t] \in Nat /\ (RowsWith(next, Q, t) = {} <=> size[t] = 0)
    BY FreqsAre
  <2>3. size[t] = CountIn(df, t) + CountIn(more, t)
    BY <2>1
  <2>4. t \notin D => CountIn(df, t) = 0 /\ CountIn(more, t) = 0
    BY DEF CountIn
  <2> HIDE DEF size, df, D
  <2> QED BY <2>2, <2>3, <2>4
<1>3. /\ \A t \in D : sum[t] = CountIn(df, t) + CountIn(more, t)
      /\ DOMAIN sum = D
  BY DEF CountIn
<1>4. Reweighed(df, more) = Restrict(sum, kept)
  BY DEF Reweighed
<1>5. Freqs(next, Q) = [t \in goal |-> size[t]]
  BY DEF Freqs
<1>6. goal \in SUBSET Terms
  OBVIOUS
<1> HIDE DEF df, D, sum, goal, size
<1>7. \A t \in D : sum[t] = size[t]
  BY <1>1, <1>2, <1>3
<1>8. kept = goal
  <2>1. \A t \in kept : t \in goal
    BY <1>1, <1>2, <1>3, <1>7
  <2>2. \A t \in goal : t \in kept
    BY <1>2, <1>3, <1>6, <1>7
  <2> QED BY <2>1, <2>2
<1>9. kept \in SUBSET D
  BY <1>3
<1> HIDE DEF kept
<1>10. Restrict(sum, kept) = [t \in kept |-> sum[t]]
  BY <1>3, <1>9 DEF Restrict
<1>11. [t \in kept |-> sum[t]] = [t \in goal |-> size[t]]
  BY <1>7, <1>8, <1>9
<1> QED BY <1>4, <1>5, <1>10, <1>11 DEF df

-----------------------------------------------------------------------------
(* What a commit does to them.                                             *)

\* The lengths of two sets of rows.
LEMMA LensSplit ==
  ASSUME NEW table, NEW K, IsFiniteSet(K), NEW R, IsFiniteSet(R), K \cap R = {},
         \A r \in K \cup R : table[r] \in Docs
  PROVE  SumFunction(LensOf(table, K \cup R)) =
           SumFunction(LensOf(table, K)) + SumFunction(LensOf(table, R))
<1> DEFINE f == LensOf(table, K \cup R)
           g == LensOf(table, K)
           h == LensOf(table, R)
<1>1. /\ f \in [K \cup R -> Nat] /\ g \in [K -> Nat] /\ h \in [R -> Nat]
      /\ \A x \in K : g[x] = f[x]
      /\ \A x \in R : h[x] = f[x]
  BY LengthIs DEF LensOf
<1> HIDE DEF f, g, h
<1>2. SumFunction(f) = SumFunction(g) + SumFunction(h)
  BY <1>1, SumSplit
<1> QED BY <1>2 DEF f, g, h

\* Each row that goes has a location of its own.
LEMMA GoneByRow ==
  ASSUME NEW s, Good(s), NEW rows, NEW R, R = rows \cap LiveRows(s)
  PROVE  [r \in R |-> s.latest[r]] \in Bijection(R, Gone(s, rows))
<1> DEFINE b == [r \in R |-> s.latest[r]]
<1>1. \A x, y \in R : s.latest[x] = s.latest[y] => x = y
  <2>1. \A r \in R : DocAt(s, s.latest[r]).row = r
    BY PresentIs
  <2> QED BY <2>1
<1>2. Gone(s, rows) = {s.latest[r] : r \in R}
  BY DEF Gone
<1> HIDE DEF Gone
<1> QED BY <1>1, <1>2 DEF Bijection, Injection, Surjection, IsInjective

\* After remove_latest the counters are those of the rows that stay.
LEMMA Removed ==
  ASSUME NEW s, Good(s), Counted(s), NEW rows,
         NEW K, K = Present(View(s)) \ rows
  PROVE  /\ LessDocs(s, rows) = Cardinality(K)
         /\ LessLen(s, rows) = SumFunction(LensOf(View(s), K))
         /\ LessDf(s, rows) = Freqs(View(s), K)
<1> DEFINE L == LiveRows(s)
           R == rows \cap L
           v == View(s)
           G == Gone(s, rows)
           b == [r \in R |-> s.latest[r]]
<1>1. /\ IsFiniteSet(L) /\ Present(v) = L
      /\ \A r \in L : /\ v[r] \in Docs
                      /\ DocAt(s, s.latest[r]).len = Length(v[r])
                      /\ DocAt(s, s.latest[r]).terms = UniqueTerms(v[r])
  BY PresentIs
<1>2. b \in Bijection(R, G)
  BY GoneByRow
<1>3. \A r \in R : b[r] = s.latest[r]
  OBVIOUS
<1>4. K = L \ rows /\ R \in SUBSET L
  BY <1>1
<1>5. /\ s.live_docs = Cardinality(L)
      /\ s.total_doc_len = SumFunction(LensOf(v, L))
      /\ s.term_df = Freqs(v, L)
  BY <1>1 DEF Counted
<1> HIDE DEF b, G, v
<1>6. /\ L = K \cup R /\ K \cap R = {}
      /\ IsFiniteSet(K) /\ IsFiniteSet(R)
      /\ Cardinality(K) \in Nat /\ Cardinality(R) \in Nat
  <2>1. L = K \cup R /\ K \cap R = {} /\ K \in SUBSET L
    BY <1>4
  <2>2. IsFiniteSet(K) /\ IsFiniteSet(R)
    BY <1>1, <1>4, <2>1, FS_Subset
  <2> QED BY <2>1, <2>2, FS_CardinalityType
<1> HIDE DEF R, L
<1>7. LessDocs(s, rows) = Cardinality(K)
  <2>1. Cardinality(K \cup R) = Cardinality(K) + Cardinality(R) - Cardinality(K \cap R)
    BY <1>6, FS_Union
  <2>2. Cardinality(K \cap R) = 0
    BY <1>6, FS_EmptySet
  <2>3. Cardinality(G) = Cardinality(R)
    BY <1>2, <1>6, FS_Bijection DEF ExistsBijection
  <2>4. s.live_docs = Cardinality(K) + Cardinality(R)
    BY <1>5, <1>6, <2>1, <2>2
  <2>5. LessDocs(s, rows) = s.live_docs - Cardinality(G)
    BY DEF LessDocs, G
  <2> QED BY <1>6, <2>3, <2>4, <2>5
<1>8. LessLen(s, rows) = SumFunction(LensOf(v, K))
  <2> DEFINE f == LensOf(v, K \cup R)
             g == LensOf(v, K)
             h == LensOf(v, R)
             m == [l \in G |-> DocAt(s, l).len]
  <2>1. /\ f \in [K \cup R -> Nat] /\ g \in [K -> Nat] /\ h \in [R -> Nat]
        /\ \A x \in K : g[x] = f[x]
        /\ \A x \in R : h[x] = f[x]
    BY <1>1, <1>6, LengthIs DEF LensOf
  <2>2. \A r \in R : m[b[r]] = h[r] /\ b[r] \in G
    <3>1. \A r \in R : b[r] \in G
      BY <1>2 DEF Bijection, Injection
    <3> QED BY <1>1, <1>3, <1>6, <3>1 DEF LensOf
  <2>3. m \in [G -> Nat]
    <3>1. \A l \in G : \E r \in R : b[r] = l
      BY <1>2 DEF Bijection, Surjection
    <3>2. /\ \A r \in R : h[r] \in Nat
          /\ m = [l \in G |-> m[l]]
      BY <2>1
    <3> HIDE DEF h, m
    <3>3. ASSUME NEW l \in G PROVE m[l] \in Nat
      <4>1. PICK r \in R : b[r] = l
        BY <3>1
      <4>2. m[b[r]] \in Nat
        BY <2>2, <3>2
      <4> QED BY <4>1, <4>2
    <3> QED BY <3>2, <3>3
  <2>4. LessLen(s, rows) = s.total_doc_len - SumFunction(m)
    BY DEF LessLen, G
  <2>5. s.total_doc_len = SumFunction(f)
    BY <1>5, <1>6
  <2> HIDE DEF f, g, h, m
  <2>6. SumFunction(f) = SumFunction(g) + SumFunction(h)
    BY <1>6, <2>1, SumSplit
  <2>7. SumFunction(h) = SumFunction(m)
    BY <1>2, <1>6, <2>1, <2>2, <2>3, SumMapped
  <2>8. SumFunction(g) \in Nat /\ SumFunction(h) \in Nat
    BY <1>6, <2>1, SumIs
  <2>9. LessLen(s, rows) = SumFunction(g)
    BY <2>4, <2>5, <2>6, <2>7, <2>8
  <2> QED BY <2>9 DEF g
<1>9. LessDf(s, rows) = Freqs(v, K)
  <2> DEFINE df == Freqs(v, L)
             less == [t \in DOMAIN df |-> -Cardinality({l \in G : t \in DocAt(s, l).terms})]
  <2>1. LessDf(s, rows) = Reweighed(df, less)
    BY <1>5 DEF LessDf, G
  <2>2. DOMAIN less \in SUBSET Terms
    BY DEF Freqs
  <2>3. ASSUME NEW t \in Terms
        PROVE  Cardinality(RowsWith(v, K, t)) =
                 Cardinality(RowsWith(v, L, t)) + CountIn(less, t)
    <3> DEFINE ofL == RowsWith(v, L, t)
               ofK == RowsWith(v, K, t)
               ofR == RowsWith(v, R, t)
               ofG == {l \in G : t \in DocAt(s, l).terms}
    <3>1. /\ IsFiniteSet(ofK) /\ Cardinality(ofK) \in Nat
          /\ IsFiniteSet(ofR) /\ Cardinality(ofR) \in Nat
          /\ IsFiniteSet(ofL) /\ Cardinality(ofL) \in Nat
          /\ ofL = {} <=> Cardinality(ofL) = 0
      BY <1>1, <1>6, FreqsAre
    <3>2. ofL = ofK \cup ofR /\ ofK \cap ofR = {}
      BY <1>6 DEF RowsWith
    <3>3. Cardinality(ofG) = Cardinality(ofR)
      <4>1. ofR \in SUBSET R /\ ofG \in SUBSET G
        BY DEF RowsWith
      <4>2. \A r \in R : r \in ofR <=> b[r] \in ofG
        <5>1. \A r \in R : b[r] \in G
          BY <1>2 DEF Bijection, Injection
        <5> QED BY <1>1, <1>3, <1>6, <5>1 DEF RowsWith
      <4> HIDE DEF ofR, ofG
      <4> QED BY <1>2, <1>6, <4>1, <4>2, SameSize
    <3>4. t \in DOMAIN less <=> ofL # {}
      BY DEF Freqs
    <3>5. t \in DOMAIN less => less[t] = -Cardinality(ofG)
      OBVIOUS
    <3> HIDE DEF ofL, ofK, ofR, ofG, less
    <3>6. Cardinality(ofK \cup ofR) =
            Cardinality(ofK) + Cardinality(ofR) - Cardinality(ofK \cap ofR)
      BY <3>1, FS_Union
    <3>7. Cardinality(ofK \cap ofR) = 0
      BY <3>2, FS_EmptySet
    <3>8. Cardinality(ofL) = Cardinality(ofK) + Cardinality(ofR)
      BY <3>1, <3>2, <3>6, <3>7
    <3>9. CASE ofL = {}
      <4>1. CountIn(less, t) = 0
        BY <3>4, <3>9 DEF CountIn
      <4> QED BY <3>1, <3>8, <3>9, <4>1 DEF ofL, ofK
    <3>10. CASE ofL # {}
      <4>1. CountIn(less, t) = -Cardinality(ofR)
        BY <3>3, <3>4, <3>5, <3>10 DEF CountIn
      <4>2. Cardinality(ofK) = Cardinality(ofL) + CountIn(less, t)
        BY <3>1, <3>8, <4>1
      <4> QED BY <4>2 DEF ofL, ofK
    <3> QED BY <3>9, <3>10
  <2> HIDE DEF less
  <2>4. IsFiniteSet(L) /\ IsFiniteSet(K)
    BY <1>1, <1>6
  <2>5. Reweighed(Freqs(v, L), less) = Freqs(v, K)
    BY <2>2, <2>3, <2>4, ReweighedIs
  <2> QED BY <2>1, <2>5
<1> QED BY <1>7, <1>8, <1>9 DEF v

\* The documents of a commit have a row each.
LEMMA RowEach ==
  ASSUME NEW docs \in Seq(Stored), Distinct(docs),
         NEW b, b = [i \in DOMAIN docs |-> docs[i].row]
  PROVE  /\ b \in Bijection(DOMAIN docs, RowsOf(docs))
         /\ IsFiniteSet(DOMAIN docs) /\ Cardinality(DOMAIN docs) = Len(docs)
         /\ IsFiniteSet(RowsOf(docs)) /\ Cardinality(RowsOf(docs)) = Len(docs)
<1> DEFINE D == DOMAIN docs
<1>1. IsFiniteSet(D) /\ Cardinality(D) = Len(docs)
  <2> DEFINE k == Len(docs)
  <2>1. D = 1..k /\ k \in Nat
    OBVIOUS
  <2> HIDE DEF k, D
  <2>2. IsFiniteSet(1..k) /\ Cardinality(1..k) = k
    BY <2>1, FS_Interval
  <2> QED BY <2>1, <2>2 DEF k
<1>2. b \in [D -> RowsOf(docs)] /\ \A y \in RowsOf(docs) : \E i \in D : b[i] = y
  BY DEF RowsOf
<1>3. \A i, j \in D : b[i] = b[j] => i = j
  BY DEF Distinct
<1> HIDE DEF D
<1>4. b \in Bijection(D, RowsOf(docs))
  BY <1>2, <1>3 DEF Bijection, Injection, Surjection, IsInjective
<1>5. IsFiniteSet(RowsOf(docs)) /\ Cardinality(RowsOf(docs)) = Cardinality(D)
  BY <1>1, <1>4, FS_Bijection DEF ExistsBijection
<1> QED BY <1>1, <1>4, <1>5 DEF D

\* With the documents of a commit the counters are those of its rows too.
LEMMA Added ==
  ASSUME NEW docs \in Seq(Stored), Distinct(docs), NEW N, N = RowsOf(docs),
         NEW table, NEW K, IsFiniteSet(K), K \cap N = {},
         \A r \in K : table[r] \in Docs,
         \A i \in DOMAIN docs : table[docs[i].row] = docs[i].doc
  PROVE  /\ Cardinality(K \cup N) = Cardinality(K) + Len(docs)
         /\ SumFunction(LensOf(table, K \cup N)) =
              SumFunction(LensOf(table, K)) + NewLen(docs)
         /\ Reweighed(Freqs(table, K), NewDf(docs)) = Freqs(table, K \cup N)
<1> DEFINE D == DOMAIN docs
           b == [i \in D |-> docs[i].row]
<1>1. /\ b \in Bijection(D, N) /\ IsFiniteSet(D)
      /\ IsFiniteSet(N) /\ Cardinality(N) = Len(docs)
  BY RowEach
<1>2. \A i \in D : /\ docs[i] \in Stored /\ table[b[i]] = docs[i].doc
                   /\ b[i] \in N
  BY DEF RowsOf
<1>3. \A i \in D : /\ table[b[i]] \in Docs /\ docs[i].len = Length(table[b[i]])
                   /\ docs[i].terms = UniqueTerms(table[b[i]])
  <2> SUFFICES ASSUME NEW i \in D
               PROVE  /\ table[b[i]] \in Docs /\ docs[i].len = Length(table[b[i]])
                      /\ docs[i].terms = UniqueTerms(table[b[i]])
    OBVIOUS
  <2> DEFINE x == docs[i]
  <2>1. x \in Stored /\ table[b[i]] = x.doc
    BY <1>2
  <2> HIDE DEF x, b
  <2>2. x.doc \in Docs /\ x.len = Length(x.doc) /\ x.terms = UniqueTerms(x.doc)
    BY <2>1, StoredIs
  <2> QED BY <2>1, <2>2 DEF x
<1> HIDE DEF b
<1>4. \A r \in N : \E i \in D : b[i] = r
  BY <1>1 DEF Bijection, Surjection
<1>5. \A r \in N : table[r] \in Docs
  BY <1>3, <1>4
<1> HIDE DEF D
<1>6. Cardinality(K) \in Nat /\ Cardinality(N) \in Nat /\ Len(docs) \in Nat
      /\ IsFiniteSet(K \cup N)
  BY <1>1, FS_CardinalityType, FS_Union
<1>7. Cardinality(K \cup N) = Cardinality(K) + Len(docs)
  <2>1. Cardinality(K \cup N) = Cardinality(K) + Cardinality(N) - Cardinality(K \cap N)
    BY <1>1, FS_Union
  <2>2. Cardinality(K \cap N) = 0
    BY FS_EmptySet
  <2> QED BY <1>1, <1>6, <2>1, <2>2
<1>8. SumFunction(LensOf(table, K \cup N)) = SumFunction(LensOf(table, K)) + NewLen(docs)
  <2> DEFINE f == LensOf(table, K \cup N)
             g == LensOf(table, K)
             h == LensOf(table, N)
             m == [i \in D |-> docs[i].len]
  <2>1. /\ f \in [K \cup N -> Nat] /\ g \in [K -> Nat] /\ h \in [N -> Nat]
        /\ \A x \in K : g[x] = f[x]
        /\ \A x \in N : h[x] = f[x] /\ h[x] = Length(table[x])
    BY <1>5, LengthIs DEF LensOf
  <2>2. \A i \in D : m[i] = docs[i].len
    OBVIOUS
  <2>3. m = [i \in D |-> m[i]]
    OBVIOUS
  <2>4. NewLen(docs) = SumFunction(m)
    BY DEF NewLen, D
  <2> HIDE DEF f, g, h, m
  <2>5. \A i \in D : h[b[i]] = m[i] /\ m[i] \in Nat
    BY <1>2, <1>3, <2>1, <2>2
  <2>6. m \in [D -> Nat]
    BY <2>3, <2>5
  <2>7. SumFunction(m) = SumFunction(h)
    <3>1. IsFiniteSet(D) /\ b \in Bijection(D, N)
      BY <1>1
    <3>2. h \in [N -> Nat] /\ \A i \in D : h[b[i]] = m[i]
      BY <2>1, <2>5
    <3> QED BY <2>6, <3>1, <3>2, SumMapped
  <2>8. SumFunction(f) = SumFunction(g) + SumFunction(h)
    BY <1>1, <1>5, LensSplit DEF f, g, h
  <2> QED BY <2>4, <2>7, <2>8 DEF f, g
<1>9. Reweighed(Freqs(table, K), NewDf(docs)) = Freqs(table, K \cup N)
  <2> DEFINE more == NewDf(docs)
             Q == K \cup N
  <2>1. DOMAIN more = AllTerms(docs)
    BY DEF NewDf
  <2>2. AllTerms(docs) \in SUBSET Terms
    <3>1. \A i \in DOMAIN docs : docs[i].terms \in SUBSET Terms
      BY <1>3 DEF UniqueTerms, D
    <3> QED BY <3>1 DEF AllTerms
  <2>3. ASSUME NEW t \in Terms
        PROVE  Cardinality(RowsWith(table, Q, t)) =
                 Cardinality(RowsWith(table, K, t)) + CountIn(more, t)
    <3> DEFINE ofQ == RowsWith(table, Q, t)
               ofK == RowsWith(table, K, t)
               ofN == RowsWith(table, N, t)
               ofD == {i \in D : t \in docs[i].terms}
    <3>1. /\ IsFiniteSet(ofK) /\ Cardinality(ofK) \in Nat
          /\ IsFiniteSet(ofN) /\ Cardinality(ofN) \in Nat
      BY <1>1, FreqsAre
    <3>2. ofQ = ofK \cup ofN /\ ofK \cap ofN = {}
      BY DEF RowsWith
    <3>3. ofD \in SUBSET D /\ ofN \in SUBSET N
      BY DEF RowsWith
    <3>4. \A i \in D : i \in ofD <=> b[i] \in ofN
      BY <1>2, <1>3 DEF RowsWith
    <3>5. t \in DOMAIN more => more[t] = Cardinality(ofD)
      BY DEF NewDf, HowMany, D
    <3>6. t \in DOMAIN more <=> ofD # {}
      BY <2>1 DEF AllTerms, D
    <3> HIDE DEF ofQ, ofK, ofN, ofD, more, Q
    <3>7. Cardinality(ofN) = Cardinality(ofD)
      BY <1>1, <3>3, <3>4, SameSize
    <3>8. Cardinality(ofQ) = Cardinality(ofK) + Cardinality(ofN)
      <4>1. Cardinality(ofK \cup ofN) =
              Cardinality(ofK) + Cardinality(ofN) - Cardinality(ofK \cap ofN)
        BY <3>1, FS_Union
      <4>2. Cardinality(ofK \cap ofN) = 0
        BY <3>2, FS_EmptySet
      <4> QED BY <3>1, <3>2, <4>1, <4>2
    <3>9. CountIn(more, t) = Cardinality(ofN)
      <4>1. ofD = {} => Cardinality(ofD) = 0
        BY FS_EmptySet
      <4> QED BY <3>5, <3>6, <3>7, <4>1 DEF CountIn
    <3> QED BY <3>8, <3>9 DEF ofQ, ofK, Q
  <2>4. DOMAIN more \in SUBSET Terms /\ IsFiniteSet(Q)
    BY <1>6, <2>1, <2>2
  <2> HIDE DEF more, Q
  <2>5. Reweighed(Freqs(table, K), more) = Freqs(table, Q)
    BY <2>3, <2>4, ReweighedIs
  <2> QED BY <2>5 DEF more, Q
<1> QED BY <1>7, <1>8, <1>9

\* Documents that stay the same count the same.
LEMMA SameCounts ==
  ASSUME NEW v, NEW w, NEW K, \A r \in K : w[r] = v[r]
  PROVE  LensOf(w, K) = LensOf(v, K) /\ Freqs(w, K) = Freqs(v, K)
<1>1. LensOf(w, K) = LensOf(v, K)
  BY DEF LensOf
<1>2. \A t : RowsWith(w, K, t) = RowsWith(v, K, t)
  BY DEF RowsWith
<1>3. Freqs(w, K) = Freqs(v, K)
  BY <1>2 DEF Freqs
<1> QED BY <1>1, <1>3

\* with_prebuilt_commit keeps the counters right.
LEMMA CommitCounted ==
  ASSUME NEW s, Good(s), Counted(s), NEW g \in Nat, NEW docs, NEW deletes,
         Canonical(docs, deletes),
         NEW c, c = WithPrebuiltCommit(s, g, Build(docs), deletes)
  PROVE  Counted(c)
<1> DEFINE rows == Touched(docs, deletes)
           v == View(s)
           w == View(c)
           K == Present(v) \ rows
           N == RowsOf(docs)
<1>1. /\ LessDocs(s, rows) = Cardinality(K)
      /\ LessLen(s, rows) = SumFunction(LensOf(v, K))
      /\ LessDf(s, rows) = Freqs(v, K)
  BY Removed
<1>2. /\ docs \in Seq(Stored) /\ Distinct(docs) /\ Build(docs).docs = docs
      /\ deletes \in SUBSET Rows /\ deletes \cap N = {}
      /\ rows = deletes \cup N
  BY BuildIs DEF Canonical, Touched
<1>3. /\ \A r \in deletes : w[r] = Absent
      /\ \A n \in Numbers(docs) : w[docs[n + 1].row] = docs[n + 1].doc
      /\ \A r \in Rows : r \notin deletes /\ r \notin N => w[r] = v[r]
  BY CommitGood
<1>4. /\ IsFiniteSet(Present(v)) /\ Present(v) \in SUBSET Rows
      /\ \A r \in Present(v) : v[r] \in Docs
      /\ \A r \in Rows : r \in Present(v) <=> v[r] # Absent
  <2>1. \A r \in Rows : r \in Present(v) <=> v[r] # Absent
    BY DEF Present
  <2> QED BY <2>1, PresentIs
<1>5. Whole(s)
  BY DEF Good
<1> HIDE DEF v, w, rows
<1>6. \A i \in DOMAIN docs : /\ w[docs[i].row] = docs[i].doc
                             /\ docs[i].doc \in Docs /\ docs[i].row \in Rows
  <2> SUFFICES ASSUME NEW i \in DOMAIN docs
               PROVE  /\ w[docs[i].row] = docs[i].doc
                      /\ docs[i].doc \in Docs /\ docs[i].row \in Rows
    OBVIOUS
  <2>1. i - 1 \in Numbers(docs) /\ docs[i] \in Stored /\ (i - 1) + 1 = i
    <3>1. i \in Nat
      BY <1>2
    <3>2. i - 1 \in Numbers(docs) /\ docs[i] \in Stored
      BY <1>2, NumbersOf
    <3> QED BY <3>1, <3>2
  <2>2. w[docs[i].row] = docs[i].doc
    BY <1>3, <2>1
  <2> DEFINE x == docs[i]
  <2>3. x \in Stored
    BY <2>1
  <2> HIDE DEF x
  <2>4. x.doc \in Docs /\ x.row \in Rows
    BY <2>3, StoredIs
  <2> QED BY <2>2, <2>4 DEF x
<1>7. /\ N \in SUBSET Rows /\ \A r \in N : w[r] \in Docs
  BY <1>6 DEF RowsOf
<1> HIDE DEF N
<1>8. /\ IsFiniteSet(K) /\ K \cap N = {} /\ K \in SUBSET Rows
      /\ \A r \in K : w[r] = v[r] /\ w[r] \in Docs
  <2>1. K \in SUBSET Present(v) /\ \A r \in K : r \notin deletes /\ r \notin N
    BY <1>2
  <2>2. IsFiniteSet(K)
    BY <1>4, <2>1, FS_Subset
  <2> HIDE DEF K
  <2> QED BY <1>3, <1>4, <2>1, <2>2
<1>9. Present(w) = K \cup N
  <2>1. ASSUME NEW r \in Rows
        PROVE  r \in Present(w) <=> r \in K \cup N
    <3>1. r \in Present(w) <=> w[r] # Absent
      BY DEF Present
    <3>2. CASE r \in N
      BY <1>7, <3>1, <3>2, IndexAssumption
    <3>3. CASE r \in deletes
      BY <1>2, <1>3, <3>1, <3>3
    <3>4. CASE r \notin N /\ r \notin deletes
      <4>1. w[r] = v[r] /\ r \notin rows
        BY <1>2, <1>3, <3>4
      <4> QED BY <1>4, <3>1, <3>4, <4>1
    <3> QED BY <3>2, <3>3, <3>4
  <2>2. Present(w) \in SUBSET Rows /\ K \cup N \in SUBSET Rows
    BY <1>7, <1>8 DEF Present
  <2> QED BY <2>1, <2>2
<1> HIDE DEF K
<1>10. LensOf(w, K) = LensOf(v, K) /\ Freqs(w, K) = Freqs(v, K)
  BY <1>8, SameCounts
<1>11. N = RowsOf(docs)
  BY DEF N
<1>12. CASE docs = <<>>
  <2>1. N = {} /\ rows = deletes
    BY <1>2, <1>12 DEF N, RowsOf
  <2>2. /\ c.term_df = LessDf(s, rows) /\ c.live_docs = LessDocs(s, rows)
        /\ c.total_doc_len = LessLen(s, rows)
    BY <1>2, <1>5, <1>12, <2>1, DeletesOnly
  <2>3. Present(w) = K
    BY <1>9, <2>1
  <2> QED BY <1>1, <1>10, <2>2, <2>3 DEF Counted, w
<1>13. CASE docs # <<>>
  <2>1. /\ c.term_df = Reweighed(LessDf(s, rows), NewDf(docs))
        /\ c.live_docs = LessDocs(s, rows) + Len(docs)
        /\ c.total_doc_len = LessLen(s, rows) + NewLen(docs)
    <3> DEFINE segment == Build(docs)
    <3>1. /\ docs = segment.docs /\ rows = Touched(docs, deletes)
          /\ c = WithPrebuiltCommit(s, g, segment, deletes)
      BY <1>2 DEF rows
    <3> HIDE DEF segment
    <3> QED BY <1>5, <1>13, <3>1, SegmentPushed
  <2>2. /\ Cardinality(K \cup N) = Cardinality(K) + Len(docs)
        /\ SumFunction(LensOf(w, K \cup N)) = SumFunction(LensOf(w, K)) + NewLen(docs)
        /\ Reweighed(Freqs(w, K), NewDf(docs)) = Freqs(w, K \cup N)
    <3>1. docs \in Seq(Stored) /\ Distinct(docs)
      BY <1>2
    <3>2. \A r \in K : w[r] \in Docs
      BY <1>8
    <3>3. \A i \in DOMAIN docs : w[docs[i].row] = docs[i].doc
      BY <1>6
    <3>4. IsFiniteSet(K) /\ K \cap N = {}
      BY <1>8
    <3>5. Cardinality(K \cup N) = Cardinality(K) + Len(docs)
      BY ONLY <1>11, <3>1, <3>2, <3>3, <3>4, Added
    <3>6. SumFunction(LensOf(w, K \cup N)) = SumFunction(LensOf(w, K)) + NewLen(docs)
      BY ONLY <1>11, <3>1, <3>2, <3>3, <3>4, Added
    <3>7. Reweighed(Freqs(w, K), NewDf(docs)) = Freqs(w, K \cup N)
      BY ONLY <1>11, <3>1, <3>2, <3>3, <3>4, Added, ZenonT(60)
    <3> QED BY <3>5, <3>6, <3>7
  <2> QED BY <1>1, <1>9, <1>10, <2>1, <2>2 DEF Counted, w
<1> QED BY <1>12, <1>13

\* Nothing counts nothing.
LEMMA NoneCounted == Counted(Default)
<1> DEFINE v == View(Default)
           none == [t \in {u \in Terms : RowsWith(v, {}, u) # {}} |->
                      Cardinality(RowsWith(v, {}, t))]
<1>1. v = [r \in Rows |-> Absent]
  BY EmptyGood
<1>2. Present(v) = {}
  BY <1>1 DEF Present
<1> HIDE DEF v
<1>3. DOMAIN LensOf(v, {}) = {}
  BY DEF LensOf
<1>4. SumFunction(LensOf(v, {})) = 0
  BY <1>3, SumOfNone
<1>5. \A t : RowsWith(v, {}, t) = {}
  BY DEF RowsWith
<1>6. none = << >>
  BY <1>5
<1>7. Freqs(v, {}) = << >>
  BY <1>6 DEF Freqs
<1>8. Cardinality({}) = 0
  BY FS_EmptySet
<1>9. /\ Default.live_docs = 0 /\ Default.total_doc_len = 0
      /\ Default.term_df = << >>
  BY DEF Default
<1> QED BY <1>2, <1>4, <1>7, <1>8, <1>9 DEF Counted, v

LEMMA TransactionCounted ==
  ASSUME NEW s, Good(s), Counted(s), NEW g \in Nat, NEW tx \in RowTransactions
  PROVE  Counted(WithCommit(s, g, tx))
<1> DEFINE docs == Upserts(tx)
           deletes == Deletes(tx)
           c == WithCommit(s, g, tx)
<1>1. Canonical(docs, deletes)
  BY UpsertsAre
<1>2. c = WithPrebuiltCommit(s, g, Build(docs), deletes)
  BY DEF WithCommit
<1> HIDE DEF docs, deletes, c
<1>3. Counted(c)
  BY <1>1, <1>2, CommitCounted
<1> QED BY <1>3 DEF c

LEMMA CompactedCounted ==
  ASSUME NEW s, Good(s)
  PROVE  Counted(Compacted(s))
<1> DEFINE docs == LiveDocs(s)
           g == s.generation
           c == Compacted(s)
           none == {}
<1>1. docs \in Seq(Stored) /\ Distinct(docs)
  BY LiveDocsAre
<1>2. Canonical(docs, none)
  BY <1>1, FS_EmptySet DEF Canonical
<1>3. Good(Default) /\ Counted(Default) /\ g \in Nat
  BY EmptyGood, NoneCounted DEF Good
<1>4. c = WithPrebuiltCommit(Default, g, Build(docs), none)
  BY CompactedIs
<1> HIDE DEF docs, g, c, none
<1>5. Counted(c)
  BY <1>2, <1>3, <1>4, CommitCounted
<1> QED BY <1>5 DEF c

\* The invariant: the counters are those of the table.
\* No field has more tokens than a column has positions.  Where one has, the
\* last position repeats, and the decoder rejects the file.
Fits == \A d \in Docs : \A c \in DOMAIN Fields[d] : Len(Fields[d][c]) <= ColumnSize

-----------------------------------------------------------------------------
(* Sequences put together.                                                 *)

Increasing(seq) == \A i, j \in DOMAIN seq : i < j => seq[i] < seq[j]

\* What is in a is less than what is in b.
Below(a, b) == \A i \in DOMAIN a : \A j \in DOMAIN b : a[i] < b[j]

\* The sequences of f are the first k parts, put together.
Joined(parts, k, f) ==
  f = [i \in 1..k |-> IF i = 1 THEN parts[i] ELSE f[i - 1] \o parts[i]]

LEMMA JoinedExists ==
  ASSUME NEW parts, NEW n \in Nat
  PROVE  \E f : Joined(parts, n, f)
<1> DEFINE Bad == {k \in Nat : ~(\E f : Joined(parts, k, f))}
<1> SUFFICES ASSUME Bad # {} PROVE FALSE
  OBVIOUS
<1>1. PICK k \in Bad : \A m \in Bad : k <= m
  <2>1. Bad \subseteq Nat
    OBVIOUS
  <2> HIDE DEF Bad
  <2> QED BY <2>1, Least
<1>2. k # 0
  <2> DEFINE f == [i \in 1..0 |-> <<>>]
  <2>1. f = [i \in 1..0 |-> IF i = 1 THEN parts[i] ELSE f[i - 1] \o parts[i]]
    OBVIOUS
  <2>2. Joined(parts, 0, f)
    BY <2>1 DEF Joined
  <2> QED BY <2>2
<1> DEFINE m == k - 1
<1>3. m \in Nat /\ m < k /\ k = m + 1
  BY <1>2
<1>4. PICK f : Joined(parts, m, f)
  <2>1. m \notin Bad
    <3> HIDE DEF Bad
    <3> QED BY <1>1, <1>3
  <2> QED BY <1>3, <2>1
<1> DEFINE last == IF k = 1 THEN parts[k] ELSE f[m] \o parts[k]
           g == [i \in 1..k |-> IF i = k THEN last ELSE f[i]]
<1>5. /\ \A i \in 1..m : f[i] = IF i = 1 THEN parts[i] ELSE f[i - 1] \o parts[i]
  BY <1>4 DEF Joined
<1>6. ASSUME NEW i \in 1..k
      PROVE  g[i] = IF i = 1 THEN parts[i] ELSE g[i - 1] \o parts[i]
  <2>1. i # 1 => i - 1 \in 1..k /\ i - 1 # k /\ g[i - 1] = f[i - 1]
    BY <1>3
  <2>2. CASE i = k
    <3>1. g[i] = last
      BY <2>2
    <3> QED BY <1>3, <2>1, <2>2, <3>1
  <2>3. CASE i # k
    <3>1. i \in 1..m /\ g[i] = f[i]
      BY <1>3, <2>3
    <3> QED BY <1>5, <2>1, <3>1
  <2> QED BY <2>2, <2>3
<1>7. g = [i \in 1..k |-> g[i]]
  OBVIOUS
<1> HIDE DEF g
<1>8. Joined(parts, k, g)
  BY <1>6, <1>7 DEF Joined
<1> QED BY <1>1, <1>8

\* FlattenSeq puts them all together.
LEMMA FlattenIs ==
  ASSUME NEW X, NEW parts \in Seq(X), parts # <<>>
  PROVE  \E f : Joined(parts, Len(parts), f) /\ FlattenSeq(parts) = f[Len(parts)]
<1> DEFINE n == Len(parts)
           f == CHOOSE g : g = [i \in 1..n |->
                  IF i = 1 THEN parts[i] ELSE g[i - 1] \o parts[i]]
<1>1. n \in Nat /\ n # 0
  OBVIOUS
<1>2. FlattenSeq(parts) = f[n]
  BY <1>1 DEF FlattenSeq
<1> HIDE DEF n
<1>3. \E g : g = [i \in 1..n |-> IF i = 1 THEN parts[i] ELSE g[i - 1] \o parts[i]]
  BY <1>1, JoinedExists, Zenon DEF Joined
<1>4. f = [i \in 1..n |-> IF i = 1 THEN parts[i] ELSE f[i - 1] \o parts[i]]
  BY <1>3, Zenon
<1> HIDE DEF f
<1> QED BY <1>2, <1>4 DEF Joined, n

LEMMA FlattenOne ==
  ASSUME NEW x
  PROVE  FlattenSeq(<<x>>) = x
<1> DEFINE parts == <<x>>
<1>1. parts \in Seq({x}) /\ parts # <<>> /\ Len(parts) = 1 /\ parts[1] = x
  OBVIOUS
<1> HIDE DEF parts
<1>2. PICK f : Joined(parts, 1, f) /\ FlattenSeq(parts) = f[1]
  BY <1>1, FlattenIs
<1>3. f[1] = parts[1]
  BY <1>2 DEF Joined
<1> QED BY <1>1, <1>2, <1>3 DEF parts

LEMMA JoinSorted ==
  ASSUME NEW a \in Seq(Int), NEW b \in Seq(Int), Increasing(a), Increasing(b), Below(a, b)
  PROVE  /\ a \o b \in Seq(Int) /\ Increasing(a \o b)
         /\ \A x : Below(a, x) /\ Below(b, x) => Below(a \o b, x)
<1> DEFINE c == a \o b
           m == Len(a)
           n == Len(b)
<1>1. /\ m \in Nat /\ n \in Nat /\ c \in Seq(Int) /\ Len(c) = m + n
      /\ \A i \in 1..(m + n) : c[i] = IF i <= m THEN a[i] ELSE b[i - m]
      /\ DOMAIN a = 1..m /\ DOMAIN b = 1..n /\ DOMAIN c = 1..(m + n)
      /\ \A i \in 1..m : a[i] \in Int
      /\ \A i \in 1..n : b[i] \in Int
  OBVIOUS
<1> HIDE DEF c, m, n
<1>2. ASSUME NEW i \in 1..(m + n)
      PROVE  \/ i \in 1..m /\ c[i] = a[i]
             \/ i - m \in 1..n /\ i > m /\ c[i] = b[i - m]
  <2>1. CASE i <= m
    BY <1>1, <2>1
  <2>2. CASE ~(i <= m)
    BY <1>1, <2>2
  <2> QED BY <2>1, <2>2
<1>3. ASSUME NEW i \in 1..(m + n), NEW j \in 1..(m + n), i < j PROVE c[i] < c[j]
  <2>1. CASE j \in 1..m /\ c[j] = a[j]
    <3>1. i \in 1..m /\ c[i] = a[i]
      BY <1>1, <1>2, <1>3, <2>1
    <3> QED BY <1>1, <1>3, <2>1, <3>1 DEF Increasing
  <2>2. CASE i \in 1..m /\ c[i] = a[i] /\ j - m \in 1..n /\ c[j] = b[j - m]
    BY <1>1, <2>2 DEF Below
  <2>3. CASE i - m \in 1..n /\ c[i] = b[i - m] /\ j - m \in 1..n /\ c[j] = b[j - m]
    <3>1. i - m < j - m
      BY <1>1, <1>3
    <3> QED BY <1>1, <2>3, <3>1 DEF Increasing
  <2> QED BY <1>2, <2>1, <2>2, <2>3
<1>4. Increasing(c)
  BY <1>1, <1>3 DEF Increasing
<1>5. ASSUME NEW x, Below(a, x), Below(b, x) PROVE Below(c, x)
  BY <1>1, <1>2, <1>5 DEF Below
<1> QED BY <1>1, <1>4, <1>5 DEF c

\* Increasing parts, each below the next, make a sorted sequence.
LEMMA FlattenSorted ==
  ASSUME NEW parts \in Seq(Seq(Int)),
         \A c \in DOMAIN parts : Increasing(parts[c]),
         \A c, d \in DOMAIN parts : c < d => Below(parts[c], parts[d])
  PROVE  FlattenSeq(parts) \in Seq(Int) /\ Increasing(FlattenSeq(parts))
<1> DEFINE n == Len(parts)
<1>1. n \in Nat /\ DOMAIN parts = 1..n /\ \A c \in 1..n : parts[c] \in Seq(Int)
  OBVIOUS
<1>2. CASE parts = <<>>
  <2>1. FlattenSeq(parts) = <<>>
    BY <1>2 DEF FlattenSeq
  <2> QED BY <2>1 DEF Increasing
<1>3. CASE parts # <<>>
  <2>1. PICK f : Joined(parts, n, f) /\ FlattenSeq(parts) = f[n]
    BY <1>3, FlattenIs
  <2>2. \A k \in 1..n : f[k] = IF k = 1 THEN parts[k] ELSE f[k - 1] \o parts[k]
    BY <2>1 DEF Joined
  <2>3. n # 0
    BY <1>3
  <2> HIDE DEF n
  <2> DEFINE Fine(k) == /\ f[k] \in Seq(Int) /\ Increasing(f[k])
                        /\ \A d \in 1..n : k < d => Below(f[k], parts[d])
             Bad == {k \in Nat : k \in 1..n /\ ~Fine(k)}
  <2>4. ASSUME Bad # {} PROVE FALSE
    <3>1. PICK k \in Bad : \A m \in Bad : k <= m
      <4>1. Bad \subseteq Nat
        OBVIOUS
      <4> HIDE DEF Bad
      <4> QED BY <2>4, <4>1, Least
    <3>2. k \in 1..n /\ ~Fine(k)
      BY <3>1
    <3>3. CASE k = 1
      <4>1. f[k] = parts[k]
        BY <2>2, <3>2, <3>3
      <4>2. Fine(k)
        BY <1>1, <3>2, <4>1
      <4> QED BY <3>2, <4>2
    <3>4. CASE k # 1
      <4> DEFINE m == k - 1
      <4>1. m \in 1..n /\ m < k /\ m \in Nat
        BY <1>1, <3>2, <3>4
      <4>2. Fine(m)
        <5>1. m \notin Bad
          <6> HIDE DEF Bad
          <6>1. ~(k <= m)
            BY <3>2, <4>1
          <6> QED BY <3>1, <6>1
        <5> QED BY <4>1, <5>1
      <4>3. f[k] = f[m] \o parts[k]
        BY <2>2, <3>2, <3>4
      <4>4. parts[k] \in Seq(Int) /\ Increasing(parts[k]) /\ Below(f[m], parts[k])
        BY <1>1, <3>2, <4>1, <4>2
      <4> DEFINE a == f[m]
                 b == parts[k]
                 c == f[k]
      <4>5. a \in Seq(Int) /\ b \in Seq(Int) /\ Increasing(a) /\ Increasing(b) /\ Below(a, b)
        BY <4>2, <4>4
      <4>6. \A d \in 1..n : k < d => Below(a, parts[d]) /\ Below(b, parts[d])
        <5>1. ASSUME NEW d \in 1..n, k < d
              PROVE  Below(a, parts[d]) /\ Below(b, parts[d])
          <6>1. m < d
            BY <3>2, <4>1, <5>1
          <6> QED BY <1>1, <3>2, <4>2, <5>1, <6>1
        <5> QED BY <5>1
      <4>7. c = a \o b
        BY <4>3
      <4> HIDE DEF a, b, c
      <4>8. /\ c \in Seq(Int) /\ Increasing(c)
            /\ \A x : Below(a, x) /\ Below(b, x) => Below(c, x)
        BY <4>5, <4>7, JoinSorted
      <4>9. Fine(k)
        BY <4>6, <4>8 DEF c
      <4> QED BY <3>2, <4>9
    <3> QED BY <3>3, <3>4
  <2>5. Fine(n)
    <3>1. n \in 1..n
      BY <1>1, <2>3
    <3> QED BY <1>1, <2>4, <3>1
  <2> QED BY <2>1, <2>5
<1> QED BY <1>2, <1>3

-----------------------------------------------------------------------------
(* Positions.                                                              *)

\* The positions of a term in column c of a document.
ColumnPositions(fields, t, c) ==
  LET at == Ascending({n \in DOMAIN fields[c] : fields[c][n] = t})
  IN [i \in DOMAIN at |-> Position(c, at[i])]

\* They are in order, and in their column's part of the numbers.
LEMMA ColumnSorted ==
  ASSUME NEW fields \in Seq(Seq(Terms)), NEW t, NEW c \in DOMAIN fields,
         Len(fields[c]) <= ColumnSize
  PROVE  /\ ColumnPositions(fields, t, c) \in Seq(Int) /\ Increasing(ColumnPositions(fields, t, c))
         /\ \A i \in DOMAIN ColumnPositions(fields, t, c) :
              /\ (c - 1) * ColumnSize <= ColumnPositions(fields, t, c)[i]
              /\ ColumnPositions(fields, t, c)[i] < c * ColumnSize
<1> DEFINE W == ColumnSize
           field == fields[c]
           S == {n \in DOMAIN field : field[n] = t}
           at == Ascending(S)
           k == Cardinality(S)
           p == ColumnPositions(fields, t, c)
<1>1. W \in Nat \ {0} /\ c \in Nat \ {0} /\ field \in Seq(Terms) /\ Len(field) \in Nat
  BY IndexAssumption
<1>2. p = [i \in DOMAIN at |-> Position(c, at[i])]
  BY DEF ColumnPositions
<1>3. S \in SUBSET Int /\ IsFiniteSet(S) /\ \A n \in S : n \in 1..W
  <2>1. S \in SUBSET (1..Len(field))
    BY <1>1
  <2>2. IsFiniteSet(1..Len(field))
    BY <1>1, FS_Interval
  <2> HIDE DEF S
  <2>3. IsFiniteSet(S)
    BY <2>1, <2>2, FS_Subset
  <2> QED BY <1>1, <2>1, <2>3
<1> HIDE DEF S, p, field
<1>4. /\ k \in Nat /\ at \in [1..k -> S]
      /\ \A i, j \in 1..k : i < j => at[i] < at[j]
  BY <1>3, AscendingLists
<1> HIDE DEF at, k
<1> DEFINE base == (c - 1) * W
<1>5. base \in Int /\ c * W = base + W
  BY <1>1
<1>6. ASSUME NEW n \in 1..W PROVE Position(c, n) = base + (n - 1)
  <2>1. Smaller(n - 1, W - 1) = n - 1
    BY <1>1 DEF Smaller
  <2> QED BY <2>1 DEF Position
<1> HIDE DEF base, W
<1>7. ASSUME NEW i \in 1..k
      PROVE  p[i] = base + (at[i] - 1) /\ at[i] \in 1..W
  BY <1>2, <1>3, <1>4, <1>6
<1>8. DOMAIN p = 1..k
  BY <1>2, <1>4
<1>9. \A i \in 1..k : p[i] \in Int /\ base <= p[i] /\ p[i] < base + W
  <2> SUFFICES ASSUME NEW i \in 1..k
               PROVE  p[i] \in Int /\ base <= p[i] /\ p[i] < base + W
    OBVIOUS
  <2> DEFINE a == at[i]
  <2>1. p[i] = base + (a - 1) /\ a \in 1..W /\ W \in Nat /\ base \in Int
    BY <1>1, <1>5, <1>7
  <2> HIDE DEF a
  <2> QED BY <2>1
<1>10. p \in Seq(Int)
  <2>1. p \in [1..k -> Int]
    BY <1>2, <1>8, <1>9
  <2> QED BY <1>4, <2>1
<1>11. ASSUME NEW i \in 1..k, NEW j \in 1..k, i < j PROVE p[i] < p[j]
  <2>1. at[i] < at[j]
    BY <1>4, <1>11
  <2> QED BY <1>5, <1>7, <2>1, SMTT(30)
<1> QED BY <1>5, <1>8, <1>9, <1>10, <1>11 DEF p, Increasing, base, W

\* The positions of a term in a document, in the order of its columns.
LEMMA PositionsSorted ==
  ASSUME Fits, NEW d \in Docs, NEW t \in Terms
  PROVE  Positions[d][t] \in Seq(Int) /\ Increasing(Positions[d][t])
<1> DEFINE fields == Fields[d]
           parts == [c \in DOMAIN fields |-> ColumnPositions(fields, t, c)]
           n == Len(fields)
<1>1. /\ fields \in Seq(Seq(Terms)) /\ n \in Nat /\ DOMAIN fields = 1..n
      /\ \A c \in DOMAIN fields : Len(fields[c]) <= ColumnSize
  BY IndexAssumption DEF Fits
<1>2. Positions[d][t] = FlattenSeq(parts)
  BY DEF Positions, GroupedPositions, ColumnPositions
<1> HIDE DEF fields, n
<1>3. ASSUME NEW c \in 1..n
      PROVE  /\ parts[c] \in Seq(Int) /\ Increasing(parts[c])
             /\ \A i \in DOMAIN parts[c] :
                  /\ (c - 1) * ColumnSize <= parts[c][i]
                  /\ parts[c][i] < c * ColumnSize
  BY <1>1, ColumnSorted
<1>4. parts \in Seq(Seq(Int)) /\ DOMAIN parts = 1..n
  <2>1. parts \in [1..n -> Seq(Int)]
    BY <1>1, <1>3
  <2> QED BY <1>1, <2>1
<1> HIDE DEF parts
<1>5. ASSUME NEW b \in 1..n, NEW c \in 1..n, b < c
      PROVE  Below(parts[b], parts[c])
  <2> SUFFICES ASSUME NEW i \in DOMAIN parts[b], NEW j \in DOMAIN parts[c]
               PROVE  parts[b][i] < parts[c][j]
    BY DEF Below
  <2> DEFINE x == parts[b][i]
             y == parts[c][j]
             W == ColumnSize
  <2>1. x < b * W /\ (c - 1) * W <= y
    BY <1>3
  <2>2. x \in Int /\ y \in Int
    BY <1>3
  <2>3. b \in Nat /\ c - 1 \in Nat /\ b <= c - 1 /\ W \in Nat
    BY <1>1, <1>5, IndexAssumption
  <2> DEFINE u == b * W
             v == (c - 1) * W
  <2>4. u <= v /\ u \in Nat /\ v \in Nat
    <3> DEFINE e == c - 1
    <3> HIDE DEF e
    <3>1. e \in Nat /\ b <= e
      BY <2>3 DEF e
    <3>2. W * b <= W * e
      BY <2>3, <3>1, TimesMonotone
    <3>3. b * W <= e * W /\ b * W \in Nat /\ e * W \in Nat
      BY <2>3, <3>1, <3>2
    <3> QED BY <3>3 DEF e
  <2> HIDE DEF x, y, u, v
  <2>5. x < u /\ v <= y
    BY <2>1 DEF u, v
  <2>6. x < y
    BY <2>2, <2>4, <2>5
  <2> QED BY <2>6 DEF x, y
<1>6. FlattenSeq(parts) \in Seq(Int) /\ Increasing(FlattenSeq(parts))
  BY <1>3, <1>4, <1>5, FlattenSorted
<1> QED BY <1>2, <1>6


=============================================================================
