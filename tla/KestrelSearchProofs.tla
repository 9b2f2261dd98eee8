-------------------------- MODULE KestrelSearchProofs --------------------------
(***************************************************************************)
(* The pruned search finds what the exhaustive search finds: for any       *)
(* documents, any history of commits, any scores that grow with the        *)
(* frequency and fall with the length, any size of blocks and any limit.   *)
(*                                                                         *)
(* First what the search works with: the heap, the lists and blocks of a   *)
(* segment, their bounds, scores, candidates and queries.  Then the        *)
(* invariant, which says where each of the three ways through a segment    *)
(* is: the heap has the best of the hits that the search is past, and what *)
(* the cursors that were left behind could still add is hopeless.  One     *)
(* lemma shows it for each action.                                         *)
(***************************************************************************)
EXTENDS KestrelSearch, KestrelIndexProofs

-----------------------------------------------------------------------------
(* The heap.                                                               *)

\* Hits of different rows, finitely many: Better orders them.
Rankable(S) ==
  /\ IsFiniteSet(S)
  /\ \A x \in S : x.score \in Nat /\ x.row \in Int
  /\ \A x, y \in S : x.row = y.row => x = y

LEMMA BetterOrders ==
  ASSUME NEW S, Rankable(S)
  PROVE  /\ \A x, y \in S : Better(x, y) => ~Better(y, x)
         /\ \A x, y \in S : x # y => Better(x, y) \/ Better(y, x)
         /\ \A x, y, z \in S : Better(x, y) /\ Better(y, z) => Better(x, z)
         /\ \A x \in S : ~Better(x, x)
<1>1. \A x \in S : x.score \in Nat /\ x.row \in Int
  BY DEF Rankable
<1>2. \A x, y \in S : x # y => x.row # y.row
  BY DEF Rankable
<1> QED BY <1>1, <1>2 DEF Better

LEMMA RankableParts ==
  ASSUME NEW S, Rankable(S), NEW T \in SUBSET S
  PROVE  Rankable(T)
BY FS_Subset DEF Rankable

\* The worst hit is the one that all others are better than.
LEMMA WorstIs ==
  ASSUME NEW S, Rankable(S), S # {}
  PROVE  Worst(S) \in S /\ \A x \in S \ {Worst(S)} : Better(x, Worst(S))
<1> DEFINE R == {p \in S \X S : Better(p[1], p[2])}
           n == Cardinality(S)
<1>1. \A x, y \in S : <<x, y>> \in R <=> Better(x, y)
  OBVIOUS
<1> HIDE DEF R
<1>2. Orders(R, S)
  BY <1>1, BetterOrders DEF Orders
<1>3. IsFiniteSet(S)
  BY DEF Rankable
<1>4. n \in Nat /\ n # 0
  BY <1>3, FS_CardinalityType, FS_EmptySet
<1>5. PICK w \in S : RankIn(R, S, w) = n - 1
  <2>1. n \in 1..Cardinality(S)
    BY <1>4
  <2>2. \A i \in 1..Cardinality(S) : \E x \in S : RankIn(R, S, x) = i - 1
    BY <1>2, <1>3, RanksIn
  <2> QED BY <2>1, <2>2
<1>6. ASSUME NEW x \in S \ {w} PROVE Better(x, w)
  <2>1. ~Better(w, x)
    <3>1. \A y \in S : RankIn(R, S, y) \in 0..(Cardinality(S) - 1)
      BY <1>2, <1>3, RanksIn
    <3>2. \A y, z \in S : <<y, z>> \in R => RankIn(R, S, y) < RankIn(R, S, z)
      BY <1>2, <1>3, RanksIn
    <3>3. RankIn(R, S, x) \in 0..(n - 1)
      BY <3>1
    <3>4. ~(RankIn(R, S, w) < RankIn(R, S, x))
      BY <1>4, <1>5, <3>3
    <3> QED BY <1>1, <3>2, <3>4
  <2> QED BY <2>1, BetterOrders
<1>7. \E h \in S : \A g \in S \ {h} : Better(g, h)
  BY <1>6
<1> QED BY <1>7 DEF Worst

\* The heap has the best n hits of S, or all if they are fewer.
Keeps(hits, S, n) ==
  /\ hits \subseteq S
  /\ Cardinality(hits) <= n
  /\ \A x \in S \ hits : Cardinality(hits) = n /\ \A kept \in hits : Better(kept, x)

\* TopK::push keeps the best.
LEMMA PushKeeps ==
  ASSUME NEW S, NEW x, x \notin S, Rankable(S \cup {x}),
         limit \in Nat \ {0}, NEW hits, Keeps(hits, S, limit)
  PROVE  Keeps(Push(hits, x), S \cup {x}, limit)
<1> DEFINE c == Cardinality(hits)
           w == Worst(hits)
<1>1. /\ hits \in SUBSET S /\ x \notin hits /\ Rankable(hits) /\ IsFiniteSet(hits)
      /\ c \in Nat /\ c <= limit
  <2>1. hits \in SUBSET (S \cup {x}) /\ hits \in SUBSET S
    BY DEF Keeps
  <2>2. Rankable(hits)
    BY <2>1, RankableParts
  <2>3. IsFiniteSet(hits)
    BY <2>2 DEF Rankable
  <2> QED BY <2>1, <2>2, <2>3, FS_CardinalityType DEF Keeps
<1>2. CASE c # limit
  <2>1. Push(hits, x) = hits \cup {x}
    BY <1>2 DEF Push
  <2>2. Cardinality(hits \cup {x}) = c + 1
    BY <1>1, FS_AddElement
  <2>3. c + 1 <= limit
    BY <1>1, <1>2
  <2>4. S \ hits = {}
    BY <1>2 DEF Keeps
  <2>5. (S \cup {x}) \ (hits \cup {x}) = {}
    BY <2>4
  <2> QED BY <1>1, <2>1, <2>2, <2>3, <2>5 DEF Keeps
<1>3. CASE c = limit
  <2>1. hits # {}
    BY <1>3, FS_EmptySet
  <2>2. w \in hits /\ \A k \in hits \ {w} : Better(k, w)
    BY <1>1, <2>1, WorstIs
  <2>3. \A k, y \in S \cup {x} : k # y => Better(k, y) \/ Better(y, k)
    BY BetterOrders
  <2>4. \A k, y, z \in S \cup {x} : Better(k, y) /\ Better(y, z) => Better(k, z)
    BY BetterOrders
  <2>5. \A y \in S \ hits : \A k \in hits : Better(k, y)
    BY DEF Keeps
  <2> HIDE DEF w, c
  <2>6. CASE Better(x, w)
    <3> DEFINE more == (hits \ {w}) \cup {x}
    <3>1. Push(hits, x) = more
      BY <1>3, <2>6 DEF Push, w, c
    <3>2. Cardinality(more) = limit
      <4>1. IsFiniteSet(hits \ {w}) /\ Cardinality(hits \ {w}) = c - 1
        BY <1>1, <2>2, FS_RemoveElement DEF c
      <4>2. x \notin hits \ {w}
        BY <1>1
      <4>3. Cardinality(more) = Cardinality(hits \ {w}) + 1
        BY <4>1, <4>2, FS_AddElement
      <4> QED BY <1>1, <1>3, <4>1, <4>3
    <3>3. ASSUME NEW y \in (S \cup {x}) \ more, NEW k \in more PROVE Better(k, y)
      <4>1. y \in S /\ (y = w \/ y \in S \ hits)
        BY <1>1
      <4>2. Better(k, w)
        BY <2>2, <2>6
      <4>3. y \in S \ hits => Better(w, y)
        BY <2>2, <2>5
      <4> QED BY <1>1, <2>2, <2>4, <4>1, <4>2, <4>3
    <3>4. more \subseteq S \cup {x}
      BY <1>1
    <3> HIDE DEF more
    <3> QED BY <1>1, <1>3, <3>1, <3>2, <3>3, <3>4 DEF Keeps
  <2>7. CASE ~Better(x, w)
    <3>1. Push(hits, x) = hits
      BY <1>3, <2>7 DEF Push, w, c
    <3>2. Better(w, x)
      BY <1>1, <2>2, <2>3, <2>7
    <3>3. ASSUME NEW k \in hits PROVE Better(k, x)
      BY <1>1, <2>2, <2>4, <3>2
    <3> QED BY <1>1, <1>3, <2>5, <3>1, <3>3 DEF Keeps, c
  <2> QED BY <2>6, <2>7
<1> QED BY <1>2, <1>3

\* What no kept hit is worse than need not be looked at.
LEMMA DropKeeps ==
  ASSUME NEW S, NEW D, NEW n, NEW hits, Keeps(hits, S, n),
         Cardinality(hits) = n, \A x \in D, k \in hits : Better(k, x)
  PROVE  Keeps(hits, S \cup D, n)
BY DEF Keeps

\* The best hits are determined.
LEMMA KeptAgree ==
  ASSUME NEW S, Rankable(S), NEW n \in Nat, NEW a, NEW b, Keeps(a, S, n), Keeps(b, S, n)
  PROVE  a \subseteq b
<1> SUFFICES ASSUME NEW x \in a, x \notin b PROVE FALSE
  OBVIOUS
<1>1. /\ IsFiniteSet(a) /\ IsFiniteSet(b) /\ Cardinality(a) \in Nat /\ Cardinality(b) \in Nat
      /\ a \subseteq S /\ b \subseteq S
  <2>1. a \in SUBSET S /\ b \in SUBSET S /\ IsFiniteSet(S)
    BY DEF Keeps, Rankable
  <2> QED BY <2>1, FS_Subset, FS_CardinalityType
<1>2. Cardinality(b) = n /\ Cardinality(a) <= n /\ \A k \in b : Better(k, x)
  BY <1>1 DEF Keeps
<1>3. PICK y \in b : y \notin a
  <2>1. ~(b \subseteq a)
    <3> SUFFICES ASSUME b \subseteq a PROVE FALSE
      OBVIOUS
    <3>1. b \cup {x} \in SUBSET a
      OBVIOUS
    <3>2. Cardinality(b \cup {x}) <= Cardinality(a)
      BY <1>1, <3>1, FS_Subset
    <3>3. Cardinality(b \cup {x}) = Cardinality(b) + 1
      BY <1>1, FS_AddElement
    <3> QED BY <1>1, <1>2, <3>2, <3>3
  <2> QED BY <2>1
<1>4. Better(x, y) /\ Better(y, x)
  BY <1>1, <1>2, <1>3 DEF Keeps
<1> QED BY <1>1, <1>3, <1>4, BetterOrders

\* Induction over the subsets of a finite set.
LEMMA SubsetInduction ==
  ASSUME NEW S, IsFiniteSet(S), NEW F,
         \A T \in SUBSET S : (\A x \in T : T \ {x} \in F) => T \in F
  PROVE  \A T \in SUBSET S : T \in F
<1> DEFINE Bad == {n \in Nat : \E T \in SUBSET S : T \notin F /\ Cardinality(T) = n}
<1>1. \A T \in SUBSET S : IsFiniteSet(T) /\ Cardinality(T) \in Nat
  BY FS_Subset, FS_CardinalityType
<1> SUFFICES ASSUME Bad # {} PROVE FALSE
  BY <1>1
<1>2. PICK n \in Bad : \A m \in Bad : n <= m
  <2>1. Bad \subseteq Nat
    OBVIOUS
  <2> HIDE DEF Bad
  <2> QED BY <2>1, Least
<1>3. PICK T \in SUBSET S : T \notin F /\ Cardinality(T) = n
  BY <1>2
<1>4. PICK x \in T : T \ {x} \notin F
  BY <1>3
<1>5. Cardinality(T \ {x}) = n - 1 /\ n - 1 \in Nat
  <2>1. Cardinality(T \ {x}) = Cardinality(T) - 1 /\ IsFiniteSet(T \ {x})
    BY <1>1, FS_RemoveElement
  <2> QED BY <1>3, <2>1, FS_CardinalityType
<1>6. n - 1 \in Bad
  BY <1>4, <1>5
<1> QED BY <1>2, <1>5, <1>6

\* Hits that are pushed one after the other, in any order, leave the best.
LEMMA PushAllKeeps ==
  ASSUME NEW S, NEW more, S \cap more = {}, Rankable(S \cup more),
         limit \in Nat \ {0}, NEW hits, Keeps(hits, S, limit)
  PROVE  Keeps(PushAll(hits, more), S \cup more, limit)
<1> DEFINE Step(g) == [T \in SUBSET more |->
             IF T = {} THEN hits
             ELSE LET x == CHOOSE x \in T : TRUE IN Push(g[T \ {x}], x)]
           iter == CHOOSE g : g = Step(g)
           h == [T \in SUBSET more |-> CHOOSE B : Keeps(B, S \cup T, limit)]
<1>1. PushAll(hits, more) = iter[more]
  BY DEF PushAll, FoldSet, MapThenFoldSet
<1>2. /\ IsFiniteSet(more)
      /\ \A T \in SUBSET more : Rankable(S \cup T)
  <2>1. IsFiniteSet(S \cup more) /\ more \in SUBSET (S \cup more)
    BY DEF Rankable
  <2>2. \A T \in SUBSET more : S \cup T \in SUBSET (S \cup more)
    OBVIOUS
  <2> QED BY <2>1, <2>2, FS_Subset, RankableParts
<1>3. ASSUME NEW T \in SUBSET more, NEW x \in T, NEW B,
             Keeps(B, S \cup (T \ {x}), limit)
      PROVE  Keeps(Push(B, x), S \cup T, limit)
  <2>1. x \notin S \cup (T \ {x}) /\ (S \cup (T \ {x})) \cup {x} = S \cup T
    OBVIOUS
  <2>2. Rankable((S \cup (T \ {x})) \cup {x})
    BY <1>2, <2>1
  <2>3. Keeps(Push(B, x), (S \cup (T \ {x})) \cup {x}, limit)
    BY <1>3, <2>1, <2>2, PushKeeps
  <2> QED BY <2>1, <2>3
<1>4. \A T \in SUBSET more : \E B : Keeps(B, S \cup T, limit)
  <2> DEFINE F == {T \in SUBSET more : \E B : Keeps(B, S \cup T, limit)}
  <2>1. ASSUME NEW T \in SUBSET more, \A x \in T : T \ {x} \in F
        PROVE  T \in F
    <3>1. CASE T = {}
      <4>1. S \cup T = S
        BY <3>1
      <4> QED BY <4>1
    <3>2. CASE T # {}
      <4>1. PICK x \in T : T \ {x} \in F
        BY <2>1, <3>2
      <4>2. PICK B : Keeps(B, S \cup (T \ {x}), limit)
        BY <4>1
      <4> QED BY <1>3, <4>2
    <3> QED BY <3>1, <3>2
  <2> HIDE DEF F
  <2>2. \A T \in SUBSET more : T \in F
    BY <1>2, <2>1, SubsetInduction
  <2> QED BY <2>2 DEF F
<1>5. \A T \in SUBSET more : Keeps(h[T], S \cup T, limit)
  BY <1>4
<1>6. ASSUME NEW T \in SUBSET more, NEW B, Keeps(B, S \cup T, limit)
      PROVE  h[T] = B
  BY <1>2, <1>5, <1>6, KeptAgree
<1>7. h = Step(h)
  <2>1. ASSUME NEW T \in SUBSET more
        PROVE  h[T] = IF T = {} THEN hits
                      ELSE LET x == CHOOSE x \in T : TRUE IN Push(h[T \ {x}], x)
    <3>1. CASE T = {}
      <4>1. S \cup T = S
        BY <3>1
      <4> HIDE DEF h
      <4> QED BY <1>6, <3>1, <4>1
    <3>2. CASE T # {}
      <4> DEFINE x == CHOOSE x \in T : TRUE
      <4>1. x \in T
        BY <3>2
      <4> HIDE DEF x
      <4>2. T \ {x} \in SUBSET more
        OBVIOUS
      <4> HIDE DEF h
      <4>3. Keeps(Push(h[T \ {x}], x), S \cup T, limit)
        BY <1>3, <1>5, <4>1, <4>2
      <4>4. h[T] = Push(h[T \ {x}], x)
        BY <1>6, <4>3
      <4> QED BY <3>2, <4>4 DEF x
    <3> QED BY <3>1, <3>2
  <2>2. h = [T \in SUBSET more |-> h[T]]
    OBVIOUS
  <2> HIDE DEF h
  <2> QED BY <2>1, <2>2
<1>8. iter = Step(iter)
  <2> HIDE DEF h
  <2>1. \E g : g = Step(g)
    BY <1>7, ZenonT(60)
  <2> HIDE DEF Step
  <2> QED BY <2>1
<1> HIDE DEF h, iter
<1>9. ASSUME NEW T \in SUBSET more
      PROVE  iter[T] = IF T = {} THEN hits
                       ELSE LET x == CHOOSE x \in T : TRUE IN Push(iter[T \ {x}], x)
  BY <1>8
<1> HIDE DEF Step
<1>10. \A T \in SUBSET more : Keeps(iter[T], S \cup T, limit)
  <2> DEFINE F == {T \in SUBSET more : Keeps(iter[T], S \cup T, limit)}
  <2>1. ASSUME NEW T \in SUBSET more, \A x \in T : T \ {x} \in F
        PROVE  T \in F
    <3>1. CASE T = {}
      <4>1. S \cup T = S /\ iter[T] = hits
        BY <1>9, <3>1
      <4> QED BY <4>1
    <3>2. CASE T # {}
      <4> DEFINE x == CHOOSE x \in T : TRUE
      <4>1. x \in T /\ iter[T] = Push(iter[T \ {x}], x)
        BY <1>9, <3>2
      <4> HIDE DEF x
      <4>2. Keeps(iter[T \ {x}], S \cup (T \ {x}), limit)
        BY <2>1, <4>1
      <4> QED BY <1>3, <4>1, <4>2
    <3> QED BY <3>1, <3>2
  <2> HIDE DEF F
  <2>2. \A T \in SUBSET more : T \in F
    BY <1>2, <2>1, SubsetInduction
  <2> QED BY <2>2 DEF F
<1> QED BY <1>1, <1>10

\* Where the heap is full, a bound below its worst score is hopeless.
LEMMA HopelessIs ==
  ASSUME limit \in Nat \ {0}, Rankable(heap), NEW bound \in Nat, Hopeless(bound),
         NEW x, x.score \in Nat, x.score <= bound
  PROVE  Cardinality(heap) = limit /\ \A kept \in heap : Better(kept, x)
<1>1. Cardinality(heap) = limit /\ bound < Worst(heap).score
  BY DEF Hopeless, IsFull, Threshold
<1>2. heap # {}
  BY <1>1, FS_EmptySet
<1>3. Worst(heap) \in heap /\ \A k \in heap \ {Worst(heap)} : Better(k, Worst(heap))
  BY <1>2, WorstIs
<1>4. \A k \in heap : k.score \in Nat
  BY DEF Rankable
<1>5. ASSUME NEW k \in heap PROVE k.score >= Worst(heap).score
  <2>1. k = Worst(heap) \/ Better(k, Worst(heap))
    BY <1>3
  <2> QED BY <1>3, <1>4, <2>1 DEF Better
<1>6. ASSUME NEW k \in heap PROVE k.score > x.score
  BY <1>1, <1>3, <1>4, <1>5
<1> QED BY <1>1, <1>6 DEF Better


-----------------------------------------------------------------------------
(* Sums and bounds.                                                        *)

\* A sum of fewer and smaller values.
LEMMA SumInto ==
  ASSUME NEW A, NEW B, IsFiniteSet(A), IsFiniteSet(B), NEW e \in [A -> B],
         \A x, y \in A : e[x] = e[y] => x = y,
         NEW f \in [A -> Nat], NEW g \in [B -> Nat], \A x \in A : f[x] <= g[e[x]]
  PROVE  SumFunction(f) <= SumFunction(g)
<1> DEFINE U == Units(A, f)
           V == Units(B, g)
           c == [u \in U |-> <<e[u[1]], u[2]>>]
<1>1. /\ \A u \in U : u[1] \in A /\ u[2] \in 1..f[u[1]] /\ u = <<u[1], u[2]>>
      /\ \A x \in B : \A k \in 1..g[x] : <<x, k>> \in V
  BY UnitIs
<1> HIDE DEF U, V
<1>2. ASSUME NEW u \in U PROVE c[u] \in V
  <2>1. u[1] \in A /\ u[2] \in 1..f[u[1]]
    BY <1>1
  <2>2. e[u[1]] \in B /\ f[u[1]] \in Nat /\ g[e[u[1]]] \in Nat /\ f[u[1]] <= g[e[u[1]]]
    BY <2>1
  <2>3. u[2] \in 1..g[e[u[1]]]
    BY <2>1, <2>2
  <2> QED BY <1>1, <2>2, <2>3
<1>3. ASSUME NEW u \in U, NEW w \in U, c[u] = c[w] PROVE u = w
  <2>1. e[u[1]] = e[w[1]] /\ u[2] = w[2]
    BY <1>3
  <2>2. u[1] = w[1]
    BY <1>1, <2>1
  <2> QED BY <1>1, <2>1, <2>2
<1>4. c \in [U -> V]
  BY <1>2
<1> HIDE DEF c
<1>5. c \in Injection(U, V)
  BY <1>3, <1>4 DEF Injection, IsInjective
<1>6. IsFiniteSet(V)
  BY UnitsFinite DEF V
<1>7. Cardinality(U) <= Cardinality(V)
  BY <1>5, <1>6, FS_Injection
<1> QED BY <1>7, SumIs DEF U, V

LEMMA SumOfOne ==
  ASSUME NEW x, NEW f \in [{x} -> Nat]
  PROVE  SumFunction(f) = f[x]
<1>1. IsFiniteSet({x})
  BY FS_Singleton
<1>2. Cardinality(Units({x}, f)) = f[x] + Cardinality(Units({x} \ {x}, f))
  BY <1>1, UnitsOfOne
<1>3. Units({x} \ {x}, f) = {}
  BY DEF Units
<1>4. SumFunction(f) = Cardinality(Units({x}, f))
  BY <1>1, SumIs
<1> QED BY <1>2, <1>3, <1>4, FS_EmptySet

\* quantize_upper does not round down.
LEMMA QuantizeUp ==
  ASSUME NEW n \in Nat
  PROVE  Quantize(n) \in Nat /\ n <= Quantize(n)
<1> DEFINE m == n + Grid - 1
<1>1. Grid \in Nat \ {0} /\ m \in Nat
  BY SearchAssumption
<1>2. m \div Grid \in Nat /\ m % Grid \in 0..(Grid - 1) /\ m = Grid * (m \div Grid) + (m % Grid)
  BY <1>1, DivMod
<1>3. Quantize(n) = (m \div Grid) * Grid
  BY DEF Quantize, CeilDiv
<1> DEFINE q == m \div Grid
           r == m % Grid
<1>4. q * Grid \in Nat /\ q * Grid = Grid * q
  BY <1>1, <1>2
<1> DEFINE p == Grid * q
<1>5. p \in Nat /\ n + Grid - 1 = p + r /\ r \in 0..(Grid - 1) /\ Quantize(n) = p
  BY <1>1, <1>2, <1>3, <1>4
<1> HIDE DEF p, q, r, m
<1> QED BY <1>1, <1>5

\* A finite set of natural numbers has a bound.
LEMMA FiniteBound ==
  ASSUME NEW S, S \subseteq Nat, IsFiniteSet(S)
  PROVE  \E n \in Nat : \A j \in S : j <= n
<1> DEFINE k == Cardinality(S)
           list == Ascending(S)
<1>1. S \in SUBSET Int
  OBVIOUS
<1>2. /\ k \in Nat /\ list \in [1..k -> S]
      /\ \A i, j \in 1..k : i < j => list[i] < list[j]
      /\ \A x \in S : \E i \in 1..k : list[i] = x
  BY <1>1, AscendingLists
<1> HIDE DEF k, list
<1>3. CASE k = 0
  <2>1. \A j \in S : j <= 0
    BY <1>2, <1>3
  <2>2. 0 \in Nat
    OBVIOUS
  <2> QED BY <2>1, <2>2
<1>4. CASE k # 0
  <2>1. k \in 1..k
    BY <1>2, <1>4
  <2>3. list[k] \in S
    BY <1>2, <2>1
  <2>4. list[k] \in Nat
    BY <2>3
  <2>2. ASSUME NEW j \in S PROVE j <= list[k]
    <3>1. PICK i \in 1..k : list[i] = j
      BY <1>2
    <3>2. i = k \/ i < k
      BY <1>2
    <3> QED BY <1>2, <2>1, <2>4, <3>1, <3>2
  <2> QED BY <2>2, <2>4
<1> QED BY <1>3, <1>4

LEMMA FiniteMax ==
  ASSUME NEW S, S \subseteq Nat, IsFiniteSet(S), S # {}
  PROVE  Max(S) \in S /\ \A j \in S : j <= Max(S)
<1>1. PICK n \in Nat : \A j \in S : j <= n
  BY FiniteBound
<1> QED BY <1>1, MaxIs


-----------------------------------------------------------------------------
(* Posting lists.                                                          *)

\* Sequences put together are a sequence.
LEMMA FlattenTyped ==
  ASSUME NEW X, NEW parts \in Seq(Seq(X))
  PROVE  FlattenSeq(parts) \in Seq(X)
<1> DEFINE n == Len(parts)
<1>1. n \in Nat /\ DOMAIN parts = 1..n /\ \A c \in 1..n : parts[c] \in Seq(X)
  OBVIOUS
<1>2. CASE parts = <<>>
  <2>1. FlattenSeq(parts) = <<>>
    BY <1>2 DEF FlattenSeq
  <2> QED BY <2>1
<1>3. CASE parts # <<>>
  <2>1. PICK f : Joined(parts, n, f) /\ FlattenSeq(parts) = f[n]
    BY <1>3, FlattenIs
  <2>2. \A k \in 1..n : f[k] = IF k = 1 THEN parts[k] ELSE f[k - 1] \o parts[k]
    BY <2>1 DEF Joined
  <2>3. n # 0
    BY <1>3
  <2> HIDE DEF n
  <2> DEFINE Bad == {k \in Nat : k \in 1..n /\ f[k] \notin Seq(X)}
  <2>4. ASSUME Bad # {} PROVE FALSE
    <3>1. PICK k \in Bad : \A m \in Bad : k <= m
      <4>1. Bad \subseteq Nat
        OBVIOUS
      <4> HIDE DEF Bad
      <4> QED BY <2>4, <4>1, Least
    <3>2. k \in 1..n /\ f[k] \notin Seq(X)
      BY <3>1
    <3>3. k # 1
      BY <1>1, <2>2, <3>2
    <3> DEFINE m == k - 1
    <3>4. m \in 1..n /\ m < k /\ m \in Nat
      BY <1>1, <3>2, <3>3
    <3>5. f[m] \in Seq(X)
      <4>1. m \notin Bad
        <5> HIDE DEF Bad
        <5>1. ~(k <= m)
          BY <3>2, <3>4
        <5> QED BY <3>1, <5>1
      <4> QED BY <3>4, <4>1
    <3>6. f[k] = f[m] \o parts[k] /\ parts[k] \in Seq(X)
      BY <1>1, <2>2, <3>2, <3>3
    <3> HIDE DEF m
    <3> QED BY <3>2, <3>5, <3>6
  <2>5. n \in 1..n
    BY <1>1, <2>3
  <2> QED BY <1>1, <2>1, <2>4, <2>5
<1> QED BY <1>2, <1>3

\* Positions of a term in a document; there are some if it has the term.
LEMMA PositionsTyped ==
  ASSUME NEW d \in Docs, NEW t \in Terms
  PROVE  /\ Positions[d][t] \in Seq(Int)
         /\ t \in UniqueTerms(d) <=> Len(Positions[d][t]) # 0
         /\ t \in UniqueTerms(d) => Len(Positions[d][t]) \in Frequencies
<1> DEFINE fields == Fields[d]
           parts == [c \in DOMAIN fields |-> ColumnPositions(fields, t, c)]
           n == Len(fields)
<1>1. fields \in Seq(Seq(Terms)) /\ n \in Nat /\ DOMAIN fields = 1..n
  BY IndexAssumption
<1>2. Positions[d][t] = FlattenSeq(parts)
  BY DEF Positions, GroupedPositions, ColumnPositions
<1> HIDE DEF fields, n
<1>3. ASSUME NEW c \in 1..n PROVE ColumnPositions(fields, t, c) \in Seq(Int)
  <2> DEFINE field == fields[c]
             S == {i \in DOMAIN field : field[i] = t}
             at == Ascending(S)
             k == Cardinality(S)
  <2>1. field \in Seq(Terms) /\ Len(field) \in Nat /\ c \in Int
    BY <1>1
  <2>2. S \in SUBSET (1..Len(field)) /\ S \in SUBSET Int
    BY <2>1
  <2>3. IsFiniteSet(S)
    <3>1. IsFiniteSet(1..Len(field))
      BY <2>1, FS_Interval
    <3> HIDE DEF S
    <3> QED BY <2>2, <3>1, FS_Subset
  <2>4. ColumnPositions(fields, t, c) = [i \in DOMAIN at |-> Position(c, at[i])]
    BY DEF ColumnPositions
  <2> HIDE DEF S
  <2>5. k \in Nat /\ at \in [1..k -> S]
    BY <2>2, <2>3, AscendingLists
  <2> HIDE DEF at, k
  <2>6. ASSUME NEW i \in 1..k PROVE Position(c, at[i]) \in Int
    <3>1. at[i] \in Int
      BY <2>2, <2>5
    <3>2. ColumnSize \in Int
      BY IndexAssumption
    <3> HIDE DEF S
    <3> QED BY <3>2, <2>1, <3>1 DEF Position, Smaller
  <2>7. ColumnPositions(fields, t, c) \in [1..k -> Int]
    BY <2>4, <2>5, <2>6
  <2> QED BY <2>5, <2>7
<1>4. parts \in Seq(Seq(Int))
  <2>1. parts \in [1..n -> Seq(Int)]
    BY <1>1, <1>3
  <2> QED BY <1>1, <2>1
<1> HIDE DEF parts
<1>5. Positions[d][t] \in Seq(Int)
  BY <1>2, <1>4, FlattenTyped
<1>6. t \in UniqueTerms(d) <=> Len(Positions[d][t]) # 0
  BY <1>5 DEF UniqueTerms
<1> QED BY <1>5, <1>6 DEF Frequencies


\* Blocks: each index is in one of them.
LEMMA BlocksAre ==
  ASSUME NEW len \in Nat
  PROVE  /\ CeilDiv(len, BlockSize) \in Nat
         /\ len <= CeilDiv(len, BlockSize) * BlockSize
         /\ CeilDiv(len, BlockSize) * BlockSize < len + BlockSize
<1> DEFINE B == BlockSize
           m == len + B - 1
           q == m \div B
           r == m % B
<1>1. B \in Nat \ {0} /\ m \in Nat
  BY IndexAssumption
<1>2. q \in Nat /\ r \in 0..(B - 1) /\ m = B * q + r
  BY <1>1, DivMod
<1>3. CeilDiv(len, BlockSize) = q
  BY DEF CeilDiv
<1>4. q * B = B * q /\ B * q \in Nat
  BY <1>1, <1>2
<1> DEFINE p == B * q
<1>5. p \in Nat /\ len + B - 1 = p + r
  BY <1>2, <1>4
<1> HIDE DEF p, q, r, m, B
<1>6. len <= p /\ p < len + B
  BY <1>1, <1>2, <1>5
<1> QED BY <1>2, <1>3, <1>4, <1>6 DEF p, B

LEMMA BlockHas ==
  ASSUME NEW len \in Nat, NEW k \in 1..CeilDiv(len, BlockSize)
  PROVE  /\ (k - 1) * BlockSize \in Nat /\ k * BlockSize = (k - 1) * BlockSize + BlockSize
         /\ (k - 1) * BlockSize + 1 \in 1..len
         /\ Smaller(k * BlockSize, len) \in 1..len
         /\ (k - 1) * BlockSize + 1 <= Smaller(k * BlockSize, len)
<1> DEFINE B == BlockSize
           q == CeilDiv(len, BlockSize)
           e == k - 1
<1>1. B \in Nat \ {0}
  BY IndexAssumption
<1>2. q \in Nat /\ q * B < len + B
  BY BlocksAre
<1>3. e \in Nat /\ k \in Nat /\ k <= q /\ k = e + 1
  BY <1>2
<1> HIDE DEF q, e
<1>4. e * B \in Nat /\ k * B = e * B + B
  BY <1>1, <1>3
<1>5. B * k <= B * q
  BY <1>1, <1>2, <1>3, TimesMonotone
<1>6. k * B <= q * B /\ k * B \in Nat /\ q * B \in Nat
  BY <1>1, <1>2, <1>3, <1>5
<1> DEFINE x == e * B
           y == k * B
           z == q * B
<1>7. x \in Nat /\ y = x + B /\ y <= z /\ z \in Nat /\ z < len + B
  BY <1>2, <1>4, <1>6
<1> HIDE DEF x, y, z, B
<1>8. x < len /\ x < y
  BY <1>1, <1>7
<1>9. Smaller(y, len) \in 1..len /\ x + 1 <= Smaller(y, len)
  BY <1>1, <1>7, <1>8 DEF Smaller
<1> QED BY <1>4, <1>7, <1>8, <1>9 DEF x, y, B, e

\* The block of an index.
LEMMA BlockOfIndex ==
  ASSUME NEW len \in Nat, NEW i \in 1..len
  PROVE  /\ CeilDiv(i, BlockSize) \in 1..CeilDiv(len, BlockSize)
         /\ (CeilDiv(i, BlockSize) - 1) * BlockSize + 1 <= i
         /\ i <= Smaller(CeilDiv(i, BlockSize) * BlockSize, len)
<1> DEFINE B == BlockSize
           k == CeilDiv(i, BlockSize)
           q == CeilDiv(len, BlockSize)
<1>1. B \in Nat \ {0} /\ i \in Nat /\ i # 0 /\ i <= len
  BY IndexAssumption
<1>2. k \in Nat /\ i <= k * B /\ k * B < i + B
  BY <1>1, BlocksAre
<1>3. q \in Nat /\ len <= q * B
  BY BlocksAre
<1> HIDE DEF k, q
<1>4. k # 0
  BY <1>1, <1>2
<1> DEFINE e == k - 1
<1>5. e \in Nat /\ k = e + 1
  BY <1>2, <1>4
<1> HIDE DEF e
<1>6. k * B = e * B + B /\ e * B \in Nat
  BY <1>1, <1>5
<1> DEFINE x == e * B
<1>7. x \in Nat /\ x + B < i + B /\ k * B = x + B
  BY <1>1, <1>2, <1>6
<1>8. x < i
  <2> HIDE DEF x, B
  <2> QED BY <1>1, <1>7
<1>9. k <= q
  <2> SUFFICES ASSUME q < k PROVE FALSE
    BY <1>2, <1>3
  <2>1. q <= e
    BY <1>2, <1>3, <1>5
  <2>2. B * q <= B * e
    BY <1>1, <1>3, <1>5, <2>1, TimesMonotone
  <2>3. q * B <= e * B /\ q * B \in Nat
    BY <1>1, <1>3, <1>5, <2>2
  <2> DEFINE z == q * B
  <2>4. z <= x /\ z \in Nat /\ len <= z
    BY <1>3, <2>3
  <2> HIDE DEF x, z
  <2> QED BY <1>1, <1>7, <1>8, <2>4
<1>10. i <= Smaller(k * B, len)
  BY <1>1, <1>2 DEF Smaller
<1>11. x + 1 <= i
  <2> HIDE DEF x
  <2> QED BY <1>1, <1>7, <1>8
<1>12. k \in 1..q
  BY <1>2, <1>3, <1>4, <1>9
<1> QED BY <1>10, <1>11, <1>12 DEF k, q, e, x, B

\* A stretch of a sequence.
LEMMA StretchOf ==
  ASSUME NEW X, NEW seq \in Seq(X), NEW a \in DOMAIN seq, NEW b \in DOMAIN seq, a <= b
  PROVE  /\ SubSeq(seq, a, b) \in Seq(X) /\ SubSeq(seq, a, b) # <<>>
         /\ \A i \in a..b : \E j \in DOMAIN SubSeq(seq, a, b) : SubSeq(seq, a, b)[j] = seq[i]
         /\ \A j \in DOMAIN SubSeq(seq, a, b) : \E i \in a..b : SubSeq(seq, a, b)[j] = seq[i]
<1> DEFINE part == SubSeq(seq, a, b)
           len == b - a + 1
<1>1. a \in Nat \ {0} /\ b \in Nat /\ len \in Nat /\ len # 0 /\ b <= Len(seq) /\ Len(seq) \in Nat
  OBVIOUS
<1>2. part \in Seq(X) /\ Len(part) = len /\ \A j \in 1..len : part[j] = seq[a + j - 1]
  BY <1>1, SMTT(30)
<1> HIDE DEF part
<1>3. DOMAIN part = 1..len
  BY <1>2
<1>4. part # <<>>
  BY <1>1, <1>2
<1>5. ASSUME NEW i \in a..b PROVE \E j \in DOMAIN part : part[j] = seq[i]
  <2> DEFINE j == i - a + 1
  <2>1. j \in 1..len /\ a + j - 1 = i
    BY <1>1, SMTT(30)
  <2> HIDE DEF j
  <2> QED BY <1>2, <1>3, <2>1
<1>6. ASSUME NEW j \in DOMAIN part PROVE \E i \in a..b : part[j] = seq[i]
  <2> DEFINE i == a + j - 1
  <2>1. i \in a..b /\ part[j] = seq[i]
    BY <1>1, <1>2, <1>3, SMTT(30)
  <2> HIDE DEF i
  <2> QED BY <2>1
<1> QED BY <1>2, <1>4, <1>5, <1>6 DEF part

LEMMA LargestOf ==
  ASSUME NEW F, F \subseteq Nat, NEW part \in Seq(F), part # <<>>
  PROVE  Max(ToSet(part)) \in F /\ \A j \in DOMAIN part : part[j] <= Max(ToSet(part))
<1> DEFINE S == ToSet(part)
<1>1. /\ IsFiniteSet(S) /\ S \subseteq F
      /\ \A x : x \in S <=> \E i \in DOMAIN part : part[i] = x
  BY ToSetIs
<1>2. 1 \in DOMAIN part
  OBVIOUS
<1> HIDE DEF S
<1>3. S # {} /\ S \subseteq Nat
  BY <1>1, <1>2
<1>4. Max(S) \in S /\ \A j \in S : j <= Max(S)
  BY <1>1, <1>3, FiniteMax
<1> QED BY <1>1, <1>4 DEF S

LEMMA ShortestOf ==
  ASSUME NEW docs \in Seq(Stored), NEW part \in Seq(Numbers(docs)), part # <<>>
  PROVE  /\ Min(LengthsOf(docs, part)) \in Lengths
         /\ \A j \in DOMAIN part : Min(LengthsOf(docs, part)) <= docs[part[j] + 1].len
<1> DEFINE S == LengthsOf(docs, part)
<1>1. ASSUME NEW j \in DOMAIN part
      PROVE  docs[part[j] + 1].len \in Lengths /\ docs[part[j] + 1].len \in Nat
  <2>1. part[j] \in Numbers(docs)
    OBVIOUS
  <2>2. docs[part[j] + 1] \in Stored
    BY <2>1, NumbersOf
  <2> DEFINE x == docs[part[j] + 1]
  <2> HIDE DEF x
  <2>3. x \in Stored
    BY <2>2 DEF x
  <2>4. x.len = Length(x.doc) /\ x.doc \in Docs
    BY <2>3, StoredIs
  <2>5. x.len \in Lengths /\ x.len \in Nat
    BY <2>4, LengthIs DEF Lengths
  <2> QED BY <2>5 DEF x
<1>2. 1 \in DOMAIN part
  OBVIOUS
<1>3. S = {docs[part[j] + 1].len : j \in DOMAIN part}
  BY DEF LengthsOf
<1> HIDE DEF S
<1>4. S \subseteq Nat /\ S \subseteq Lengths /\ S # {}
  BY <1>1, <1>2, <1>3
<1>5. Min(S) \in S /\ \A j \in S : Min(S) <= j
  BY <1>4, MinIs
<1> QED BY <1>3, <1>4, <1>5 DEF S


\* The frequency and length of a posting, within the bounds.
Within(list, docs, i, max_tf, min_len) ==
  /\ max_tf \in Frequencies /\ min_len \in Lengths
  /\ list.freqs[i] <= max_tf /\ min_len <= docs[list.docids[i] + 1].len

\* What is known of the posting list of a term.
ListFacts(list, docs, t) ==
  /\ list.docids \in Seq(Nat) /\ Len(list.docids) # 0
  /\ \A i \in DOMAIN list.docids :
       /\ list.docids[i] \in Having(docs, t)
       /\ docs[list.docids[i] + 1].len \in Lengths
       /\ list.freqs[i] \in Frequencies
       /\ list.positions[i] \in Seq(Int) /\ Len(list.positions[i]) # 0
  /\ \A n \in Having(docs, t) : \E i \in DOMAIN list.docids : list.docids[i] = n
  /\ \A i, j \in DOMAIN list.docids : i < j => list.docids[i] < list.docids[j]

BlockFacts(list, docs) ==
  /\ Len(list.blocks) = CeilDiv(Len(list.docids), BlockSize)
  /\ \A k \in 1..Len(list.blocks) :
       /\ list.blocks[k].end = Smaller(k * BlockSize, Len(list.docids))
       /\ \A i \in ((k - 1) * BlockSize + 1)..list.blocks[k].end :
            Within(list, docs, i, list.blocks[k].max_tf, list.blocks[k].min_len)
  /\ \A i \in DOMAIN list.docids : Within(list, docs, i, list.max_tf, list.min_len)

\* A document that has a term, in a segment.
LEMMA HavingIs ==
  ASSUME NEW docs \in Seq(Stored), NEW t, NEW n \in Having(docs, t)
  PROVE  /\ n \in Numbers(docs) /\ n \in Nat /\ docs[n + 1].len \in Lengths
         /\ t \in Terms /\ t \in AllTerms(docs)
         /\ PositionsIn(docs, n, t) \in Seq(Int) /\ Len(PositionsIn(docs, n, t)) # 0
         /\ Len(PositionsIn(docs, n, t)) \in Frequencies
<1>1. n \in Numbers(docs) /\ t \in docs[n + 1].terms
  BY DEF Having
<1> DEFINE x == docs[n + 1]
<1>2. x \in Stored /\ n + 1 \in DOMAIN docs /\ n \in Nat
  BY <1>1, NumbersOf
<1>3. t \in AllTerms(docs)
  BY <1>1, <1>2 DEF AllTerms
<1>4. t \in x.terms
  BY <1>1
<1> HIDE DEF x
<1>5. x.len = Length(x.doc) /\ x.doc \in Docs /\ x.terms = UniqueTerms(x.doc)
  BY <1>2, StoredIs
<1>6. x.len \in Lengths
  BY <1>5 DEF Lengths
<1>7. t \in UniqueTerms(x.doc) /\ t \in Terms
  BY <1>4, <1>5 DEF UniqueTerms
<1> DEFINE p == Positions[x.doc][t]
<1>8. p \in Seq(Int) /\ Len(p) # 0 /\ Len(p) \in Frequencies
  BY <1>5, <1>7, PositionsTyped
<1>9. PositionsIn(docs, n, t) = p
  BY DEF PositionsIn, x
<1> HIDE DEF p
<1> QED BY <1>1, <1>2, <1>3, <1>6, <1>7, <1>8, <1>9 DEF x

\* The lists of a segment are right, and so are the metadata of their blocks.
LEMMA ListIs ==
  ASSUME NEW docs \in Seq(Stored), NEW s, s = Build(docs), NEW t \in DOMAIN s.terms,
         NEW list, list = s.terms[t]
  PROVE  ListFacts(list, docs, t) /\ BlockFacts(list, docs)
<1> DEFINE ids == Docids(docs, t)
           freqs == [i \in DOMAIN ids |-> Len(PositionsIn(docs, ids[i], t))]
           positions == [i \in DOMAIN ids |-> PositionsIn(docs, ids[i], t)]
           len == Len(ids)
<1>1. t \in AllTerms(docs) /\ list = FinishBlocks(docs, ids, freqs, positions)
  BY BuildIs
<1>2. /\ ids \in Seq(Nat)
      /\ \A i \in DOMAIN ids : ids[i] \in Having(docs, t)
      /\ \A n \in Having(docs, t) : \E i \in DOMAIN ids : ids[i] = n
      /\ \A i, j \in DOMAIN ids : i < j => ids[i] < ids[j]
  BY DocidsAre
<1>3. len \in Nat /\ DOMAIN ids = 1..len
  BY <1>2
<1>4. len # 0
  <2>1. PICK i \in DOMAIN docs : t \in docs[i].terms
    BY <1>1 DEF AllTerms
  <2>2. i - 1 \in Having(docs, t)
    <3>1. i - 1 \in Numbers(docs) /\ i \in Int
      BY NumbersOf
    <3>2. (i - 1) + 1 = i
      BY <3>1
    <3> QED BY <2>1, <3>1, <3>2 DEF Having
  <2> QED BY <1>2, <1>3, <2>2
<1>5. /\ list.docids = ids /\ list.freqs = freqs /\ list.positions = positions
      /\ list.max_tf = Max(ToSet(freqs)) /\ list.min_len = Min(LengthsOf(docs, ids))
      /\ list.blocks = [k \in 1..CeilDiv(len, BlockSize) |-> BlockMeta(docs, ids, freqs, k)]
  BY <1>1 DEF FinishBlocks
<1>6. ASSUME NEW i \in 1..len
      PROVE  /\ ids[i] \in Having(docs, t) /\ ids[i] \in Numbers(docs)
             /\ docs[ids[i] + 1].len \in Lengths /\ docs[ids[i] + 1].len \in Nat
             /\ freqs[i] \in Frequencies
             /\ positions[i] \in Seq(Int) /\ Len(positions[i]) # 0
  <2>1. ids[i] \in Having(docs, t) /\ i \in DOMAIN ids
    BY <1>2, <1>3
  <2>2. freqs[i] = Len(PositionsIn(docs, ids[i], t)) /\ positions[i] = PositionsIn(docs, ids[i], t)
    BY <2>1
  <2> HIDE DEF ids, freqs, positions
  <2>3. docs[ids[i] + 1].len \in Nat
    <3>1. docs[ids[i] + 1].len \in Lengths
      BY <2>1, HavingIs
    <3> QED BY <3>1, LengthIs DEF Lengths
  <2> QED BY <2>1, <2>2, <2>3, HavingIs
<1>7. ListFacts(list, docs, t)
  <2> HIDE DEF ids, freqs, positions
  <2> QED BY <1>2, <1>3, <1>4, <1>5, <1>6 DEF ListFacts, len
<1>8. Frequencies \subseteq Nat
  <2>1. \A d \in Docs, u \in Terms : Len(Positions[d][u]) \in Nat
    BY PositionsTyped
  <2> QED BY <2>1 DEF Frequencies
<1>9. /\ freqs \in Seq(Frequencies) /\ DOMAIN freqs = 1..len /\ freqs # <<>>
      /\ ids \in Seq(Numbers(docs)) /\ ids # <<>>
  <2>1. freqs \in [1..len -> Frequencies]
    BY <1>3, <1>6
  <2>2. ids \in [1..len -> Numbers(docs)]
    BY <1>2, <1>3, <1>6
  <2> HIDE DEF freqs
  <2>3. freqs \in Seq(Frequencies) /\ Len(freqs) = len
    BY <1>3, <2>1
  <2>4. ids \in Seq(Numbers(docs))
    BY <1>3, <2>2
  <2> QED BY <1>3, <1>4, <2>1, <2>2, <2>3, <2>4
<1> HIDE DEF ids, freqs, positions
<1>10. ASSUME NEW i \in 1..len PROVE Within(list, docs, i, list.max_tf, list.min_len)
  <2>1. list.max_tf \in Frequencies /\ freqs[i] <= list.max_tf
    <3>1. Max(ToSet(freqs)) \in Frequencies /\ \A j \in DOMAIN freqs : freqs[j] <= Max(ToSet(freqs))
      BY <1>8, <1>9, LargestOf
    <3>2. i \in DOMAIN freqs /\ list.max_tf = Max(ToSet(freqs))
      BY <1>5, <1>9
    <3> QED BY <3>1, <3>2
  <2>2. list.min_len \in Lengths /\ list.min_len <= docs[ids[i] + 1].len
    BY <1>3, <1>5, <1>9, ShortestOf
  <2> QED BY <1>5, <2>1, <2>2 DEF Within
<1> DEFINE count == CeilDiv(len, BlockSize)
<1>11. count \in Nat
  BY <1>3, BlocksAre
<1>12. ASSUME NEW k \in 1..count
       PROVE  /\ list.blocks[k].end = Smaller(k * BlockSize, len)
              /\ \A i \in ((k - 1) * BlockSize + 1)..list.blocks[k].end :
                   Within(list, docs, i, list.blocks[k].max_tf, list.blocks[k].min_len)
  <2> DEFINE a == (k - 1) * BlockSize + 1
             b == Smaller(k * BlockSize, len)
             F == SubSeq(freqs, a, b)
             I == SubSeq(ids, a, b)
  <2>1. /\ list.blocks[k].end = b
        /\ list.blocks[k].max_tf = Max(ToSet(F))
        /\ list.blocks[k].min_len = Min(LengthsOf(docs, I))
    BY <1>5 DEF BlockMeta
  <2>2. a \in 1..len /\ b \in 1..len /\ a <= b
    BY <1>3, BlockHas
  <2> HIDE DEF a, b
  <2>6. /\ a \in DOMAIN freqs /\ b \in DOMAIN freqs
        /\ a \in DOMAIN ids /\ b \in DOMAIN ids
    BY <1>3, <1>9, <2>2
  <2>3. /\ F \in Seq(Frequencies) /\ F # <<>>
        /\ \A i \in a..b : \E j \in DOMAIN F : F[j] = freqs[i]
    <3> HIDE DEF len
    <3> QED BY <1>9, <2>2, <2>6, StretchOf, ZenonT(60)
  <2>4. /\ I \in Seq(Numbers(docs)) /\ I # <<>>
        /\ \A i \in a..b : \E j \in DOMAIN I : I[j] = ids[i]
    <3> HIDE DEF len
    <3> QED BY <1>9, <2>2, <2>6, StretchOf, ZenonT(60)
  <2> HIDE DEF F, I
  <2>5. ASSUME NEW i \in a..b
        PROVE  Within(list, docs, i, list.blocks[k].max_tf, list.blocks[k].min_len)
    <3>1. PICK j \in DOMAIN F : F[j] = freqs[i]
      BY <2>3
    <3>2. Max(ToSet(F)) \in Frequencies /\ F[j] <= Max(ToSet(F))
      BY <1>8, <2>3, LargestOf
    <3>3. PICK l \in DOMAIN I : I[l] = ids[i]
      BY <2>4
    <3>4. Min(LengthsOf(docs, I)) \in Lengths /\ Min(LengthsOf(docs, I)) <= docs[I[l] + 1].len
      BY <2>4, ShortestOf
    <3> QED BY <1>5, <2>1, <3>1, <3>2, <3>3, <3>4 DEF Within
  <2> QED BY <2>1, <2>5 DEF a, b
<1>13. Len(list.blocks) = count
  <2>1. DOMAIN list.blocks = 1..count
    BY <1>5
  <2> HIDE DEF count
  <2>2. list.blocks = [k \in 1..count |-> BlockMeta(docs, ids, freqs, k)]
    BY <1>5 DEF count
  <2> QED BY <1>11, <2>1, <2>2
<1>14. BlockFacts(list, docs)
  <2> HIDE DEF count
  <2>1. \A k \in 1..Len(list.blocks) : k \in 1..count
    BY <1>13
  <2>2. DOMAIN list.docids = 1..len /\ Len(list.docids) = len
    BY <1>3, <1>5
  <2>3. \A k \in 1..count :
              /\ list.blocks[k].end = Smaller(k * BlockSize, len)
              /\ \A i \in ((k - 1) * BlockSize + 1)..list.blocks[k].end :
                   Within(list, docs, i, list.blocks[k].max_tf, list.blocks[k].min_len)
    BY <1>12
  <2>4. Len(list.blocks) = CeilDiv(Len(list.docids), BlockSize)
    BY <1>13, <2>2 DEF count
  <2> HIDE DEF len
  <2> QED BY <1>10, <2>1, <2>2, <2>3, <2>4 DEF BlockFacts
<1> QED BY <1>7, <1>14


-----------------------------------------------------------------------------
(* The snapshot that is searched.                                          *)

\* Its commits are applied one after the other.
LEMMA HistoryGood ==
  ASSUME NEW history \in Histories,
         NEW s, s = Replay(Default, [n \in DOMAIN history |->
                      [generation |-> n, operations |-> history[n]]])
  PROVE  Good(s) /\ Counted(s)
<1> DEFINE X == [generation : Nat, operations : RowTransactions]
           commits == [n \in DOMAIN history |->
                         [generation |-> n, operations |-> history[n]]]
           len == Len(commits)
<1>1. history \in Seq(RowTransactions)
  BY SearchAssumption
<1>2. commits \in Seq(X) /\ \A n \in 1..len : commits[n].generation = n /\ commits[n] \in X
  <2> DEFINE k == Len(history)
  <2>1. k \in Nat /\ DOMAIN history = 1..k /\ \A n \in 1..k : history[n] \in RowTransactions
    BY <1>1
  <2> HIDE DEF k
  <2>2. commits \in [1..k -> X]
    BY <2>1
  <2>3. commits \in Seq(X) /\ len = k
    BY <2>1, <2>2
  <2>4. \A n \in 1..k : commits[n].generation = n
    BY <2>1
  <2> HIDE DEF commits, X
  <2> QED BY <2>2, <2>3, <2>4
<1>3. s = Replay(Default, commits)
  OBVIOUS
<1> HIDE DEF commits
<1>4. len \in Nat
  BY <1>2
<1>5. PICK f : Unrolled(Default, commits, len, f) /\ s = f[len]
  <2> HIDE DEF X
  <2>1. commits \in Seq(X)
    BY <1>2
  <2>2. \E f : Unrolled(Default, commits, Len(commits), f) /\ Replay(Default, commits) = f[Len(commits)]
    BY <2>1, ReplayIs
  <2> QED BY <1>3, <2>2
<1>6. f[0] = Default /\ \A n \in 1..len : f[n] = Applied(f[n - 1], commits[n])
  BY <1>4, <1>5, UnrolledHas DEF Linked
<1> HIDE DEF len
<1> DEFINE Bad == {n \in Nat : n <= len /\ ~(Good(f[n]) /\ Counted(f[n]))}
<1>7. ASSUME Bad # {} PROVE FALSE
  <2>1. PICK n \in Bad : \A m \in Bad : n <= m
    <3>1. Bad \subseteq Nat
      OBVIOUS
    <3> HIDE DEF Bad
    <3> QED BY <1>7, <3>1, Least
  <2>2. n \in Nat /\ n <= len /\ ~(Good(f[n]) /\ Counted(f[n]))
    BY <2>1
  <2>3. n # 0
    <3>1. Good(Default)
      BY EmptyGood
    <3> QED BY <1>6, <2>2, <3>1, NoneCounted
  <2> DEFINE m == n - 1
             p == f[m]
             commit == commits[n]
  <2>4. m \in Nat /\ m < n /\ m <= len /\ n \in 1..len
    BY <1>4, <2>2, <2>3
  <2>5. Good(p) /\ Counted(p)
    <3>1. m \notin Bad
      <4> HIDE DEF Bad
      <4>1. ~(n <= m)
        BY <2>2, <2>4
      <4> QED BY <2>1, <4>1
    <3> QED BY <2>4, <3>1
  <2>6. f[n] = Applied(p, commit)
    BY <1>6, <2>4
  <2>7. commit \in X
    BY <1>2, <2>4
  <2> DEFINE g == commit.generation
             tx == commit.operations
             c == WithCommit(p, g, tx)
  <2>8. g \in Nat /\ tx \in RowTransactions
    BY <2>7
  <2> HIDE DEF p, commit, m, g, tx
  <2>9. Good(c) /\ Counted(c)
    BY <2>5, <2>8, TransactionGood, TransactionCounted
  <2>10. f[n] = p \/ f[n] = c
    BY <2>6, SMTT(30) DEF Applied, g, tx
  <2> QED BY <2>2, <2>5, <2>9, <2>10
<1> QED BY <1>4, <1>5, <1>7

\* A segment of a good snapshot.
LEMMA SegmentBuilt ==
  ASSUME NEW s, Good(s), NEW i \in Numbers(s.segments),
         NEW segment_, segment_ = s.segments[i + 1], NEW docs, docs = segment_.docs
  PROVE  /\ docs \in Seq(Stored) /\ docs # <<>> /\ segment_ = Build(docs)
         /\ DOMAIN segment_.terms = AllTerms(docs)
         /\ \A t \in DOMAIN segment_.terms :
              ListFacts(segment_.terms[t], docs, t) /\ BlockFacts(segment_.terms[t], docs)
         /\ \A t : Having(docs, t) # {} => t \in DOMAIN segment_.terms
<1>1. s.segments \in Seq(Segments)
  BY DEF Good
<1>2. segment_ \in Segments
  BY <1>1, NumbersOf
<1>3. docs \in Seq(Stored) /\ docs # <<>> /\ segment_ = Build(docs)
  BY <1>2, SegmentIs
<1>4. DOMAIN segment_.terms = AllTerms(docs)
  BY <1>3, BuildIs
<1>5. ASSUME NEW t \in DOMAIN segment_.terms
      PROVE  ListFacts(segment_.terms[t], docs, t) /\ BlockFacts(segment_.terms[t], docs)
  BY <1>3, ListIs
<1>6. ASSUME NEW t, Having(docs, t) # {} PROVE t \in DOMAIN segment_.terms
  <2>1. PICK n \in Having(docs, t) : TRUE
    BY <1>6
  <2> QED BY <1>3, <1>4, <2>1, HavingIs
<1> QED BY <1>3, <1>4, <1>5, <1>6


-----------------------------------------------------------------------------
(* Scores.                                                                 *)

Segment(i) == snapshot.segments[i + 1]

\* The terms that score in document n of segment i, and what each adds.
Scorers(i, n, terms) ==
  {t \in terms \cap DOMAIN Segment(i).terms : n \in ToSet(Segment(i).terms[t].docids)}
Part(i, n, t) ==
  Bm25(t, Segment(i).terms[t].freqs[Find(Segment(i).terms[t], n)], Segment(i).docs[n + 1].len)

\* The scores of larger frequencies and shorter documents.
LEMMA ScoresGrow ==
  ASSUME NEW t \in Terms, NEW f \in Frequencies, NEW g \in Frequencies,
         NEW l \in Lengths, NEW m \in Lengths, f <= g, m <= l
  PROVE  Bm25(t, f, l) \in Nat /\ Bm25(t, g, m) \in Nat /\ Bm25(t, f, l) <= Bm25(t, g, m)
BY SearchAssumption

\* Its lists are right.
LEMMA SegmentFacts ==
  ASSUME Good(snapshot), NEW i \in Numbers(snapshot.segments)
  PROVE  /\ Segment(i).docs \in Seq(Stored)
         /\ \A t \in DOMAIN Segment(i).terms :
              /\ ListFacts(Segment(i).terms[t], Segment(i).docs, t)
              /\ BlockFacts(Segment(i).terms[t], Segment(i).docs)
         /\ \A t : Having(Segment(i).docs, t) # {} => t \in DOMAIN Segment(i).terms
<1> DEFINE this == snapshot.segments[i + 1]
           docs == this.docs
<1>1. /\ docs \in Seq(Stored)
      /\ \A t \in DOMAIN this.terms :
           ListFacts(this.terms[t], docs, t) /\ BlockFacts(this.terms[t], docs)
      /\ \A t : Having(docs, t) # {} => t \in DOMAIN this.terms
  BY SegmentBuilt, ZenonT(60)
<1> QED BY <1>1, ZenonT(60) DEF Segment

\* A posting is found where it is.
LEMMA PartIs ==
  ASSUME Good(snapshot), NEW i \in Numbers(snapshot.segments),
         NEW t \in DOMAIN Segment(i).terms, NEW list, list = Segment(i).terms[t],
         NEW j \in DOMAIN list.docids
  PROVE  /\ list.docids[j] \in Numbers(Segment(i).docs) /\ list.docids[j] \in Nat
         /\ t \in Terms /\ t \in Segment(i).docs[list.docids[j] + 1].terms
         /\ \A k \in DOMAIN list.docids : list.docids[k] = list.docids[j] => k = j
         /\ Find(list, list.docids[j]) = j
         /\ Part(i, list.docids[j], t) \in Nat
<1> DEFINE docs == Segment(i).docs
           n == list.docids[j]
<1>1. docs \in Seq(Stored) /\ ListFacts(list, docs, t)
  BY SegmentFacts
<1> HIDE DEF docs
<1>2. n \in Having(docs, t) /\ docs[n + 1].len \in Lengths /\ list.freqs[j] \in Frequencies
  BY <1>1 DEF ListFacts
<1>3. n \in Numbers(docs) /\ n \in Nat /\ t \in Terms /\ t \in docs[n + 1].terms
  BY <1>1, <1>2, HavingIs DEF Having
<1>4. ASSUME NEW k \in DOMAIN list.docids, list.docids[k] = n PROVE k = j
  <2>1. list.docids \in Seq(Nat)
    BY <1>1 DEF ListFacts
  <2>2. ~(k < j) /\ ~(j < k)
    BY <1>1, <1>3, <1>4 DEF ListFacts
  <2>3. k \in Int /\ j \in Int
    BY <2>1
  <2> QED BY <2>2, <2>3
<1>5. Find(list, n) = j
  BY <1>4 DEF Find
<1>6. Part(i, n, t) = Bm25(t, list.freqs[j], docs[n + 1].len)
  BY <1>5 DEF Part, docs
<1>7. Part(i, n, t) \in Nat
  <2>1. list.freqs[j] <= list.freqs[j] /\ docs[n + 1].len <= docs[n + 1].len
    <3>1. list.freqs[j] \in Nat
      <4>1. \A d \in Docs, u \in Terms : Len(Positions[d][u]) \in Nat
        BY PositionsTyped
      <4> QED BY <1>2, <4>1 DEF Frequencies
    <3>2. docs[n + 1].len \in Nat
      BY <1>2, LengthIs DEF Lengths
    <3> QED BY <3>1, <3>2
  <2> QED BY <1>2, <1>3, <1>6, <2>1, ScoresGrow
<1>8. ASSUME NEW f, NEW l, Within(list, docs, j, f, l)
      PROVE  Bm25(t, f, l) \in Nat /\ Part(i, n, t) <= Bm25(t, f, l)
  BY <1>2, <1>3, <1>6, <1>8, ScoresGrow DEF Within
<1> QED BY <1>3, <1>4, <1>5, <1>7, <1>8 DEF docs

\* It adds no more than a bound of which it is within.
LEMMA PartWithin ==
  ASSUME Good(snapshot), NEW i \in Numbers(snapshot.segments),
         NEW t \in DOMAIN Segment(i).terms, NEW list, list = Segment(i).terms[t],
         NEW j \in DOMAIN list.docids, NEW f, NEW l, Within(list, Segment(i).docs, j, f, l)
  PROVE  /\ Bm25(t, f, l) \in Nat /\ Part(i, list.docids[j], t) \in Nat
         /\ Part(i, list.docids[j], t) <= Bm25(t, f, l)
<1> DEFINE docs == Segment(i).docs
           n == list.docids[j]
<1>1. Find(list, n) = j /\ t \in Terms /\ Part(i, n, t) \in Nat
  BY PartIs
<1>2. docs[n + 1].len \in Lengths /\ list.freqs[j] \in Frequencies
  BY SegmentFacts DEF ListFacts
<1>3. Part(i, n, t) = Bm25(t, list.freqs[j], docs[n + 1].len)
  BY <1>1 DEF Part
<1>4. /\ f \in Frequencies /\ l \in Lengths
      /\ list.freqs[j] <= f /\ l <= docs[n + 1].len
  BY DEF Within
<1> HIDE DEF docs, n
<1>5. Bm25(t, f, l) \in Nat /\ Part(i, n, t) <= Bm25(t, f, l)
  BY <1>1, <1>2, <1>3, <1>4, ScoresGrow
<1> QED BY <1>1, <1>5 DEF n

\* A term scores in a document where its list has it.
LEMMA ScorersAre ==
  ASSUME Good(snapshot), NEW i \in Numbers(snapshot.segments), NEW n, NEW terms, NEW t
  PROVE  t \in Scorers(i, n, terms) <=>
           /\ t \in terms /\ t \in DOMAIN Segment(i).terms
           /\ \E j \in DOMAIN Segment(i).terms[t].docids : Segment(i).terms[t].docids[j] = n
<1> SUFFICES ASSUME t \in DOMAIN Segment(i).terms
             PROVE  n \in ToSet(Segment(i).terms[t].docids) <=>
                      \E j \in DOMAIN Segment(i).terms[t].docids : Segment(i).terms[t].docids[j] = n
  BY DEF Scorers
<1>1. ListFacts(Segment(i).terms[t], Segment(i).docs, t)
  BY SegmentFacts
<1>2. Segment(i).terms[t].docids \in Seq(Nat)
  BY <1>1 DEF ListFacts
<1> QED BY <1>2, ToSetIs

\* The same, by the terms of the document.
LEMMA ScorersHave ==
  ASSUME Good(snapshot), NEW i \in Numbers(snapshot.segments),
         NEW n \in Numbers(Segment(i).docs), NEW terms
  PROVE  Scorers(i, n, terms) = terms \cap Segment(i).docs[n + 1].terms
<1> DEFINE docs == Segment(i).docs
<1>1. ASSUME NEW t \in Scorers(i, n, terms) PROVE t \in terms \cap docs[n + 1].terms
  <2>1. /\ t \in terms /\ t \in DOMAIN Segment(i).terms
        /\ \E j \in DOMAIN Segment(i).terms[t].docids : Segment(i).terms[t].docids[j] = n
    BY ScorersAre
  <2> QED BY <2>1, PartIs
<1>2. ASSUME NEW t \in terms, t \in docs[n + 1].terms PROVE t \in Scorers(i, n, terms)
  <2>1. n \in Having(docs, t)
    BY <1>2 DEF Having
  <2>2. /\ t \in DOMAIN Segment(i).terms
        /\ (t \in DOMAIN Segment(i).terms => ListFacts(Segment(i).terms[t], docs, t))
    BY <2>1, SegmentFacts
  <2>3. \E j \in DOMAIN Segment(i).terms[t].docids : Segment(i).terms[t].docids[j] = n
    BY <2>1, <2>2 DEF ListFacts
  <2> QED BY <2>2, <2>3, ScorersAre
<1> QED BY <1>1, <1>2

\* A score is a sum of natural numbers.
LEMMA ScoreIs ==
  ASSUME Good(snapshot), NEW i \in Numbers(snapshot.segments), NEW n, NEW terms
  PROVE  /\ IsFiniteSet(Scorers(i, n, terms)) /\ Scorers(i, n, terms) \subseteq Terms
         /\ \A t \in Scorers(i, n, terms) : Part(i, n, t) \in Nat
         /\ Score(i, n, terms) = SumFunction([t \in Scorers(i, n, terms) |-> Part(i, n, t)])
         /\ Score(i, n, terms) \in Nat
<1> DEFINE S == Scorers(i, n, terms)
<1>1. ASSUME NEW t \in S PROVE t \in Terms /\ Part(i, n, t) \in Nat
  <2>1. /\ t \in DOMAIN Segment(i).terms
        /\ \E j \in DOMAIN Segment(i).terms[t].docids : Segment(i).terms[t].docids[j] = n
    BY ScorersAre
  <2> DEFINE list == Segment(i).terms[t]
  <2>2. PICK j \in DOMAIN list.docids : list.docids[j] = n
    BY <2>1
  <2>4. list = Segment(i).terms[t]
    OBVIOUS
  <2> HIDE DEF list
  <2>3. t \in Terms /\ Part(i, list.docids[j], t) \in Nat
    BY <2>1, <2>4, PartIs
  <2> QED BY <2>2, <2>3
<1>2. IsFiniteSet(S)
  <2>1. IsFiniteSet(Terms)
    BY SearchAssumption
  <2>2. S \in SUBSET Terms
    BY <1>1
  <2> QED BY <2>1, <2>2, FS_Subset
<1>3. Score(i, n, terms) = SumFunction([t \in S |-> Part(i, n, t)])
  BY DEF Score, Scorers, Part, Segment
<1>4. [t \in S |-> Part(i, n, t)] \in [S -> Nat]
  BY <1>1
<1> HIDE DEF S
<1>5. SumFunction([t \in S |-> Part(i, n, t)]) \in Nat
  BY <1>2, <1>4, SumIs
<1> QED BY <1>1, <1>2, <1>3, <1>5 DEF S

\* Terms that score in no other way make no difference.
LEMMA SameScore ==
  ASSUME NEW i, NEW n, NEW terms, NEW more, Scorers(i, n, terms) = Scorers(i, n, more)
  PROVE  RankedDoc(i, n, terms) = RankedDoc(i, n, more)
<1>1. /\ Score(i, n, terms) = SumFunction([t \in Scorers(i, n, terms) |-> Part(i, n, t)])
      /\ Score(i, n, more) = SumFunction([t \in Scorers(i, n, more) |-> Part(i, n, t)])
  BY DEF Score, Scorers, Part, Segment
<1> QED BY <1>1 DEF RankedDoc

\* A score is no more than the bounds of some lists, if they cover its terms.
LEMMA ScoreBelow ==
  ASSUME Good(snapshot), NEW i \in Numbers(snapshot.segments), NEW n, NEW terms,
         NEW B, IsFiniteSet(B), NEW g \in [B -> Nat],
         NEW e \in [Scorers(i, n, terms) -> B],
         \A t, u \in Scorers(i, n, terms) : e[t] = e[u] => t = u,
         \A t \in Scorers(i, n, terms) : Part(i, n, t) <= g[e[t]]
  PROVE  Score(i, n, terms) <= SumFunction(g)
<1> DEFINE S == Scorers(i, n, terms)
           f == [t \in S |-> Part(i, n, t)]
<1>1. IsFiniteSet(S) /\ f \in [S -> Nat] /\ Score(i, n, terms) = SumFunction(f)
  BY ScoreIs
<1>2. \A t \in S : f[t] <= g[e[t]]
  OBVIOUS
<1> HIDE DEF S, f
<1>3. SumFunction(f) <= SumFunction(g)
  BY <1>1, <1>2, SumInto DEF S
<1> QED BY <1>1, <1>3


\* The bounds of the current segment are bounds.
LEMMA ListBoundIs ==
  ASSUME Good(snapshot), segment \in Numbers(snapshot.segments), NEW t \in DOMAIN Here.terms
  PROVE  /\ ListBound(t) \in Nat
         /\ \A j \in DOMAIN List(t).docids : Part(segment, List(t).docids[j], t) <= ListBound(t)
<1> DEFINE list == List(t)
           b == Bm25(t, list.max_tf, list.min_len)
<1>1. list = Segment(segment).terms[t] /\ t \in DOMAIN Segment(segment).terms
  BY DEF List, Here, Segment
<1>2. /\ ListFacts(list, Segment(segment).docs, t)
      /\ BlockFacts(list, Segment(segment).docs)
  BY <1>1, SegmentFacts
<1>3. ListBound(t) = Quantize(b)
  BY DEF ListBound
<1> HIDE DEF list
<1>4. ASSUME NEW j \in DOMAIN list.docids
      PROVE  b \in Nat /\ Part(segment, list.docids[j], t) \in Nat
             /\ Part(segment, list.docids[j], t) <= b
  <2>1. Within(list, Segment(segment).docs, j, list.max_tf, list.min_len)
    BY <1>2 DEF BlockFacts
  <2> QED BY <1>1, <2>1, PartWithin DEF b
<1>5. \E j \in DOMAIN list.docids : TRUE
  <2>1. list.docids \in Seq(Nat) /\ Len(list.docids) # 0
    BY <1>2 DEF ListFacts
  <2>2. 1 \in DOMAIN list.docids
    BY <2>1
  <2> QED BY <2>2
<1>6. b \in Nat
  BY <1>4, <1>5
<1> HIDE DEF b
<1>7. Quantize(b) \in Nat /\ b <= Quantize(b)
  BY <1>6, QuantizeUp
<1>8. \A j \in DOMAIN list.docids : Part(segment, list.docids[j], t) <= ListBound(t)
  BY <1>3, <1>4, <1>6, <1>7
<1> QED BY <1>3, <1>7, <1>8 DEF list

LEMMA BlockBoundIs ==
  ASSUME Good(snapshot), segment \in Numbers(snapshot.segments), NEW t \in DOMAIN Here.terms,
         NEW k \in 1..Len(List(t).blocks)
  PROVE  /\ BlockBound(t, k) \in Nat
         /\ List(t).blocks[k].end = Smaller(k * BlockSize, Len(List(t).docids))
         /\ \A j \in ((k - 1) * BlockSize + 1)..List(t).blocks[k].end :
              /\ j \in DOMAIN List(t).docids
              /\ Part(segment, List(t).docids[j], t) <= BlockBound(t, k)
<1> DEFINE list == List(t)
           bl == list.blocks[k]
           b == Bm25(t, bl.max_tf, bl.min_len)
           a == (k - 1) * BlockSize + 1
           len == Len(list.docids)
<1>1. list = Segment(segment).terms[t] /\ t \in DOMAIN Segment(segment).terms
  BY DEF List, Here, Segment
<1>2. /\ ListFacts(list, Segment(segment).docs, t)
      /\ BlockFacts(list, Segment(segment).docs)
  BY <1>1, SegmentFacts
<1>3. BlockBound(t, k) = Quantize(b)
  BY DEF BlockBound
<1> HIDE DEF list
<1>4. list.docids \in Seq(Nat) /\ len \in Nat /\ DOMAIN list.docids = 1..len
  BY <1>2 DEF ListFacts
<1>5. k \in 1..CeilDiv(len, BlockSize) /\ bl.end = Smaller(k * BlockSize, len)
  BY <1>2 DEF BlockFacts, list
<1>6. a \in 1..len /\ bl.end \in 1..len /\ a <= bl.end
  BY <1>4, <1>5, BlockHas
<1> HIDE DEF a, len
<1>7. ASSUME NEW j \in a..bl.end
      PROVE  /\ j \in DOMAIN list.docids
             /\ b \in Nat /\ Part(segment, list.docids[j], t) \in Nat
             /\ Part(segment, list.docids[j], t) <= b
  <2>1. j \in DOMAIN list.docids
    BY <1>4, <1>6
  <2>2. Within(list, Segment(segment).docs, j, bl.max_tf, bl.min_len)
    BY <1>2 DEF BlockFacts, a, list
  <2> QED BY <1>1, <2>1, <2>2, PartWithin DEF b
<1>8. b \in Nat
  <2>1. a \in a..bl.end
    BY <1>4, <1>6
  <2> QED BY <1>7, <2>1
<1> HIDE DEF b
<1>9. Quantize(b) \in Nat /\ b <= Quantize(b)
  BY <1>8, QuantizeUp
<1>10. \A j \in a..bl.end : /\ j \in DOMAIN list.docids
                            /\ Part(segment, list.docids[j], t) <= BlockBound(t, k)
  BY <1>3, <1>7, <1>8, <1>9
<1> QED BY <1>3, <1>5, <1>9, <1>10 DEF list, a, len

-----------------------------------------------------------------------------
(* What a search may find.                                                 *)

\* The live documents that match.
Matching(i, n) ==
  IsLive(snapshot, i, n) /\ Matches(Segment(i), n, query)

LEMMA CandidatesAre ==
  ASSUME Good(snapshot)
  PROVE  /\ \A h : h \in Candidates <=>
              \E i \in Numbers(snapshot.segments) : \E n \in Numbers(Segment(i).docs) :
                Matching(i, n) /\ h = RankedDoc(i, n, Scoring)
         /\ Rankable(Candidates)
         /\ Candidates \subseteq Hit
<1> DEFINE s == snapshot
           R == {r \in LiveRows(s) : Considered(s.latest[r])}
           Of(r) == RankedDoc(s.latest[r].segment, s.latest[r].docid, Scoring)
<1>1. Candidates = {Of(r) : r \in R}
  BY SMTT(30) DEF Candidates
<1>2. ASSUME NEW r \in R
      PROVE  /\ s.latest[r].segment \in Numbers(s.segments)
             /\ s.latest[r].docid \in Numbers(Segment(s.latest[r].segment).docs)
             /\ Matching(s.latest[r].segment, s.latest[r].docid)
             /\ Of(r).row = r /\ r \in Rows /\ Of(r).score \in Nat /\ Of(r) \in Hit
  <2> DEFINE i == s.latest[r].segment
             n == s.latest[r].docid
  <2>1. i \in Numbers(s.segments) /\ n \in Numbers(s.segments[i + 1].docs)
    BY SMTT(30) DEF Good, Located
  <2>2. s.segments[i + 1].docs[n + 1].row = r /\ r \in Rows
    BY DEF Good, Located, DocAt, LiveRows
  <2>3. IsLatest(s, i, n)
    BY <2>2 DEF IsLatest
  <2>4. IsLive(s, i, n)
    BY <2>1, <2>3 DEF Good, Masked
  <2>5. Matches(Segment(i), n, query)
    BY DEF Segment, Considered
  <2>6. i \in Nat /\ n \in Nat
    <3>1. s.latest[r] \in [segment : Nat, docid : Nat, deleted : BOOLEAN]
      BY DEF Good, Located, LiveRows
    <3> QED BY <3>1
  <2> DEFINE h == RankedDoc(i, n, Scoring)
  <2>7. Score(i, n, Scoring) \in Nat
    BY <2>1, ScoreIs
  <2>8. h.row = r /\ h.score \in Nat /\ h \in Hit
    BY <2>2, <2>6, <2>7 DEF RankedDoc, Hit
  <2> QED BY <2>1, <2>2, <2>4, <2>5, <2>8 DEF Matching, Segment
<1>3. ASSUME NEW i \in Numbers(s.segments), NEW n \in Numbers(Segment(i).docs), Matching(i, n)
      PROVE  \E r \in R : RankedDoc(i, n, Scoring) = Of(r)
  <2>1. IsLatest(s, i, n)
    BY <1>3, SMTT(30) DEF Good, Masked, Matching, Segment
  <2> DEFINE r == s.segments[i + 1].docs[n + 1].row
  <2>2. r \in LiveRows(s) /\ s.latest[r].segment = i /\ s.latest[r].docid = n
    BY <2>1 DEF IsLatest
  <2> HIDE DEF r
  <2>3. r \in R
    BY <1>3, <2>2 DEF Matching, Segment, Considered
  <2> QED BY <2>2, <2>3
<1>4. ASSUME NEW h
      PROVE  h \in Candidates <=>
               \E i \in Numbers(snapshot.segments) : \E n \in Numbers(Segment(i).docs) :
                 Matching(i, n) /\ h = RankedDoc(i, n, Scoring)
  <2> HIDE DEF R
  <2> QED BY <1>1, <1>2, <1>3
<1>5. IsFiniteSet(Candidates)
  <2>1. IsFiniteSet(LiveRows(s))
    BY PresentIs
  <2>2. IsFiniteSet(R)
    <3>1. R \in SUBSET LiveRows(s)
      OBVIOUS
    <3> HIDE DEF R
    <3> QED BY <2>1, <3>1, FS_Subset
  <2> DEFINE f == [r \in R |-> Of(r)]
  <2>3. f \in Surjection(R, Candidates)
    <3> HIDE DEF R
    <3> QED BY <1>1 DEF Surjection
  <2> HIDE DEF f
  <2> QED BY <2>2, <2>3, FS_Surjection
<1> HIDE DEF R
<1>6. \A h \in Candidates : h.score \in Nat /\ h.row \in Int /\ h \in Hit
  <2>1. Rows \subseteq Int
    BY IndexAssumption
  <2> QED BY <1>1, <1>2, <2>1
<1>7. \A g, h \in Candidates : g.row = h.row => g = h
  <2> HIDE DEF Of
  <2>1. ASSUME NEW q \in R, NEW r \in R, Of(q).row = Of(r).row PROVE Of(q) = Of(r)
    BY <1>2, <2>1
  <2> QED BY <1>1, <2>1
<1> QED BY <1>4, <1>5, <1>6, <1>7 DEF Rankable


-----------------------------------------------------------------------------
(* Queries.                                                                *)

PartsOnly(F, V) ==
  \A q \in Queries : \A f, g \in [Queries -> V] :
    (\A p \in Parts(q) : f[p] = g[p]) => F[q][f] = F[q][g]

Solved(F, V) == \E g \in [Queries -> V] : \A q \in Queries : g[q] = F[q][g]

\* What is defined for a query by its parts is defined.
LEMMA TreeRecursion ==
  ASSUME NEW V, V # {}, NEW F \in [Queries -> [[Queries -> V] -> V]], PartsOnly(F, V)
  PROVE  Solved(F, V)
<1> DEFINE G == [Queries -> V]
           Works(f, n) == \A q \in Queries : Height[q] < n => f[q] = F[q][f]
<1>1. \A q \in Queries : Height[q] \in Nat /\ \A p \in Parts(q) : p \in Queries /\ Height[p] < Height[q]
  BY HeightAssumption, QueryAssumption
<1>2. \A q \in Queries : \A f \in G : F[q][f] \in V
  OBVIOUS
<1>3. \A n \in Nat : \E f \in G : Works(f, n)
  <2> DEFINE Bad == {n \in Nat : ~(\E f \in G : Works(f, n))}
  <2> SUFFICES ASSUME Bad # {} PROVE FALSE
    OBVIOUS
  <2>1. PICK n \in Bad : \A m \in Bad : n <= m
    <3>1. Bad \subseteq Nat
      OBVIOUS
    <3> HIDE DEF Bad
    <3> QED BY <3>1, Least
  <2>2. n # 0
    <3>1. PICK v \in V : TRUE
      OBVIOUS
    <3> DEFINE f == [q \in Queries |-> v]
    <3>2. f \in G
      OBVIOUS
    <3>3. Works(f, 0)
      BY <1>1
    <3> HIDE DEF f, Works
    <3> QED BY <3>2, <3>3
  <2> DEFINE m == n - 1
  <2>3. m \in Nat /\ m < n /\ n = m + 1
    BY <2>2
  <2>4. PICK f \in G : Works(f, m)
    <3>1. m \notin Bad
      <4> HIDE DEF Bad
      <4> QED BY <2>1, <2>3
    <3> HIDE DEF Works
    <3> QED BY <2>3, <3>1
  <2> DEFINE h == [q \in Queries |-> F[q][f]]
  <2>5. h \in G
    BY <1>2
  <2>6. ASSUME NEW q \in Queries, Height[q] < n PROVE h[q] = F[q][h]
    <3>1. \A p \in Parts(q) : h[p] = f[p]
      <4>1. ASSUME NEW p \in Parts(q) PROVE h[p] = f[p]
        <5>1. p \in Queries /\ Height[p] \in Nat /\ Height[q] \in Nat /\ Height[p] < Height[q]
          BY <1>1
        <5>2. Height[p] < m
          BY <2>3, <2>6, <5>1
        <5>3. f[p] = F[p][f]
          BY <2>4, <5>1, <5>2
        <5> QED BY <5>1, <5>3
      <4> QED BY <4>1
    <3>2. h[q] = F[q][f]
      OBVIOUS
    <3> HIDE DEF h, Works
    <3>3. F[q][h] = F[q][f]
      BY <2>5, <3>1 DEF PartsOnly
    <3> QED BY <3>2, <3>3
  <2>7. Works(h, n)
    BY <2>6
  <2> HIDE DEF h, Works
  <2> QED BY <2>1, <2>5, <2>7
<1>4. ASSUME NEW n \in Nat, NEW m \in Nat, NEW f \in G, NEW g \in G, Works(f, n), Works(g, m)
      PROVE  \A q \in Queries : Height[q] < n /\ Height[q] < m => f[q] = g[q]
  <2> DEFINE Bad == {k \in Nat : \E q \in Queries :
                       Height[q] = k /\ Height[q] < n /\ Height[q] < m /\ f[q] # g[q]}
  <2> SUFFICES ASSUME Bad # {} PROVE FALSE
    BY <1>1
  <2>1. PICK k \in Bad : \A j \in Bad : k <= j
    <3>1. Bad \subseteq Nat
      OBVIOUS
    <3> HIDE DEF Bad
    <3> QED BY <3>1, Least
  <2>2. PICK q \in Queries : Height[q] = k /\ Height[q] < n /\ Height[q] < m /\ f[q] # g[q]
    BY <2>1
  <2>3. \A p \in Parts(q) : f[p] = g[p]
    <3>1. ASSUME NEW p \in Parts(q), f[p] # g[p] PROVE FALSE
      <4>1. p \in Queries /\ Height[p] \in Nat /\ Height[q] \in Nat /\ Height[p] < Height[q]
        BY <1>1
      <4>2. Height[p] \in Bad
        <5>1. Height[p] < n /\ Height[p] < m
          BY <1>4, <2>2, <4>1
        <5> QED BY <3>1, <4>1, <5>1
      <4> HIDE DEF Bad
      <4>3. ~(Height[q] <= Height[p])
        BY <4>1
      <4> QED BY <2>1, <2>2, <4>2, <4>3
    <3> QED BY <3>1
  <2>4. F[q][f] = F[q][g]
    BY <2>3 DEF PartsOnly
  <2> QED BY <1>4, <2>2, <2>4
<1> DEFINE h == [n \in Nat |-> CHOOSE f \in G : Works(f, n)]
           g == [q \in Queries |-> h[Height[q] + 1][q]]
<1>5. \A n \in Nat : h[n] \in G /\ Works(h[n], n)
  <2> HIDE DEF Works
  <2> QED BY <1>3
<1> HIDE DEF h
<1>6. ASSUME NEW q \in Queries PROVE g[q] = F[q][g] /\ g[q] \in V
  <2> DEFINE n == Height[q] + 1
             f == h[n]
  <2>1. n \in Nat /\ Height[q] < n /\ f \in G /\ Works(f, n)
    BY <1>1, <1>5
  <2>2. g[q] = f[q]
    OBVIOUS
  <2>3. ASSUME NEW p \in Parts(q) PROVE g[p] = f[p]
    <3> DEFINE m == Height[p] + 1
    <3>1. p \in Queries /\ Height[p] \in Nat /\ Height[q] \in Nat /\ Height[p] < Height[q]
      BY <1>1
    <3>2. m \in Nat /\ Height[p] < m /\ Height[p] < n
      BY <3>1
    <3>3. g[p] = h[m][p]
      BY <3>1
    <3>4. h[m] \in G /\ Works(h[m], m)
      BY <1>5, <3>2
    <3> HIDE DEF f, n, m, Works, g
    <3>5. h[m][p] = f[p]
      BY <1>4, <2>1, <3>1, <3>2, <3>4
    <3> QED BY <3>3, <3>5
  <2>4. f[q] = F[q][f]
    BY <2>1
  <2>5. g \in G
    <3>1. ASSUME NEW r \in Queries PROVE h[Height[r] + 1][r] \in V
      <4>1. Height[r] + 1 \in Nat
        BY <1>1
      <4>2. h[Height[r] + 1] \in G
        BY <1>5, <4>1
      <4> QED BY <4>2
    <3> QED BY <3>1
  <2> HIDE DEF f, g
  <2>6. F[q][f] = F[q][g]
    BY <2>1, <2>3, <2>5 DEF PartsOnly
  <2> QED BY <2>2, <2>4, <2>5, <2>6
<1>7. g \in G
  BY <1>6
<1> HIDE DEF g
<1> QED BY <1>6, <1>7 DEF Solved


AllColumns == Columns \cup {AnyColumn}

\* The forms of queries.
LEMMA QueryForms ==
  ASSUME NEW q \in Queries
  PROVE  /\ \/ q.op = "term" /\ q.term \in Terms
            \/ q.op = "prefix" /\ q.terms \in SUBSET Terms
            \/ q.op = "phrase" /\ q.phrase \in Seq(Terms)
            \/ q.op = "near" /\ q.near \in Seq(Terms)
            \/ q.op = "column" /\ q.column \in Columns /\ q.query \in Parts(q)
            \/ /\ q.op = "and" \/ q.op = "or"
               /\ q.children \in Seq(Queries)
               /\ \A i \in DOMAIN q.children : q.children[i] \in Parts(q)
            \/ q.op = "not" /\ q.query \in Parts(q)
            \/ q.op = "all"
         /\ Parts(q) \subseteq Queries
<1>1. /\ Parts(q) \subseteq Queries
      /\ CASE q.op = "term"              -> q.term \in Terms
         [] q.op = "prefix"            -> q.terms \subseteq Terms
         [] q.op = "phrase"            -> q.phrase \in Seq(Terms)
         [] q.op = "near"              -> q.near \in Seq(Terms) /\ q.distance \in Nat
         [] q.op = "column"            -> q.column \in Columns
         [] q.op \in {"and", "or"}     -> q.children \in Seq(Queries)
         [] OTHER                      -> q.op \in {"not", "all"}
  BY QueryAssumption
<1>2. q.op \in {"not", "column"} => q.query \in Parts(q)
  BY DEF Parts
<1>3. q.op \in {"and", "or"} /\ q.children \in Seq(Queries) =>
        \A i \in DOMAIN q.children : q.children[i] \in Parts(q)
  <2>1. q.op \in {"and", "or"} => Parts(q) = ToSet(q.children)
    BY DEF Parts
  <2> QED BY <2>1, ToSetIs
<1>4. \/ q.op \in {"term", "prefix", "phrase", "near", "column", "and", "or"}
      \/ q.op \in {"not", "all"}
  BY <1>1
<1> QED BY <1>1, <1>2, <1>3, <1>4

\* What matches_query_in_column says of a query, by its parts.
LEMMA MatchesIs ==
  ASSUME NEW this, NEW n
  PROVE  \A q \in Queries :
           MatchesInColumn(this, n)[q] = MatchesBy(this, n, q, MatchesInColumn(this, n))
<1> DEFINE V == [AllColumns -> BOOLEAN]
           F == [q \in Queries |-> [m \in [Queries -> V] |-> MatchesBy(this, n, q, m)]]
           Fix(m) == m = [q \in Queries |-> MatchesBy(this, n, q, m)]
<1>1. ASSUME NEW q \in Queries, NEW m \in [Queries -> V]
      PROVE  MatchesBy(this, n, q, m) \in V
  <2>1. \A p \in Parts(q), c \in AllColumns : m[p][c] \in BOOLEAN
    BY QueryForms
  <2>2. q.op = "column" => m[q.query][q.column] \in BOOLEAN
    BY <2>1, QueryForms DEF AllColumns
  <2>3. \A c, x : PhraseMatches(x, c) \in BOOLEAN
    BY DEF PhraseMatches
  <2>4. \A x, y, d, c : NearMatches(x, y, d, c) \in BOOLEAN
    BY DEF NearMatches
  <2>5. \A t, c : HasTerm(this, n, t, c) \in BOOLEAN
    BY DEF HasTerm
  <2> HIDE DEF V
  <2>6. ASSUME NEW c \in AllColumns PROVE MatchesBy(this, n, q, m)[c] \in BOOLEAN
    <3> DEFINE r == MatchesBy(this, n, q, m)[c]
    <3>1. CASE q.op = "term"
      <4>1. r = HasTerm(this, n, q.term, c)
        BY <3>1 DEF MatchesBy, AllColumns
      <4> QED BY <2>5, <4>1
    <3>2. CASE q.op = "prefix"
      <4>1. r = \E t \in q.terms : HasTerm(this, n, t, c)
        BY <3>2 DEF MatchesBy, AllColumns
      <4> QED BY <4>1
    <3>3. CASE q.op = "phrase"
      <4>1. r = PhraseMatches(AllPositions(this, n, q.phrase), c)
        BY <3>3 DEF MatchesBy, AllColumns
      <4> QED BY <2>3, <4>1
    <3>4. CASE q.op \in {"near", "column", "all", "not"}
      BY <2>1, <2>2, <3>4, QueryForms DEF MatchesBy, AllColumns
    <3>5. CASE q.op \in {"and", "or"}
      BY <2>1, <3>5, QueryForms DEF MatchesBy, AllColumns
    <3> HIDE DEF r
    <3> QED BY <3>1, <3>2, <3>3, <3>4, <3>5, QueryForms DEF r
  <2>7. \A c \in AllColumns : MatchesBy(this, n, q, m)[c] \in BOOLEAN
    BY <2>6
  <2> QED BY ONLY <2>7 DEF MatchesBy, AllColumns, V
<1>2. PartsOnly(F, V)
  <2> SUFFICES ASSUME NEW q \in Queries, NEW f \in [Queries -> V], NEW g \in [Queries -> V],
                      \A p \in Parts(q) : f[p] = g[p]
               PROVE  MatchesBy(this, n, q, f) = MatchesBy(this, n, q, g)
    BY DEF PartsOnly
  <2> HIDE DEF V, F
  <2>1. ASSUME NEW c \in AllColumns PROVE MatchesBy(this, n, q, f)[c] = MatchesBy(this, n, q, g)[c]
    BY QueryForms DEF MatchesBy, AllColumns
  <2> QED BY <2>1 DEF MatchesBy, AllColumns
<1>3. \E g : Fix(g)
  <2>1. V # {}
    <3>1. [c \in AllColumns |-> TRUE] \in V
      OBVIOUS
    <3> QED BY <3>1
  <2>2. F \in [Queries -> [[Queries -> V] -> V]]
    <3> HIDE DEF V
    <3> QED BY <1>1
  <2>3. PICK g \in [Queries -> V] : \A q \in Queries : g[q] = F[q][g]
    <3> HIDE DEF F, V, Fix
    <3>1. Solved(F, V)
      BY <1>2, <2>1, <2>2, TreeRecursion
    <3> QED BY <3>1 DEF Solved
  <2>4. g = [q \in Queries |-> MatchesBy(this, n, q, g)]
    <3> HIDE DEF V
    <3> QED BY <2>3
  <2> QED BY <2>4
<1>4. MatchesInColumn(this, n) = CHOOSE m : Fix(m)
  BY DEF MatchesInColumn
<1>5. Fix(MatchesInColumn(this, n))
  <2> HIDE DEF Fix
  <2> QED BY <1>3, <1>4
<1> HIDE DEF V, F
<1> QED BY <1>5


\* The same, kind by kind.
LEMMA MatchesKinds ==
  ASSUME NEW this, NEW n, NEW q \in Queries, NEW c \in AllColumns
  PROVE  LET m == MatchesInColumn(this, n)
         IN /\ q.op = "term" => (m[q][c] <=> HasTerm(this, n, q.term, c))
            /\ q.op = "prefix" => (m[q][c] <=> \E t \in q.terms : HasTerm(this, n, t, c))
            /\ q.op = "phrase" =>
                 (m[q][c] <=> PhraseMatches(AllPositions(this, n, q.phrase), c))
            /\ q.op = "near" =>
                 (m[q][c] => \E t \in ToSet(q.near) : HasTerm(this, n, t, c))
            /\ q.op = "column" => (m[q][c] => m[q.query][q.column])
            /\ q.op = "and" => (m[q][c] <=> \A i \in DOMAIN q.children : m[q.children[i]][c])
            /\ q.op = "or" => (m[q][c] <=> \E i \in DOMAIN q.children : m[q.children[i]][c])
<1> DEFINE m == MatchesInColumn(this, n)
<1>1. m[q] = MatchesBy(this, n, q, m)
  BY MatchesIs
<1> HIDE DEF m
<1>2. m[q][c] = MatchesBy(this, n, q, m)[c]
  BY <1>1
<1>3. q.op = "term" => (m[q][c] <=> HasTerm(this, n, q.term, c))
  BY <1>2 DEF MatchesBy, AllColumns
<1>4. q.op = "prefix" => (m[q][c] <=> \E t \in q.terms : HasTerm(this, n, t, c))
  BY <1>2 DEF MatchesBy, AllColumns
<1>5. q.op = "phrase" => (m[q][c] <=> PhraseMatches(AllPositions(this, n, q.phrase), c))
  BY <1>2 DEF MatchesBy, AllColumns
<1>6. q.op = "near" => (m[q][c] => \E t \in ToSet(q.near) : HasTerm(this, n, t, c))
  <2> DEFINE terms == ToSet(q.near)
             found == [t \in terms |-> TermPositions(this, n, t)]
             needed == [t \in terms |-> Cardinality({i \in DOMAIN q.near : q.near[i] = t})]
  <2> SUFFICES ASSUME q.op = "near", m[q][c]
               PROVE  \E t \in terms : HasTerm(this, n, t, c)
    OBVIOUS
  <2>1. NearMatches(found, needed, q.distance, c)
    BY <1>2 DEF MatchesBy, AllColumns
  <2>2. DOMAIN needed = terms
    OBVIOUS
  <2> HIDE DEF needed
  <2>3. \E p \in UNION {ToSet(found[t]) : t \in terms} : InColumn(p, c)
    BY <2>1, <2>2 DEF NearMatches
  <2>4. PICK t \in terms : \E p \in ToSet(found[t]) : InColumn(p, c)
    BY <2>3
  <2> QED BY <2>4 DEF HasTerm
<1>7. q.op = "column" => (m[q][c] => m[q.query][q.column])
  BY <1>2 DEF MatchesBy, AllColumns
<1>8. q.op = "and" => (m[q][c] <=> \A i \in DOMAIN q.children : m[q.children[i]][c])
  BY <1>2 DEF MatchesBy, AllColumns
<1>9. q.op = "or" => (m[q][c] <=> \E i \in DOMAIN q.children : m[q.children[i]][c])
  BY <1>2 DEF MatchesBy, AllColumns
<1> QED BY <1>3, <1>4, <1>5, <1>6, <1>7, <1>8, <1>9 DEF m

\* The terms of all queries at once.
Collected(s) == CHOOSE m : m = [q \in Queries |-> CollectedBy(s, q, m)]

LEMMA CollectedIs ==
  ASSUME NEW s
  PROVE  /\ \A q : ScoringTerms(s, q) = Collected(s)[q]
         /\ \A q \in Queries : Collected(s)[q] = CollectedBy(s, q, Collected(s))
<1> DEFINE V == SUBSET Terms
           F == [q \in Queries |-> [m \in [Queries -> V] |-> CollectedBy(s, q, m)]]
           Fix(m) == m = [q \in Queries |-> CollectedBy(s, q, m)]
<1>1. ASSUME NEW q \in Queries, NEW m \in [Queries -> V]
      PROVE  CollectedBy(s, q, m) \in V
  <2>1. \A p \in Parts(q) : m[p] \in V
    BY QueryForms
  <2>2. CASE q.op \in {"term", "prefix", "column", "not", "all"}
    BY <2>1, <2>2, QueryForms DEF CollectedBy
  <2>3. CASE q.op = "phrase"
    <3>1. q.phrase \in Seq(Terms)
      BY <2>3, QueryForms
    <3>2. ToSet(q.phrase) \subseteq Terms
      BY <3>1, ToSetIs
    <3> QED BY <2>3, <3>2 DEF CollectedBy
  <2>4. CASE q.op = "near"
    <3>1. q.near \in Seq(Terms)
      BY <2>4, QueryForms
    <3>2. ToSet(q.near) \subseteq Terms
      BY <3>1, ToSetIs
    <3> QED BY <2>4, <3>2 DEF CollectedBy
  <2>5. CASE q.op \in {"and", "or"}
    BY <2>1, <2>5, QueryForms DEF CollectedBy
  <2>6. q.op \in {"term", "prefix", "column", "not", "all", "phrase", "near", "and", "or"}
    BY QueryForms
  <2> HIDE DEF V
  <2> QED BY <2>2, <2>3, <2>4, <2>5, <2>6
<1>2. PartsOnly(F, V)
  <2> SUFFICES ASSUME NEW q \in Queries, NEW f \in [Queries -> V], NEW g \in [Queries -> V],
                      \A p \in Parts(q) : f[p] = g[p]
               PROVE  CollectedBy(s, q, f) = CollectedBy(s, q, g)
    BY DEF PartsOnly
  <2> HIDE DEF V, F
  <2>1. CASE q.op \in {"and", "or"}
    <3>1. \A i \in DOMAIN q.children : f[q.children[i]] = g[q.children[i]]
      BY <2>1, QueryForms
    <3> QED BY <2>1, <3>1 DEF CollectedBy
  <2>2. CASE q.op \notin {"and", "or"}
    BY <2>2, QueryForms DEF CollectedBy
  <2> QED BY <2>1, <2>2
<1>3. \E g : Fix(g)
  <2>1. F \in [Queries -> [[Queries -> V] -> V]]
    <3> HIDE DEF V
    <3> QED BY <1>1
  <2>2. V # {}
    OBVIOUS
  <2>3. PICK g \in [Queries -> V] : \A q \in Queries : g[q] = F[q][g]
    <3> HIDE DEF F, V, Fix
    <3>1. Solved(F, V)
      BY <1>2, <2>1, <2>2, TreeRecursion
    <3> QED BY <3>1 DEF Solved
  <2>4. g = [q \in Queries |-> CollectedBy(s, q, g)]
    <3> HIDE DEF V
    <3> QED BY <2>3
  <2> QED BY <2>4
<1>4. Fix(Collected(s))
  <2>1. Collected(s) = CHOOSE m : Fix(m)
    BY DEF Collected
  <2> HIDE DEF Fix
  <2> QED BY <1>3, <2>1
<1> HIDE DEF V, F
<1>5. \A q : ScoringTerms(s, q) = Collected(s)[q]
  BY DEF ScoringTerms, Collected
<1> QED BY <1>4, <1>5

\* The scoring terms of a query, kind by kind.
LEMMA ScoringKinds ==
  ASSUME NEW s, NEW q \in Queries
  PROVE  /\ q.op = "term" => ScoringTerms(s, q) = {q.term}
         /\ q.op = "prefix" => ScoringTerms(s, q) = q.terms \cap DOMAIN s.term_df
         /\ q.op = "phrase" => ScoringTerms(s, q) = ToSet(q.phrase)
         /\ q.op = "near" => ScoringTerms(s, q) = ToSet(q.near)
         /\ q.op = "column" => ScoringTerms(s, q) = ScoringTerms(s, q.query)
         /\ q.op \in {"and", "or"} =>
              \A t : t \in ScoringTerms(s, q) <=>
                       \E i \in DOMAIN q.children : t \in ScoringTerms(s, q.children[i])
         /\ q.op \in {"not", "all"} => ScoringTerms(s, q) = {}
<1> DEFINE m == Collected(s)
<1>1. /\ \A p : ScoringTerms(s, p) = m[p]
      /\ m[q] = CollectedBy(s, q, m)
  BY CollectedIs
<1> HIDE DEF m
<1> QED BY <1>1 DEF CollectedBy


-----------------------------------------------------------------------------
(* Queries and the terms of documents.                                     *)

\* Where a term is in a document.
LEMMA TermAt ==
  ASSUME Good(snapshot), NEW i \in Numbers(snapshot.segments),
         NEW n \in Numbers(Segment(i).docs), NEW t
  PROVE  /\ \A c : HasTerm(Segment(i), n, t, c) => t \in Segment(i).docs[n + 1].terms
         /\ t \in Segment(i).docs[n + 1].terms => HasTerm(Segment(i), n, t, AnyColumn)
<1> DEFINE here == Segment(i)
           list == here.terms[t]
<1>1. t \in here.docs[n + 1].terms <=>
        t \in DOMAIN here.terms /\ n \in ToSet(here.terms[t].docids)
  <2>1. Scorers(i, n, {t}) = {t} \cap here.docs[n + 1].terms
    BY ScorersHave
  <2> QED BY <2>1 DEF Scorers
<1>2. ASSUME NEW c, HasTerm(here, n, t, c) PROVE t \in here.docs[n + 1].terms
  <2>1. TermPositions(here, n, t) # <<>>
    BY <1>2 DEF HasTerm, ToSet
  <2> QED BY <1>1, <2>1 DEF TermPositions
<1>3. ASSUME t \in here.docs[n + 1].terms PROVE HasTerm(here, n, t, AnyColumn)
  <2>1. t \in DOMAIN here.terms /\ n \in ToSet(list.docids)
    BY <1>1, <1>3
  <2>2. ListFacts(list, here.docs, t)
    BY <2>1, SegmentFacts
  <2>3. PICK j \in DOMAIN list.docids : list.docids[j] = n
    BY <2>1 DEF ToSet
  <2>4. Find(list, n) = j
    <3> HIDE DEF list
    <3>1. list = Segment(i).terms[t]
      BY DEF list
    <3> QED BY <2>1, <2>3, <3>1, PartIs
  <2>5. list.positions[j] \in Seq(Int) /\ Len(list.positions[j]) # 0
    BY <2>2, <2>3 DEF ListFacts
  <2>6. TermPositions(here, n, t) = list.positions[j]
    BY <2>1, <2>4 DEF TermPositions
  <2>7. list.positions[j][1] \in ToSet(list.positions[j])
    <3> DEFINE found == list.positions[j]
    <3>1. found \in Seq(Int) /\ Len(found) # 0
      BY <2>5
    <3> HIDE DEF found
    <3>2. 1 \in DOMAIN found
      BY <3>1
    <3>3. found[1] \in ToSet(found)
      BY <3>2 DEF ToSet
    <3> QED BY <3>3 DEF found
  <2> QED BY <2>6, <2>7 DEF HasTerm, InColumn
<1> QED BY <1>2, <1>3

\* The terms of live documents are counted.
LEMMA LiveTerm ==
  ASSUME Good(snapshot), Counted(snapshot), NEW i \in Numbers(snapshot.segments),
         NEW n \in Numbers(Segment(i).docs), IsLive(snapshot, i, n),
         NEW t \in Segment(i).docs[n + 1].terms
  PROVE  t \in DOMAIN snapshot.term_df /\ t \in Terms
<1> DEFINE doc == Segment(i).docs[n + 1]
           r == doc.row
<1>1. IsLatest(snapshot, i, n)
  BY DEF Good, Masked, Segment
<1>2. r \in LiveRows(snapshot) /\ snapshot.latest[r].segment = i /\ snapshot.latest[r].docid = n
  BY <1>1 DEF IsLatest, Segment
<1>3. doc \in Stored
  BY SegmentFacts, NumbersOf
<1>4. r \in Rows /\ doc.doc \in Docs /\ doc.terms = UniqueTerms(doc.doc)
  BY <1>3, StoredIs
<1>5. DocAt(snapshot, snapshot.latest[r]) = doc
  BY <1>2 DEF DocAt, Segment
<1> HIDE DEF doc, r
<1>6. View(snapshot)[r] = doc.doc
  BY <1>2, <1>4, <1>5 DEF View
<1>7. r \in Present(View(snapshot))
  BY <1>4, <1>6, IndexAssumption DEF Present
<1>8. t \in doc.terms
  BY DEF doc
<1>9. t \in Terms
  BY <1>4, <1>8 DEF UniqueTerms
<1>10. r \in RowsWith(View(snapshot), Present(View(snapshot)), t)
  BY <1>4, <1>6, <1>7, <1>8 DEF RowsWith
<1>11. snapshot.term_df = Freqs(View(snapshot), Present(View(snapshot)))
  BY DEF Counted
<1> QED BY <1>9, <1>10, <1>11 DEF Freqs

\* Parts are lower.
LEMMA HeightIs ==
  \A q \in Queries :
    Height[q] \in Nat /\ \A p \in Parts(q) : p \in Queries /\ Height[p] < Height[q]
BY HeightAssumption, QueryAssumption

\* Queries that a document matches only if it has one of their scoring terms.
Anchoring(A) ==
  \A q \in A : CASE q.op = "and"              -> \E p \in ToSet(q.children) : p \in A
                 [] q.op = "or"               -> \A p \in ToSet(q.children) : p \in A
                 [] q.op = "column"           -> q.query \in A
                 [] q.op \in {"not", "all"}   -> FALSE
                 [] OTHER                     -> TRUE

LEMMA AnchoringKinds ==
  ASSUME NEW A \in SUBSET Queries, Anchoring(A), NEW q \in A
  PROVE  /\ q.op = "and" => \E i \in DOMAIN q.children : q.children[i] \in A
         /\ q.op = "or" => \A i \in DOMAIN q.children : q.children[i] \in A
         /\ q.op = "column" => q.query \in A
         /\ q.op \notin {"not", "all"}
<1>1. CASE q.op = "and" \/ q.op = "or"
  <2>1. q.children \in Seq(Queries)
    BY <1>1, QueryForms
  <2>2. \A p : p \in ToSet(q.children) <=> \E i \in DOMAIN q.children : q.children[i] = p
    BY <2>1, ToSetIs
  <2>3. /\ q.op = "and" => \E p \in ToSet(q.children) : p \in A
        /\ q.op = "or" => \A p \in ToSet(q.children) : p \in A
    BY DEF Anchoring
  <2> QED BY <1>1, <2>2, <2>3
<1>2. CASE ~(q.op = "and" \/ q.op = "or")
  BY <1>2 DEF Anchoring
<1> QED BY <1>1, <1>2

LEMMA Anchored ==
  ASSUME Good(snapshot), Counted(snapshot), NEW i \in Numbers(snapshot.segments),
         NEW n \in Numbers(Segment(i).docs), IsLive(snapshot, i, n),
         NEW A \in SUBSET Queries, Anchoring(A)
  PROVE  \A q \in A, c \in AllColumns :
           MatchesInColumn(Segment(i), n)[q][c] =>
             \E t \in ScoringTerms(snapshot, q) : t \in Segment(i).docs[n + 1].terms
<1> DEFINE has == Segment(i).docs[n + 1].terms
           m == MatchesInColumn(Segment(i), n)
           Fails(q, c) == m[q][c] /\ ScoringTerms(snapshot, q) \cap has = {}
           Bad == {Height[q] : q \in {p \in A : \E c \in AllColumns : Fails(p, c)}}
<1> SUFFICES ASSUME Bad # {} PROVE FALSE
  OBVIOUS
<1>1. PICK k \in Bad : \A j \in Bad : k <= j
  <2>1. Bad \subseteq Nat
    BY HeightAssumption
  <2> HIDE DEF Bad
  <2> QED BY <2>1, Least
<1>2. PICK q \in A, c \in AllColumns : Height[q] = k /\ Fails(q, c)
  OBVIOUS
<1>3. \A t, d : HasTerm(Segment(i), n, t, d) => t \in has
  BY TermAt
<1>4. \A t \in has : t \in DOMAIN snapshot.term_df
  BY LiveTerm
<1> HIDE DEF has
<1>5. ASSUME NEW p \in Parts(q), p \in A, NEW d \in AllColumns PROVE ~Fails(p, d)
  <2>1. Height[p] \in Nat /\ Height[q] \in Nat /\ Height[p] < Height[q]
    BY HeightIs
  <2> SUFFICES ASSUME Fails(p, d) PROVE FALSE
    OBVIOUS
  <2>2. Height[p] \in Bad
    BY <1>5
  <2>3. k <= Height[p]
    <3> HIDE DEF Bad
    <3> QED BY <1>1, <2>2
  <2> QED BY <1>2, <2>1, <2>3
<1> HIDE DEF Bad, m
<1>6. m[q][c] /\ \A t \in ScoringTerms(snapshot, q) : t \notin has
  BY <1>2
<1>7. \A p : (\E t \in ScoringTerms(snapshot, p) : t \in has) \/ ~m[p][c] \/ Fails(p, c)
  OBVIOUS
<1>8. CASE q.op = "term"
  <2>1. HasTerm(Segment(i), n, q.term, c)
    BY <1>6, <1>8, MatchesKinds DEF m
  <2>2. ScoringTerms(snapshot, q) = {q.term}
    BY <1>8, ScoringKinds
  <2> QED BY <1>3, <1>6, <2>1, <2>2
<1>9. CASE q.op = "prefix"
  <2>1. \E t \in q.terms : HasTerm(Segment(i), n, t, c)
    BY <1>6, <1>9, MatchesKinds DEF m
  <2>2. ScoringTerms(snapshot, q) = q.terms \cap DOMAIN snapshot.term_df
    BY <1>9, ScoringKinds
  <2> QED BY <1>3, <1>4, <1>6, <2>1, <2>2
<1>10. CASE q.op = "phrase"
  <2>1. PhraseMatches(AllPositions(Segment(i), n, q.phrase), c)
    BY <1>6, <1>10, MatchesKinds DEF m
  <2>2. q.phrase \in Seq(Terms)
    BY <1>10, QueryForms
  <2>3. AllPositions(Segment(i), n, q.phrase) =
          [j \in 1..Len(q.phrase) |-> TermPositions(Segment(i), n, q.phrase[j])]
    BY <2>2 DEF AllPositions
  <2>4. Len(q.phrase) \in Nat /\ Len(q.phrase) # 0
    <3>1. Len(q.phrase) \in Nat
      BY <2>2
    <3>2. ASSUME Len(q.phrase) = 0 PROVE AllPositions(Segment(i), n, q.phrase) = <<>>
      BY <2>3, <3>2
    <3> QED BY <2>1, <3>1, <3>2 DEF PhraseMatches
  <2>5. 1 \in DOMAIN q.phrase /\ AllPositions(Segment(i), n, q.phrase)[1] =
          TermPositions(Segment(i), n, q.phrase[1])
    BY <2>2, <2>3, <2>4
  <2>6. HasTerm(Segment(i), n, q.phrase[1], c)
    BY <2>1, <2>5 DEF PhraseMatches, HasTerm
  <2>7. q.phrase[1] \in ToSet(q.phrase)
    BY <2>5 DEF ToSet
  <2>8. ScoringTerms(snapshot, q) = ToSet(q.phrase)
    BY <1>10, ScoringKinds
  <2> QED BY <1>3, <1>6, <2>6, <2>7, <2>8
<1>11. CASE q.op = "near"
  <2>1. \E t \in ToSet(q.near) : HasTerm(Segment(i), n, t, c)
    BY <1>6, <1>11, MatchesKinds DEF m
  <2>2. ScoringTerms(snapshot, q) = ToSet(q.near)
    BY <1>11, ScoringKinds
  <2> QED BY <1>3, <1>6, <2>1, <2>2
<1>12. CASE q.op = "column"
  <2>1. m[q.query][q.column]
    BY <1>6, <1>12, MatchesKinds DEF m
  <2>2. ScoringTerms(snapshot, q) = ScoringTerms(snapshot, q.query)
    BY <1>12, ScoringKinds
  <2>3. q.column \in AllColumns /\ q.query \in Parts(q) /\ q.query \in A
    BY <1>12, QueryForms, AnchoringKinds DEF AllColumns
  <2> QED BY <1>5, <1>6, <2>1, <2>2, <2>3
<1>13. CASE q.op = "and"
  <2>1. PICK j \in DOMAIN q.children : q.children[j] \in A
    BY <1>13, AnchoringKinds
  <2>2. m[q.children[j]][c]
    BY <1>6, <1>13, MatchesKinds DEF m
  <2>3. q.children[j] \in Parts(q)
    BY <1>13, QueryForms
  <2>4. ~Fails(q.children[j], c)
    BY <1>5, <2>1, <2>3
  <2>5. \A t \in ScoringTerms(snapshot, q.children[j]) : t \in ScoringTerms(snapshot, q)
    BY <1>13, ScoringKinds
  <2> QED BY <1>6, <1>7, <2>2, <2>4, <2>5
<1>14. CASE q.op = "or"
  <2>1. PICK j \in DOMAIN q.children : m[q.children[j]][c]
    BY <1>6, <1>14, MatchesKinds DEF m
  <2>2. q.children[j] \in A
    BY <1>14, AnchoringKinds
  <2>3. q.children[j] \in Parts(q)
    BY <1>14, QueryForms
  <2>4. ~Fails(q.children[j], c)
    BY <1>5, <2>2, <2>3
  <2>5. \A t \in ScoringTerms(snapshot, q.children[j]) : t \in ScoringTerms(snapshot, q)
    BY <1>14, ScoringKinds
  <2> QED BY <1>6, <1>7, <2>1, <2>4, <2>5
<1> QED BY <1>8, <1>9, <1>10, <1>11, <1>12, <1>13, <1>14, QueryForms, AnchoringKinds

\* Queries without scoring terms.
Unscored(B) ==
  \A q \in B : CASE q.op \in {"and", "or"}      -> \A p \in ToSet(q.children) : p \in B
                 [] q.op = "column"             -> q.query \in B
                 [] q.op \in {"not", "all"}     -> TRUE
                 [] OTHER                       -> FALSE

LEMMA NoneScores ==
  ASSUME NEW s, NEW B \in SUBSET Queries, Unscored(B)
  PROVE  \A q \in B : ScoringTerms(s, q) = {}
<1> DEFINE Bad == {Height[q] : q \in {p \in B : ScoringTerms(s, p) # {}}}
<1> SUFFICES ASSUME Bad # {} PROVE FALSE
  OBVIOUS
<1>1. PICK k \in Bad : \A j \in Bad : k <= j
  <2>1. Bad \subseteq Nat
    BY HeightAssumption
  <2> HIDE DEF Bad
  <2> QED BY <2>1, Least
<1>2. PICK q \in B : Height[q] = k /\ ScoringTerms(s, q) # {}
  OBVIOUS
<1>3. ASSUME NEW p \in Parts(q), p \in B PROVE ScoringTerms(s, p) = {}
  <2>1. Height[p] \in Nat /\ Height[q] \in Nat /\ Height[p] < Height[q]
    BY HeightIs
  <2> SUFFICES ASSUME ScoringTerms(s, p) # {} PROVE FALSE
    OBVIOUS
  <2>2. Height[p] \in Bad
    BY <1>3
  <2>3. k <= Height[p]
    <3> HIDE DEF Bad
    <3> QED BY <1>1, <2>2
  <2> QED BY <1>2, <2>1, <2>3
<1> HIDE DEF Bad
<1>4. CASE q.op = "column"
  <2>1. q.query \in B /\ q.query \in Parts(q)
    BY <1>4, QueryForms DEF Unscored
  <2> QED BY <1>2, <1>3, <1>4, <2>1, ScoringKinds
<1>5. CASE q.op = "and" \/ q.op = "or"
  <2>1. PICK j \in DOMAIN q.children : ScoringTerms(s, q.children[j]) # {}
    <3>1. \A t : t \in ScoringTerms(s, q) <=>
                       \E i \in DOMAIN q.children : t \in ScoringTerms(s, q.children[i])
      BY <1>5, ScoringKinds
    <3> QED BY <1>2, <3>1
  <2>2. q.children[j] \in Parts(q) /\ q.children \in Seq(Queries)
    BY <1>5, QueryForms
  <2>3. q.children[j] \in ToSet(q.children)
    BY <2>2, ToSetIs
  <2>4. q.children[j] \in B
    BY <1>5, <2>3 DEF Unscored
  <2> QED BY <1>3, <2>1, <2>2, <2>4
<1>6. CASE q.op \in {"not", "all"}
  BY <1>2, <1>6, ScoringKinds
<1>7. q.op \in {"and", "or", "column", "not", "all"}
  BY DEF Unscored
<1> QED BY <1>4, <1>5, <1>6, <1>7

\* A single term or prefix matches where one of its scoring terms is.
LEMMA FlatMatches ==
  ASSUME Good(snapshot), Counted(snapshot), NEW i \in Numbers(snapshot.segments),
         NEW n \in Numbers(Segment(i).docs), IsLive(snapshot, i, n),
         NEW q \in Queries, q.op \in {"term", "prefix"}
  PROVE  Matches(Segment(i), n, q) <=>
           \E t \in ScoringTerms(snapshot, q) : t \in Segment(i).docs[n + 1].terms
<1> DEFINE has == Segment(i).docs[n + 1].terms
<1>1. \A t : HasTerm(Segment(i), n, t, AnyColumn) <=> t \in has
  BY TermAt
<1>2. \A t \in has : t \in DOMAIN snapshot.term_df
  BY LiveTerm
<1> HIDE DEF has
<1>3. AnyColumn \in AllColumns
  BY DEF AllColumns
<1>4. CASE q.op = "term"
  <2>1. Matches(Segment(i), n, q) <=> HasTerm(Segment(i), n, q.term, AnyColumn)
    BY <1>3, <1>4, MatchesKinds DEF Matches
  <2>2. ScoringTerms(snapshot, q) = {q.term}
    BY <1>4, ScoringKinds
  <2> QED BY <1>1, <2>1, <2>2 DEF has
<1>5. CASE q.op = "prefix"
  <2>1. Matches(Segment(i), n, q) <=> \E t \in q.terms : HasTerm(Segment(i), n, t, AnyColumn)
    BY <1>3, <1>5, MatchesKinds DEF Matches
  <2>2. ScoringTerms(snapshot, q) = q.terms \cap DOMAIN snapshot.term_df
    BY <1>5, ScoringKinds
  <2> QED BY <1>1, <1>2, <2>1, <2>2 DEF has
<1> QED BY <1>4, <1>5

\* So does a flat disjunction.
LEMMA DisjunctionMatches ==
  ASSUME Good(snapshot), Counted(snapshot), NEW i \in Numbers(snapshot.segments),
         NEW n \in Numbers(Segment(i).docs), IsLive(snapshot, i, n),
         NEW q \in Queries, IsFlatDisjunction(q)
  PROVE  Matches(Segment(i), n, q) <=>
           \E t \in ScoringTerms(snapshot, q) : t \in Segment(i).docs[n + 1].terms
<1>1. CASE q.op \in {"term", "prefix"}
  BY <1>1, FlatMatches
<1>2. CASE q.op \notin {"term", "prefix"}
  <2>1. q.op = "or" /\ \A j \in DOMAIN q.children : q.children[j].op \in {"term", "prefix"}
    BY <1>2 DEF IsFlatDisjunction
  <2>2. \A j \in DOMAIN q.children : q.children[j] \in Queries
    BY <2>1, QueryForms
  <2>3. Matches(Segment(i), n, q) <=>
          \E j \in DOMAIN q.children : Matches(Segment(i), n, q.children[j])
    <3>1. AnyColumn \in AllColumns
      BY DEF AllColumns
    <3> QED BY <2>1, <3>1, MatchesKinds DEF Matches
  <2>4. ASSUME NEW j \in DOMAIN q.children
        PROVE  Matches(Segment(i), n, q.children[j]) <=>
                 \E t \in ScoringTerms(snapshot, q.children[j]) :
                   t \in Segment(i).docs[n + 1].terms
    BY <2>1, <2>2, FlatMatches
  <2>5. \A t : t \in ScoringTerms(snapshot, q) <=>
                 \E j \in DOMAIN q.children : t \in ScoringTerms(snapshot, q.children[j])
    BY <2>1, ScoringKinds
  <2> QED BY <2>3, <2>4, <2>5
<1> QED BY <1>1, <1>2

\* A flat conjunction matches where all its scoring terms are.
LEMMA ConjunctionMatches ==
  ASSUME Good(snapshot), Counted(snapshot), NEW i \in Numbers(snapshot.segments),
         NEW n \in Numbers(Segment(i).docs), IsLive(snapshot, i, n),
         NEW q \in Queries, IsFlatConjunction(q)
  PROVE  Matches(Segment(i), n, q) <=>
           \A t \in ScoringTerms(snapshot, q) : t \in Segment(i).docs[n + 1].terms
<1>1. q.op = "and" /\ \A j \in DOMAIN q.children : q.children[j].op = "term"
  BY DEF IsFlatConjunction
<1>2. \A j \in DOMAIN q.children : q.children[j] \in Queries
  BY <1>1, QueryForms
<1>3. Matches(Segment(i), n, q) <=>
        \A j \in DOMAIN q.children : Matches(Segment(i), n, q.children[j])
  <2>1. AnyColumn \in AllColumns
    BY DEF AllColumns
  <2> QED BY <1>1, <2>1, MatchesKinds DEF Matches
<1>4. ASSUME NEW j \in DOMAIN q.children
      PROVE  /\ Matches(Segment(i), n, q.children[j]) <=>
                  q.children[j].term \in Segment(i).docs[n + 1].terms
             /\ ScoringTerms(snapshot, q.children[j]) = {q.children[j].term}
  <2>1. ScoringTerms(snapshot, q.children[j]) = {q.children[j].term}
    BY <1>1, <1>2, ScoringKinds
  <2> QED BY <1>1, <1>2, <2>1, FlatMatches
<1>5. \A t : t \in ScoringTerms(snapshot, q) <=>
               \E j \in DOMAIN q.children : t \in ScoringTerms(snapshot, q.children[j])
  BY <1>1, ScoringKinds
<1>6. \A t : t \in ScoringTerms(snapshot, q) <=>
               \E j \in DOMAIN q.children : t = q.children[j].term
  BY <1>4, <1>5
<1>7. Matches(Segment(i), n, q) <=>
        \A j \in DOMAIN q.children : q.children[j].term \in Segment(i).docs[n + 1].terms
  BY <1>3, <1>4
<1> QED BY <1>6, <1>7

\* A phrase matches only where all its terms are.
LEMMA PhraseTerms ==
  ASSUME Good(snapshot), NEW i \in Numbers(snapshot.segments),
         NEW n \in Numbers(Segment(i).docs),
         NEW q \in Queries, q.op = "phrase", Matches(Segment(i), n, q)
  PROVE  \A t \in ScoringTerms(snapshot, q) : t \in Segment(i).docs[n + 1].terms
<1> DEFINE found == AllPositions(Segment(i), n, q.phrase)
<1>1. ScoringTerms(snapshot, q) = ToSet(q.phrase) /\ q.phrase \in Seq(Terms)
  BY ScoringKinds, QueryForms
<1>2. PhraseMatches(found, AnyColumn)
  <2>1. AnyColumn \in AllColumns
    BY DEF AllColumns
  <2> QED BY <2>1, MatchesKinds DEF Matches
<1> SUFFICES ASSUME NEW j \in DOMAIN q.phrase
             PROVE  q.phrase[j] \in Segment(i).docs[n + 1].terms
  BY <1>1, ToSetIs
<1>3. j \in DOMAIN found /\ found[j] = TermPositions(Segment(i), n, q.phrase[j])
  BY DEF AllPositions
<1> HIDE DEF found
<1>4. \E p : p \in ToSet(found[j])
  BY <1>2, <1>3 DEF PhraseMatches
<1>5. HasTerm(Segment(i), n, q.phrase[j], AnyColumn)
  BY <1>3, <1>4 DEF HasTerm, InColumn
<1> QED BY <1>5, TermAt

-----------------------------------------------------------------------------
(* Cursors.                                                                *)

\* Cursors of the current segment.
Cursor == [term : Scoring \cap DOMAIN Here.terms, index : Nat \ {0}]

CursorsOf(cs) ==
  /\ cs \in Seq(Cursor)
  /\ \A i, j \in DOMAIN cs : cs[i].term = cs[j].term => i = j

\* In an order of their documents, none of them at its end.
InOrder(cs) ==
  /\ CursorsOf(cs)
  /\ \A i \in DOMAIN cs : ~Exhausted(cs[i])
  /\ \A i, j \in DOMAIN cs : i < j => DocId(cs[i]) <= DocId(cs[j])

\* Terms have their places in an order.
LEMMA OrdinalIs ==
  /\ \A t \in Terms : Ordinal[t] \in Nat
  /\ \A t, u \in Terms : Ordinal[t] = Ordinal[u] => t = u
<1> DEFINE k == Cardinality(Terms)
           Apart(f) == \A t, u \in Terms : f[t] = f[u] => t = u
<1>1. ExistsBijection(Terms, 1..k)
  BY SearchAssumption, FS_CardinalityType, Fun_ExistsBijSymmetric
<1>2. PICK f : f \in Bijection(Terms, 1..k)
  BY <1>1 DEF ExistsBijection
<1>3. f \in [Terms -> 1..k] /\ Apart(f)
  BY <1>2, Fun_BijectionProperties
<1>4. Ordinal = CHOOSE g \in [Terms -> 1..k] : Apart(g)
  BY DEF Ordinal
<1>5. Ordinal \in [Terms -> 1..k] /\ Apart(Ordinal)
  <2> HIDE DEF Apart, k
  <2> QED BY <1>3, <1>4
<1>6. k \in Nat
  BY SearchAssumption, FS_CardinalityType
<1> HIDE DEF k
<1> QED BY <1>5, <1>6

\* What a cursor is at.
LEMMA CursorAt ==
  ASSUME Good(snapshot), segment \in Numbers(snapshot.segments), NEW c \in Cursor
  PROVE  /\ List(c.term).docids \in Seq(Nat) /\ Len(List(c.term).docids) # 0
         /\ ~Exhausted(c) <=> c.index \in DOMAIN List(c.term).docids
         /\ ~Exhausted(c) => /\ DocId(c) = List(c.term).docids[c.index]
                             /\ DocId(c) \in Nat /\ DocId(c) \in Numbers(Here.docs)
         /\ c.term \in Scoring /\ c.term \in DOMAIN Here.terms
         /\ c.index \in Nat \ {0}
<1> DEFINE list == List(c.term)
<1>1. c.term \in Scoring /\ c.term \in DOMAIN Here.terms /\ c.index \in Nat \ {0}
  BY DEF Cursor
<1>2. Here = Segment(segment)
  BY DEF Here, Segment
<1>3. ListFacts(list, Here.docs, c.term)
  BY <1>1, <1>2, SegmentFacts DEF List
<1>4. list.docids \in Seq(Nat) /\ Len(list.docids) # 0
  BY <1>3 DEF ListFacts
<1>5. ~Exhausted(c) <=> c.index \in DOMAIN list.docids
  <2>1. DOMAIN list.docids = 1..Len(list.docids) /\ Len(list.docids) \in Nat
    BY <1>4
  <2>2. Exhausted(c) <=> c.index > Len(list.docids)
    BY DEF Exhausted
  <2> HIDE DEF list
  <2> QED BY <1>1, <2>1, <2>2
<1>6. DocId(c) = list.docids[c.index]
  BY DEF DocId
<1>7. ASSUME ~Exhausted(c) PROVE DocId(c) \in Nat /\ DocId(c) \in Numbers(Here.docs)
  <2>1. c.index \in DOMAIN list.docids
    BY <1>5, <1>7
  <2>2. list.docids[c.index] \in Having(Here.docs, c.term)
    BY <1>3, <2>1 DEF ListFacts
  <2>3. list.docids[c.index] \in Nat
    BY <1>4, <2>1
  <2> QED BY <1>6, <2>2, <2>3 DEF Having
<1> QED BY <1>1, <1>4, <1>5, <1>6, <1>7

\* sort_cursors keeps the cursors that are not at their ends, in order.
LEMMA SortedIs ==
  ASSUME Good(snapshot), segment \in Numbers(snapshot.segments), NEW cs, CursorsOf(cs)
  PROVE  /\ InOrder(Sorted(cs))
         /\ ToSet(Sorted(cs)) = {c \in ToSet(cs) : ~Exhausted(c)}
<1> DEFINE S == {c \in ToSet(cs) : ~Exhausted(c)}
           Earlier(c, d) == \/ DocId(c) < DocId(d)
                            \/ DocId(c) = DocId(d) /\ Ordinal[c.term] < Ordinal[d.term]
           R == {p \in S \X S : Earlier(p[1], p[2])}
           At(i) == CHOOSE x \in S : Cardinality({y \in S : Earlier(y, x)}) = i - 1
           list == Sorted(cs)
<1>1. list = [i \in 1..Cardinality(S) |-> At(i)]
  BY DEF Sorted, SortedBy
<1>2. /\ cs \in Seq(Cursor)
      /\ ToSet(cs) \subseteq Cursor
      /\ IsFiniteSet(S)
  <2>1. cs \in Seq(Cursor)
    BY DEF CursorsOf
  <2>2. IsFiniteSet(ToSet(cs)) /\ ToSet(cs) \subseteq Cursor
    BY <2>1, ToSetIs
  <2> QED BY <2>1, <2>2, FS_Subset
<1>3. \A c \in S : c \in Cursor /\ DocId(c) \in Nat /\ c.term \in Terms /\ Ordinal[c.term] \in Nat
  <2>1. ASSUME NEW c \in S PROVE c \in Cursor /\ DocId(c) \in Nat /\ c.term \in Terms
    <3>1. c \in Cursor /\ ~Exhausted(c)
      BY <1>2
    <3>2. DocId(c) \in Nat /\ c.term \in DOMAIN Here.terms
      BY <3>1, CursorAt
    <3>3. Here = Segment(segment)
      BY DEF Here, Segment
    <3>4. ListFacts(List(c.term), Here.docs, c.term)
      BY <3>2, <3>3, SegmentFacts DEF List
    <3>5. c.index \in DOMAIN List(c.term).docids
      BY <3>1, CursorAt
    <3>6. c.term \in Terms
      BY <3>2, <3>3, <3>5, PartIs DEF List
    <3> QED BY <3>1, <3>2, <3>6
  <2> HIDE DEF S
  <2> QED BY <2>1, OrdinalIs
<1>4. \A c, d \in S : c.term = d.term => c = d
  <2>1. \A c : c \in ToSet(cs) <=> \E i \in DOMAIN cs : cs[i] = c
    BY <1>2, ToSetIs
  <2>2. \A i, j \in DOMAIN cs : cs[i].term = cs[j].term => i = j
    BY DEF CursorsOf
  <2> QED BY <2>1, <2>2
<1> HIDE DEF S
<1>5. \A x, y \in S : <<x, y>> \in R <=> Earlier(x, y)
  OBVIOUS
<1> HIDE DEF R
<1>6. Orders(R, S)
  <2>1. \A x, y \in S : Earlier(x, y) => ~Earlier(y, x)
    BY <1>3
  <2>2. \A x, y, z \in S : Earlier(x, y) /\ Earlier(y, z) => Earlier(x, z)
    BY <1>3
  <2>3. ASSUME NEW x \in S, NEW y \in S, ~Earlier(x, y), ~Earlier(y, x)
        PROVE  x = y
    <3>1. Ordinal[x.term] = Ordinal[y.term]
      BY <1>3, <2>3
    <3>2. x.term = y.term
      BY <1>3, <3>1, OrdinalIs
    <3> QED BY <1>4, <3>2
  <2> HIDE DEF Earlier
  <2> QED BY <1>5, <2>1, <2>2, <2>3 DEF Orders
<1>7. ASSUME NEW x \in S
      PROVE  Cardinality({y \in S : Earlier(y, x)}) = RankIn(R, S, x)
  <2>1. {y \in S : Earlier(y, x)} = {y \in S : <<y, x>> \in R}
    BY <1>5
  <2> QED BY <2>1 DEF RankIn
<1>8. /\ list \in [1..Cardinality(S) -> S]
      /\ \A i \in 1..Cardinality(S) : RankIn(R, S, list[i]) = i - 1
  <2> HIDE DEF list, Earlier, At
  <2>1. list = [i \in 1..Cardinality(S) |-> list[i]]
    BY <1>1
  <2>2. ASSUME NEW i \in 1..Cardinality(S)
        PROVE  list[i] \in S /\ RankIn(R, S, list[i]) = i - 1
    <3>1. \E x \in S : Cardinality({y \in S : Earlier(y, x)}) = i - 1
      BY <1>2, <1>6, <1>7, RanksIn
    <3>2. list[i] = At(i)
      BY <1>1
    <3>3. list[i] \in S /\ Cardinality({y \in S : Earlier(y, list[i])}) = i - 1
      BY <3>1, <3>2 DEF At
    <3> QED BY <1>7, <3>3
  <2> QED BY <2>1, <2>2
<1> HIDE DEF list
<1>9. /\ list \in Seq(S)
      /\ \A i, j \in DOMAIN list : i < j <=> <<list[i], list[j]>> \in R
      /\ \A i, j \in DOMAIN list : list[i] = list[j] => i = j
      /\ \A x \in S : \E i \in DOMAIN list : list[i] = x
  <2>1. Lists(list, R, S)
    BY <1>2, <1>6, <1>8, RankedLists
  <2> QED BY <2>1 DEF Lists
<1>10. \A i \in DOMAIN list : list[i] \in S /\ ~Exhausted(list[i])
  BY <1>9 DEF S
<1>11. CursorsOf(list)
  <2>1. list \in Seq(Cursor)
    <3>1. S \subseteq Cursor
      BY <1>3
    <3> QED BY <1>9, <3>1
  <2> QED BY <1>4, <1>9, <1>10, <2>1 DEF CursorsOf
<1>12. ASSUME NEW i \in DOMAIN list, NEW j \in DOMAIN list, i < j
       PROVE  DocId(list[i]) <= DocId(list[j])
  <2>1. list[i] \in S /\ list[j] \in S /\ Earlier(list[i], list[j])
    BY <1>5, <1>9, <1>10, <1>12
  <2> QED BY <1>3, <2>1
<1>13. ToSet(list) = S
  <2>1. \A x : x \in ToSet(list) <=> \E i \in DOMAIN list : list[i] = x
    BY <1>9, ToSetIs
  <2>2. \A x : x \in ToSet(list) <=> x \in S
    BY <1>9, <1>10, <2>1
  <2> QED BY <2>2
<1> QED BY <1>10, <1>11, <1>12, <1>13 DEF InOrder, S, list

\* The cursors with which a segment is entered: one for each list of a
\* scoring term, at its first document.
Starts == {[term |-> t, index |-> 1] : t \in Scoring \cap DOMAIN Here.terms}
StartList == SortedBy(LAMBDA c, d : Ordinal[c.term] < Ordinal[d.term], Starts)

LEMMA StartsAre ==
  ASSUME Good(snapshot), segment \in Numbers(snapshot.segments),
         Scoring \subseteq Terms
  PROVE  /\ CursorsOf(StartList) /\ ToSet(StartList) = Starts
         /\ \A c \in Starts : ~Exhausted(c)
<1> DEFINE S == Starts
           Earlier(c, d) == Ordinal[c.term] < Ordinal[d.term]
           R == {p \in S \X S : Earlier(p[1], p[2])}
           At(i) == CHOOSE x \in S : Cardinality({y \in S : Earlier(y, x)}) = i - 1
           list == StartList
<1>1. list = [i \in 1..Cardinality(S) |-> At(i)]
  BY DEF StartList, SortedBy
<1>2. IsFiniteSet(S)
  <2> DEFINE T == Scoring \cap DOMAIN Here.terms
             f == [t \in T |-> [term |-> t, index |-> 1]]
  <2>1. IsFiniteSet(T)
    BY SearchAssumption, FS_Subset
  <2>2. f \in Surjection(T, S)
    <3>1. f \in [T -> S] /\ \A c \in S : \E t \in T : f[t] = c
      BY DEF Starts
    <3> HIDE DEF f, T
    <3> QED BY <3>1, Fun_IsSurj
  <2> HIDE DEF f, T, S
  <2> QED BY <2>1, <2>2, FS_Surjection
<1>3. \A c \in S : c \in Cursor /\ c.index = 1 /\ c.term \in Terms /\ Ordinal[c.term] \in Nat
  BY OrdinalIs DEF Starts, Cursor
<1>4. \A c, d \in S : c.term = d.term => c = d
  BY DEF Starts
<1> HIDE DEF S
<1>5. \A x, y \in S : <<x, y>> \in R <=> Earlier(x, y)
  OBVIOUS
<1> HIDE DEF R
<1>6. Orders(R, S)
  <2>1. \A x, y \in S : Earlier(x, y) => ~Earlier(y, x)
    BY <1>3
  <2>2. \A x, y, z \in S : Earlier(x, y) /\ Earlier(y, z) => Earlier(x, z)
    BY <1>3
  <2>3. ASSUME NEW x \in S, NEW y \in S, ~Earlier(x, y), ~Earlier(y, x)
        PROVE  x = y
    <3>1. Ordinal[x.term] = Ordinal[y.term]
      BY <1>3, <2>3
    <3>2. x.term = y.term
      BY <1>3, <3>1, OrdinalIs
    <3> QED BY <1>4, <3>2
  <2> HIDE DEF Earlier
  <2> QED BY <1>5, <2>1, <2>2, <2>3 DEF Orders
<1>7. ASSUME NEW x \in S
      PROVE  Cardinality({y \in S : Earlier(y, x)}) = RankIn(R, S, x)
  <2>1. {y \in S : Earlier(y, x)} = {y \in S : <<y, x>> \in R}
    BY <1>5
  <2> QED BY <2>1 DEF RankIn
<1>8. /\ list \in [1..Cardinality(S) -> S]
      /\ \A i \in 1..Cardinality(S) : RankIn(R, S, list[i]) = i - 1
  <2> HIDE DEF list, Earlier, At
  <2>1. list = [i \in 1..Cardinality(S) |-> list[i]]
    BY <1>1
  <2>2. ASSUME NEW i \in 1..Cardinality(S)
        PROVE  list[i] \in S /\ RankIn(R, S, list[i]) = i - 1
    <3>1. \E x \in S : Cardinality({y \in S : Earlier(y, x)}) = i - 1
      BY <1>2, <1>6, <1>7, RanksIn
    <3>2. list[i] = At(i)
      BY <1>1
    <3>3. list[i] \in S /\ Cardinality({y \in S : Earlier(y, list[i])}) = i - 1
      BY <3>1, <3>2 DEF At
    <3> QED BY <1>7, <3>3
  <2> QED BY <2>1, <2>2
<1> HIDE DEF list
<1>9. /\ list \in Seq(S)
      /\ \A i, j \in DOMAIN list : list[i] = list[j] => i = j
      /\ \A x \in S : \E i \in DOMAIN list : list[i] = x
  <2>1. Lists(list, R, S)
    BY <1>2, <1>6, <1>8, RankedLists
  <2> QED BY <2>1 DEF Lists
<1>10. \A i \in DOMAIN list : list[i] \in S
  BY <1>9
<1>11. CursorsOf(list)
  <2>1. list \in Seq(Cursor)
    <3>1. S \subseteq Cursor
      BY <1>3
    <3> QED BY <1>9, <3>1
  <2> QED BY <1>4, <1>9, <1>10, <2>1 DEF CursorsOf
<1>12. ToSet(list) = S
  <2>1. \A x : x \in ToSet(list) <=> \E i \in DOMAIN list : list[i] = x
    BY <1>9, ToSetIs
  <2>2. \A x : x \in ToSet(list) <=> x \in S
    BY <1>9, <1>10, <2>1
  <2> QED BY <2>2
<1>13. ASSUME NEW c \in S PROVE ~Exhausted(c)
  <2>1. c \in Cursor /\ c.index = 1
    BY <1>3
  <2>2. List(c.term).docids \in Seq(Nat) /\ Len(List(c.term).docids) # 0
    BY <2>1, CursorAt
  <2>3. c.index \in DOMAIN List(c.term).docids
    BY <2>1, <2>2
  <2> QED BY <2>1, <2>3, CursorAt
<1> QED BY <1>11, <1>12, <1>13 DEF S, list

\* advance_to passes exactly the documents before n.
LEMMA AdvanceIs ==
  ASSUME Good(snapshot), segment \in Numbers(snapshot.segments), NEW c \in Cursor, NEW n \in Nat
  PROVE  /\ AdvanceTo(c, n) \in Cursor /\ AdvanceTo(c, n).term = c.term
         /\ AdvanceTo(c, n).index >= c.index \/ Exhausted(c)
         /\ \A j \in DOMAIN List(c.term).docids :
              j >= c.index /\ j < AdvanceTo(c, n).index => List(c.term).docids[j] < n
<1> DEFINE docids == List(c.term).docids
           S == {i \in c.index..Len(docids) : docids[i] >= n} \cup {Len(docids) + 1}
           a == AdvanceTo(c, n)
<1>1. docids \in Seq(Nat) /\ c.index \in Nat \ {0} /\ c.term \in Scoring \cap DOMAIN Here.terms
  BY CursorAt
<1>2. Exhausted(c) <=> c.index > Len(docids)
  BY DEF Exhausted
<1>3. c = [term |-> c.term, index |-> c.index]
  BY DEF Cursor
<1>4. a = [term |-> c.term, index |-> Min(S)]
  BY <1>3 DEF AdvanceTo
<1> HIDE DEF docids
<1>5. Len(docids) \in Nat /\ DOMAIN docids = 1..Len(docids) /\ \A j \in DOMAIN docids : docids[j] \in Nat
  BY <1>1
<1>6. S \subseteq Nat \ {0} /\ S # {}
  BY <1>1, <1>5
<1>7. Min(S) \in S /\ \A j \in S : Min(S) <= j
  <2>1. S \subseteq Nat
    BY <1>6
  <2> HIDE DEF S
  <2> QED BY <1>6, <2>1, MinIs
<1>8. Min(S) >= c.index \/ Exhausted(c)
  BY <1>1, <1>2, <1>5, <1>7
<1>9. ASSUME NEW j \in DOMAIN docids, j >= c.index, j < Min(S) PROVE docids[j] < n
  <2>1. j \notin S
    <3> HIDE DEF S
    <3>1. Min(S) \in Nat
      BY <1>6, <1>7
    <3> QED BY <1>5, <1>7, <1>9, <3>1
  <2>2. j \in c.index..Len(docids)
    BY <1>1, <1>5, <1>9
  <2>3. ~(docids[j] >= n)
    BY <2>1, <2>2
  <2> QED BY <1>5, <2>3
<1> DEFINE min == Min(S)
<1>10. min \in Nat \ {0}
  BY <1>6, <1>7
<1> HIDE DEF S
<1>11. a \in Cursor /\ a.term = c.term /\ a.index = min
  BY <1>1, <1>4, <1>10 DEF Cursor
<1> QED BY <1>8, <1>9, <1>11 DEF docids

-----------------------------------------------------------------------------
(* The invariant.                                                          *)

\* The terms of cursors that are not yet past document n.
Waiting(cs, n) == {c.term : c \in {d \in ToSet(cs) : ~Exhausted(d) /\ DocId(d) <= n}}

\* The most that some terms can add to a score.
MostOf(terms) == SumFunction([t \in terms |-> ListBound(t)])

\* The hits that a search can reach: those with a term that scores, if there
\* are such terms.
Reach == {h \in Candidates : Scoring = {} \/ Scorers(h.segment, h.docid, Scoring) # {}}

\* A search on one of its ways is past document n of the current segment.
PastHere(way, cs, k, n) ==
  \/ way = "wand" /\ ~(Scorers(segment, n, Scoring) \subseteq Waiting(cs, n))
  \/ way = "intersect" /\ \E c \in ToSet(cs) : Exhausted(c) \/ DocId(c) > n
  \/ /\ way = "single"
     /\ \E j \in DOMAIN List(cs[1].term).docids :
          j <= (k - 1) * BlockSize /\ List(cs[1].term).docids[j] = n

Behind(way, cs, k) ==
  {h \in Reach : \/ way = "done"
                 \/ h.segment < segment
                 \/ h.segment = segment /\ PastHere(way, cs, k, h.docid)}

Intersects == IsFlatConjunction(query) \/ query.op = "phrase"

SingleOk(cs) ==
  /\ IsFlatDisjunction(query)
  /\ \E t \in DOMAIN Here.terms : Scoring = {t} /\ cs = <<[term |-> t, index |-> 1]>>

IntersectOk(cs) ==
  /\ Intersects
  /\ CursorsOf(cs)
  /\ \A t \in Scoring : \E i \in DOMAIN cs : cs[i].term = t

\* Once a cursor is past a document the other ones cannot make it count.
LeftHopeless(cs) ==
  \A n \in Numbers(Here.docs) :
    /\ Waiting(cs, n) # {}
    /\ ~(Scorers(segment, n, Scoring) \subseteq Waiting(cs, n))
    => Hopeless(MostOf(Waiting(cs, n)))

WayOk ==
  /\ pc \in {"all", "segment", "single", "intersect", "wand", "done"}
  /\ segment \in 0..Len(snapshot.segments) /\ block \in Nat \ {0}
  /\ pc \in {"single", "intersect", "wand"} => Scoring # {} /\ segment < Len(snapshot.segments)
  /\ pc \in {"all", "segment", "done"} => cursors = <<>>
  /\ pc = "all" => Scoring = {} /\ segment = 0
  /\ pc = "segment" => Scoring # {}
  /\ pc # "single" => block = 1
  /\ pc = "single" => SingleOk(cursors)
  /\ pc = "intersect" => IntersectOk(cursors)
  /\ pc = "wand" => InOrder(cursors) /\ LeftHopeless(cursors)

InputsOk ==
  /\ Good(snapshot) /\ Counted(snapshot)
  /\ query \in Searched /\ limit \in Limits

SearchInv ==
  /\ InputsOk
  /\ WayOk
  /\ Keeps(heap, Behind(pc, cursors, block), limit)

-----------------------------------------------------------------------------
(* Where cursors are, and what they can add.                               *)

\* A cursor is past the postings before its index.
LEMMA NotPast ==
  ASSUME Good(snapshot), segment \in Numbers(snapshot.segments), NEW c \in Cursor,
         NEW j \in DOMAIN List(c.term).docids
  PROVE  ~Exhausted(c) /\ DocId(c) <= List(c.term).docids[j] <=> c.index <= j
<1> DEFINE docids == List(c.term).docids
<1>1. docids \in Seq(Nat) /\ c.index \in Nat \ {0} /\ c.term \in DOMAIN Here.terms
  BY CursorAt
<1>2. \A i, k \in DOMAIN docids : i < k => docids[i] < docids[k]
  <2>1. Here = Segment(segment)
    BY DEF Here, Segment
  <2>2. ListFacts(List(c.term), Here.docs, c.term)
    BY <1>1, <2>1, SegmentFacts DEF List
  <2> QED BY <2>2 DEF ListFacts
<1>3. /\ ~Exhausted(c) <=> c.index \in DOMAIN docids
      /\ ~Exhausted(c) => DocId(c) = docids[c.index]
  BY CursorAt
<1>4. j \in DOMAIN docids
  OBVIOUS
<1> HIDE DEF docids
<1>5. \A i \in DOMAIN docids : docids[i] \in Nat
  BY <1>1
<1>6. DOMAIN docids = 1..Len(docids) /\ Len(docids) \in Nat
  BY <1>1
<1>7. CASE c.index <= j
  <2>1. c.index \in DOMAIN docids
    BY <1>1, <1>4, <1>6, <1>7
  <2>2. docids[c.index] <= docids[j]
    BY <1>2, <1>4, <1>5, <1>6, <1>7, <2>1
  <2> QED BY <1>3, <1>7, <2>1, <2>2 DEF docids
<1>8. CASE ~(c.index <= j)
  <2>1. j < c.index
    BY <1>1, <1>4, <1>6, <1>8
  <2>2. ASSUME c.index \in DOMAIN docids PROVE ~(docids[c.index] <= docids[j])
    BY <1>2, <1>4, <1>5, <2>1, <2>2
  <2> QED BY <1>3, <1>8, <2>2 DEF docids
<1> QED BY <1>7, <1>8

\* Cursors are of different lists.
LEMMA CursorsIn ==
  ASSUME NEW cs, CursorsOf(cs)
  PROVE  /\ cs \in Seq(Cursor) /\ ToSet(cs) \subseteq Cursor /\ IsFiniteSet(DOMAIN cs)
         /\ \A i \in DOMAIN cs : cs[i] \in Cursor /\ cs[i] \in ToSet(cs)
         /\ \A c \in ToSet(cs) : \E i \in DOMAIN cs : cs[i] = c
         /\ \A c, d \in ToSet(cs) : c.term = d.term => c = d
<1>1. cs \in Seq(Cursor) /\ \A i, j \in DOMAIN cs : cs[i].term = cs[j].term => i = j
  BY DEF CursorsOf
<1>2. /\ IsFiniteSet(DOMAIN cs) /\ ToSet(cs) \subseteq Cursor
      /\ \A x : x \in ToSet(cs) <=> \E i \in DOMAIN cs : cs[i] = x
  BY <1>1, ToSetIs
<1>3. \A i \in DOMAIN cs : cs[i] \in Cursor
  BY <1>1
<1> QED BY <1>1, <1>2, <1>3

\* The terms that wait are those of cursors that are not past.
LEMMA WaitingIs ==
  ASSUME NEW cs, CursorsOf(cs), Scoring \subseteq Terms, NEW n
  PROVE  /\ Waiting(cs, n) \subseteq Scoring \cap DOMAIN Here.terms
         /\ IsFiniteSet(Waiting(cs, n))
         /\ \A t : t \in Waiting(cs, n) <=>
              \E c \in ToSet(cs) : c.term = t /\ ~Exhausted(c) /\ DocId(c) <= n
         /\ \A c \in ToSet(cs) :
              c.term \in Waiting(cs, n) <=> ~Exhausted(c) /\ DocId(c) <= n
<1>1. /\ ToSet(cs) \subseteq Cursor
      /\ \A c, d \in ToSet(cs) : c.term = d.term => c = d
  BY CursorsIn
<1>2. \A t : t \in Waiting(cs, n) <=>
              \E c \in ToSet(cs) : c.term = t /\ ~Exhausted(c) /\ DocId(c) <= n
  BY DEF Waiting
<1>3. \A c \in ToSet(cs) : c.term \in Scoring \cap DOMAIN Here.terms
  BY <1>1 DEF Cursor
<1>4. Waiting(cs, n) \subseteq Scoring \cap DOMAIN Here.terms
  BY <1>2, <1>3
<1>5. IsFiniteSet(Waiting(cs, n))
  BY <1>4, SearchAssumption, FS_Subset
<1> QED BY <1>1, <1>2, <1>4, <1>5

\* The sum of the bounds of some lists.
LEMMA MostIs ==
  ASSUME Good(snapshot), segment \in Numbers(snapshot.segments),
         NEW U, U \subseteq DOMAIN Here.terms, IsFiniteSet(U)
  PROVE  /\ MostOf(U) \in Nat
         /\ \A T \in SUBSET U : MostOf(T) <= MostOf(U)
<1> DEFINE f(T) == [t \in T |-> ListBound(t)]
<1>1. \A t \in U : ListBound(t) \in Nat
  BY ListBoundIs
<1>2. f(U) \in [U -> Nat]
  BY <1>1
<1>3. MostOf(U) \in Nat
  BY <1>2, SumIs DEF MostOf
<1>4. ASSUME NEW T \in SUBSET U PROVE MostOf(T) <= MostOf(U)
  <2> DEFINE e == [t \in T |-> t]
  <2>1. f(T) \in [T -> Nat] /\ IsFiniteSet(T) /\ e \in [T -> U]
    BY <1>1, FS_Subset
  <2>2. \A x \in T : f(T)[x] <= f(U)[e[x]]
    BY <1>1
  <2>3. \A x, y \in T : e[x] = e[y] => x = y
    OBVIOUS
  <2>4. MostOf(T) = SumFunction(f(T)) /\ MostOf(U) = SumFunction(f(U))
    BY DEF MostOf
  <2> HIDE DEF f, e
  <2> QED BY <1>2, <2>1, <2>2, <2>3, <2>4, SumInto
<1> QED BY <1>3, <1>4

\* What a term adds is no more than the bound of its list.
LEMMA PartBelow ==
  ASSUME Good(snapshot), segment \in Numbers(snapshot.segments), NEW n, NEW terms,
         NEW t \in Scorers(segment, n, terms)
  PROVE  t \in terms /\ t \in DOMAIN Here.terms /\ Part(segment, n, t) <= ListBound(t)
<1>1. Here = Segment(segment)
  BY DEF Here, Segment
<1>2. t \in terms /\ t \in DOMAIN Here.terms /\
      \E j \in DOMAIN Here.terms[t].docids : Here.terms[t].docids[j] = n
  BY <1>1, ScorersAre
<1>3. PICK j \in DOMAIN List(t).docids : List(t).docids[j] = n
  BY <1>2 DEF List
<1>4. Part(segment, List(t).docids[j], t) <= ListBound(t)
  BY <1>2, ListBoundIs
<1> QED BY <1>2, <1>3, <1>4

\* A score is no more than the bounds of lists that cover its terms.
LEMMA ScoreMost ==
  ASSUME Good(snapshot), segment \in Numbers(snapshot.segments), NEW n, NEW terms,
         NEW U, U \subseteq DOMAIN Here.terms, IsFiniteSet(U),
         Scorers(segment, n, terms) \subseteq U
  PROVE  Score(segment, n, terms) <= MostOf(U)
<1> DEFINE S == Scorers(segment, n, terms)
           e == [t \in S |-> t]
           g == [t \in U |-> ListBound(t)]
<1>1. g \in [U -> Nat]
  BY ListBoundIs
<1>2. \A t \in S : Part(segment, n, t) <= g[e[t]]
  BY PartBelow
<1>3. e \in [S -> U] /\ \A t, u \in S : e[t] = e[u] => t = u
  OBVIOUS
<1>4. MostOf(U) = SumFunction(g)
  BY DEF MostOf
<1> HIDE DEF e, g
<1> QED BY <1>1, <1>2, <1>3, <1>4, ScoreBelow

\* The bounds of the cursors from i to j.
Bounding(cs, i, j) == SumFunction([k \in i..j |-> ListBound(cs[k].term)])

LEMMA BoundsAre ==
  ASSUME Good(snapshot), segment \in Numbers(snapshot.segments), NEW cs, CursorsOf(cs),
         NEW i \in Nat, NEW j \in Nat, i..j \subseteq DOMAIN cs
  PROVE  /\ Bounding(cs, i, j) \in Nat
         /\ \A U : IsFiniteSet(U) /\ (\A t \in U : \E k \in i..j : cs[k].term = t) =>
              MostOf(U) <= Bounding(cs, i, j)
         /\ \A U : /\ U \subseteq DOMAIN Here.terms /\ IsFiniteSet(U)
                   /\ \A k \in i..j : cs[k].term \in U
                   => Bounding(cs, i, j) <= MostOf(U)
<1> DEFINE K == i..j
           f == [k \in K |-> ListBound(cs[k].term)]
           g(U) == [t \in U |-> ListBound(t)]
<1>1. \A k \in DOMAIN cs : cs[k] \in Cursor
  BY CursorsIn
<1>2. \A k \in DOMAIN cs : cs[k].term \in DOMAIN Here.terms
  BY <1>1 DEF Cursor
<1>3. \A k, l \in K : cs[k].term = cs[l].term => k = l
  BY DEF CursorsOf
<1>4. IsFiniteSet(K)
  BY FS_Interval
<1>5. \A t \in DOMAIN Here.terms : ListBound(t) \in Nat
  BY ListBoundIs
<1>6. f \in [K -> Nat]
  BY <1>2, <1>5
<1>7. Bounding(cs, i, j) = SumFunction(f)
  BY DEF Bounding
<1>8. SumFunction(f) \in Nat
  <2> HIDE DEF f, K
  <2> QED BY <1>4, <1>6, SumIs
<1>9. ASSUME NEW U, IsFiniteSet(U), \A t \in U : \E k \in K : cs[k].term = t
      PROVE  MostOf(U) <= SumFunction(f)
  <2> DEFINE e == [t \in U |-> CHOOSE k \in K : cs[k].term = t]
  <2>1. \A t \in U : e[t] \in K /\ cs[e[t]].term = t
    BY <1>9
  <2>2. e \in [U -> K]
    BY <2>1
  <2>3. \A t \in U : t \in DOMAIN Here.terms
    BY <1>2, <1>9
  <2>4. g(U) \in [U -> Nat]
    BY <1>5, <2>3
  <2> HIDE DEF e
  <2>5. \A t, u \in U : e[t] = e[u] => t = u
    BY <2>1
  <2>6. \A t \in U : g(U)[t] <= f[e[t]]
    BY <1>5, <2>1, <2>3
  <2>7. MostOf(U) = SumFunction(g(U))
    BY DEF MostOf
  <2> HIDE DEF f, g, K
  <2> QED BY <1>4, <1>6, <1>9, <2>2, <2>4, <2>5, <2>6, <2>7, SumInto
<1>10. ASSUME NEW U, U \subseteq DOMAIN Here.terms, IsFiniteSet(U), \A k \in K : cs[k].term \in U
       PROVE  SumFunction(f) <= MostOf(U)
  <2> DEFINE e == [k \in K |-> cs[k].term]
  <2>1. e \in [K -> U]
    BY <1>10
  <2>2. g(U) \in [U -> Nat]
    BY <1>5, <1>10
  <2>3. \A k, l \in K : e[k] = e[l] => k = l
    BY <1>3
  <2>4. \A k \in K : f[k] <= g(U)[e[k]]
    <3>1. ASSUME NEW k \in K PROVE f[k] <= g(U)[e[k]]
      <4>1. f[k] = ListBound(cs[k].term) /\ g(U)[e[k]] = ListBound(cs[k].term)
        BY <1>10
      <4>2. ListBound(cs[k].term) \in Nat
        BY <1>2, <1>5
      <4> QED BY <4>1, <4>2
    <3> QED BY <3>1
  <2>5. MostOf(U) = SumFunction(g(U))
    BY DEF MostOf
  <2> HIDE DEF f, g, e, K
  <2> QED BY <1>4, <1>6, <1>10, <2>1, <2>2, <2>3, <2>4, <2>5, SumInto
<1> HIDE DEF f
<1> QED BY <1>7, <1>8, <1>9, <1>10

\* Less is hopeless, too.
LEMMA HopelessBelow ==
  ASSUME limit \in Nat \ {0}, Rankable(heap), NEW a \in Nat, NEW b \in Nat, a <= b, Hopeless(b)
  PROVE  Hopeless(a)
<1>1. IsFull /\ b < Threshold
  BY DEF Hopeless
<1>2. heap # {}
  BY <1>1, FS_EmptySet DEF IsFull
<1>3. Threshold \in Nat
  BY <1>1, <1>2, WorstIs DEF Threshold, Rankable
<1> QED BY <1>1, <1>3 DEF Hopeless

\* The heap of a search: full, and its worst score above a bound.
Above(hits, bound) == Cardinality(hits) = limit /\ bound < Worst(hits).score

LEMMA HopelessMeans ==
  ASSUME NEW bound
  PROVE  Hopeless(bound) <=> Above(heap, bound)
BY DEF Hopeless, IsFull, Threshold, Above

\* What is pushed into a full heap does not lower its worst score.
LEMMA PushRaises ==
  ASSUME limit \in Nat \ {0}, NEW x, x \notin heap, Rankable(heap \cup {x}),
         NEW bound \in Nat, Above(heap, bound)
  PROVE  Above(Push(heap, x), bound)
<1> DEFINE w == Worst(heap)
           new == (heap \ {w}) \cup {x}
<1>1. Rankable(heap) /\ IsFiniteSet(heap)
  BY RankableParts DEF Rankable
<1>2. heap # {}
  BY FS_EmptySet DEF Above
<1>3. w \in heap /\ \A y \in heap \ {w} : Better(y, w)
  BY <1>1, <1>2, WorstIs
<1>4. \A y \in heap \cup {x} : y.score \in Nat
  BY DEF Rankable
<1>5. bound < w.score
  BY DEF Above
<1>6. CASE ~Better(x, w)
  <2>1. Push(heap, x) = heap
    BY <1>6 DEF Push, Above
  <2> QED BY <2>1
<1>7. CASE Better(x, w)
  <2>1. Push(heap, x) = new
    BY <1>7 DEF Push, Above
  <2>2. Cardinality(new) = limit
    <3>1. Cardinality(heap) = limit
      BY DEF Above
    <3>2. IsFiniteSet(heap \ {w}) /\ Cardinality(heap \ {w}) = limit - 1
      BY <1>1, <1>3, <3>1, FS_RemoveElement
    <3>3. Cardinality(new) = limit - 1 + 1
      BY <3>2, FS_AddElement
    <3> QED BY <3>3
  <2>3. Rankable(new) /\ new # {}
    <3>1. new \in SUBSET (heap \cup {x})
      BY <1>3
    <3> QED BY <3>1, RankableParts
  <2>4. Worst(new) \in new
    BY <2>3, WorstIs
  <2>5. \A y \in new : bound < y.score
    <3>1. ASSUME NEW y \in new PROVE bound < y.score
      <4>1. Better(y, w)
        BY <1>3, <1>7
      <4> QED BY <1>3, <1>4, <1>5, <4>1 DEF Better
    <3> QED BY <3>1
  <2> HIDE DEF new
  <2> QED BY <2>1, <2>2, <2>4, <2>5 DEF Above
<1> QED BY <1>6, <1>7

-----------------------------------------------------------------------------
(* What a search can reach.                                                *)

\* Scoring terms are terms.
LEMMA ScoringTyped ==
  ASSUME NEW s
  PROVE  \A q \in Queries : ScoringTerms(s, q) \subseteq Terms
<1> DEFINE Bad == {Height[q] : q \in {p \in Queries : ~(ScoringTerms(s, p) \subseteq Terms)}}
<1> SUFFICES ASSUME Bad # {} PROVE FALSE
  OBVIOUS
<1>1. PICK k \in Bad : \A j \in Bad : k <= j
  <2>1. Bad \subseteq Nat
    BY HeightAssumption
  <2> HIDE DEF Bad
  <2> QED BY <2>1, Least
<1>2. PICK q \in Queries : Height[q] = k /\ ~(ScoringTerms(s, q) \subseteq Terms)
  OBVIOUS
<1>3. ASSUME NEW p \in Parts(q) PROVE ScoringTerms(s, p) \subseteq Terms
  <2>1. p \in Queries /\ Height[p] \in Nat /\ Height[q] \in Nat /\ Height[p] < Height[q]
    BY HeightIs
  <2> SUFFICES ASSUME ~(ScoringTerms(s, p) \subseteq Terms) PROVE FALSE
    OBVIOUS
  <2>2. Height[p] \in Bad
    BY <2>1
  <2>3. k <= Height[p]
    <3> HIDE DEF Bad
    <3> QED BY <1>1, <2>2
  <2> QED BY <1>2, <2>1, <2>3
<1> HIDE DEF Bad
<1>4. CASE q.op = "column"
  BY <1>2, <1>3, <1>4, QueryForms, ScoringKinds
<1>5. CASE q.op = "and" \/ q.op = "or"
  <2>1. PICK t \in ScoringTerms(s, q) : t \notin Terms
    BY <1>2
  <2>2. PICK j \in DOMAIN q.children : t \in ScoringTerms(s, q.children[j])
    <3>1. \A u : u \in ScoringTerms(s, q) <=>
                   \E i \in DOMAIN q.children : u \in ScoringTerms(s, q.children[i])
      BY <1>5, ScoringKinds
    <3> QED BY <2>1, <3>1
  <2>3. q.children[j] \in Parts(q)
    BY <1>5, QueryForms
  <2> QED BY <1>3, <2>1, <2>2, <2>3
<1>6. CASE q.op = "phrase"
  <2>1. q.phrase \in Seq(Terms)
    BY <1>6, QueryForms
  <2>2. ToSet(q.phrase) \subseteq Terms
    BY <2>1, ToSetIs
  <2> QED BY <1>2, <1>6, <2>2, ScoringKinds
<1>7. CASE q.op = "near"
  <2>1. q.near \in Seq(Terms)
    BY <1>7, QueryForms
  <2>2. ToSet(q.near) \subseteq Terms
    BY <2>1, ToSetIs
  <2> QED BY <1>2, <1>7, <2>2, ScoringKinds
<1>8. CASE q.op = "term" \/ q.op = "prefix"
  BY <1>2, <1>8, QueryForms, ScoringKinds
<1>9. CASE q.op \in {"not", "all"}
  BY <1>2, <1>9, ScoringKinds
<1> QED BY <1>4, <1>5, <1>6, <1>7, <1>8, <1>9, QueryForms

LEMMA InputsAre ==
  ASSUME InputsOk
  PROVE  /\ Good(snapshot) /\ Counted(snapshot)
         /\ limit \in Nat \ {0} /\ query \in Queries
         /\ Scoring \subseteq Terms /\ IsFiniteSet(Scoring)
         /\ Rankable(Candidates) /\ Candidates \subseteq Hit
         /\ Rankable(Reach)
<1>1. Good(snapshot) /\ Counted(snapshot) /\ limit \in Nat \ {0} /\ query \in Queries
  BY SearchAssumption DEF InputsOk
<1>2. Scoring \subseteq Terms
  BY <1>1, ScoringTyped DEF Scoring
<1>3. IsFiniteSet(Scoring)
  BY <1>2, SearchAssumption, FS_Subset
<1>4. Rankable(Candidates) /\ Candidates \subseteq Hit
  BY <1>1, CandidatesAre
<1>5. Rankable(Reach)
  <2>1. Reach \in SUBSET Candidates
    BY DEF Reach
  <2> QED BY <1>4, <2>1, RankableParts
<1> QED BY <1>1, <1>2, <1>3, <1>4, <1>5

\* The hits of the current segment.
HitAt(n) == RankedDoc(segment, n, Scoring)

LEMMA ReachHere ==
  ASSUME InputsOk, segment \in Numbers(snapshot.segments), Scoring # {}
  PROVE  /\ \A n \in Numbers(Here.docs) :
              HitAt(n) \in Reach <=>
                Matching(segment, n) /\ Scorers(segment, n, Scoring) # {}
         /\ \A n : HitAt(n).segment = segment /\ HitAt(n).docid = n
                   /\ HitAt(n).score = Score(segment, n, Scoring)
         /\ \A h \in Reach : h.segment = segment =>
              /\ h.docid \in Numbers(Here.docs) /\ h = HitAt(h.docid)
              /\ Matching(segment, h.docid) /\ Scorers(segment, h.docid, Scoring) # {}
<1>1. \A h : h \in Candidates <=>
        \E i \in Numbers(snapshot.segments) : \E n \in Numbers(Segment(i).docs) :
          Matching(i, n) /\ h = RankedDoc(i, n, Scoring)
  BY InputsAre, CandidatesAre
<1>2. \A i, n : /\ RankedDoc(i, n, Scoring).segment = i
                /\ RankedDoc(i, n, Scoring).docid = n
                /\ RankedDoc(i, n, Scoring).score = Score(i, n, Scoring)
  BY DEF RankedDoc
<1>3. Here = Segment(segment)
  BY DEF Here, Segment
<1>4. \A h : h \in Reach <=> h \in Candidates /\ Scorers(h.segment, h.docid, Scoring) # {}
  BY DEF Reach
<1>5. ASSUME NEW n \in Numbers(Here.docs)
      PROVE  HitAt(n) \in Reach <=>
               Matching(segment, n) /\ Scorers(segment, n, Scoring) # {}
  <2>1. HitAt(n) \in Reach <=> HitAt(n) \in Candidates /\ Scorers(segment, n, Scoring) # {}
    BY <1>2, <1>4 DEF HitAt
  <2>2. ASSUME Matching(segment, n) PROVE HitAt(n) \in Candidates
    BY <1>1, <1>3, <2>2 DEF HitAt
  <2>3. ASSUME HitAt(n) \in Candidates PROVE Matching(segment, n)
    <3>1. PICK i \in Numbers(snapshot.segments) : \E m \in Numbers(Segment(i).docs) :
            Matching(i, m) /\ HitAt(n) = RankedDoc(i, m, Scoring)
      BY <1>1, <2>3
    <3>2. PICK m \in Numbers(Segment(i).docs) :
            Matching(i, m) /\ HitAt(n) = RankedDoc(i, m, Scoring)
      BY <3>1
    <3>3. i = segment /\ m = n
      BY <1>2, <3>2 DEF HitAt
    <3> QED BY <3>2, <3>3
  <2> QED BY <2>1, <2>2, <2>3
<1>6. ASSUME NEW h \in Reach, h.segment = segment
      PROVE  /\ h.docid \in Numbers(Here.docs) /\ h = HitAt(h.docid)
             /\ Matching(segment, h.docid) /\ Scorers(segment, h.docid, Scoring) # {}
  <2>1. PICK i \in Numbers(snapshot.segments) : \E m \in Numbers(Segment(i).docs) :
          Matching(i, m) /\ h = RankedDoc(i, m, Scoring)
    BY <1>1, <1>4, <1>6
  <2>2. PICK m \in Numbers(Segment(i).docs) :
          Matching(i, m) /\ h = RankedDoc(i, m, Scoring)
    BY <2>1
  <2>3. i = segment /\ m = h.docid
    BY <1>2, <1>6, <2>2
  <2> QED BY <1>3, <1>4, <1>6, <2>2, <2>3 DEF HitAt
<1>7. \A n : HitAt(n).segment = segment /\ HitAt(n).docid = n
             /\ HitAt(n).score = Score(segment, n, Scoring)
  BY <1>2 DEF HitAt
<1> QED BY <1>5, <1>6, <1>7

\* The hits among some documents of the current segment.
Found(N) == {HitAt(n) : n \in {m \in N \cap Numbers(Here.docs) : HitAt(m) \in Reach}}

LEMMA BehindIs ==
  ASSUME NEW way, NEW cs, NEW k, way # "done", NEW h
  PROVE  h \in Behind(way, cs, k) <=>
           /\ h \in Reach
           /\ h.segment < segment \/ (h.segment = segment /\ PastHere(way, cs, k, h.docid))
BY DEF Behind

\* When the search gets past some documents, their hits are behind it.
LEMMA BehindGrows ==
  ASSUME InputsOk, segment \in Numbers(snapshot.segments), Scoring # {},
         NEW way, NEW cs, NEW k, way # "done", NEW next, NEW ds, NEW l, next # "done", NEW N,
         \A n \in Numbers(Here.docs) : HitAt(n) \in Reach =>
           (PastHere(next, ds, l, n) <=> PastHere(way, cs, k, n) \/ n \in N)
  PROVE  Behind(next, ds, l) = Behind(way, cs, k) \cup Found(N)
<1>1. \A n : HitAt(n).segment = segment /\ HitAt(n).docid = n
  BY ReachHere
<1>2. \A h \in Reach : h.segment = segment =>
        h.docid \in Numbers(Here.docs) /\ h = HitAt(h.docid)
  BY ReachHere
<1>3. \A h : h \in Found(N) <=>
        h \in Reach /\ h.segment = segment /\ h.docid \in N
  BY <1>1, <1>2 DEF Found
<1>4. ASSUME NEW h \in Reach, h.segment = segment
      PROVE  PastHere(next, ds, l, h.docid) <=> PastHere(way, cs, k, h.docid) \/ h.docid \in N
  BY <1>2, <1>4
<1>5. ASSUME NEW h
      PROVE  h \in Behind(next, ds, l) <=> h \in Behind(way, cs, k) \/ h \in Found(N)
  <2>1. h \in Behind(next, ds, l) <=>
          /\ h \in Reach
          /\ h.segment < segment \/ (h.segment = segment /\ PastHere(next, ds, l, h.docid))
    BY BehindIs
  <2>2. h \in Behind(way, cs, k) <=>
          /\ h \in Reach
          /\ h.segment < segment \/ (h.segment = segment /\ PastHere(way, cs, k, h.docid))
    BY BehindIs
  <2> QED BY <1>3, <1>4, <2>1, <2>2
<1> QED BY <1>5

LEMMA BehindSame ==
  ASSUME InputsOk, segment \in Numbers(snapshot.segments), Scoring # {},
         NEW way, NEW cs, NEW k, way # "done", NEW next, NEW ds, NEW l, next # "done",
         \A n \in Numbers(Here.docs) : HitAt(n) \in Reach =>
           (PastHere(next, ds, l, n) <=> PastHere(way, cs, k, n))
  PROVE  Behind(next, ds, l) = Behind(way, cs, k)
<1>1. Behind(next, ds, l) = Behind(way, cs, k) \cup Found({})
  BY BehindGrows
<1>2. Found({}) = {}
  BY DEF Found
<1> QED BY <1>1, <1>2

\* Hits that it has not been past are new.
LEMMA FoundIs ==
  ASSUME InputsOk, segment \in Numbers(snapshot.segments), Scoring # {}, NEW N
  PROVE  /\ Found(N) \subseteq Reach
         /\ \A h : h \in Found(N) <=>
              \E n \in N \cap Numbers(Here.docs) : HitAt(n) \in Reach /\ h = HitAt(n)
         /\ \A way, cs, k : way # "done" =>
              \A n \in Numbers(Here.docs) :
                HitAt(n) \in Behind(way, cs, k) <=>
                  HitAt(n) \in Reach /\ PastHere(way, cs, k, n)
<1>1. /\ Found(N) \subseteq Reach
      /\ \A h : h \in Found(N) <=>
           \E n \in N \cap Numbers(Here.docs) : HitAt(n) \in Reach /\ h = HitAt(n)
  BY DEF Found
<1>2. \A n : HitAt(n).segment = segment /\ HitAt(n).docid = n
  BY ReachHere
<1>3. segment \in Nat
  BY DEF Numbers
<1>4. ASSUME NEW way, NEW cs, NEW k, way # "done", NEW n \in Numbers(Here.docs)
      PROVE  HitAt(n) \in Behind(way, cs, k) <=>
               HitAt(n) \in Reach /\ PastHere(way, cs, k, n)
  <2>1. HitAt(n).segment = segment /\ ~(HitAt(n).segment < segment) /\ HitAt(n).docid = n
    BY <1>2, <1>3
  <2> QED BY <1>4, <2>1 DEF Behind
<1> QED BY <1>1, <1>4

\* The intersection finds documents with all scoring terms only.
LEMMA IntersectHas ==
  ASSUME InputsOk, segment \in Numbers(snapshot.segments), Scoring # {}, Intersects,
         NEW n \in Numbers(Here.docs), HitAt(n) \in Reach, NEW t \in Scoring
  PROVE  t \in DOMAIN Here.terms /\ \E j \in DOMAIN List(t).docids : List(t).docids[j] = n
<1>1. Here = Segment(segment)
  BY DEF Here, Segment
<1>2. Matching(segment, n)
  BY ReachHere
<1>3. IsLive(snapshot, segment, n) /\ Matches(Segment(segment), n, query)
  BY <1>2 DEF Matching
<1>4. t \in Segment(segment).docs[n + 1].terms
  <2>1. t \in ScoringTerms(snapshot, query)
    BY DEF Scoring
  <2>2. CASE IsFlatConjunction(query)
    BY <1>1, <1>3, <2>1, <2>2, InputsAre, ConjunctionMatches
  <2>3. CASE query.op = "phrase"
    BY <1>1, <1>3, <2>1, <2>3, InputsAre, PhraseTerms
  <2> QED BY <2>2, <2>3 DEF Intersects
<1>5. t \in Scorers(segment, n, Scoring)
  BY <1>1, <1>4, InputsAre, ScorersHave
<1>6. t \in DOMAIN Segment(segment).terms /\
      \E j \in DOMAIN Segment(segment).terms[t].docids : Segment(segment).terms[t].docids[j] = n
  BY <1>5, InputsAre, ScorersAre
<1> QED BY <1>1, <1>6 DEF List

-----------------------------------------------------------------------------
(* A segment is entered.                                                   *)

\* On none of the ways is anything past at first.
LEMMA FirstOf ==
  ASSUME InputsOk, segment \in Numbers(snapshot.segments),
         NEW t \in Scoring, t \in DOMAIN Here.terms,
         NEW j \in DOMAIN List(t).docids, NEW n, n = List(t).docids[j]
  PROVE  \E c \in Starts : /\ c = [term |-> t, index |-> 1]
                           /\ ~Exhausted(c) /\ DocId(c) <= n
<1> DEFINE c == [term |-> t, index |-> 1]
<1>1. c \in Starts /\ c \in Cursor /\ c.term = t
  BY DEF Starts, Cursor
<1>2. List(t).docids \in Seq(Nat)
  BY <1>1, InputsAre, CursorAt
<1>3. 1 <= j
  BY <1>2
<1>4. ~Exhausted(c) /\ DocId(c) <= n
  <2>1. c.index <= j /\ j \in DOMAIN List(c.term).docids
    BY <1>3
  <2> HIDE DEF c
  <2> QED BY <1>1, <2>1, InputsAre, NotPast
<1> QED BY <1>1, <1>4

LEMMA EnterWand ==
  ASSUME InputsOk, segment \in Numbers(snapshot.segments), Scoring # {},
         NEW cs, cs = Sorted(StartList), NEW k
  PROVE  /\ InOrder(cs) /\ LeftHopeless(cs)
         /\ Behind("wand", cs, k) = Behind("segment", <<>>, k)
<1>1. CursorsOf(StartList) /\ ToSet(StartList) = Starts /\ \A c \in Starts : ~Exhausted(c)
  BY InputsAre, StartsAre
<1>2. InOrder(cs) /\ ToSet(cs) = {c \in ToSet(StartList) : ~Exhausted(c)}
  BY <1>1, InputsAre, SortedIs
<1>3. ToSet(cs) = Starts
  BY <1>1, <1>2
<1>4. CursorsOf(cs)
  BY <1>2 DEF InOrder
<1>5. ASSUME NEW n \in Numbers(Here.docs), NEW t \in Scorers(segment, n, Scoring)
      PROVE  t \in Waiting(cs, n)
  <2>1. Here = Segment(segment)
    BY DEF Here, Segment
  <2>2. t \in Scoring /\ t \in DOMAIN Here.terms /\
        \E j \in DOMAIN List(t).docids : List(t).docids[j] = n
    BY <2>1, InputsAre, ScorersAre DEF List
  <2>3. PICK j \in DOMAIN List(t).docids : List(t).docids[j] = n
    BY <2>2
  <2>4. PICK c \in Starts : c = [term |-> t, index |-> 1] /\ ~Exhausted(c) /\ DocId(c) <= n
    BY <2>2, <2>3, FirstOf
  <2>5. c \in ToSet(cs) /\ c.term = t
    BY <1>3, <2>4
  <2> QED BY <1>4, <2>4, <2>5, InputsAre, WaitingIs
<1>6. \A n \in Numbers(Here.docs) : Scorers(segment, n, Scoring) \subseteq Waiting(cs, n)
  BY <1>5
<1>7. LeftHopeless(cs)
  BY <1>6 DEF LeftHopeless
<1>8. \A n \in Numbers(Here.docs) :
        PastHere("wand", cs, k, n) <=> PastHere("segment", <<>>, k, n)
  BY <1>6 DEF PastHere
<1>9. Behind("wand", cs, k) = Behind("segment", <<>>, k)
  BY <1>8, BehindSame
<1> QED BY <1>2, <1>7, <1>9

LEMMA EnterIntersect ==
  ASSUME InputsOk, segment \in Numbers(snapshot.segments), Scoring # {}, Intersects,
         Scoring \subseteq DOMAIN Here.terms, NEW k
  PROVE  /\ IntersectOk(StartList)
         /\ Behind("intersect", StartList, k) = Behind("segment", <<>>, k)
<1>1. CursorsOf(StartList) /\ ToSet(StartList) = Starts /\ \A c \in Starts : ~Exhausted(c)
  BY InputsAre, StartsAre
<1>2. ASSUME NEW t \in Scoring PROVE \E i \in DOMAIN StartList : StartList[i].term = t
  <2> DEFINE c == [term |-> t, index |-> 1]
  <2>1. c \in Starts /\ c.term = t
    BY DEF Starts
  <2> HIDE DEF c
  <2>2. c \in ToSet(StartList)
    BY <1>1, <2>1
  <2>3. PICK i \in DOMAIN StartList : StartList[i] = c
    BY <1>1, <2>2, CursorsIn
  <2> QED BY <2>1, <2>3
<1>3. IntersectOk(StartList)
  BY <1>1, <1>2 DEF IntersectOk
<1>4. ASSUME NEW n \in Numbers(Here.docs), HitAt(n) \in Reach, NEW c \in ToSet(StartList)
      PROVE  ~Exhausted(c) /\ ~(DocId(c) > n)
  <2>1. c \in Starts
    BY <1>1
  <2>2. PICK t \in Scoring : c = [term |-> t, index |-> 1]
    BY <2>1 DEF Starts
  <2>3. PICK j \in DOMAIN List(t).docids : List(t).docids[j] = n
    BY <1>4, IntersectHas
  <2>4. t \in DOMAIN Here.terms
    OBVIOUS
  <2>5. ~Exhausted(c) /\ DocId(c) <= n
    BY <2>2, <2>3, <2>4, FirstOf
  <2>6. DocId(c) \in Nat /\ n \in Nat
    <3>1. c \in Cursor
      BY <1>1, CursorsIn
    <3> QED BY <2>5, <3>1, InputsAre, CursorAt DEF Numbers
  <2> QED BY <2>5, <2>6
<1>5. \A n \in Numbers(Here.docs) : HitAt(n) \in Reach =>
        (PastHere("intersect", StartList, k, n) <=> PastHere("segment", <<>>, k, n))
  BY <1>4 DEF PastHere
<1>6. Behind("intersect", StartList, k) = Behind("segment", <<>>, k)
  BY <1>5, BehindSame
<1> QED BY <1>3, <1>6

LEMMA EnterSingle ==
  ASSUME InputsOk, segment \in Numbers(snapshot.segments), IsFlatDisjunction(query),
         Cardinality(Scoring) = 1, Scoring \subseteq DOMAIN Here.terms
  PROVE  /\ SingleOk(StartList)
         /\ Behind("single", StartList, 1) = Behind("segment", <<>>, 1)
<1>1. PICK t : Scoring = {t}
  BY InputsAre, FS_Singleton
<1>2. t \in DOMAIN Here.terms
  BY <1>1
<1> DEFINE c == [term |-> t, index |-> 1]
<1>3. Starts = {c}
  BY <1>1, <1>2 DEF Starts
<1>4. CursorsOf(StartList) /\ ToSet(StartList) = {c}
  BY <1>3, InputsAre, StartsAre
<1> HIDE DEF c
<1>5. /\ StartList \in Seq(Cursor)
      /\ \A i \in DOMAIN StartList : StartList[i] = c
      /\ \E i \in DOMAIN StartList : StartList[i] = c
      /\ \A i, j \in DOMAIN StartList : i = j
  <2>1. \A i, j \in DOMAIN StartList : StartList[i].term = StartList[j].term => i = j
    BY <1>4 DEF CursorsOf
  <2>2. /\ StartList \in Seq(Cursor)
        /\ \A i \in DOMAIN StartList : StartList[i] \in {c}
        /\ \A d \in {c} : \E i \in DOMAIN StartList : StartList[i] = d
    BY <1>4, CursorsIn
  <2> QED BY <2>1, <2>2
<1>6. Len(StartList) = 1
  <2>1. DOMAIN StartList = 1..Len(StartList) /\ Len(StartList) \in Nat
    BY <1>5
  <2>2. Len(StartList) # 0
    BY <1>5, <2>1
  <2>3. ASSUME Len(StartList) > 1 PROVE FALSE
    <3>1. 1 \in DOMAIN StartList /\ 2 \in DOMAIN StartList
      BY <2>1, <2>3
    <3>2. 1 = 2
      BY <1>5, <3>1
    <3> QED BY <3>2
  <2> QED BY <2>1, <2>2, <2>3
<1>7. StartList = <<c>>
  <2>1. StartList[1] = c
    BY <1>5, <1>6
  <2> QED BY <1>5, <1>6, <2>1
<1>8. SingleOk(StartList)
  BY <1>1, <1>2, <1>7 DEF SingleOk, c
<1>9. StartList[1].term = t
  BY <1>7 DEF c
<1>10. \A n \in Numbers(Here.docs) :
         ~PastHere("single", StartList, 1, n) /\ ~PastHere("segment", <<>>, 1, n)
  <2>1. (1 - 1) * BlockSize = 0
    BY IndexAssumption
  <2>2. List(t).docids \in Seq(Nat)
    <3>1. c \in Cursor /\ c.term = t
      BY <1>1, <1>2 DEF c, Cursor
    <3> QED BY <3>1, InputsAre, CursorAt
  <2>3. \A j \in DOMAIN List(t).docids : ~(j <= 0)
    BY <2>2
  <2>4. ~("single" = "wand") /\ ~("single" = "intersect") /\ ~("segment" = "wand")
        /\ ~("segment" = "intersect") /\ ~("segment" = "single")
    OBVIOUS
  <2> QED BY <1>9, <2>1, <2>3, <2>4 DEF PastHere
<1>11. Scoring # {}
  BY <1>1
<1>12. Behind("single", StartList, 1) = Behind("segment", <<>>, 1)
  BY <1>10, <1>11, BehindSame
<1> QED BY <1>8, <1>12

\* A segment without a list for each term of a conjunction or a phrase.
LEMMA EnterSkip ==
  ASSUME InputsOk, segment \in Numbers(snapshot.segments), Scoring # {}, Intersects,
         ~(Scoring \subseteq DOMAIN Here.terms)
  PROVE  \A h \in Reach : h.segment # segment
<1>1. PICK t \in Scoring : t \notin DOMAIN Here.terms
  OBVIOUS
<1>2. ASSUME NEW h \in Reach, h.segment = segment PROVE FALSE
  <2>1. h.docid \in Numbers(Here.docs) /\ HitAt(h.docid) \in Reach
    BY <1>2, ReachHere
  <2> QED BY <1>1, <2>1, IntersectHas
<1> QED BY <1>2

-----------------------------------------------------------------------------
(* single_list_segment.                                                    *)

\* The list of the one term.
LEMMA SingleIs ==
  ASSUME InputsOk, segment \in Numbers(snapshot.segments), NEW cs, SingleOk(cs),
         NEW t, t = cs[1].term
  PROVE  /\ Scoring = {t} /\ t \in DOMAIN Here.terms /\ IsFlatDisjunction(query)
         /\ List(t).docids \in Seq(Nat)
         /\ \A j \in DOMAIN List(t).docids : List(t).docids[j] \in Numbers(Here.docs)
         /\ \A i, j \in DOMAIN List(t).docids : List(t).docids[i] = List(t).docids[j] => i = j
         /\ \A n \in Numbers(Here.docs) :
              HitAt(n) \in Reach <=>
                /\ IsLive(snapshot, segment, n)
                /\ \E j \in DOMAIN List(t).docids : List(t).docids[j] = n
<1>1. PICK u \in DOMAIN Here.terms : Scoring = {u} /\ cs = <<[term |-> u, index |-> 1]>>
  BY DEF SingleOk
<1>2. Scoring = {t} /\ t \in DOMAIN Here.terms /\ IsFlatDisjunction(query)
  BY <1>1 DEF SingleOk
<1>3. Here = Segment(segment)
  BY DEF Here, Segment
<1>4. List(t).docids \in Seq(Nat)
  <2>1. [term |-> t, index |-> 1] \in Cursor
    BY <1>2 DEF Cursor
  <2> QED BY <2>1, InputsAre, CursorAt
<1>5. \A j \in DOMAIN List(t).docids :
        /\ List(t).docids[j] \in Numbers(Here.docs)
        /\ \A i \in DOMAIN List(t).docids : List(t).docids[i] = List(t).docids[j] => i = j
  BY SMTT(30), <1>2, <1>3, InputsAre, PartIs DEF List
<1>6. ASSUME NEW n \in Numbers(Here.docs)
      PROVE  HitAt(n) \in Reach <=>
                /\ IsLive(snapshot, segment, n)
                /\ \E j \in DOMAIN List(t).docids : List(t).docids[j] = n
  <2>1. HitAt(n) \in Reach <=> Matching(segment, n) /\ Scorers(segment, n, Scoring) # {}
    BY <1>2, ReachHere
  <2>2. t \in Scorers(segment, n, Scoring) <=>
          \E j \in DOMAIN List(t).docids : List(t).docids[j] = n
    BY <1>2, <1>3, InputsAre, ScorersAre DEF List
  <2>3. Scorers(segment, n, Scoring) = Scoring \cap Here.docs[n + 1].terms
    BY <1>3, InputsAre, ScorersHave
  <2>4. Scorers(segment, n, Scoring) # {} <=> t \in Scorers(segment, n, Scoring)
    BY <1>2, <2>3
  <2>5. ASSUME IsLive(snapshot, segment, n)
        PROVE  Matches(Segment(segment), n, query) <=>
                 \E v \in ScoringTerms(snapshot, query) : v \in Segment(segment).docs[n + 1].terms
    BY <1>2, <1>3, <2>5, InputsAre, DisjunctionMatches
  <2>6. IsLive(snapshot, segment, n) =>
          (Matches(Segment(segment), n, query) <=> Scorers(segment, n, Scoring) # {})
    BY <1>3, <2>3, <2>5 DEF Scoring
  <2> QED BY <2>1, <2>2, <2>4, <2>6 DEF Matching
<1> QED BY <1>2, <1>4, <1>5, <1>6

\* The documents of a block, by their places in the list.
BlockDocs(t, k) ==
  SubSeq(List(t).docids, (k - 1) * BlockSize + 1, List(t).blocks[k].end)

BlockStretch(t, k, all, a, b) ==
  /\ (k - 1) * BlockSize \in Nat /\ k * BlockSize = (k - 1) * BlockSize + BlockSize
  /\ a \in 1..Len(all) /\ b \in 1..Len(all) /\ a <= b
  /\ \A n : n \in ToSet(BlockDocs(t, k)) <=> \E i \in a..b : all[i] = n

LEMMA BlockDocsAre ==
  ASSUME Good(snapshot), segment \in Numbers(snapshot.segments), NEW t \in DOMAIN Here.terms,
         NEW all, all = List(t).docids, NEW k \in 1..Len(List(t).blocks),
         NEW a, a = (k - 1) * BlockSize + 1, NEW b, b = List(t).blocks[k].end
  PROVE  BlockStretch(t, k, all, a, b)
<1>1. Here = Segment(segment)
  BY DEF Here, Segment
<1>2. ListFacts(List(t), Here.docs, t) /\ BlockFacts(List(t), Here.docs)
  BY <1>1, SegmentFacts DEF List
<1>3. all \in Seq(Nat) /\ Len(List(t).blocks) = CeilDiv(Len(all), BlockSize)
  BY <1>2 DEF ListFacts, BlockFacts
<1>4. b = Smaller(k * BlockSize, Len(all))
  BY <1>2 DEF BlockFacts
<1>5. k \in 1..CeilDiv(Len(all), BlockSize) /\ Len(all) \in Nat
  BY <1>3
<1>6. /\ (k - 1) * BlockSize \in Nat /\ k * BlockSize = (k - 1) * BlockSize + BlockSize
      /\ a \in 1..Len(all) /\ b \in 1..Len(all) /\ a <= b
  BY <1>4, <1>5, BlockHas
<1>7. BlockDocs(t, k) = SubSeq(all, a, b)
  BY DEF BlockDocs
<1> DEFINE part == SubSeq(all, a, b)
<1>8. a \in DOMAIN all /\ b \in DOMAIN all /\ a <= b
  BY SMTT(30), <1>3, <1>6
<1>9. /\ part \in Seq(Nat)
      /\ \A i \in a..b : \E j \in DOMAIN part : part[j] = all[i]
      /\ \A j \in DOMAIN part : \E i \in a..b : part[j] = all[i]
  <2> HIDE DEF part
  <2>1. part = SubSeq(all, a, b)
    BY DEF part
  <2> QED BY ONLY <1>3, <1>8, <2>1, StretchOf, ZenonT(60)
<1> HIDE DEF part
<1>10. \A n : n \in ToSet(part) <=> \E j \in DOMAIN part : part[j] = n
  BY ONLY <1>9, ToSetIs
<1>11. \A n : n \in ToSet(part) <=> \E i \in a..b : all[i] = n
  BY ONLY <1>9, <1>10
<1> QED BY <1>6, <1>7, <1>11 DEF part, BlockStretch

\* A block of the list: its hits are pushed, or cannot count.
LEMMA SingleKeeps ==
  ASSUME InputsOk, segment \in Numbers(snapshot.segments), NEW cs, SingleOk(cs),
         NEW t, t = cs[1].term,
         NEW k \in 1..Len(List(t).blocks), Keeps(heap, Behind("single", cs, k), limit)
  PROVE  Keeps(IF Hopeless(BlockBound(t, k)) THEN heap
               ELSE PushAll(heap, {RankedDoc(segment, n, Scoring) :
                      n \in {m \in ToSet(BlockDocs(t, k)) : IsLive(snapshot, segment, m)}}),
               Behind("single", cs, k + 1), limit)
<1> DEFINE list == List(t)
           all == list.docids
           len == Len(all)
           a == (k - 1) * BlockSize + 1
           b == list.blocks[k].end
           N == ToSet(BlockDocs(t, k))
           old == Behind("single", cs, k)
<1>1. /\ Scoring = {t} /\ t \in DOMAIN Here.terms /\ all \in Seq(Nat)
      /\ \A j \in DOMAIN all : all[j] \in Numbers(Here.docs)
      /\ \A i, j \in DOMAIN all : all[i] = all[j] => i = j
      /\ \A n \in Numbers(Here.docs) :
           HitAt(n) \in Reach <=> IsLive(snapshot, segment, n) /\ \E j \in DOMAIN all : all[j] = n
  <2>1. Scoring = {t} /\ t \in DOMAIN Here.terms /\ all \in Seq(Nat)
    BY SingleIs
  <2>2. /\ \A j \in DOMAIN all : all[j] \in Numbers(Here.docs)
        /\ \A i, j \in DOMAIN all : all[i] = all[j] => i = j
    BY SingleIs
  <2>3. \A n \in Numbers(Here.docs) :
          HitAt(n) \in Reach <=> IsLive(snapshot, segment, n) /\ \E j \in DOMAIN all : all[j] = n
    BY SingleIs
  <2> QED BY <2>1, <2>2, <2>3
<1>2. Here = Segment(segment)
  BY DEF Here, Segment
<1>3. /\ BlockBound(t, k) \in Nat
      /\ b = Smaller(k * BlockSize, len)
      /\ \A j \in a..b : j \in DOMAIN all /\ Part(segment, all[j], t) <= BlockBound(t, k)
  BY <1>1, InputsAre, BlockBoundIs
<1>4. len \in Nat /\ DOMAIN all = 1..len
  BY <1>1
<1>5. all = List(t).docids /\ a = (k - 1) * BlockSize + 1 /\ b = List(t).blocks[k].end
  OBVIOUS
<1>6. /\ (k - 1) * BlockSize \in Nat /\ k * BlockSize = (k - 1) * BlockSize + BlockSize
      /\ a \in 1..Len(all) /\ b \in 1..Len(all) /\ a <= b
      /\ \A n : n \in ToSet(BlockDocs(t, k)) <=> \E i \in a..b : all[i] = n
  <2>1. /\ Good(snapshot) /\ segment \in Numbers(snapshot.segments)
        /\ t \in DOMAIN Here.terms /\ k \in 1..Len(List(t).blocks)
    BY <1>1, InputsAre
  <2> HIDE DEF all, a, b, list, len
  <2>2. BlockStretch(t, k, all, a, b)
    BY ONLY <1>5, <2>1, BlockDocsAre, ZenonT(30)
  <2> QED BY <2>2 DEF BlockStretch
<1>7. \A n : n \in N <=> \E i \in a..b : all[i] = n
  BY <1>6
<1>8. BlockSize \in Nat \ {0}
  BY IndexAssumption
<1> DEFINE w == (k - 1) * BlockSize
           z == k * BlockSize
<1>9. /\ w \in Nat /\ z = w + BlockSize /\ a = w + 1
      /\ b = Smaller(z, len)
  BY <1>3, <1>6
<1>10. (k + 1 - 1) * BlockSize = z
  <2>1. k + 1 - 1 = k
    OBVIOUS
  <2> QED BY <2>1
<1>11. Behind("single", cs, k + 1) = old \cup Found(N)
  <2>1. ASSUME NEW n
        PROVE  PastHere("single", cs, k + 1, n) <=> PastHere("single", cs, k, n) \/ n \in N
    <3>1. PastHere("single", cs, k + 1, n) <=> \E j \in DOMAIN all : j <= z /\ all[j] = n
      <4>1. PastHere("single", cs, k + 1, n) <=>
              \E j \in DOMAIN all : j <= (k + 1 - 1) * BlockSize /\ all[j] = n
        BY DEF PastHere
      <4> HIDE DEF all, z
      <4> QED BY <1>10, <4>1
    <3>2. PastHere("single", cs, k, n) <=> \E j \in DOMAIN all : j <= w /\ all[j] = n
      BY DEF PastHere
    <3>3. n \in N <=> \E i \in a..b : all[i] = n
      BY <1>7
    <3> HIDE DEF all, w, z, a, b, N, len
    <3>4. \A j \in DOMAIN all : j <= z <=> j <= w \/ j \in a..b
      <4>1. ASSUME NEW j \in DOMAIN all PROVE j <= z <=> j <= w \/ j \in a..b
        <5>1. j \in 1..len
          BY <1>4
        <5>2. CASE z < len
          <6>1. b = z
            BY <1>9, <5>2 DEF Smaller
          <6> QED BY <1>4, <1>8, <1>9, <5>1, <6>1
        <5>3. CASE ~(z < len)
          <6>1. b = len
            BY <1>9, <5>3 DEF Smaller
          <6> QED BY <1>4, <1>8, <1>9, <5>1, <5>3, <6>1
        <5> QED BY <5>2, <5>3
      <4> QED BY <4>1
    <3>5. \A j \in a..b : j \in DOMAIN all
      BY <1>3 DEF all, a, b
    <3> QED BY <3>1, <3>2, <3>3, <3>4, <3>5
  <2>2. \A n \in Numbers(Here.docs) : HitAt(n) \in Reach =>
           (PastHere("single", cs, k + 1, n) <=> PastHere("single", cs, k, n) \/ n \in N)
    BY <2>1
  <2>3. "single" # "done" /\ Scoring # {}
    BY <1>1
  <2> HIDE DEF N
  <2> QED BY <2>2, <2>3, BehindGrows
<1>12. old \cap Found(N) = {}
  <2> SUFFICES ASSUME NEW h \in old, h \in Found(N) PROVE FALSE
    OBVIOUS
  <2>1. PICK n \in N \cap Numbers(Here.docs) : HitAt(n) \in Reach /\ h = HitAt(n)
    BY <1>1, FoundIs
  <2>2. PastHere("single", cs, k, n)
    BY <1>1, <2>1, FoundIs
  <2>3. PICK i \in DOMAIN all : i <= w /\ all[i] = n
    BY <2>2 DEF PastHere
  <2>4. PICK j \in a..b : all[j] = n
    BY <1>7, <2>1
  <2>5. j \in DOMAIN all
    BY <1>3, <2>4
  <2> HIDE DEF all, w, z, a, b, N, len, old
  <2>6. i = j
    BY <1>1, <2>3, <2>4, <2>5
  <2> QED BY <1>4, <1>9, <2>3, <2>4, <2>5, <2>6
<1>13. Rankable(old \cup Found(N)) /\ Rankable(heap) /\ Found(N) \subseteq Reach
  <2>1. Found(N) \subseteq Reach /\ old \subseteq Reach
    BY <1>1, FoundIs DEF Behind
  <2>2. heap \subseteq old
    BY DEF Keeps
  <2>3. Rankable(Reach)
    BY InputsAre
  <2> HIDE DEF old
  <2> QED BY <2>1, <2>2, <2>3, RankableParts
<1>14. CASE Hopeless(BlockBound(t, k))
  <2>1. ASSUME NEW x \in Found(N) PROVE x.score \in Nat /\ x.score <= BlockBound(t, k)
    <3>1. PICK n \in N \cap Numbers(Here.docs) : x = HitAt(n)
      BY <1>1, FoundIs
    <3>2. x.score = Score(segment, n, Scoring) /\ x.score \in Nat
      <4>1. Score(segment, n, Scoring) \in Nat
        BY InputsAre, ScoreIs
      <4>2. Scoring # {}
        BY <1>1
      <4> QED BY <3>1, <4>1, <4>2, ReachHere
    <3>3. PICK j \in a..b : all[j] = n
      BY <1>7, <3>1
    <3>4. Part(segment, n, t) <= BlockBound(t, k)
      BY <1>3, <3>3
    <3> DEFINE S == Scorers(segment, n, Scoring)
               g == [u \in {t} |-> BlockBound(t, k)]
               e == [u \in S |-> t]
    <3>5. \A u \in S : u = t
      BY <1>1 DEF Scorers
    <3>6. e \in [S -> {t}] /\ g \in [{t} -> Nat] /\ IsFiniteSet({t})
      BY <1>3, FS_Singleton
    <3>7. \A u \in S : Part(segment, n, u) <= g[e[u]]
      BY <3>4, <3>5
    <3>8. g[t] = BlockBound(t, k)
      OBVIOUS
    <3> HIDE DEF g, e
    <3>9. Score(segment, n, Scoring) <= SumFunction(g)
      BY <3>5, <3>6, <3>7, InputsAre, ScoreBelow
    <3>10. SumFunction(g) = g[t]
      BY <3>6, SumOfOne
    <3> QED BY <3>2, <3>8, <3>9, <3>10
  <2>2. ASSUME NEW x \in Found(N)
        PROVE  Cardinality(heap) = limit /\ \A kept \in heap : Better(kept, x)
    BY <1>3, <1>13, <1>14, <2>1, <2>2, InputsAre, HopelessIs
  <2>3. Cardinality(heap) = limit
    BY <1>14 DEF Hopeless, IsFull
  <2> HIDE DEF old, N
  <2>4. Keeps(heap, old \cup Found(N), limit)
    BY <2>2, <2>3, DropKeeps DEF old
  <2> QED BY <1>11, <1>14, <2>4
<1>15. CASE ~Hopeless(BlockBound(t, k))
  <2> DEFINE more == {RankedDoc(segment, n, Scoring) :
                        n \in {m \in N : IsLive(snapshot, segment, m)}}
  <2>1. ASSUME NEW n \in N PROVE n \in Numbers(Here.docs) /\ \E j \in DOMAIN all : all[j] = n
    BY <1>1, <1>3, <1>7
  <2>2. \A n \in N : HitAt(n) \in Reach <=> IsLive(snapshot, segment, n)
    BY <1>1, <2>1
  <2>3. more = Found(N)
    <3> HIDE DEF N
    <3> QED BY <2>1, <2>2 DEF Found, HitAt
  <2> HIDE DEF more, old, N
  <2>4. Keeps(PushAll(heap, Found(N)), old \cup Found(N), limit)
    BY <1>12, <1>13, InputsAre, PushAllKeeps DEF old
  <2>5. Keeps(PushAll(heap, more), Behind("single", cs, k + 1), limit)
    BY <1>11, <2>3, <2>4
  <2> QED BY <1>15, <2>5 DEF more, N
<1> QED BY <1>14, <1>15

\* After the last block every hit of the segment is behind.
LEMMA SinglePast ==
  ASSUME InputsOk, segment \in Numbers(snapshot.segments), NEW cs, SingleOk(cs),
         NEW t, t = cs[1].term, NEW k \in Nat, k > Len(List(t).blocks)
  PROVE  \A n \in Numbers(Here.docs) : HitAt(n) \in Reach => PastHere("single", cs, k, n)
<1> DEFINE all == List(t).docids
           len == Len(all)
<1>1. /\ t \in DOMAIN Here.terms /\ all \in Seq(Nat)
      /\ \A n \in Numbers(Here.docs) : HitAt(n) \in Reach => \E j \in DOMAIN all : all[j] = n
  BY SingleIs
<1>2. Here = Segment(segment)
  BY DEF Here, Segment
<1>3. Len(List(t).blocks) = CeilDiv(len, BlockSize)
  <2>1. BlockFacts(List(t), Here.docs)
    BY <1>1, <1>2, InputsAre, SegmentFacts DEF List
  <2> QED BY <2>1 DEF BlockFacts
<1>4. len \in Nat /\ DOMAIN all = 1..len
  BY <1>1
<1> DEFINE m == CeilDiv(len, BlockSize)
<1>5. m \in Nat /\ len <= m * BlockSize
  <2> HIDE DEF len
  <2> QED BY <1>4, BlocksAre
<1>6. m * BlockSize <= (k - 1) * BlockSize
  <2>1. m <= k - 1 /\ k - 1 \in Nat /\ BlockSize \in Nat
    <3> HIDE DEF m
    <3> QED BY <1>3, <1>5, IndexAssumption DEF m
  <2> HIDE DEF m
  <2>2. BlockSize * m <= BlockSize * (k - 1)
    BY <1>5, <2>1, TimesMonotone
  <2> QED BY <1>5, <2>1, <2>2
<1>7. \A j \in DOMAIN all : j <= (k - 1) * BlockSize
  <2> DEFINE x == m * BlockSize
             y == (k - 1) * BlockSize
  <2>1. x \in Nat /\ y \in Int /\ x <= y /\ len <= x
    <3>1. BlockSize \in Nat
      BY IndexAssumption
    <3> HIDE DEF m
    <3> QED BY <1>5, <1>6, <3>1
  <2> HIDE DEF x, y, len, all
  <2>2. \A j \in DOMAIN all : j <= y
    BY <1>4, <2>1
  <2> QED BY <2>2 DEF y
<1> HIDE DEF len, m
<1> QED BY <1>1, <1>7 DEF PastHere

-----------------------------------------------------------------------------
(* intersect_segment.                                                      *)

\* Where a hit is in the lists of all scoring terms.
LEMMA FindIs ==
  ASSUME InputsOk, segment \in Numbers(snapshot.segments), Scoring # {}, Intersects,
         NEW n \in Numbers(Here.docs), HitAt(n) \in Reach, NEW t \in Scoring
  PROVE  /\ t \in DOMAIN Here.terms
         /\ Find(List(t), n) \in DOMAIN List(t).docids
         /\ List(t).docids[Find(List(t), n)] = n
         /\ \A i \in DOMAIN List(t).docids : List(t).docids[i] = n => i = Find(List(t), n)
<1>1. Here = Segment(segment)
  BY DEF Here, Segment
<1>2. t \in DOMAIN Here.terms /\ \E j \in DOMAIN List(t).docids : List(t).docids[j] = n
  BY IntersectHas
<1>3. PICK j \in DOMAIN List(t).docids : List(t).docids[j] = n
  BY <1>2
<1>4. \A k \in DOMAIN List(t).docids : List(t).docids[k] = List(t).docids[j] => k = j
  BY <1>1, <1>2, InputsAre, PartIs DEF List
<1>5. /\ Find(List(t), n) \in DOMAIN List(t).docids
      /\ List(t).docids[Find(List(t), n)] = n
  BY ONLY <1>3 DEF Find
<1> QED BY <1>2, <1>3, <1>4, <1>5

\* A hit is past once one of the cursors is past its posting.
LEMMA IntersectPast ==
  ASSUME InputsOk, segment \in Numbers(snapshot.segments), Scoring # {},
         NEW cs, IntersectOk(cs), NEW k,
         NEW n \in Numbers(Here.docs), HitAt(n) \in Reach
  PROVE  PastHere("intersect", cs, k, n) <=>
           \E m \in DOMAIN cs : Find(List(cs[m].term), n) < cs[m].index
<1>1. CursorsOf(cs) /\ Intersects
  BY DEF IntersectOk
<1>2. /\ \A i \in DOMAIN cs : cs[i] \in Cursor /\ cs[i] \in ToSet(cs)
      /\ \A c \in ToSet(cs) : \E i \in DOMAIN cs : cs[i] = c
  BY <1>1, CursorsIn
<1>3. PastHere("intersect", cs, k, n) <=>
        \E c \in ToSet(cs) : Exhausted(c) \/ DocId(c) > n
  BY DEF PastHere
<1>4. PastHere("intersect", cs, k, n) <=>
        \E m \in DOMAIN cs : Exhausted(cs[m]) \/ DocId(cs[m]) > n
  BY <1>2, <1>3
<1>5. ASSUME NEW m \in DOMAIN cs
      PROVE  Exhausted(cs[m]) \/ DocId(cs[m]) > n <=> Find(List(cs[m].term), n) < cs[m].index
  <2> DEFINE c == cs[m]
             j == Find(List(c.term), n)
  <2>1. c \in Cursor
    BY <1>2
  <2>2. c.term \in Scoring /\ c.index \in Nat /\ List(c.term).docids \in Seq(Nat)
    BY <2>1, InputsAre, CursorAt
  <2>3. j \in DOMAIN List(c.term).docids /\ List(c.term).docids[j] = n
    BY <1>1, <2>2, FindIs
  <2>4. ~Exhausted(c) => DocId(c) \in Nat
    BY <2>1, InputsAre, CursorAt
  <2>5. j \in Nat /\ n \in Nat
    BY <2>2, <2>3
  <2> HIDE DEF c, j
  <2>6. ~Exhausted(c) /\ DocId(c) <= n <=> c.index <= j
    BY <2>1, <2>3, InputsAre, NotPast
  <2>7. Exhausted(c) \/ DocId(c) > n <=> ~(c.index <= j)
    BY <2>4, <2>5, <2>6
  <2>8. ~(c.index <= j) <=> j < c.index
    BY <2>2, <2>5
  <2> QED BY <2>7, <2>8 DEF c, j
<1> QED BY <1>4, <1>5

\* A cursor that goes to where another one is passes no hit.
LEMMA AlignKeeps ==
  ASSUME InputsOk, segment \in Numbers(snapshot.segments), Scoring # {},
         NEW cs, IntersectOk(cs), NEW k, \A m \in DOMAIN cs : ~Exhausted(cs[m]),
         NEW i \in DOMAIN cs, NEW o \in DOMAIN cs,
         NEW ds, ds = [cs EXCEPT ![i] = AdvanceTo(cs[i], DocId(cs[o]))]
  PROVE  /\ IntersectOk(ds)
         /\ Behind("intersect", ds, k) = Behind("intersect", cs, k)
<1> DEFINE target == DocId(cs[o])
           c == cs[i]
           a == AdvanceTo(c, target)
<1>1. CursorsOf(cs) /\ Intersects /\ \A t \in Scoring : \E m \in DOMAIN cs : cs[m].term = t
  BY DEF IntersectOk
<1>2. cs \in Seq(Cursor) /\ \A m \in DOMAIN cs : cs[m] \in Cursor
  BY <1>1, CursorsIn
<1>3. target \in Nat
  BY <1>2, InputsAre, CursorAt
<1>4. /\ a \in Cursor /\ a.term = c.term
      /\ a.index >= c.index
      /\ \A j \in DOMAIN List(c.term).docids :
              j >= c.index /\ j < a.index => List(c.term).docids[j] < target
  <2> HIDE DEF target
  <2> QED BY <1>2, <1>3, InputsAre, AdvanceIs
<1> HIDE DEF a, c, target
<1>5. /\ DOMAIN ds = DOMAIN cs /\ ds[i] = a /\ \A m \in DOMAIN cs : m # i => ds[m] = cs[m]
      /\ ds \in Seq(Cursor)
  <2>1. ds = [cs EXCEPT ![i] = a]
    BY DEF a, c, target
  <2> QED BY <1>2, <1>4, <2>1
<1>6. \A m \in DOMAIN ds : ds[m].term = cs[m].term /\ ds[m] \in Cursor
  BY <1>2, <1>4, <1>5 DEF c
<1>7. IntersectOk(ds)
  <2>1. \A m, l \in DOMAIN ds : ds[m].term = ds[l].term => m = l
    BY <1>1, <1>5, <1>6 DEF CursorsOf
  <2>2. \A t \in Scoring : \E m \in DOMAIN ds : ds[m].term = t
    BY <1>1, <1>5, <1>6
  <2> QED BY <1>1, <1>5, <2>1, <2>2 DEF IntersectOk, CursorsOf
<1>8. ASSUME NEW n \in Numbers(Here.docs), HitAt(n) \in Reach
      PROVE  PastHere("intersect", ds, k, n) <=> PastHere("intersect", cs, k, n)
  <2> DEFINE at(m) == Find(List(cs[m].term), n)
  <2>1. \A m \in DOMAIN cs : cs[m].term \in Scoring
    BY <1>2 DEF Cursor
  <2>2. ASSUME NEW m \in DOMAIN cs
        PROVE  /\ at(m) \in DOMAIN List(cs[m].term).docids
               /\ List(cs[m].term).docids[at(m)] = n
               /\ at(m) \in Nat /\ n \in Nat
    <3>1. /\ at(m) \in DOMAIN List(cs[m].term).docids
          /\ List(cs[m].term).docids[at(m)] = n
      BY <1>1, <1>8, <2>1, FindIs
    <3>2. List(cs[m].term).docids \in Seq(Nat)
      BY <1>2, InputsAre, CursorAt
    <3> QED BY <3>1, <3>2
  <2>3. PastHere("intersect", cs, k, n) <=> \E m \in DOMAIN cs : at(m) < cs[m].index
    BY <1>8, IntersectPast
  <2>4. PastHere("intersect", ds, k, n) <=> \E m \in DOMAIN cs : at(m) < ds[m].index
    <3>1. PastHere("intersect", ds, k, n) <=>
            \E m \in DOMAIN ds : Find(List(ds[m].term), n) < ds[m].index
      BY <1>7, <1>8, IntersectPast
    <3> QED BY <1>5, <1>6, <3>1
  <2> HIDE DEF at
  <2>5. \A m \in DOMAIN cs : cs[m].index \in Nat /\ ds[m].index \in Nat
    BY <1>2, <1>5, <1>6 DEF Cursor
  <2>6. \A m \in DOMAIN cs : cs[m].index <= ds[m].index
    BY <1>4, <1>5, <2>5 DEF c
  <2>7. ASSUME NEW m \in DOMAIN cs, at(m) < ds[m].index
        PROVE  \E l \in DOMAIN cs : at(l) < cs[l].index
    <3>1. CASE at(m) < cs[m].index
      BY <3>1
    <3>2. CASE ~(at(m) < cs[m].index)
      <4>1. m = i
        BY <1>5, <2>7, <3>2
      <4>2. n < target
        <5>1. at(i) >= c.index /\ at(i) < a.index
          BY <1>5, <2>2, <2>5, <2>7, <3>2, <4>1 DEF c
        <5>2. at(i) \in DOMAIN List(c.term).docids /\ List(c.term).docids[at(i)] = n
          BY <2>2 DEF c
        <5> QED BY <1>4, <5>1, <5>2
      <4>3. ~(DocId(cs[o]) <= n)
        BY <1>3, <2>2, <4>2 DEF target
      <4>4. ~(cs[o].index <= at(o))
        BY <1>2, <2>2, <4>3, InputsAre, NotPast
      <4>5. at(o) < cs[o].index
        BY <2>2, <2>5, <4>4
      <4> QED BY <4>5
    <3> QED BY <3>1, <3>2
  <2>8. ASSUME NEW m \in DOMAIN cs, at(m) < cs[m].index
        PROVE  at(m) < ds[m].index
    BY <2>2, <2>5, <2>6, <2>8
  <2> QED BY <2>3, <2>4, <2>7, <2>8
<1>9. \A n \in Numbers(Here.docs) : HitAt(n) \in Reach =>
        (PastHere("intersect", ds, k, n) <=> PastHere("intersect", cs, k, n))
  BY <1>8
<1>10. "intersect" # "done"
  OBVIOUS
<1>11. Behind("intersect", ds, k) = Behind("intersect", cs, k)
  BY ONLY <1>9, <1>10, InputsOk, segment \in Numbers(snapshot.segments), Scoring # {},
          BehindSame
<1> QED BY <1>7, <1>11

\* A list has a document once.
LEMMA PostedOnce ==
  ASSUME InputsOk, segment \in Numbers(snapshot.segments), NEW t \in DOMAIN Here.terms,
         NEW i \in DOMAIN List(t).docids, NEW j \in DOMAIN List(t).docids,
         List(t).docids[i] = List(t).docids[j]
  PROVE  i = j
<1>1. Here = Segment(segment)
  BY DEF Here, Segment
<1>2. ListFacts(List(t), Here.docs, t)
  BY <1>1, InputsAre, SegmentFacts DEF List
<1> DEFINE docids == List(t).docids
<1>3. docids \in Seq(Nat) /\ \A k, l \in DOMAIN docids : k < l => docids[k] < docids[l]
  BY <1>2 DEF ListFacts
<1>4. i \in DOMAIN docids /\ j \in DOMAIN docids /\ docids[i] = docids[j]
  OBVIOUS
<1> HIDE DEF docids
<1>5. DOMAIN docids = 1..Len(docids) /\ Len(docids) \in Nat /\ docids[i] \in Nat
  BY <1>3, <1>4
<1>6. ~(docids[i] < docids[j]) /\ ~(docids[j] < docids[i])
  BY <1>4, <1>5
<1> QED BY <1>3, <1>4, <1>5, <1>6

\* Cursors that are all at one document go on: that document is past.
LEMMA NextKeeps ==
  ASSUME InputsOk, segment \in Numbers(snapshot.segments), Scoring # {},
         NEW cs, IntersectOk(cs), NEW k, \A m \in DOMAIN cs : ~Exhausted(cs[m]),
         NEW n \in Numbers(Here.docs), \A m \in DOMAIN cs : DocId(cs[m]) = n,
         NEW ds, ds = [m \in DOMAIN cs |-> Next1(cs[m])]
  PROVE  /\ IntersectOk(ds)
         /\ Behind("intersect", ds, k) = Behind("intersect", cs, k) \cup Found({n})
         /\ HitAt(n) \in Reach => ~PastHere("intersect", cs, k, n)
<1>1. CursorsOf(cs) /\ Intersects /\ \A t \in Scoring : \E m \in DOMAIN cs : cs[m].term = t
  BY DEF IntersectOk
<1>2. cs \in Seq(Cursor) /\ \A m \in DOMAIN cs : cs[m] \in Cursor
  BY <1>1, CursorsIn
<1>3. \A c \in Cursor : Next1(c) \in Cursor /\ Next1(c).term = c.term /\ Next1(c).index = c.index + 1
  BY DEF Cursor, Next1
<1>4. /\ DOMAIN ds = DOMAIN cs /\ ds \in Seq(Cursor)
      /\ \A m \in DOMAIN cs : /\ ds[m].term = cs[m].term /\ ds[m].index = cs[m].index + 1
                              /\ cs[m].index \in Nat
  <2>1. /\ DOMAIN ds = DOMAIN cs
        /\ \A m \in DOMAIN cs : ds[m] = Next1(cs[m]) /\ ds[m] \in Cursor
    BY <1>2, <1>3
  <2>2. DOMAIN cs = 1..Len(cs) /\ Len(cs) \in Nat
    BY <1>2
  <2>3. ds \in [1..Len(cs) -> Cursor]
    BY <2>1, <2>2
  <2>4. ds \in Seq(Cursor)
    BY <2>2, <2>3
  <2>5. \A m \in DOMAIN cs : cs[m].index \in Nat
    BY <1>2 DEF Cursor
  <2> QED BY <1>2, <1>3, <2>1, <2>4, <2>5
<1>5. IntersectOk(ds)
  <2>1. \A m, l \in DOMAIN ds : ds[m].term = ds[l].term => m = l
    BY <1>1, <1>4 DEF CursorsOf
  <2>2. \A t \in Scoring : \E m \in DOMAIN ds : ds[m].term = t
    BY <1>1, <1>4
  <2> QED BY <1>1, <1>4, <2>1, <2>2 DEF IntersectOk, CursorsOf
<1>6. \A m \in DOMAIN cs : /\ cs[m].term \in Scoring
                           /\ cs[m].index \in DOMAIN List(cs[m].term).docids
                           /\ List(cs[m].term).docids[cs[m].index] = n
                           /\ List(cs[m].term).docids \in Seq(Nat)
  <2>1. ASSUME NEW m \in DOMAIN cs
        PROVE  /\ cs[m].term \in Scoring
               /\ cs[m].index \in DOMAIN List(cs[m].term).docids
               /\ List(cs[m].term).docids[cs[m].index] = DocId(cs[m])
               /\ List(cs[m].term).docids \in Seq(Nat)
    <3>1. cs[m] \in Cursor /\ ~Exhausted(cs[m])
      BY <1>2
    <3> QED BY <3>1, InputsAre, CursorAt
  <2> QED BY <2>1
<1>7. \E m \in DOMAIN cs : TRUE
  BY <1>1
<1>8. ASSUME NEW l \in Numbers(Here.docs), HitAt(l) \in Reach
      PROVE  /\ PastHere("intersect", ds, k, l) <=> PastHere("intersect", cs, k, l) \/ l \in {n}
             /\ l = n => ~PastHere("intersect", cs, k, l)
  <2> DEFINE at(m) == Find(List(cs[m].term), l)
  <2>1. ASSUME NEW m \in DOMAIN cs
        PROVE  at(m) \in Nat /\ (at(m) = cs[m].index <=> l = n)
    <3>1. /\ at(m) \in DOMAIN List(cs[m].term).docids
          /\ List(cs[m].term).docids[at(m)] = l
          /\ \A i \in DOMAIN List(cs[m].term).docids :
               List(cs[m].term).docids[i] = l => i = at(m)
      BY <1>1, <1>6, <1>8, FindIs
    <3> HIDE DEF at
    <3> QED BY <1>6, <3>1
  <2>2. PastHere("intersect", cs, k, l) <=> \E m \in DOMAIN cs : at(m) < cs[m].index
    BY <1>8, IntersectPast
  <2>3. PastHere("intersect", ds, k, l) <=> \E m \in DOMAIN cs : at(m) < ds[m].index
    <3>1. PastHere("intersect", ds, k, l) <=>
            \E m \in DOMAIN ds : Find(List(ds[m].term), l) < ds[m].index
      BY <1>5, <1>8, IntersectPast
    <3> QED BY <1>4, <3>1
  <2> HIDE DEF at
  <2>4. \A m \in DOMAIN cs : at(m) < ds[m].index <=> at(m) < cs[m].index \/ l = n
    BY <1>4, <2>1
  <2>5. l = n => \A m \in DOMAIN cs : ~(at(m) < cs[m].index)
    BY <1>4, <2>1
  <2> QED BY <1>7, <2>2, <2>3, <2>4, <2>5
<1>9. \A l \in Numbers(Here.docs) : HitAt(l) \in Reach =>
        (PastHere("intersect", ds, k, l) <=> PastHere("intersect", cs, k, l) \/ l \in {n})
  BY <1>8
<1>10. "intersect" # "done"
  OBVIOUS
<1>11. Behind("intersect", ds, k) = Behind("intersect", cs, k) \cup Found({n})
  BY ONLY <1>9, <1>10, InputsOk, segment \in Numbers(snapshot.segments), Scoring # {},
          BehindGrows
<1> QED BY <1>5, <1>8, <1>11

\* A document at which all cursors are has all scoring terms.
LEMMA AllScore ==
  ASSUME InputsOk, segment \in Numbers(snapshot.segments), Scoring # {},
         NEW cs, IntersectOk(cs), \A m \in DOMAIN cs : ~Exhausted(cs[m]),
         NEW n \in Numbers(Here.docs), \A m \in DOMAIN cs : DocId(cs[m]) = n,
         NEW t \in Scoring
  PROVE  /\ t \in DOMAIN Here.terms /\ t \in Segment(segment).docs[n + 1].terms
         /\ t \in Scorers(segment, n, Scoring)
         /\ \A m \in DOMAIN cs : cs[m].term = t => /\ cs[m].index \in DOMAIN List(t).docids
                                                   /\ List(t).docids[cs[m].index] = n
         /\ \E m \in DOMAIN cs : cs[m].term = t
<1>1. CursorsOf(cs) /\ \E m \in DOMAIN cs : cs[m].term = t
  BY DEF IntersectOk
<1>2. ASSUME NEW m \in DOMAIN cs, cs[m].term = t
      PROVE  /\ t \in DOMAIN Here.terms /\ cs[m].index \in DOMAIN List(t).docids
             /\ List(t).docids[cs[m].index] = n
  <2>1. cs[m] \in Cursor /\ ~Exhausted(cs[m]) /\ DocId(cs[m]) = n
    BY <1>1, CursorsIn
  <2> QED BY <1>2, <2>1, InputsAre, CursorAt
<1>3. Here = Segment(segment)
  BY DEF Here, Segment
<1>4. t \in Scorers(segment, n, Scoring)
  BY <1>1, <1>2, <1>3, InputsAre, ScorersAre DEF List
<1>5. t \in Segment(segment).docs[n + 1].terms
  BY <1>3, <1>4, InputsAre, ScorersHave
<1> QED BY <1>1, <1>2, <1>4, <1>5

\* cursor_phrase_matches is what matches_phrase says of the document.
LEMMA CursorPhrase ==
  ASSUME InputsOk, segment \in Numbers(snapshot.segments), Scoring # {},
         IntersectOk(cursors), \A m \in DOMAIN cursors : ~Exhausted(cursors[m]),
         NEW n \in Numbers(Here.docs), \A m \in DOMAIN cursors : DocId(cursors[m]) = n,
         query.op = "phrase"
  PROVE  CursorPhraseMatches <=> Matches(Segment(segment), n, query)
<1> DEFINE at(t) == CHOOSE c \in ToSet(cursors) : c.term = t
<1>1. Here = Segment(segment) /\ CursorsOf(cursors)
  BY DEF Here, Segment, IntersectOk
<1>2. query \in Queries
  BY InputsAre
<1>3. Scoring = ToSet(query.phrase) /\ query.phrase \in Seq(Terms)
  BY <1>2, QueryForms, ScoringKinds DEF Scoring
<1>4. ASSUME NEW i \in DOMAIN query.phrase
      PROVE  TermPositions(Here, n, query.phrase[i]) =
               List(query.phrase[i]).positions[at(query.phrase[i]).index]
  <2> DEFINE t == query.phrase[i]
  <2>1. t \in Scoring
    BY <1>3, ToSetIs
  <2> HIDE DEF t
  <2>2. /\ t \in DOMAIN Here.terms
        /\ \A m \in DOMAIN cursors : cursors[m].term = t =>
             /\ cursors[m].index \in DOMAIN List(t).docids
             /\ List(t).docids[cursors[m].index] = n
        /\ \E m \in DOMAIN cursors : cursors[m].term = t
    BY <2>1, AllScore
  <2>3. at(t) \in ToSet(cursors) /\ at(t).term = t
    <3>1. PICK m \in DOMAIN cursors : cursors[m].term = t
      BY <2>2
    <3>2. cursors[m] \in ToSet(cursors)
      BY <1>1, CursorsIn
    <3> QED BY <3>1, <3>2
  <2>4. PICK m \in DOMAIN cursors : cursors[m] = at(t)
    BY <1>1, <2>3, CursorsIn
  <2> HIDE DEF at
  <2>5. /\ at(t).index \in DOMAIN List(t).docids /\ List(t).docids[at(t).index] = n
    BY <2>2, <2>3, <2>4
  <2>6. List(t).docids \in Seq(Nat)
    <3>1. at(t) \in Cursor
      BY <1>1, <2>3, CursorsIn
    <3> QED BY <2>3, <3>1, InputsAre, CursorAt
  <2>7. \A j \in DOMAIN List(t).docids : List(t).docids[j] = n => j = at(t).index
    BY <2>2, <2>5, PostedOnce
  <2>8. Find(List(t), n) = at(t).index
    BY ONLY <2>5, <2>7 DEF Find
  <2>9. n \in ToSet(List(t).docids)
    BY <2>5, <2>6, ToSetIs
  <2>10. TermPositions(Here, n, t) = List(t).positions[at(t).index]
    <3>1. List(t) = Here.terms[t]
      BY DEF List
    <3> QED BY ONLY <2>2, <2>8, <2>9, <3>1 DEF TermPositions
  <2> QED BY <2>10 DEF t
<1>5. AllPositions(Here, n, query.phrase) =
        [i \in DOMAIN query.phrase |-> List(query.phrase[i]).positions[at(query.phrase[i]).index]]
  BY <1>4 DEF AllPositions
<1>6. CursorPhraseMatches <=> PhraseMatches(AllPositions(Here, n, query.phrase), AnyColumn)
  BY ONLY <1>5 DEF CursorPhraseMatches
<1>7. MatchesInColumn(Here, n)[query][AnyColumn] <=>
        PhraseMatches(AllPositions(Here, n, query.phrase), AnyColumn)
  <2>1. AnyColumn \in AllColumns
    BY DEF AllColumns
  <2> QED BY <1>2, <2>1, MatchesKinds
<1> QED BY <1>1, <1>6, <1>7 DEF Matches

\* A document at which all cursors are is a hit where the search accepts it.
LEMMA CandidateIs ==
  ASSUME InputsOk, segment \in Numbers(snapshot.segments), Scoring # {},
         IntersectOk(cursors), \A m \in DOMAIN cursors : ~Exhausted(cursors[m]),
         NEW n \in Numbers(Here.docs), \A m \in DOMAIN cursors : DocId(cursors[m]) = n
  PROVE  HitAt(n) \in Reach <=>
           IsLive(snapshot, segment, n) /\ (query.op = "phrase" => CursorPhraseMatches)
<1>1. Here = Segment(segment) /\ query \in Queries
  BY InputsAre DEF Here, Segment
<1>2. \A t \in Scoring : /\ t \in Segment(segment).docs[n + 1].terms
                         /\ t \in Scorers(segment, n, Scoring)
  BY AllScore
<1>3. HitAt(n) \in Reach <=> IsLive(snapshot, segment, n) /\ Matches(Segment(segment), n, query)
  BY <1>2, ReachHere DEF Matching
<1>4. CASE query.op = "phrase"
  BY <1>3, <1>4, CursorPhrase
<1>5. CASE query.op # "phrase"
  <2>1. IsFlatConjunction(query)
    BY <1>5 DEF IntersectOk, Intersects
  <2>2. ASSUME IsLive(snapshot, segment, n) PROVE Matches(Segment(segment), n, query)
    <3>1. \A t \in ScoringTerms(snapshot, query) : t \in Segment(segment).docs[n + 1].terms
      BY <1>2 DEF Scoring
    <3> QED BY <1>1, <2>1, <2>2, <3>1, InputsAre, ConjunctionMatches
  <2> QED BY <1>3, <1>5, <2>2
<1> QED BY <1>4, <1>5

\* A candidate of the intersection is pushed if it is a hit.
LEMMA CandidateKeeps ==
  ASSUME InputsOk, segment \in Numbers(snapshot.segments), Scoring # {},
         IntersectOk(cursors), \A m \in DOMAIN cursors : ~Exhausted(cursors[m]),
         NEW n \in Numbers(Here.docs), \A m \in DOMAIN cursors : DocId(cursors[m]) = n,
         NEW k, Keeps(heap, Behind("intersect", cursors, k), limit),
         NEW ds, ds = [m \in DOMAIN cursors |-> Next1(cursors[m])]
  PROVE  /\ IntersectOk(ds)
         /\ Keeps(IF /\ IsLive(snapshot, segment, n)
                     /\ query.op = "phrase" => CursorPhraseMatches
                  THEN Push(heap, HitAt(n)) ELSE heap,
                  Behind("intersect", ds, k), limit)
<1> DEFINE old == Behind("intersect", cursors, k)
           accepted == IsLive(snapshot, segment, n) /\ (query.op = "phrase" => CursorPhraseMatches)
<1>1. /\ IntersectOk(ds)
      /\ Behind("intersect", ds, k) = old \cup Found({n})
      /\ HitAt(n) \in Reach => ~PastHere("intersect", cursors, k, n)
  BY NextKeeps
<1>2. HitAt(n) \in Reach <=> accepted
  BY CandidateIs
<1>3. CASE accepted
  <2>1. Found({n}) = {HitAt(n)}
    BY <1>2, <1>3 DEF Found
  <2>2. HitAt(n) \notin old
    BY <1>1, <1>2, <1>3, FoundIs
  <2>3. Rankable(old \cup {HitAt(n)})
    <3>1. old \cup {HitAt(n)} \in SUBSET Reach
      BY <1>2, <1>3 DEF Behind
    <3> QED BY <3>1, InputsAre, RankableParts
  <2> HIDE DEF old, accepted
  <2>4. Keeps(Push(heap, HitAt(n)), old \cup {HitAt(n)}, limit)
    BY <2>2, <2>3, InputsAre, PushKeeps DEF old
  <2> QED BY <1>1, <1>3, <2>1, <2>4 DEF accepted
<1>4. CASE ~accepted
  <2>1. Found({n}) = {}
    BY <1>2, <1>4 DEF Found
  <2>2. Behind("intersect", ds, k) = old
    BY <1>1, <2>1
  <2> QED BY <1>1, <1>4, <2>2
<1> QED BY <1>3, <1>4

\* When a cursor is at its end, every hit of the segment is behind.
LEMMA IntersectOver ==
  ASSUME NEW cs, CursorsOf(cs), NEW m \in DOMAIN cs, Exhausted(cs[m]), NEW k
  PROVE  \A n : PastHere("intersect", cs, k, n)
<1>1. cs[m] \in ToSet(cs)
  BY CursorsIn
<1> QED BY <1>1 DEF PastHere

-----------------------------------------------------------------------------
(* The pruned loop of search itself.                                       *)

\* Cursors that have gone on.
Moved(cs, ds) ==
  /\ CursorsOf(cs) /\ CursorsOf(ds) /\ DOMAIN ds = DOMAIN cs
  /\ \A m \in DOMAIN cs : ds[m].term = cs[m].term /\ cs[m].index <= ds[m].index

LEMMA MovedOne ==
  ASSUME NEW cs, CursorsOf(cs), NEW i \in DOMAIN cs, NEW a \in Cursor,
         a.term = cs[i].term, cs[i].index <= a.index,
         NEW ds, ds = [cs EXCEPT ![i] = a]
  PROVE  Moved(cs, ds) /\ ds[i] = a /\ \A m \in DOMAIN cs : m # i => ds[m] = cs[m]
<1>1. cs \in Seq(Cursor) /\ \A m \in DOMAIN cs : cs[m] \in Cursor /\ cs[m].index \in Nat
  <2>1. cs \in Seq(Cursor) /\ \A m \in DOMAIN cs : cs[m] \in Cursor
    BY CursorsIn
  <2> QED BY <2>1 DEF Cursor
<1>2. /\ DOMAIN ds = DOMAIN cs /\ ds[i] = a /\ \A m \in DOMAIN cs : m # i => ds[m] = cs[m]
      /\ ds \in Seq(Cursor)
  BY <1>1
<1>3. \A m \in DOMAIN cs : ds[m].term = cs[m].term /\ cs[m].index <= ds[m].index
  BY <1>1, <1>2
<1>4. \A m, l \in DOMAIN ds : ds[m].term = ds[l].term => m = l
  BY <1>2, <1>3 DEF CursorsOf
<1> QED BY <1>2, <1>3, <1>4 DEF Moved, CursorsOf

\* Which terms wait when cursors have gone on: fewer; and one that does not
\* wait any more for a document that it has was moved past it.
LEMMA MovedWaiting ==
  ASSUME InputsOk, segment \in Numbers(snapshot.segments),
         NEW cs, NEW ds, Moved(cs, ds), NEW new, new = Sorted(ds),
         NEW n \in Numbers(Here.docs)
  PROVE  /\ InOrder(new)
         /\ Waiting(new, n) \subseteq Waiting(cs, n)
         /\ \A m \in DOMAIN ds :
              cs[m].term \in Waiting(new, n) <=> ~Exhausted(ds[m]) /\ DocId(ds[m]) <= n
         /\ \A t \in Scorers(segment, n, Scoring) :
              t \in Waiting(cs, n) /\ t \notin Waiting(new, n) =>
                \E m \in DOMAIN cs, j \in DOMAIN List(t).docids :
                  /\ cs[m].term = t /\ List(t).docids[j] = n
                  /\ cs[m].index <= j /\ j < ds[m].index
<1>1. /\ CursorsOf(cs) /\ CursorsOf(ds) /\ DOMAIN ds = DOMAIN cs
      /\ \A m \in DOMAIN cs : ds[m].term = cs[m].term /\ cs[m].index <= ds[m].index
  BY DEF Moved
<1>2. InOrder(new) /\ ToSet(new) = {c \in ToSet(ds) : ~Exhausted(c)} /\ CursorsOf(new)
  BY <1>1, InputsAre, SortedIs DEF InOrder
<1>3. /\ \A m \in DOMAIN cs : cs[m] \in Cursor /\ cs[m] \in ToSet(cs)
      /\ \A m \in DOMAIN cs : ds[m] \in Cursor /\ ds[m] \in ToSet(ds)
      /\ \A c \in ToSet(cs) : \E m \in DOMAIN cs : cs[m] = c
      /\ \A c \in ToSet(ds) : \E m \in DOMAIN cs : ds[m] = c
      /\ \A c, d \in ToSet(ds) : c.term = d.term => c = d
  BY <1>1, CursorsIn
<1>4. ASSUME NEW m \in DOMAIN ds
      PROVE  cs[m].term \in Waiting(new, n) <=> ~Exhausted(ds[m]) /\ DocId(ds[m]) <= n
  <2>1. cs[m].term \in Waiting(new, n) <=>
          \E c \in ToSet(new) : c.term = cs[m].term /\ ~Exhausted(c) /\ DocId(c) <= n
    BY <1>2, InputsAre, WaitingIs
  <2>2. \A c \in ToSet(ds) : c.term = cs[m].term => c = ds[m]
    BY <1>1, <1>3
  <2>3. ds[m] \in ToSet(ds) /\ ds[m].term = cs[m].term
    BY <1>1, <1>3
  <2> QED BY <1>2, <2>1, <2>2, <2>3
<1>5. ASSUME NEW m \in DOMAIN cs
      PROVE  cs[m].term \in Waiting(cs, n) <=> ~Exhausted(cs[m]) /\ DocId(cs[m]) <= n
  BY <1>1, <1>3, InputsAre, WaitingIs
<1>6. ASSUME NEW t \in Waiting(new, n) PROVE t \in Waiting(cs, n)
  <2>1. PICK c \in ToSet(new) : c.term = t
    BY <1>2, <1>6, InputsAre, WaitingIs
  <2>2. PICK m \in DOMAIN cs : ds[m] = c
    BY <1>2, <1>3, <2>1
  <2>3. cs[m].term = t /\ ~Exhausted(ds[m]) /\ DocId(ds[m]) <= n
    BY <1>1, <1>4, <1>6, <2>1, <2>2
  <2> DEFINE j == ds[m].index
  <2>4. /\ j \in DOMAIN List(t).docids /\ List(t).docids[j] = DocId(ds[m])
        /\ DocId(ds[m]) \in Nat
    BY <1>1, <1>3, <2>3, InputsAre, CursorAt
  <2>5. cs[m].index <= j
    BY <1>1
  <2> HIDE DEF j
  <2>6. ~Exhausted(cs[m]) /\ DocId(cs[m]) <= DocId(ds[m])
    BY <1>3, <2>3, <2>4, <2>5, InputsAre, NotPast
  <2>7. DocId(cs[m]) \in Nat /\ n \in Nat
    BY <1>3, <2>6, InputsAre, CursorAt DEF Numbers
  <2>8. DocId(cs[m]) <= n
    BY <2>3, <2>4, <2>6, <2>7
  <2> QED BY <1>5, <2>3, <2>6, <2>8
<1>7. ASSUME NEW t \in Scorers(segment, n, Scoring), t \in Waiting(cs, n), t \notin Waiting(new, n)
      PROVE  \E m \in DOMAIN cs, j \in DOMAIN List(t).docids :
                  /\ cs[m].term = t /\ List(t).docids[j] = n
                  /\ cs[m].index <= j /\ j < ds[m].index
  <2>1. Here = Segment(segment)
    BY DEF Here, Segment
  <2>2. PICK j \in DOMAIN List(t).docids : List(t).docids[j] = n
    BY <1>7, <2>1, InputsAre, ScorersAre DEF List
  <2>3. PICK m \in DOMAIN cs : cs[m].term = t /\ ~Exhausted(cs[m]) /\ DocId(cs[m]) <= n
    <3>1. PICK c \in ToSet(cs) : c.term = t /\ ~Exhausted(c) /\ DocId(c) <= n
      BY <1>1, <1>7, InputsAre, WaitingIs
    <3> QED BY <1>3, <3>1
  <2>4. cs[m].index <= j
    BY <1>3, <2>2, <2>3, InputsAre, NotPast
  <2>5. ~(~Exhausted(ds[m]) /\ DocId(ds[m]) <= n)
    BY <1>1, <1>4, <1>7, <2>3
  <2>6. ~(ds[m].index <= j)
    BY <1>1, <1>3, <2>2, <2>3, <2>5, InputsAre, NotPast
  <2>7. j \in Nat /\ ds[m].index \in Nat
    <3>1. List(t).docids \in Seq(Nat)
      BY <1>3, <2>3, InputsAre, CursorAt
    <3> QED BY <1>1, <1>3, <3>1 DEF Cursor
  <2>8. j < ds[m].index
    BY <2>6, <2>7
  <2> QED BY <2>2, <2>3, <2>4, <2>8
<1> QED BY <1>1, <1>2, <1>4, <1>6, <1>7

\* Some term of the document waits no more.
Passes(cs, new, n) ==
  \E t \in Scorers(segment, n, Scoring) : t \in Waiting(cs, n) /\ t \notin Waiting(new, n)

\* Neither the document nor what still waits for it can count.
NotEnough(cs, new, n) ==
  \E b \in Nat : /\ Hopeless(b) /\ MostOf(Waiting(new, n)) <= b
                 /\ Scorers(segment, n, Scoring) \subseteq Waiting(cs, n) =>
                      Score(segment, n, Scoring) <= b

\* Documents are passed without a look, where that is so.
LEMMA WandDrops ==
  ASSUME InputsOk, segment \in Numbers(snapshot.segments), Scoring # {},
         NEW cs, LeftHopeless(cs), NEW k, Keeps(heap, Behind("wand", cs, k), limit),
         NEW ds, Moved(cs, ds), NEW new, new = Sorted(ds),
         \A n \in Numbers(Here.docs) : Passes(cs, new, n) => NotEnough(cs, new, n)
  PROVE  /\ InOrder(new) /\ LeftHopeless(new)
         /\ Keeps(heap, Behind("wand", new, k), limit)
<1> DEFINE old == Behind("wand", cs, k)
           N == {n \in Numbers(Here.docs) : /\ Scorers(segment, n, Scoring) \subseteq Waiting(cs, n)
                                            /\ ~(Scorers(segment, n, Scoring) \subseteq Waiting(new, n))}
<1>1. InOrder(new)
  BY SortedIs, InputsAre DEF Moved
<1>2. CursorsOf(cs) /\ CursorsOf(new)
  BY <1>1 DEF Moved, InOrder
<1>3. \A n \in Numbers(Here.docs) : Waiting(new, n) \subseteq Waiting(cs, n)
  BY MovedWaiting
<1>4. /\ limit \in Nat \ {0} /\ Rankable(Reach) /\ old \subseteq Reach
      /\ heap \subseteq old /\ Rankable(heap)
  <2>1. old \subseteq Reach /\ heap \subseteq old
    BY DEF Behind, Keeps
  <2> HIDE DEF old
  <2> QED BY <2>1, InputsAre, RankableParts
<1>5. \A n \in Numbers(Here.docs) : MostOf(Waiting(cs, n)) \in Nat /\ MostOf(Waiting(new, n)) \in Nat
           /\ MostOf(Waiting(new, n)) <= MostOf(Waiting(cs, n))
  <2>1. ASSUME NEW n \in Numbers(Here.docs)
        PROVE MostOf(Waiting(cs, n)) \in Nat /\ MostOf(Waiting(new, n)) \in Nat
              /\ MostOf(Waiting(new, n)) <= MostOf(Waiting(cs, n))
    <3>1. Waiting(cs, n) \subseteq DOMAIN Here.terms /\ IsFiniteSet(Waiting(cs, n))
      BY <1>2, InputsAre, WaitingIs
    <3>2. Waiting(new, n) \subseteq DOMAIN Here.terms /\ IsFiniteSet(Waiting(new, n))
      BY <1>2, InputsAre, WaitingIs
    <3> QED BY <1>3, <3>1, <3>2, InputsAre, MostIs
  <2> QED BY <2>1
<1>6. LeftHopeless(new)
  <2> SUFFICES ASSUME NEW n \in Numbers(Here.docs), Waiting(new, n) # {},
                      ~(Scorers(segment, n, Scoring) \subseteq Waiting(new, n))
               PROVE  Hopeless(MostOf(Waiting(new, n)))
    BY DEF LeftHopeless
  <2>1. CASE Passes(cs, new, n)
    <3>1. PICK b \in Nat : Hopeless(b) /\ MostOf(Waiting(new, n)) <= b
      BY <2>1 DEF NotEnough
    <3> QED BY <1>4, <1>5, <3>1, HopelessBelow
  <2>2. CASE ~Passes(cs, new, n)
    <3>1. ~(Scorers(segment, n, Scoring) \subseteq Waiting(cs, n))
      BY <2>2 DEF Passes
    <3>2. Waiting(cs, n) # {}
      BY <1>3
    <3>3. Hopeless(MostOf(Waiting(cs, n)))
      BY <3>1, <3>2 DEF LeftHopeless
    <3> QED BY <1>4, <1>5, <3>3, HopelessBelow
  <2> QED BY <2>1, <2>2
<1>7. Behind("wand", new, k) = old \cup Found(N)
  <2>1. \A n \in Numbers(Here.docs) : HitAt(n) \in Reach =>
          (PastHere("wand", new, k, n) <=> PastHere("wand", cs, k, n) \/ n \in N)
    BY <1>3 DEF PastHere
  <2>2. "wand" # "done"
    OBVIOUS
  <2> HIDE DEF N
  <2> QED BY ONLY <2>1, <2>2, InputsOk, segment \in Numbers(snapshot.segments), Scoring # {},
                  BehindGrows DEF old
<1>8. ASSUME NEW x \in Found(N)
      PROVE  Cardinality(heap) = limit /\ \A kept \in heap : Better(kept, x)
  <2>1. PICK n \in N \cap Numbers(Here.docs) : x = HitAt(n)
    BY <1>8, FoundIs
  <2>2. Passes(cs, new, n) /\ Scorers(segment, n, Scoring) \subseteq Waiting(cs, n)
    BY <2>1 DEF Passes
  <2>3. PICK b \in Nat : Hopeless(b) /\ Score(segment, n, Scoring) <= b
    BY <2>1, <2>2 DEF NotEnough
  <2>4. x.score = Score(segment, n, Scoring) /\ x.score \in Nat
    <3>1. Score(segment, n, Scoring) \in Nat
      BY InputsAre, ScoreIs
    <3>2. HitAt(n).score = Score(segment, n, Scoring)
      BY ReachHere
    <3> QED BY <2>1, <3>1, <3>2
  <2> QED BY <1>4, <2>3, <2>4, HopelessIs
<1>9. CASE Found(N) = {}
  BY <1>1, <1>6, <1>7, <1>9
<1>10. CASE Found(N) # {}
  <2>1. Cardinality(heap) = limit
    BY <1>8, <1>10
  <2> HIDE DEF old, N
  <2>2. Keeps(heap, old \cup Found(N), limit)
    BY <1>8, <2>1, DropKeeps DEF old
  <2> QED BY <1>1, <1>6, <1>7, <2>2
<1> QED BY <1>9, <1>10

LEMMA SumFirst ==
  ASSUME NEW len \in Nat, 1 <= len,
         NEW g, g \in [1..len -> Nat], NEW h, h \in [2..len -> Nat],
         \A k \in 2..len : h[k] = g[k]
  PROVE  SumFunction(g) = g[1] + SumFunction(h) /\ SumFunction(h) \in Nat
<1>1. PICK A, B : A = {1} /\ B = 2..len
  OBVIOUS
<1>2. IsFiniteSet(A) /\ IsFiniteSet(B)
  <2>1. 2 \in Int /\ len \in Int
    OBVIOUS
  <2> QED BY ONLY <1>1, <2>1, FS_Interval, FS_Singleton
<1>3. A \cup B = 1..len /\ A \cap B = {}
  <2>1. \A x : x \in A \cup B <=> x \in 1..len
    BY <1>1
  <2>2. A \cap B = {}
    BY <1>1
  <2> QED BY <2>1, <2>2
<1>4. PICK o : o \in [A -> Nat] /\ o[1] = g[1]
  <2>1. [k \in A |-> g[1]] \in [A -> Nat] /\ [k \in A |-> g[1]][1] = g[1]
    BY <1>1
  <2> QED BY <2>1
<1>5. g \in [A \cup B -> Nat] /\ h \in [B -> Nat]
  BY <1>1, <1>3
<1>6. (\A x \in A : o[x] = g[x]) /\ (\A x \in B : h[x] = g[x])
  BY <1>1, <1>4
<1>7. SumFunction(o) = o[1]
  <2>1. o \in [{1} -> Nat]
    BY <1>1, <1>4
  <2> QED BY ONLY <2>1, SumOfOne
<1>8. o \in [A -> Nat] /\ A \cap B = {}
  BY <1>3, <1>4
<1>9. SumFunction(g) = SumFunction(o) + SumFunction(h)
  BY ONLY SMTT(30), <1>2, <1>5, <1>6, <1>8, SumSplit
<1>10. SumFunction(h) \in Nat
  BY <1>2, <1>5, SumIs
<1> QED BY <1>4, <1>7, <1>9, <1>10

\* A score, by a bound for one list and the bounds of the others.
LEMMA SkipBound ==
  ASSUME InputsOk, segment \in Numbers(snapshot.segments), NEW cs, CursorsOf(cs), 1 \in DOMAIN cs,
         NEW n, \A t \in Scorers(segment, n, Scoring) : \E k \in DOMAIN cs : cs[k].term = t,
         NEW b \in Nat,
         cs[1].term \in Scorers(segment, n, Scoring) => Part(segment, n, cs[1].term) <= b
  PROVE  /\ Score(segment, n, Scoring) <= b + Bounding(cs, 2, Len(cs))
         /\ Bounding(cs, 2, Len(cs)) \in Nat
<1> DEFINE len == Len(cs)
           S == Scorers(segment, n, Scoring)
           L(k) == ListBound(cs[k].term)
           g == [k \in 1..len |-> IF k = 1 THEN b ELSE L(k)]
           h == [k \in 2..len |-> L(k)]
           e == [t \in S |-> CHOOSE k \in DOMAIN cs : cs[k].term = t]
<1>1. /\ cs \in Seq(Cursor) /\ len \in Nat /\ DOMAIN cs = 1..len /\ 1 <= len
      /\ \A k \in 1..len : cs[k] \in Cursor
  <2>1. cs \in Seq(Cursor) /\ \A k \in DOMAIN cs : cs[k] \in Cursor
    BY CursorsIn
  <2> QED BY <2>1
<1>2. \A k \in 1..len : L(k) \in Nat
  <2>1. ASSUME NEW k \in 1..len PROVE cs[k].term \in DOMAIN Here.terms
    BY <1>1 DEF Cursor
  <2> QED BY <2>1, InputsAre, ListBoundIs
<1>3. \A t \in S : e[t] \in 1..len /\ cs[e[t]].term = t
  BY <1>1
<1>4. e \in [S -> 1..len]
  BY <1>3
<1> HIDE DEF e
<1>5. \A t, u \in S : e[t] = e[u] => t = u
  BY <1>3
<1> HIDE DEF len, L
<1>6. g \in [1..len -> Nat] /\ h \in [2..len -> Nat]
  BY <1>1, <1>2
<1>7. ASSUME NEW t \in S PROVE Part(segment, n, t) <= g[e[t]]
  <2>1. e[t] \in 1..len /\ cs[e[t]].term = t
    BY <1>3
  <2>2. CASE e[t] = 1
    BY <2>1, <2>2
  <2>3. CASE e[t] # 1
    <3>1. g[e[t]] = ListBound(t)
      BY <2>1, <2>3 DEF L
    <3>2. Part(segment, n, t) <= ListBound(t)
      BY InputsAre, PartBelow
    <3> QED BY <3>1, <3>2
  <2> QED BY <2>2, <2>3
<1>8. /\ \A k \in 2..len : h[k] = g[k]
      /\ g[1] = b /\ IsFiniteSet(1..len)
  BY <1>1, FS_Interval
<1> HIDE DEF g, h
<1>9. Score(segment, n, Scoring) <= SumFunction(g)
  <2>1. Good(snapshot)
    BY InputsAre
  <2> QED BY <1>4, <1>5, <1>6, <1>7, <1>8, <2>1, ScoreBelow DEF S
<1>10. SumFunction(g) = b + SumFunction(h) /\ SumFunction(h) \in Nat
  BY ONLY <1>1, <1>6, <1>8, SumFirst
<1>11. SumFunction(h) = Bounding(cs, 2, Len(cs))
  BY DEF h, L, len, Bounding
<1> QED BY <1>9, <1>10, <1>11

\* skip_block goes on behind the block, whose postings are within its bound.
LEMMA SkipIs ==
  ASSUME InputsOk, segment \in Numbers(snapshot.segments), NEW c \in Cursor, ~Exhausted(c)
  PROVE  /\ SkipBlock(c) \in Cursor /\ SkipBlock(c).term = c.term
         /\ c.index < SkipBlock(c).index
         /\ BlockBound(c.term, BlockOf(c)) \in Nat
         /\ \A j \in DOMAIN List(c.term).docids : c.index <= j /\ j < SkipBlock(c).index =>
              Part(segment, List(c.term).docids[j], c.term) <= BlockBound(c.term, BlockOf(c))
<1> DEFINE t == c.term
           len == Len(List(t).docids)
           k == BlockOf(c)
           end == List(t).blocks[k].end
           w == (k - 1) * BlockSize
<1>1. /\ t \in Scoring /\ t \in DOMAIN Here.terms
      /\ c.index \in DOMAIN List(t).docids /\ List(t).docids \in Seq(Nat)
  BY InputsAre, CursorAt
<1>2. Here = Segment(segment) /\ Good(snapshot)
  BY InputsAre DEF Here, Segment
<1>3. Len(List(t).blocks) = CeilDiv(len, BlockSize)
  <2>1. BlockFacts(List(t), Here.docs)
    BY <1>1, <1>2, SegmentFacts DEF List
  <2> QED BY <2>1 DEF BlockFacts
<1>4. len \in Nat /\ DOMAIN List(t).docids = 1..len /\ c.index \in 1..len
  BY <1>1
<1>5. /\ k \in 1..Len(List(t).blocks)
      /\ w + 1 <= c.index /\ c.index <= Smaller(k * BlockSize, len)
  <2>1. k = CeilDiv(c.index, BlockSize)
    BY DEF BlockOf
  <2> HIDE DEF k, len
  <2> QED BY <1>3, <1>4, <2>1, BlockOfIndex
<1>6. /\ BlockBound(t, k) \in Nat
      /\ end = Smaller(k * BlockSize, len)
      /\ \A j \in (w + 1)..end :
           j \in DOMAIN List(t).docids /\ Part(segment, List(t).docids[j], t) <= BlockBound(t, k)
  <2> HIDE DEF k, t
  <2> QED BY <1>1, <1>2, <1>5, BlockBoundIs
<1>7. w \in Int /\ w + 1 <= c.index
  <2>1. k - 1 \in Int /\ BlockSize \in Int
    BY <1>5, IndexAssumption
  <2> HIDE DEF k
  <2> QED BY <1>5, <2>1
<1>8. end \in Nat /\ c.index <= end
  <2>1. k * BlockSize \in Int
    <3>1. k \in Int /\ BlockSize \in Int
      BY <1>5, IndexAssumption
    <3> HIDE DEF k
    <3> QED BY <3>1
  <2> DEFINE z == k * BlockSize
  <2> HIDE DEF z, end, len
  <2> QED BY <1>4, <1>5, <1>6, <2>1 DEF z, Smaller
<1>9. SkipBlock(c) = [term |-> t, index |-> end + 1]
  <2>1. c = [term |-> c.term, index |-> c.index]
    BY DEF Cursor
  <2> HIDE DEF end
  <2>2. SkipBlock(c) = [c EXCEPT !.index = end + 1]
    BY DEF SkipBlock, end
  <2> QED BY <2>1, <2>2
<1> HIDE DEF end, w, k
<1>10. SkipBlock(c) \in Cursor /\ SkipBlock(c).term = t /\ SkipBlock(c).index = end + 1
  BY <1>1, <1>8, <1>9 DEF Cursor
<1>11. ASSUME NEW j \in DOMAIN List(t).docids, c.index <= j, j < SkipBlock(c).index
       PROVE  Part(segment, List(t).docids[j], t) <= BlockBound(t, k)
  <2>1. j \in (w + 1)..end
    BY <1>4, <1>7, <1>8, <1>10, <1>11
  <2> QED BY <1>6, <2>1
<1>12. c.index < SkipBlock(c).index
  BY <1>4, <1>8, <1>10
<1> QED BY <1>6, <1>10, <1>11, <1>12 DEF k

\* A block is skipped.
LEMMA SkipKeeps ==
  ASSUME InputsOk, segment \in Numbers(snapshot.segments), Scoring # {},
         InOrder(cursors), LeftHopeless(cursors), cursors # <<>>,
         NEW k, Keeps(heap, Behind("wand", cursors, k), limit),
         Hopeless(BlockBound(cursors[1].term, BlockOf(cursors[1])) + Bounds(2, Len(cursors))),
         NEW new, new = Sorted([cursors EXCEPT ![1] = SkipBlock(cursors[1])])
  PROVE  /\ InOrder(new) /\ LeftHopeless(new)
         /\ Keeps(heap, Behind("wand", new, k), limit)
<1> DEFINE c == cursors[1]
           ds == [cursors EXCEPT ![1] = SkipBlock(c)]
           bb == BlockBound(c.term, BlockOf(c))
           rest == Bounding(cursors, 2, Len(cursors))
<1>1. /\ CursorsOf(cursors) /\ cursors \in Seq(Cursor) /\ 1 \in DOMAIN cursors
      /\ \A m \in DOMAIN cursors : cursors[m] \in Cursor /\ ~Exhausted(cursors[m])
      /\ \A m \in DOMAIN cursors : cursors[m] \in ToSet(cursors)
      /\ \A d \in ToSet(cursors) : \E m \in DOMAIN cursors : cursors[m] = d
  <2>1. CursorsOf(cursors) /\ \A m \in DOMAIN cursors : ~Exhausted(cursors[m])
    BY DEF InOrder
  <2>2. /\ cursors \in Seq(Cursor)
        /\ \A m \in DOMAIN cursors : cursors[m] \in Cursor /\ cursors[m] \in ToSet(cursors)
        /\ \A d \in ToSet(cursors) : \E m \in DOMAIN cursors : cursors[m] = d
    BY <2>1, CursorsIn
  <2>3. 1 \in DOMAIN cursors
    BY <2>2
  <2> QED BY <2>1, <2>2, <2>3
<1>2. /\ SkipBlock(c) \in Cursor /\ SkipBlock(c).term = c.term
      /\ c.index < SkipBlock(c).index /\ bb \in Nat
      /\ \A j \in DOMAIN List(c.term).docids : c.index <= j /\ j < SkipBlock(c).index =>
              Part(segment, List(c.term).docids[j], c.term) <= bb
  BY <1>1, SkipIs
<1>3. c.index \in Nat /\ SkipBlock(c).index \in Nat
  BY <1>1, <1>2 DEF Cursor
<1> HIDE DEF c
<1>4. SkipBlock(c).term = cursors[1].term /\ cursors[1].index <= SkipBlock(c).index
  BY <1>2, <1>3 DEF c
<1>5. Moved(cursors, ds) /\ ds[1] = SkipBlock(c) /\ \A m \in DOMAIN cursors : m # 1 => ds[m] = cursors[m]
  <2> DEFINE a == SkipBlock(c)
  <2>1. a \in Cursor /\ a.term = cursors[1].term /\ cursors[1].index <= a.index /\ ds = [cursors EXCEPT ![1] = a]
    BY <1>2, <1>4
  <2> HIDE DEF a
  <2>2. ds[1] = a /\ \A m \in DOMAIN cursors : m # 1 => ds[m] = cursors[m]
    BY <1>1, <2>1
  <2> HIDE DEF ds
  <2>3. CursorsOf(cursors) /\ 1 \in DOMAIN cursors
    BY <1>1
  <2>4. Moved(cursors, ds)
    BY ONLY <2>1, <2>3, MovedOne
  <2> QED BY <2>2, <2>4 DEF a
<1>6. new = Sorted(ds)
  BY DEF c
<1> HIDE DEF ds, bb, rest
<1>7. Hopeless(bb + rest)
  BY DEF bb, rest, c, Bounds, Bounding
<1>8. ASSUME NEW n \in Numbers(Here.docs), Passes(cursors, new, n)
      PROVE  NotEnough(cursors, new, n)
  <2>1. PICK t \in Scorers(segment, n, Scoring) : t \in Waiting(cursors, n) /\ t \notin Waiting(new, n)
    BY <1>8 DEF Passes
  <2>2. /\ Waiting(new, n) \subseteq Waiting(cursors, n)
        /\ \A m \in DOMAIN ds :
              cursors[m].term \in Waiting(new, n) <=> ~Exhausted(ds[m]) /\ DocId(ds[m]) <= n
    BY <1>5, <1>6, MovedWaiting
  <2>3. PICK m \in DOMAIN cursors, j \in DOMAIN List(t).docids :
          /\ cursors[m].term = t /\ List(t).docids[j] = n
          /\ cursors[m].index <= j /\ j < ds[m].index
    BY <1>5, <1>6, <2>1, MovedWaiting
  <2>4. j \in Nat /\ cursors[m].index \in Nat
    <3>1. List(t).docids \in Seq(Nat)
      BY <1>1, <2>3, InputsAre, CursorAt
    <3> QED BY <1>1, <3>1 DEF Cursor
  <2>5. m = 1
    BY <1>5, <2>3, <2>4
  <2>6. t = c.term /\ Part(segment, n, t) <= bb
    BY <1>2, <1>5, <2>3, <2>5 DEF c
  <2>7. ASSUME NEW u \in Waiting(cursors, n)
        PROVE  \E l \in DOMAIN cursors : cursors[l].term = u
    <3>1. PICK d \in ToSet(cursors) : d.term = u
      BY <1>1, <2>7, InputsAre, WaitingIs
    <3> QED BY <1>1, <3>1
  <2>8. rest \in Nat /\ (Scorers(segment, n, Scoring) \subseteq Waiting(cursors, n) =>
                           Score(segment, n, Scoring) <= bb + rest)
    <3>1. 2 \in Nat /\ Len(cursors) \in Nat /\ 2..Len(cursors) \subseteq DOMAIN cursors
      BY <1>1
    <3>2. rest \in Nat
      BY <1>1, <3>1, InputsAre, BoundsAre DEF rest
    <3>3. ASSUME Scorers(segment, n, Scoring) \subseteq Waiting(cursors, n)
          PROVE  Score(segment, n, Scoring) <= bb + rest
      <4>1. \A u \in Scorers(segment, n, Scoring) : \E l \in DOMAIN cursors : cursors[l].term = u
        BY <2>7, <3>3
      <4>2. Part(segment, n, cursors[1].term) <= bb
        BY <2>3, <2>5, <2>6
      <4> QED BY <1>1, <1>2, <4>1, <4>2, SkipBound DEF rest
    <3> QED BY <3>2, <3>3
  <2>9. MostOf(Waiting(new, n)) <= rest /\ MostOf(Waiting(new, n)) \in Nat
    <3>1. CursorsOf(new)
      <4>1. InOrder(new)
        BY <1>5, <1>6, MovedWaiting
      <4> QED BY <4>1 DEF InOrder
    <3>2. /\ IsFiniteSet(Waiting(new, n)) /\ Waiting(new, n) \subseteq DOMAIN Here.terms
      BY <3>1, InputsAre, WaitingIs
    <3>3. ASSUME NEW u \in Waiting(new, n) PROVE \E l \in 2..Len(cursors) : cursors[l].term = u
      <4>1. PICK l \in DOMAIN cursors : cursors[l].term = u
        BY <2>2, <2>7
      <4>2. l # 1
        BY <2>1, <2>3, <2>5, <4>1
      <4>3. l \in 2..Len(cursors)
        BY <1>1, <4>1, <4>2
      <4> QED BY <4>1, <4>3
    <3>4. 2 \in Nat /\ Len(cursors) \in Nat /\ 2..Len(cursors) \subseteq DOMAIN cursors
      BY <1>1
    <3>5. MostOf(Waiting(new, n)) <= rest
      BY <1>1, <3>2, <3>3, <3>4, InputsAre, BoundsAre DEF rest
    <3> QED BY <3>2, <3>5, InputsAre, MostIs
  <2>10. bb + rest \in Nat /\ MostOf(Waiting(new, n)) <= bb + rest
    BY <1>2, <2>8, <2>9 DEF bb
  <2> QED BY <1>7, <2>8, <2>10 DEF NotEnough
<1> QED BY <1>5, <1>6, <1>8, WandDrops

\* The pivot: with fewer cursors than up to it nothing counts.
LEMMA PivotIs ==
  ASSUME InputsOk, segment \in Numbers(snapshot.segments), InOrder(cursors), Pivots # {},
         NEW p, p = Min(Pivots)
  PROVE  /\ p \in DOMAIN cursors /\ 1 \in DOMAIN cursors /\ p \in Nat
         /\ ~Hopeless(Bounding(cursors, 1, p))
         /\ \A i \in DOMAIN cursors : i < p => Hopeless(Bounding(cursors, 1, i))
         /\ PivotDoc = DocId(cursors[p])
         /\ PivotDoc \in Numbers(Here.docs) /\ PivotDoc \in Nat
         /\ \A i \in DOMAIN cursors : /\ cursors[i] \in Cursor /\ cursors[i] \in ToSet(cursors)
                                      /\ ~Exhausted(cursors[i]) /\ DocId(cursors[i]) \in Nat
         /\ \A i, j \in DOMAIN cursors : i <= j => DocId(cursors[i]) <= DocId(cursors[j])
         /\ \A d \in ToSet(cursors) : \E m \in DOMAIN cursors : cursors[m] = d
<1>1. /\ CursorsOf(cursors) /\ \A i \in DOMAIN cursors : ~Exhausted(cursors[i])
      /\ \A i, j \in DOMAIN cursors : i < j => DocId(cursors[i]) <= DocId(cursors[j])
  BY DEF InOrder
<1>2. /\ cursors \in Seq(Cursor)
      /\ \A i \in DOMAIN cursors : cursors[i] \in Cursor /\ cursors[i] \in ToSet(cursors)
      /\ \A d \in ToSet(cursors) : \E m \in DOMAIN cursors : cursors[m] = d
  BY <1>1, CursorsIn
<1>3. DOMAIN cursors = 1..Len(cursors) /\ Len(cursors) \in Nat
  BY <1>2
<1>4. Pivots \subseteq Nat /\ Pivots \subseteq DOMAIN cursors
  BY <1>3 DEF Pivots
<1>5. p \in Pivots /\ \A i \in Pivots : p <= i
  BY <1>4, MinIs
<1>6. \A i \in DOMAIN cursors : i \in Pivots <=> ~Hopeless(Bounding(cursors, 1, i))
  BY DEF Pivots, Bounds, Bounding
<1>7. p \in DOMAIN cursors /\ p \in Nat /\ 1 \in DOMAIN cursors
  BY <1>3, <1>4, <1>5
<1>8. \A i \in DOMAIN cursors : i < p => i \notin Pivots
  BY <1>3, <1>4, <1>5
<1>9. \A i \in DOMAIN cursors : DocId(cursors[i]) \in Nat /\ DocId(cursors[i]) \in Numbers(Here.docs)
  BY <1>1, <1>2, InputsAre, CursorAt
<1>10. \A i, j \in DOMAIN cursors : i <= j => DocId(cursors[i]) <= DocId(cursors[j])
  <2>1. ASSUME NEW i \in DOMAIN cursors, NEW j \in DOMAIN cursors, i <= j
        PROVE  DocId(cursors[i]) <= DocId(cursors[j])
    <3>1. CASE i = j
      BY <1>9, <3>1
    <3>2. CASE i # j
      <4>1. i < j
        BY <1>3, <2>1, <3>2
      <4> QED BY <1>1, <4>1
    <3> QED BY <3>1, <3>2
  <2> QED BY <2>1
<1>11. PivotDoc = DocId(cursors[p])
  BY DEF PivotDoc
<1> QED BY <1>1, <1>2, <1>5, <1>6, <1>7, <1>8, <1>9, <1>10, <1>11

\* The first cursor goes to the pivot.
LEMMA AdvanceKeeps ==
  ASSUME InputsOk, segment \in Numbers(snapshot.segments), Scoring # {},
         InOrder(cursors), LeftHopeless(cursors), Pivots # {}, DocId(cursors[1]) < PivotDoc,
         NEW k, Keeps(heap, Behind("wand", cursors, k), limit),
         NEW new, new = Sorted([cursors EXCEPT ![1] = AdvanceTo(cursors[1], PivotDoc)])
  PROVE  /\ InOrder(new) /\ LeftHopeless(new)
         /\ Keeps(heap, Behind("wand", new, k), limit)
<1> DEFINE c == cursors[1]
           a == AdvanceTo(c, PivotDoc)
           ds == [cursors EXCEPT ![1] = a]
           p == Min(Pivots)
           before == Bounding(cursors, 1, p - 1)
<1>1. /\ p \in DOMAIN cursors /\ 1 \in DOMAIN cursors /\ p \in Nat
      /\ \A i \in DOMAIN cursors : i < p => Hopeless(Bounding(cursors, 1, i))
      /\ PivotDoc = DocId(cursors[p]) /\ PivotDoc \in Nat
      /\ \A i \in DOMAIN cursors : /\ cursors[i] \in Cursor /\ cursors[i] \in ToSet(cursors)
                                   /\ ~Exhausted(cursors[i]) /\ DocId(cursors[i]) \in Nat
      /\ \A i, j \in DOMAIN cursors : i <= j => DocId(cursors[i]) <= DocId(cursors[j])
      /\ \A d \in ToSet(cursors) : \E m \in DOMAIN cursors : cursors[m] = d
  <2> HIDE DEF p
  <2>1. p = Min(Pivots)
    BY DEF p
  <2> QED BY <2>1, PivotIs
<1>2. CursorsOf(cursors)
  BY DEF InOrder
<1>3. /\ a \in Cursor /\ a.term = c.term /\ a.index >= c.index
      /\ \A j \in DOMAIN List(c.term).docids :
              j >= c.index /\ j < a.index => List(c.term).docids[j] < PivotDoc
  <2>1. c \in Cursor /\ ~Exhausted(c) /\ PivotDoc \in Nat
    BY <1>1
  <2> HIDE DEF c
  <2> QED BY <2>1, InputsAre, AdvanceIs
<1> HIDE DEF a, p
<1>4. c.index \in Nat /\ a.index \in Nat
  BY <1>1, <1>3 DEF Cursor
<1>5. Moved(cursors, ds) /\ ds[1] = a /\ \A m \in DOMAIN cursors : m # 1 => ds[m] = cursors[m]
  <2>1. a \in Cursor /\ a.term = cursors[1].term /\ cursors[1].index <= a.index
    BY <1>3, <1>4
  <2>2. cursors \in Seq(Cursor)
    BY <1>2, CursorsIn
  <2>3. ds[1] = a /\ \A m \in DOMAIN cursors : m # 1 => ds[m] = cursors[m]
    BY <1>1, <2>2
  <2>4. 1 \in DOMAIN cursors /\ ds = [cursors EXCEPT ![1] = a]
    BY <1>1
  <2> HIDE DEF ds
  <2>5. Moved(cursors, ds)
    BY ONLY <1>2, <2>1, <2>4, MovedOne
  <2> QED BY <2>3, <2>5
<1>6. new = Sorted(ds)
  BY DEF c, a
<1>7. p > 1
  BY <1>1
<1>8. /\ p - 1 \in DOMAIN cursors /\ Hopeless(before)
      /\ before \in Nat /\ 1..(p - 1) \subseteq DOMAIN cursors
  <2>1. cursors \in Seq(Cursor)
    BY <1>2, CursorsIn
  <2>2. p - 1 \in DOMAIN cursors /\ p - 1 < p /\ p - 1 \in Nat /\ 1..(p - 1) \subseteq DOMAIN cursors
    BY <1>1, <1>7, <2>1
  <2>3. before \in Nat
    BY <1>2, <2>2, InputsAre, BoundsAre
  <2> QED BY <1>1, <2>2, <2>3
<1> HIDE DEF ds, before
<1>9. ASSUME NEW n \in Numbers(Here.docs), Passes(cursors, new, n)
      PROVE  NotEnough(cursors, new, n)
  <2>1. PICK t \in Scorers(segment, n, Scoring) : t \in Waiting(cursors, n) /\ t \notin Waiting(new, n)
    BY <1>9 DEF Passes
  <2>2. PICK m \in DOMAIN cursors, j \in DOMAIN List(t).docids :
          /\ cursors[m].term = t /\ List(t).docids[j] = n
          /\ cursors[m].index <= j /\ j < ds[m].index
    BY <1>5, <1>6, <2>1, MovedWaiting
  <2>3. Waiting(new, n) \subseteq Waiting(cursors, n)
    BY <1>5, <1>6, MovedWaiting
  <2>4. j \in Nat /\ cursors[m].index \in Nat /\ n \in Nat
    <3>1. List(t).docids \in Seq(Nat)
      BY <1>1, <2>2, InputsAre, CursorAt
    <3> QED BY <1>1, <2>2, <3>1 DEF Cursor
  <2>5. m = 1
    BY <1>5, <2>2, <2>4
  <2>6. n < PivotDoc
    BY <1>3, <1>5, <2>2, <2>4, <2>5
  <2>7. ASSUME NEW u \in Waiting(cursors, n)
        PROVE  \E l \in 1..(p - 1) : cursors[l].term = u
    <3>1. PICK d \in ToSet(cursors) : d.term = u /\ DocId(d) <= n
      BY <1>2, <2>7, InputsAre, WaitingIs
    <3>2. PICK l \in DOMAIN cursors : cursors[l] = d
      BY <1>1, <3>1
    <3>3. ~(p <= l)
      <4> SUFFICES ASSUME p <= l PROVE FALSE
        OBVIOUS
      <4>1. DocId(cursors[p]) <= DocId(cursors[l])
        BY <1>1, <3>2
      <4> QED BY <1>1, <2>4, <2>6, <3>1, <3>2, <4>1
    <3>4. cursors \in Seq(Cursor)
      BY <1>2, CursorsIn
    <3>5. l \in 1..(p - 1)
      BY <1>1, <3>2, <3>3, <3>4
    <3> QED BY <3>1, <3>2, <3>5
  <2>8. /\ IsFiniteSet(Waiting(cursors, n)) /\ Waiting(cursors, n) \subseteq DOMAIN Here.terms
    BY <1>2, InputsAre, WaitingIs
  <2>9. MostOf(Waiting(cursors, n)) <= before /\ MostOf(Waiting(cursors, n)) \in Nat
    <3>1. 1 \in Nat /\ p - 1 \in Nat
      BY <1>1, <1>7
    <3>2. MostOf(Waiting(cursors, n)) <= before
      BY <1>2, <1>8, <2>7, <2>8, <3>1, InputsAre, BoundsAre DEF before
    <3> QED BY <2>8, <3>2, InputsAre, MostIs
  <2>10. MostOf(Waiting(new, n)) <= MostOf(Waiting(cursors, n)) /\ MostOf(Waiting(new, n)) \in Nat
    <3>1. Waiting(new, n) \in SUBSET Waiting(cursors, n) /\ IsFiniteSet(Waiting(new, n))
          /\ Waiting(new, n) \subseteq DOMAIN Here.terms
      BY <2>3, <2>8, FS_Subset
    <3> QED BY <2>8, <3>1, InputsAre, MostIs
  <2>11. ASSUME Scorers(segment, n, Scoring) \subseteq Waiting(cursors, n)
         PROVE  Score(segment, n, Scoring) <= before
    <3>1. Score(segment, n, Scoring) <= MostOf(Waiting(cursors, n))
      BY <2>8, <2>11, InputsAre, ScoreMost
    <3>2. Score(segment, n, Scoring) \in Nat
      BY InputsAre, ScoreIs
    <3> QED BY <1>8, <2>9, <3>1, <3>2
  <2>12. MostOf(Waiting(new, n)) <= before
    BY <1>8, <2>9, <2>10
  <2> QED BY <1>8, <2>11, <2>12 DEF NotEnough
<1> QED BY <1>5, <1>6, <1>9, WandDrops

\* The same, for what was hopeless before a push.
LeftBelow(hits, cs) ==
  \A n \in Numbers(Here.docs) :
    /\ Waiting(cs, n) # {}
    /\ ~(Scorers(segment, n, Scoring) \subseteq Waiting(cs, n))
    => Above(hits, MostOf(Waiting(cs, n)))

\* At the document of the pivot are the cursors of all its scoring terms.
LEMMA PivotHas ==
  ASSUME InputsOk, segment \in Numbers(snapshot.segments), Scoring # {},
         InOrder(cursors), LeftHopeless(cursors), Rankable(heap),
         Pivots # {}, DocId(cursors[1]) = PivotDoc
  PROVE  /\ Scorers(segment, PivotDoc, Scoring) \subseteq Waiting(cursors, PivotDoc)
         /\ \A t \in Scorers(segment, PivotDoc, Scoring) :
              \E c \in ToSet(cursors) : c.term = t /\ DocId(c) = PivotDoc
         /\ \A c \in ToSet(cursors) : DocId(c) = PivotDoc =>
              c.term \in Scorers(segment, PivotDoc, Scoring)
         /\ Scorers(segment, PivotDoc, Scoring) # {}
<1> DEFINE p == Min(Pivots)
           n == PivotDoc
           W == Waiting(cursors, n)
           S == Scorers(segment, n, Scoring)
<1>1. /\ p \in DOMAIN cursors /\ 1 \in DOMAIN cursors /\ p \in Nat
      /\ ~Hopeless(Bounding(cursors, 1, p))
      /\ n = DocId(cursors[p]) /\ n \in Numbers(Here.docs) /\ n \in Nat
      /\ \A i \in DOMAIN cursors : /\ cursors[i] \in Cursor /\ cursors[i] \in ToSet(cursors)
                                   /\ ~Exhausted(cursors[i]) /\ DocId(cursors[i]) \in Nat
      /\ \A i, j \in DOMAIN cursors : i <= j => DocId(cursors[i]) <= DocId(cursors[j])
      /\ \A d \in ToSet(cursors) : \E m \in DOMAIN cursors : cursors[m] = d
  <2> HIDE DEF p
  <2>1. p = Min(Pivots)
    BY DEF p
  <2> QED BY <2>1, PivotIs
<1>2. CursorsOf(cursors) /\ cursors \in Seq(Cursor) /\ DOMAIN cursors = 1..Len(cursors)
  <2>1. CursorsOf(cursors)
    BY DEF InOrder
  <2>2. cursors \in Seq(Cursor)
    BY <2>1, CursorsIn
  <2> QED BY <2>1, <2>2
<1> HIDE DEF p, n
<1>3. DocId(cursors[1]) = n
  BY DEF n
<1>4. W \subseteq DOMAIN Here.terms /\ IsFiniteSet(W)
  BY <1>2, InputsAre, WaitingIs
<1>5. ASSUME NEW k \in 1..p PROVE k \in DOMAIN cursors /\ cursors[k].term \in W
  <2>1. k \in DOMAIN cursors /\ k <= p
    BY <1>1, <1>2
  <2>2. DocId(cursors[k]) <= n
    BY <1>1, <2>1
  <2> QED BY <1>1, <1>2, <2>1, <2>2, InputsAre, WaitingIs
<1>6. S \subseteq W
  <2> SUFFICES ASSUME ~(S \subseteq W) PROVE FALSE
    OBVIOUS
  <2>1. W # {}
    <3>1. 1 \in 1..p
      BY <1>1, <1>2
    <3> QED BY <1>5, <3>1
  <2>2. Hopeless(MostOf(W))
    BY <1>1, <2>1 DEF LeftHopeless
  <2>3. Bounding(cursors, 1, p) <= MostOf(W) /\ Bounding(cursors, 1, p) \in Nat
    <3>1. 1 \in Nat /\ 1..p \subseteq DOMAIN cursors
      BY <1>5
    <3> HIDE DEF W
    <3> QED BY <1>1, <1>2, <1>4, <1>5, <3>1, InputsAre, BoundsAre
  <2>4. MostOf(W) \in Nat
    BY <1>4, InputsAre, MostIs
  <2>5. limit \in Nat \ {0}
    BY InputsAre
  <2>6. Hopeless(Bounding(cursors, 1, p))
    BY <2>2, <2>3, <2>4, <2>5, HopelessBelow
  <2> QED BY <1>1, <2>6
<1>7. ASSUME NEW t \in S PROVE \E c \in ToSet(cursors) : c.term = t /\ DocId(c) = n
  <2>1. t \in W
    BY <1>6
  <2>2. PICK c \in ToSet(cursors) : c.term = t /\ DocId(c) <= n
    BY <1>2, <2>1, InputsAre, WaitingIs
  <2>3. PICK m \in DOMAIN cursors : cursors[m] = c
    BY <1>1, <2>2
  <2>4. 1 <= m
    BY <1>2
  <2>5. DocId(cursors[1]) <= DocId(cursors[m])
    BY <1>1, <2>4
  <2>6. DocId(c) = n
    BY <1>1, <1>3, <2>2, <2>3, <2>5
  <2> QED BY <2>2, <2>6
<1>8. ASSUME NEW c \in ToSet(cursors), DocId(c) = n PROVE c.term \in S
  <2>1. c \in Cursor /\ ~Exhausted(c)
    BY <1>1
  <2>2. /\ c.term \in Scoring /\ c.term \in DOMAIN Here.terms
        /\ c.index \in DOMAIN List(c.term).docids /\ List(c.term).docids[c.index] = n
    BY <1>8, <2>1, InputsAre, CursorAt
  <2>3. Here = Segment(segment)
    BY DEF Here, Segment
  <2> QED BY <2>2, <2>3, InputsAre, ScorersAre DEF List
<1>9. S # {}
  BY <1>1, <1>3, <1>8
<1> QED BY <1>6, <1>7, <1>8, <1>9 DEF n

\* The document of the pivot is a hit where the search takes it for one, and
\* has the same score.
LEMMA PivotHit ==
  ASSUME InputsOk, segment \in Numbers(snapshot.segments), Scoring # {},
         InOrder(cursors), LeftHopeless(cursors), Rankable(heap),
         Pivots # {}, DocId(cursors[1]) = PivotDoc
  PROVE  (IF IsFlatDisjunction(query) THEN ConsiderWandCandidate ELSE Consider) =
           IF HitAt(PivotDoc) \in Reach THEN Push(heap, HitAt(PivotDoc)) ELSE heap
<1> DEFINE n == PivotDoc
           at == {c.term : c \in {d \in ToSet(cursors) : AtPivot(d)}}
<1>1. n \in Numbers(Here.docs)
  <2>1. PICK p : p = Min(Pivots)
    OBVIOUS
  <2> QED BY <2>1, PivotIs
<1>2. Here = Segment(segment) /\ query \in Queries
  BY InputsAre DEF Here, Segment
<1> HIDE DEF n
<1>3. /\ \A t \in Scorers(segment, n, Scoring) :
              \E c \in ToSet(cursors) : c.term = t /\ DocId(c) = n
      /\ \A c \in ToSet(cursors) : DocId(c) = n => c.term \in Scorers(segment, n, Scoring)
      /\ Scorers(segment, n, Scoring) # {}
  BY PivotHas DEF n
<1>4. HitAt(n) \in Reach <=> IsLive(snapshot, segment, n) /\ Matches(Here, n, query)
  BY <1>1, <1>2, <1>3, ReachHere DEF Matching
<1>5. at = Scorers(segment, n, Scoring)
  <2>1. \A c : AtPivot(c) <=> DocId(c) = n
    BY DEF AtPivot, n
  <2>2. \A t : t \in at <=> \E c \in ToSet(cursors) : c.term = t /\ DocId(c) = n
    BY <2>1
  <2>3. \A t : t \in at <=> t \in Scorers(segment, n, Scoring)
    BY <1>3, <2>2
  <2> HIDE DEF at
  <2> QED BY <2>3
<1>6. RankedDoc(segment, n, at) = HitAt(n)
  <2>1. Scorers(segment, n, at) = Scorers(segment, n, Scoring)
    <3>1. \A t : t \in Scorers(segment, n, at) <=> t \in Scorers(segment, n, Scoring)
      <4> HIDE DEF at
      <4>1. \A t : t \in Scorers(segment, n, at) <=>
                     t \in at /\ t \in Scorers(segment, n, Scoring)
        BY <1>5 DEF Scorers
      <4> QED BY <1>5, <4>1
    <3> QED BY <3>1
  <2> HIDE DEF at
  <2> QED BY <2>1, SameScore DEF HitAt
<1>7. CASE IsFlatDisjunction(query)
  <2>1. IsLive(snapshot, segment, n) => Matches(Here, n, query)
    <3> SUFFICES ASSUME IsLive(snapshot, segment, n) PROVE Matches(Here, n, query)
      OBVIOUS
    <3>1. PICK t : t \in Scorers(segment, n, Scoring)
      BY <1>3
    <3>2. t \in Scoring /\ t \in Segment(segment).docs[n + 1].terms
      BY <1>1, <1>2, <3>1, InputsAre, ScorersHave
    <3>3. \E u \in ScoringTerms(snapshot, query) : u \in Segment(segment).docs[n + 1].terms
      BY <3>2 DEF Scoring
    <3> QED BY <1>1, <1>2, <1>7, <3>3, InputsAre, DisjunctionMatches
  <2>2. HitAt(n) \in Reach <=> IsLive(snapshot, segment, n)
    BY <1>4, <2>1
  <2>3. ConsiderWandCandidate =
          IF IsLive(snapshot, segment, n) THEN Push(heap, RankedDoc(segment, n, at)) ELSE heap
    BY DEF ConsiderWandCandidate, n
  <2> HIDE DEF at
  <2>4. ConsiderWandCandidate = IF HitAt(n) \in Reach THEN Push(heap, HitAt(n)) ELSE heap
    BY <1>6, <2>2, <2>3
  <2> QED BY <1>7, <2>4 DEF n
<1>8. CASE ~IsFlatDisjunction(query)
  <2>1. Consider = IF IsLive(snapshot, segment, n) /\ Matches(Here, n, query)
                   THEN Push(heap, HitAt(n)) ELSE heap
    BY DEF Consider, HitAt, n
  <2>2. Consider = IF HitAt(n) \in Reach THEN Push(heap, HitAt(n)) ELSE heap
    BY <1>4, <2>1
  <2> QED BY <1>8, <2>2 DEF n
<1> QED BY <1>7, <1>8

\* The candidate at the pivot is looked at, and its cursors go on.
LEMMA PivotKeeps ==
  ASSUME InputsOk, segment \in Numbers(snapshot.segments), Scoring # {},
         InOrder(cursors), LeftHopeless(cursors),
         Pivots # {}, DocId(cursors[1]) = PivotDoc,
         NEW k, Keeps(heap, Behind("wand", cursors, k), limit),
         NEW new, new = Sorted([i \in DOMAIN cursors |->
                    IF AtPivot(cursors[i]) THEN Next1(cursors[i]) ELSE cursors[i]]),
         NEW hits, hits = IF IsFlatDisjunction(query) THEN ConsiderWandCandidate ELSE Consider
  PROVE  /\ InOrder(new) /\ LeftBelow(hits, new)
         /\ Keeps(hits, Behind("wand", new, k), limit)
<1> DEFINE n == PivotDoc
           ds == [i \in DOMAIN cursors |->
                    IF AtPivot(cursors[i]) THEN Next1(cursors[i]) ELSE cursors[i]]
           old == Behind("wand", cursors, k)
<1>1. /\ 1 \in DOMAIN cursors /\ n \in Numbers(Here.docs) /\ n \in Nat
      /\ \A i \in DOMAIN cursors : /\ cursors[i] \in Cursor /\ cursors[i] \in ToSet(cursors)
                                   /\ ~Exhausted(cursors[i]) /\ DocId(cursors[i]) \in Nat
      /\ \A i, j \in DOMAIN cursors : i <= j => DocId(cursors[i]) <= DocId(cursors[j])
  <2>1. PICK p : p = Min(Pivots)
    OBVIOUS
  <2> QED BY <2>1, PivotIs
<1>2. CursorsOf(cursors) /\ cursors \in Seq(Cursor) /\ DOMAIN cursors = 1..Len(cursors)
  <2>1. CursorsOf(cursors)
    BY DEF InOrder
  <2>2. cursors \in Seq(Cursor)
    BY <2>1, CursorsIn
  <2> QED BY <2>1, <2>2
<1>3. /\ limit \in Nat \ {0} /\ Rankable(Reach) /\ old \subseteq Reach
      /\ heap \subseteq old /\ Rankable(heap)
  <2>1. old \subseteq Reach /\ heap \subseteq old
    BY DEF Behind, Keeps
  <2> HIDE DEF old
  <2> QED BY <2>1, InputsAre, RankableParts
<1> HIDE DEF n
<1>4. \A i \in DOMAIN cursors : AtPivot(cursors[i]) <=> DocId(cursors[i]) = n
  BY DEF AtPivot, n
<1>5. ASSUME NEW i \in DOMAIN cursors
      PROVE  /\ ds[i] \in Cursor /\ ds[i].term = cursors[i].term
             /\ cursors[i].index \in Nat /\ cursors[i].index <= ds[i].index
             /\ DocId(cursors[i]) = n => ds[i].index = cursors[i].index + 1
             /\ DocId(cursors[i]) # n => ds[i] = cursors[i]
  <2>1. cursors[i] \in Cursor /\ cursors[i].index \in Nat
    BY <1>1 DEF Cursor
  <2>2. /\ Next1(cursors[i]) \in Cursor /\ Next1(cursors[i]).term = cursors[i].term
        /\ Next1(cursors[i]).index = cursors[i].index + 1
    BY <2>1 DEF Cursor, Next1
  <2>3. ds[i] = IF DocId(cursors[i]) = n THEN Next1(cursors[i]) ELSE cursors[i]
    BY <1>4
  <2> HIDE DEF ds
  <2> QED BY <2>1, <2>2, <2>3
<1>6. Moved(cursors, ds)
  <2>1. DOMAIN ds = DOMAIN cursors /\ ds \in Seq(Cursor)
    <3>1. ds \in [1..Len(cursors) -> Cursor] /\ Len(cursors) \in Nat
      BY <1>2, <1>5
    <3> HIDE DEF ds
    <3> QED BY <1>2, <3>1
  <2> HIDE DEF ds
  <2>2. \A m, l \in DOMAIN ds : ds[m].term = ds[l].term => m = l
    BY <1>2, <1>5, <2>1 DEF CursorsOf
  <2> QED BY <1>2, <1>5, <2>1, <2>2 DEF Moved, CursorsOf
<1>7. new = Sorted(ds)
  OBVIOUS
<1> HIDE DEF ds, old
<1>8. DOMAIN ds = DOMAIN cursors
  BY <1>6 DEF Moved
<1>9. InOrder(new) /\ CursorsOf(new)
  <2>1. InOrder(new)
    BY <1>1, <1>6, <1>7, MovedWaiting
  <2> QED BY <2>1 DEF InOrder
<1>10. ASSUME NEW l \in Numbers(Here.docs), Passes(cursors, new, l) PROVE l = n
  <2>1. PICK t \in Scorers(segment, l, Scoring) : t \in Waiting(cursors, l) /\ t \notin Waiting(new, l)
    BY <1>10 DEF Passes
  <2>2. PICK m \in DOMAIN cursors, j \in DOMAIN List(t).docids :
          /\ cursors[m].term = t /\ List(t).docids[j] = l
          /\ cursors[m].index <= j /\ j < ds[m].index
    BY <1>6, <1>7, <2>1, MovedWaiting
  <2>3. /\ cursors[m].index \in DOMAIN List(t).docids
        /\ DocId(cursors[m]) = List(t).docids[cursors[m].index]
        /\ List(t).docids \in Seq(Nat)
    BY <1>1, <2>2, InputsAre, CursorAt
  <2>4. j \in Nat
    BY <2>3
  <2>5. DocId(cursors[m]) = n
    BY <1>5, <2>2, <2>4
  <2>6. j = cursors[m].index
    BY <1>5, <2>2, <2>4, <2>5
  <2> QED BY <2>2, <2>3, <2>5, <2>6
<1>11. Waiting(new, n) = {}
  <2> SUFFICES ASSUME NEW t \in Waiting(new, n) PROVE FALSE
    OBVIOUS
  <2>1. Waiting(new, n) \subseteq Waiting(cursors, n)
    BY <1>1, <1>6, <1>7, MovedWaiting
  <2>2. PICK c \in ToSet(cursors) : c.term = t
    BY <1>2, <2>1, InputsAre, WaitingIs
  <2>3. PICK m \in DOMAIN cursors : cursors[m] = c
    BY <1>2, CursorsIn
  <2>4. ~Exhausted(ds[m]) /\ DocId(ds[m]) <= n
    BY <1>1, <1>6, <1>7, <1>8, <2>2, <2>3, MovedWaiting
  <2>5. ds[m] \in Cursor /\ ds[m].term = t
    BY <1>5, <2>2, <2>3
  <2>6. /\ ds[m].index \in DOMAIN List(t).docids /\ DocId(ds[m]) = List(t).docids[ds[m].index]
        /\ DocId(ds[m]) \in Nat
    BY <2>4, <2>5, InputsAre, CursorAt
  <2>7. DocId(cursors[1]) <= DocId(cursors[m]) /\ DocId(cursors[1]) = n
    BY <1>1, <1>2 DEF n
  <2>8. CASE DocId(cursors[m]) # n
    <3>1. ds[m] = cursors[m]
      BY <1>5, <2>8
    <3> QED BY <1>1, <2>4, <2>7, <2>8, <3>1
  <2>9. CASE DocId(cursors[m]) = n
    <3>1. ds[m].index = cursors[m].index + 1 /\ cursors[m].index \in Nat
      BY <1>5, <2>9
    <3>2. ~(ds[m].index <= cursors[m].index)
      BY <3>1
    <3>3. /\ cursors[m].index \in DOMAIN List(t).docids /\ List(t).docids[cursors[m].index] = n
      BY <1>1, <2>2, <2>3, <2>9, InputsAre, CursorAt
    <3>4. ~(~Exhausted(ds[m]) /\ DocId(ds[m]) <= n)
      BY <2>5, <3>2, <3>3, InputsAre, NotPast
    <3> QED BY <2>4, <3>4
  <2> QED BY <2>8, <2>9
<1>12. /\ Scorers(segment, n, Scoring) \subseteq Waiting(cursors, n)
       /\ Scorers(segment, n, Scoring) # {}
  BY <1>3, PivotHas DEF n
<1>13. \A l \in Numbers(Here.docs) : Waiting(new, l) \subseteq Waiting(cursors, l)
  BY <1>6, <1>7, MovedWaiting
<1>14. Behind("wand", new, k) = old \cup Found({n})
  <2>1. \A l \in Numbers(Here.docs) :
          PastHere("wand", new, k, l) <=> PastHere("wand", cursors, k, l) \/ l \in {n}
    <3>1. ASSUME NEW l \in Numbers(Here.docs)
          PROVE  PastHere("wand", new, k, l) <=> PastHere("wand", cursors, k, l) \/ l \in {n}
      <4>1. CASE l = n
        BY <1>11, <1>12, <4>1 DEF PastHere
      <4>2. CASE l # n
        <5>1. ~Passes(cursors, new, l)
          BY <1>10, <4>2
        <5> QED BY <1>13, <4>2, <5>1 DEF PastHere, Passes
      <4> QED BY <4>1, <4>2
    <3> QED BY <3>1
  <2>2. "wand" # "done"
    OBVIOUS
  <2>3. \A l \in Numbers(Here.docs) : HitAt(l) \in Reach =>
          (PastHere("wand", new, k, l) <=> PastHere("wand", cursors, k, l) \/ l \in {n})
    BY <2>1
  <2> QED BY ONLY SMTT(30), <2>2, <2>3, InputsOk, segment \in Numbers(snapshot.segments), Scoring # {},
                  BehindGrows DEF old
<1>15. HitAt(n) \notin old
  <2>1. ~PastHere("wand", cursors, k, n)
    BY <1>12 DEF PastHere
  <2> QED BY <1>1, <2>1, FoundIs DEF old
<1>16. hits = IF HitAt(n) \in Reach THEN Push(heap, HitAt(n)) ELSE heap
  BY <1>3, PivotHit DEF n
<1>17. Keeps(hits, Behind("wand", new, k), limit)
  <2>1. CASE HitAt(n) \in Reach
    <3>1. Found({n}) = {HitAt(n)}
      BY <1>1, <2>1 DEF Found
    <3>2. Rankable(old \cup {HitAt(n)})
      <4>1. old \cup {HitAt(n)} \in SUBSET Reach
        BY <1>3, <2>1
      <4> QED BY <1>3, <4>1, RankableParts
    <3>3. Keeps(Push(heap, HitAt(n)), old \cup {HitAt(n)}, limit)
      BY <1>3, <1>15, <3>2, PushKeeps DEF old
    <3> QED BY <1>14, <1>16, <2>1, <3>1, <3>3
  <2>2. CASE HitAt(n) \notin Reach
    <3>1. Found({n}) = {}
      BY <2>2 DEF Found
    <3> QED BY <1>14, <1>16, <2>2, <3>1 DEF old
  <2> QED BY <2>1, <2>2
<1>18. LeftBelow(hits, new)
  <2> SUFFICES ASSUME NEW l \in Numbers(Here.docs), Waiting(new, l) # {},
                      ~(Scorers(segment, l, Scoring) \subseteq Waiting(new, l))
               PROVE  Above(hits, MostOf(Waiting(new, l)))
    BY DEF LeftBelow
  <2>1. l # n
    BY <1>11
  <2>2. ~Passes(cursors, new, l)
    BY <1>10, <2>1
  <2>3. Waiting(cursors, l) # {} /\ ~(Scorers(segment, l, Scoring) \subseteq Waiting(cursors, l))
    BY <1>13, <2>2 DEF Passes
  <2>4. Hopeless(MostOf(Waiting(cursors, l)))
    BY <2>3 DEF LeftHopeless
  <2>5. /\ MostOf(Waiting(cursors, l)) \in Nat /\ MostOf(Waiting(new, l)) \in Nat
        /\ MostOf(Waiting(new, l)) <= MostOf(Waiting(cursors, l))
    <3>1. Waiting(cursors, l) \subseteq DOMAIN Here.terms /\ IsFiniteSet(Waiting(cursors, l))
      BY <1>2, InputsAre, WaitingIs
    <3>2. Waiting(new, l) \subseteq DOMAIN Here.terms /\ IsFiniteSet(Waiting(new, l))
      BY <1>9, InputsAre, WaitingIs
    <3> QED BY <1>13, <3>1, <3>2, InputsAre, MostIs
  <2>6. Hopeless(MostOf(Waiting(new, l)))
    BY <1>3, <2>4, <2>5, HopelessBelow
  <2>7. Above(heap, MostOf(Waiting(new, l)))
    BY <2>6, HopelessMeans
  <2>8. CASE HitAt(n) \in Reach
    <3>1. HitAt(n) \notin heap /\ Rankable(heap \cup {HitAt(n)})
      <4>1. heap \cup {HitAt(n)} \in SUBSET Reach
        BY <1>3, <2>8
      <4> QED BY <1>3, <1>15, <4>1, RankableParts
    <3>2. Above(Push(heap, HitAt(n)), MostOf(Waiting(new, l)))
      BY <1>3, <2>5, <2>7, <3>1, PushRaises
    <3> QED BY <1>16, <2>8, <3>2
  <2>9. CASE HitAt(n) \notin Reach
    BY <1>16, <2>7, <2>9
  <2> QED BY <2>8, <2>9
<1> QED BY <1>9, <1>17, <1>18

-----------------------------------------------------------------------------
(* A segment is left.                                                      *)

\* The hits of the segments before one.
Earlier(i) == {h \in Reach : h.segment < i}

LEMMA BehindAll ==
  ASSUME InputsOk, segment \in Numbers(snapshot.segments), Scoring # {},
         NEW way, NEW cs, NEW k, way # "done", NEW N,
         \A n \in Numbers(Here.docs) : HitAt(n) \in Reach => PastHere(way, cs, k, n) \/ n \in N
  PROVE  Behind(way, cs, k) \cup Found(N) = Earlier(segment + 1)
<1>1. \A h \in Reach : h.segment \in Nat
  BY InputsAre DEF Reach, Hit
<1>2. segment \in Nat
  BY DEF Numbers
<1>3. /\ \A n : HitAt(n).segment = segment /\ HitAt(n).docid = n
      /\ \A h \in Reach : h.segment = segment =>
              h.docid \in Numbers(Here.docs) /\ h = HitAt(h.docid)
  BY ReachHere
<1>4. \A h : h \in Found(N) <=> h \in Reach /\ h.segment = segment /\ h.docid \in N
  BY <1>3 DEF Found
<1>5. ASSUME NEW h
      PROVE  h \in Behind(way, cs, k) \cup Found(N) <=> h \in Earlier(segment + 1)
  <2>1. h \in Behind(way, cs, k) <=>
           /\ h \in Reach
           /\ h.segment < segment \/ (h.segment = segment /\ PastHere(way, cs, k, h.docid))
    BY BehindIs
  <2>2. h \in Earlier(segment + 1) <=> h \in Reach /\ (h.segment < segment \/ h.segment = segment)
    BY <1>1, <1>2 DEF Earlier
  <2>3. ASSUME h \in Reach, h.segment = segment
        PROVE  PastHere(way, cs, k, h.docid) \/ h.docid \in N
    BY <1>3, <2>3
  <2> QED BY <1>4, <2>1, <2>2, <2>3
<1> QED BY <1>5

LEMMA BehindWhole ==
  ASSUME InputsOk, segment \in Numbers(snapshot.segments), Scoring # {},
         NEW way, NEW cs, NEW k, way # "done",
         \A n \in Numbers(Here.docs) : HitAt(n) \in Reach => PastHere(way, cs, k, n)
  PROVE  Behind(way, cs, k) = Earlier(segment + 1)
<1>1. \A n \in Numbers(Here.docs) : HitAt(n) \in Reach => PastHere(way, cs, k, n) \/ n \in {}
  OBVIOUS
<1>2. Behind(way, cs, k) \cup Found({}) = Earlier(segment + 1)
  BY ONLY <1>1, InputsOk, segment \in Numbers(snapshot.segments), Scoring # {}, way # "done",
          BehindAll
<1>3. Found({}) = {}
  BY DEF Found
<1> QED BY <1>2, <1>3

\* Not enough cursors are left.
LEMMA WandOver ==
  ASSUME InputsOk, segment \in Numbers(snapshot.segments), Scoring # {},
         InOrder(cursors), Pivots = {},
         NEW k, Keeps(heap, Behind("wand", cursors, k), limit)
  PROVE  Keeps(heap, Earlier(segment + 1), limit)
<1> DEFINE N == {n \in Numbers(Here.docs) : Scorers(segment, n, Scoring) \subseteq Waiting(cursors, n)}
           old == Behind("wand", cursors, k)
           len == Len(cursors)
<1>1. CursorsOf(cursors) /\ cursors \in Seq(Cursor) /\ DOMAIN cursors = 1..len /\ len \in Nat
  <2>1. CursorsOf(cursors)
    BY DEF InOrder
  <2>2. cursors \in Seq(Cursor)
    BY <2>1, CursorsIn
  <2> QED BY <2>1, <2>2
<1>2. /\ limit \in Nat \ {0} /\ Rankable(Reach) /\ old \subseteq Reach
      /\ heap \subseteq old /\ Rankable(heap)
  <2>1. old \subseteq Reach /\ heap \subseteq old
    BY DEF Behind, Keeps
  <2> HIDE DEF old
  <2> QED BY <2>1, InputsAre, RankableParts
<1>3. old \cup Found(N) = Earlier(segment + 1)
  <2>1. \A n \in Numbers(Here.docs) : HitAt(n) \in Reach => PastHere("wand", cursors, k, n) \/ n \in N
    BY DEF PastHere
  <2>2. "wand" # "done"
    OBVIOUS
  <2> HIDE DEF N
  <2> QED BY ONLY <2>1, <2>2, InputsOk, segment \in Numbers(snapshot.segments), Scoring # {},
                  BehindAll DEF old
<1>4. \A x \in Found(N) : \E n \in N \cap Numbers(Here.docs) : HitAt(n) \in Reach /\ x = HitAt(n)
  BY DEF Found
<1>5. ASSUME NEW n \in N, NEW t \in Waiting(cursors, n)
      PROVE  \E l \in 1..len : cursors[l].term = t
  <2>1. PICK c \in ToSet(cursors) : c.term = t
    BY <1>1, <1>5, InputsAre, WaitingIs
  <2>2. PICK m \in DOMAIN cursors : cursors[m] = c
    BY <1>1, <2>1, CursorsIn
  <2> QED BY <1>1, <2>1, <2>2
<1>6. ASSUME NEW x \in Found(N)
      PROVE  Cardinality(heap) = limit /\ \A kept \in heap : Better(kept, x)
  <2>1. PICK n \in N \cap Numbers(Here.docs) : HitAt(n) \in Reach /\ x = HitAt(n)
    BY <1>4
  <2>2. Scorers(segment, n, Scoring) # {} /\ Scorers(segment, n, Scoring) \subseteq Waiting(cursors, n)
    BY <2>1, ReachHere
  <2>3. len >= 1
    <3>1. PICK t : t \in Waiting(cursors, n)
      BY <2>2
    <3>2. PICK l \in 1..len : cursors[l].term = t
      BY <1>5, <2>1, <3>1
    <3> HIDE DEF len
    <3> QED BY <1>1, <3>2
  <2> DEFINE all == Bounding(cursors, 1, len)
  <2>4. Hopeless(all)
    <3>1. len \in DOMAIN cursors /\ len \notin Pivots
      BY <1>1, <2>3
    <3> QED BY <3>1 DEF Pivots, Bounds, Bounding
  <2>5. /\ IsFiniteSet(Waiting(cursors, n)) /\ Waiting(cursors, n) \subseteq DOMAIN Here.terms
    BY <1>1, InputsAre, WaitingIs
  <2>6. MostOf(Waiting(cursors, n)) <= all /\ all \in Nat
    <3>1. 1 \in Nat /\ 1..len \subseteq DOMAIN cursors
      BY <1>1
    <3>2. \A t \in Waiting(cursors, n) : \E l \in 1..len : cursors[l].term = t
      BY <1>5, <2>1
    <3> HIDE DEF len
    <3> QED BY <1>1, <2>5, <3>1, <3>2, InputsAre, BoundsAre
  <2>7. Score(segment, n, Scoring) <= MostOf(Waiting(cursors, n)) /\ MostOf(Waiting(cursors, n)) \in Nat
    BY <2>2, <2>5, InputsAre, ScoreMost, MostIs
  <2>8. Score(segment, n, Scoring) \in Nat
    BY InputsAre, ScoreIs
  <2>9. x.score = Score(segment, n, Scoring)
    BY <2>1, ReachHere
  <2> HIDE DEF all
  <2>10. x.score \in Nat /\ x.score <= all
    BY <2>6, <2>7, <2>8, <2>9
  <2> QED BY <1>2, <2>4, <2>6, <2>10, HopelessIs
<1>7. CASE Found(N) = {}
  BY <1>3, <1>7
<1>8. CASE Found(N) # {}
  <2>1. Cardinality(heap) = limit
    BY <1>6, <1>8
  <2> HIDE DEF old, N
  <2>2. Keeps(heap, old \cup Found(N), limit)
    BY <1>6, <2>1, DropKeeps DEF old
  <2> QED BY <1>3, <2>2
<1> QED BY <1>7, <1>8

-----------------------------------------------------------------------------
(* Steps.                                                                  *)

LEMMA SteadyInputs ==
  ASSUME UNCHANGED inputs
  PROVE  Reach' = Reach /\ (InputsOk' <=> InputsOk) /\ Scoring' = Scoring
<1>1. snapshot' = snapshot /\ query' = query /\ limit' = limit
  BY DEF inputs
<1>2. Scoring' = Scoring
  BY <1>1 DEF Scoring
<1>3. InputsOk' <=> InputsOk
  BY <1>1 DEF InputsOk
<1>4. Candidates' = Candidates
  BY <1>1, <1>2 DEF Candidates, Considered, RankedDoc, Score
<1>5. Reach' = Reach
  BY <1>1, <1>2, <1>4 DEF Reach, Scorers, Segment
<1> QED BY <1>2, <1>3, <1>5

LEMMA SteadyBehind ==
  ASSUME UNCHANGED inputs, segment' = segment, NEW cs, cursors' = cs
  PROVE  /\ Behind(pc, cursors, block)' = Behind(pc', cs, block')
         /\ InOrder(cursors)' <=> InOrder(cs)
         /\ SingleOk(cursors)' <=> SingleOk(cs)
         /\ IntersectOk(cursors)' <=> IntersectOk(cs)
         /\ LeftHopeless(cursors)' <=> LeftBelow(heap', cs)
<1>1. snapshot' = snapshot /\ query' = query /\ limit' = limit
  BY DEF inputs
<1>2. Scoring' = Scoring /\ Reach' = Reach
  BY SteadyInputs
<1>3. Here' = Here
  BY <1>1 DEF Here
<1>4. Behind(pc, cursors, block)' = Behind(pc', cs, block')
  BY <1>1, <1>2, <1>3 DEF Behind, PastHere, Waiting, Scorers, Segment, Exhausted, DocId, List
<1>5. InOrder(cursors)' <=> InOrder(cs)
  BY <1>1, <1>2, <1>3 DEF InOrder, CursorsOf, Cursor, Exhausted, DocId, List
<1>6. SingleOk(cursors)' <=> SingleOk(cs)
  BY <1>1, <1>2, <1>3 DEF SingleOk
<1>7. IntersectOk(cursors)' <=> IntersectOk(cs)
  BY SMTT(30), <1>1, <1>2, <1>3 DEF IntersectOk, CursorsOf, Cursor, Intersects
<1>8. LeftHopeless(cursors)' <=> LeftBelow(heap', cs)
  BY SMTT(30), <1>1, <1>2, <1>3 DEF LeftHopeless, LeftBelow, Waiting, Scorers, Segment, Exhausted, DocId,
       List, Hopeless, IsFull, Threshold, Above, MostOf, ListBound
<1> QED BY <1>4, <1>5, <1>6, <1>7, <1>8

LEMMA InvHas ==
  ASSUME SearchInv
  PROVE  /\ InputsOk /\ snapshot.segments \in Seq(Segments)
         /\ segment \in Nat /\ segment <= Len(snapshot.segments)
         /\ segment < Len(snapshot.segments) => segment \in Numbers(snapshot.segments)
         /\ segment + 1 \in 0..Len(snapshot.segments) \/ segment = Len(snapshot.segments)
         /\ block \in Nat \ {0}
         /\ pc \in {"single", "intersect", "wand"} =>
              Scoring # {} /\ segment \in Numbers(snapshot.segments)
         /\ Keeps(heap, Behind(pc, cursors, block), limit)
         /\ limit \in Nat \ {0} /\ Rankable(heap)
<1>1. InputsOk /\ WayOk /\ Keeps(heap, Behind(pc, cursors, block), limit)
  BY DEF SearchInv
<1>2. snapshot.segments \in Seq(Segments)
  BY <1>1 DEF InputsOk, Good
<1>3. Len(snapshot.segments) \in Nat
  BY <1>2
<1>4. segment \in 0..Len(snapshot.segments) /\ block \in Nat \ {0}
      /\ (pc \in {"single", "intersect", "wand"} =>
            Scoring # {} /\ segment < Len(snapshot.segments))
  BY <1>1 DEF WayOk
<1>5. segment \in Nat /\ segment <= Len(snapshot.segments)
      /\ (segment < Len(snapshot.segments) => segment \in Numbers(snapshot.segments))
      /\ (segment + 1 \in 0..Len(snapshot.segments) \/ segment = Len(snapshot.segments))
  BY <1>3, <1>4 DEF Numbers
<1>6. limit \in Nat \ {0} /\ Rankable(Reach)
  BY <1>1, InputsAre
<1>7. heap \subseteq Reach
  BY <1>1 DEF Keeps, Behind
<1>8. Rankable(heap)
  BY <1>6, <1>7, RankableParts
<1> QED BY <1>1, <1>2, <1>4, <1>5, <1>6, <1>8

\* Between two segments the hits of earlier ones are behind.
LEMMA BehindNone ==
  ASSUME NEW cs, NEW k
  PROVE  Behind("segment", cs, k) = Earlier(segment)
BY DEF Behind, PastHere, Earlier

\* The next segment.
LEMMA LeaveKeeps ==
  ASSUME InputsOk, segment \in Numbers(snapshot.segments), Scoring # {},
         Keeps(heap, Earlier(segment + 1), limit),
         Leave, UNCHANGED <<inputs, heap>>
  PROVE  SearchInv'
<1>1. /\ segment' = segment + 1 /\ pc' = "segment" /\ cursors' = <<>> /\ block' = 1
      /\ snapshot' = snapshot /\ limit' = limit /\ heap' = heap /\ UNCHANGED inputs
  BY DEF Leave, inputs
<1>2. InputsOk' /\ Scoring' = Scoring /\ Reach' = Reach
  BY <1>1, SteadyInputs
<1>3. snapshot.segments \in Seq(Segments)
  BY DEF InputsOk, Good
<1>4. segment' \in 0..Len(snapshot'.segments)
  <2>1. Len(snapshot.segments) \in Nat
    BY <1>3
  <2> QED BY <1>1, <2>1 DEF Numbers
<1>5. WayOk'
  BY <1>1, <1>2, <1>4 DEF WayOk
<1>6. Behind(pc, cursors, block)' = Earlier(segment + 1)
  BY <1>1, <1>2 DEF Behind, PastHere, Earlier
<1>7. Keeps(heap, Behind(pc, cursors, block), limit)'
  BY <1>1, <1>6 DEF Keeps
<1> QED BY <1>2, <1>5, <1>7 DEF SearchInv

\* A step within a segment, by what it makes of its cursors and its heap.
LEMMA StepKeeps ==
  ASSUME InputsOk, segment \in Numbers(snapshot.segments), Scoring # {},
         UNCHANGED inputs, segment' = segment,
         NEW way \in {"single", "intersect", "wand"}, pc' = way,
         NEW cs, cursors' = cs, NEW hits, heap' = hits,
         NEW k \in Nat \ {0}, block' = k, way # "single" => k = 1,
         way = "single" => SingleOk(cs),
         way = "intersect" => IntersectOk(cs),
         way = "wand" => InOrder(cs) /\ LeftBelow(hits, cs),
         Keeps(hits, Behind(way, cs, k), limit)
  PROVE  SearchInv'
<1>1. snapshot' = snapshot /\ limit' = limit
  BY DEF inputs
<1>2. InputsOk' /\ Scoring' = Scoring
  BY SteadyInputs
<1>3. /\ Behind(pc, cursors, block)' = Behind(pc', cs, block')
      /\ InOrder(cursors)' <=> InOrder(cs)
      /\ SingleOk(cursors)' <=> SingleOk(cs)
      /\ IntersectOk(cursors)' <=> IntersectOk(cs)
      /\ LeftHopeless(cursors)' <=> LeftBelow(heap', cs)
  BY SteadyBehind
<1>4. segment' \in 0..Len(snapshot'.segments) /\ segment' < Len(snapshot'.segments)
  <2>1. snapshot.segments \in Seq(Segments)
    BY DEF InputsOk, Good
  <2>2. Len(snapshot.segments) \in Nat
    BY <2>1
  <2> QED BY <1>1, <2>2 DEF Numbers
<1>5. WayOk'
  BY <1>2, <1>3, <1>4 DEF WayOk
<1>6. Keeps(heap, Behind(pc, cursors, block), limit)'
  BY <1>1, <1>3 DEF Keeps
<1> QED BY <1>2, <1>5, <1>6 DEF SearchInv

LEMMA LeftIs ==
  ASSUME NEW cs
  PROVE  LeftHopeless(cs) <=> LeftBelow(heap, cs)
BY HopelessMeans DEF LeftHopeless, LeftBelow

LEMMA InitKeeps ==
  ASSUME Init
  PROVE  SearchInv
<1>1. PICK history \in Histories :
        snapshot = Replay(Default, [n \in DOMAIN history |->
                     [generation |-> n, operations |-> history[n]]])
  BY DEF Init
<1>2. /\ query \in Searched /\ limit \in Limits /\ heap = {}
      /\ pc = (IF Scoring = {} THEN "all" ELSE "segment")
      /\ segment = 0 /\ cursors = <<>> /\ block = 1
  BY DEF Init
<1>3. Good(snapshot) /\ Counted(snapshot)
  BY <1>1, HistoryGood
<1>4. InputsOk
  BY <1>2, <1>3 DEF InputsOk
<1>5. snapshot.segments \in Seq(Segments)
  BY <1>3 DEF Good
<1>6. segment \in 0..Len(snapshot.segments)
  BY <1>2, <1>5
<1>7. WayOk
  BY <1>2, <1>6 DEF WayOk
<1>8. Behind(pc, cursors, block) = {}
  <2>1. InputsOk => \A h \in Reach : h.segment \in Nat
    BY InputsAre DEF Reach, Hit
  <2> QED BY <1>2, <1>4, <2>1 DEF Behind, PastHere
<1>9. limit \in Nat \ {0}
  BY <1>4, InputsAre
<1>10. Keeps(heap, Behind(pc, cursors, block), limit)
  BY <1>2, <1>8, <1>9, FS_EmptySet DEF Keeps
<1> QED BY <1>4, <1>7, <1>10 DEF SearchInv

\* Every document is looked at.
LEMMA SearchAllKeeps ==
  ASSUME SearchInv, SearchAll
  PROVE  SearchInv'
<1>1. /\ pc = "all" /\ heap' = PushAll(heap, Candidates) /\ pc' = "done"
      /\ UNCHANGED inputs /\ segment' = segment /\ cursors' = cursors /\ block' = block
      /\ snapshot' = snapshot /\ limit' = limit
  BY DEF SearchAll, inputs
<1>2. /\ InputsOk /\ Scoring = {} /\ segment = 0 /\ cursors = <<>> /\ block = 1
      /\ Keeps(heap, Behind(pc, cursors, block), limit)
  BY <1>1 DEF SearchInv, WayOk
<1>3. InputsOk' /\ Scoring' = Scoring /\ Reach' = Reach
  BY <1>1, <1>2, SteadyInputs
<1>4. Reach = Candidates
  BY <1>2 DEF Reach
<1>5. Behind(pc, cursors, block) = {}
  <2>1. \A h \in Reach : h.segment \in Nat
    BY <1>2, InputsAre DEF Reach, Hit
  <2> QED BY <1>1, <1>2, <2>1 DEF Behind, PastHere
<1>6. limit \in Nat \ {0} /\ Rankable(Candidates)
  BY <1>2, InputsAre
<1>7. Keeps(heap, {}, limit)
  BY <1>2, <1>5
<1>8. {} \cup Candidates = Candidates
  OBVIOUS
<1>9. Keeps(PushAll(heap, Candidates), {} \cup Candidates, limit)
  BY ONLY <1>6, <1>7, <1>8, PushAllKeeps
<1>10. Behind(pc, cursors, block)' = Candidates
  BY <1>1, <1>3, <1>4 DEF Behind
<1>11. Keeps(heap, Behind(pc, cursors, block), limit)'
  BY <1>1, <1>8, <1>9, <1>10 DEF Keeps
<1>12. WayOk'
  BY <1>1, <1>2 DEF SearchInv, WayOk
<1> QED BY <1>3, <1>11, <1>12 DEF SearchInv

\* After the last segment nothing is left.
LEMMA FinishKeeps ==
  ASSUME SearchInv, Finish
  PROVE  SearchInv'
<1>1. /\ pc = "segment" /\ segment = Len(snapshot.segments) /\ pc' = "done" /\ heap' = heap
      /\ UNCHANGED inputs /\ segment' = segment /\ cursors' = cursors /\ block' = block
      /\ snapshot' = snapshot /\ limit' = limit
  BY DEF Finish, inputs
<1>2. InputsOk /\ cursors = <<>> /\ block = 1 /\ Keeps(heap, Behind(pc, cursors, block), limit)
  BY <1>1 DEF SearchInv, WayOk
<1>3. InputsOk' /\ Scoring' = Scoring /\ Reach' = Reach
  BY <1>1, <1>2, SteadyInputs
<1>4. \A h \in Reach : h.segment < segment
  <2>1. snapshot.segments \in Seq(Segments) /\ segment \in Nat
    BY InvHas
  <2>2. \A h \in Reach : h.segment \in Numbers(snapshot.segments)
    <3>1. Good(snapshot)
      BY <1>2 DEF InputsOk
    <3>2. \A h \in Candidates : \E i \in Numbers(snapshot.segments) : \E n :
            h = RankedDoc(i, n, Scoring)
      BY <3>1, CandidatesAre
    <3> QED BY <3>2 DEF Reach, RankedDoc
  <2> QED BY <1>1, <2>1, <2>2 DEF Numbers
<1>5. Behind(pc, cursors, block)' = Behind(pc, cursors, block)
  <2>1. Behind(pc, cursors, block)' = Reach
    BY <1>1, <1>3 DEF Behind
  <2>2. Behind(pc, cursors, block) = Reach
    BY <1>4 DEF Behind
  <2> QED BY <2>1, <2>2
<1>6. Keeps(heap, Behind(pc, cursors, block), limit)'
  BY <1>1, <1>2, <1>5 DEF Keeps
<1>7. WayOk'
  BY <1>1, <1>2 DEF SearchInv, WayOk
<1> QED BY <1>3, <1>6, <1>7 DEF SearchInv

LEMMA SingleBlockKeeps ==
  ASSUME SearchInv, SingleBlock
  PROVE  SearchInv'
<1> DEFINE t == cursors[1].term
           hits == IF Hopeless(BlockBound(t, block)) THEN heap
                   ELSE PushAll(heap, {RankedDoc(segment, n, Scoring) :
                     n \in {m \in ToSet(BlockDocs(t, block)) : IsLive(snapshot, segment, m)}})
<1>1. /\ pc = "single" /\ block <= Len(List(t).blocks)
      /\ heap' = hits
      /\ block' = block + 1 /\ UNCHANGED inputs /\ pc' = pc /\ segment' = segment
      /\ cursors' = cursors
  BY DEF SingleBlock, BlockDocs
<1>2. /\ InputsOk /\ segment \in Numbers(snapshot.segments) /\ Scoring # {}
      /\ block \in Nat \ {0} /\ Keeps(heap, Behind("single", cursors, block), limit)
  BY <1>1, InvHas
<1>3. SingleOk(cursors)
  BY <1>1 DEF SearchInv, WayOk
<1>4. block \in 1..Len(List(t).blocks)
  <2>1. Good(snapshot) /\ t \in DOMAIN Here.terms
    BY <1>2, <1>3, SingleIs DEF InputsOk
  <2>2. BlockFacts(List(t), Segment(segment).docs) /\ ListFacts(List(t), Segment(segment).docs, t)
    BY <1>2, <2>1, SegmentFacts DEF List, Here, Segment
  <2>3. Len(List(t).blocks) \in Nat
    BY <2>2 DEF BlockFacts, ListFacts
  <2> QED BY <1>1, <1>2, <2>3
<1>5. Keeps(hits, Behind("single", cursors, block + 1), limit)
  BY ONLY <1>2, <1>3, <1>4, SingleKeeps
<1>6. block + 1 \in Nat \ {0}
  BY <1>2
<1> HIDE DEF hits
<1>7. pc' = "single"
  BY <1>1
<1> QED BY ONLY <1>1, <1>2, <1>3, <1>5, <1>6, <1>7, StepKeeps

LEMMA SingleEndsKeeps ==
  ASSUME SearchInv, SingleEnds
  PROVE  SearchInv'
<1> DEFINE t == cursors[1].term
<1>1. /\ pc = "single" /\ block > Len(List(t).blocks)
      /\ Leave /\ UNCHANGED <<inputs, heap>>
  BY DEF SingleEnds
<1>2. /\ InputsOk /\ segment \in Numbers(snapshot.segments) /\ Scoring # {}
      /\ block \in Nat /\ Keeps(heap, Behind("single", cursors, block), limit)
  BY <1>1, InvHas
<1>3. SingleOk(cursors)
  BY <1>1 DEF SearchInv, WayOk
<1>4. \A n \in Numbers(Here.docs) :
        HitAt(n) \in Reach => PastHere("single", cursors, block, n)
  BY ONLY <1>1, <1>2, <1>3, SinglePast
<1>5. Behind("single", cursors, block) = Earlier(segment + 1)
  BY ONLY <1>2, <1>4, BehindWhole
<1> QED BY ONLY <1>1, <1>2, <1>5, LeaveKeeps

\* What holds of the cursors of an intersection that goes on.
LEMMA NotEnded ==
  ASSUME SearchInv, pc = "intersect", ~Ended
  PROVE  /\ IntersectOk(cursors) /\ block = 1
         /\ \A m \in DOMAIN cursors : ~Exhausted(cursors[m])
         /\ \A m \in DOMAIN cursors : DocId(cursors[m]) \in Numbers(Here.docs)
                                      /\ DocId(cursors[m]) \in Nat
         /\ DOMAIN cursors # {} /\ IsFiniteSet(DOMAIN cursors) /\ 1 \in DOMAIN cursors
<1>1. InputsOk /\ segment \in Numbers(snapshot.segments) /\ Scoring # {}
  BY InvHas
<1>2. IntersectOk(cursors) /\ block = 1
  BY DEF SearchInv, WayOk
<1>3. CursorsOf(cursors)
  BY <1>2 DEF IntersectOk
<1>4. \A m \in DOMAIN cursors : ~Exhausted(cursors[m])
  BY DEF Ended
<1>5. \A m \in DOMAIN cursors : DocId(cursors[m]) \in Numbers(Here.docs)
                                /\ DocId(cursors[m]) \in Nat
  BY <1>1, <1>3, <1>4, CursorAt, CursorsIn DEF InputsOk
<1>6. DOMAIN cursors # {}
  BY <1>1, <1>2 DEF IntersectOk
<1>7. IsFiniteSet(DOMAIN cursors) /\ cursors \in Seq(Cursor)
  BY <1>3, CursorsIn
<1>8. 1 \in DOMAIN cursors
  BY <1>6, <1>7
<1> QED BY <1>2, <1>4, <1>5, <1>6, <1>7, <1>8

\* AlignKeeps, of the cursors themselves.
LEMMA AlignedOne ==
  ASSUME InputsOk, segment \in Numbers(snapshot.segments), Scoring # {},
         NEW cs, IntersectOk(cs), NEW k, \A m \in DOMAIN cs : ~Exhausted(cs[m]),
         NEW i \in DOMAIN cs, NEW o \in DOMAIN cs
  PROVE  /\ IntersectOk([cs EXCEPT ![i] = AdvanceTo(cs[i], DocId(cs[o]))])
         /\ Behind("intersect", [cs EXCEPT ![i] = AdvanceTo(cs[i], DocId(cs[o]))], k)
              = Behind("intersect", cs, k)
BY AlignKeeps

LEMMA AlignCursorKeeps ==
  ASSUME SearchInv, AlignCursor
  PROVE  SearchInv'
<1>1. /\ pc = "intersect" /\ ~Ended /\ UNCHANGED inputs /\ heap' = heap
      /\ pc' = pc /\ segment' = segment /\ block' = block
  BY DEF AlignCursor
<1>2. PICK i \in DOMAIN cursors : cursors' = [cursors EXCEPT ![i] = AdvanceTo(cursors[i], Target)]
  BY DEF AlignCursor
<1>3. /\ InputsOk /\ segment \in Numbers(snapshot.segments) /\ Scoring # {}
      /\ Keeps(heap, Behind("intersect", cursors, block), limit)
  BY <1>1, InvHas
<1>4. /\ IntersectOk(cursors) /\ block = 1
      /\ \A m \in DOMAIN cursors : ~Exhausted(cursors[m])
      /\ \A m \in DOMAIN cursors : DocId(cursors[m]) \in Nat
      /\ DOMAIN cursors # {} /\ IsFiniteSet(DOMAIN cursors)
  BY <1>1, NotEnded
<1>5. \E o \in DOMAIN cursors : Target = DocId(cursors[o])
  <2> DEFINE D == {DocId(cursors[m]) : m \in DOMAIN cursors}
  <2>1. IsFiniteSet(D)
    <3>1. PICK f : f = [m \in DOMAIN cursors |-> DocId(cursors[m])]
      OBVIOUS
    <3>2. f \in Surjection(DOMAIN cursors, D)
      BY <3>1 DEF Surjection
    <3> QED BY <1>4, <3>2, FS_Surjection
  <2>2. D # {} /\ D \subseteq Nat
    BY <1>4
  <2>3. Max(D) \in D
    BY <2>1, <2>2, FiniteMax
  <2> QED BY <2>3 DEF Target
<1>6. PICK o \in DOMAIN cursors : Target = DocId(cursors[o])
  BY <1>5
<1>7. PICK ds : ds = [cursors EXCEPT ![i] = AdvanceTo(cursors[i], DocId(cursors[o]))]
  OBVIOUS
<1>8. /\ IntersectOk(ds)
      /\ Behind("intersect", ds, block) = Behind("intersect", cursors, block)
  <2>1. /\ IntersectOk([cursors EXCEPT ![i] = AdvanceTo(cursors[i], DocId(cursors[o]))])
        /\ Behind("intersect", [cursors EXCEPT ![i] = AdvanceTo(cursors[i], DocId(cursors[o]))], block)
              = Behind("intersect", cursors, block)
    BY ONLY <1>3, <1>4, i \in DOMAIN cursors, o \in DOMAIN cursors, AlignedOne
  <2> QED BY <1>7, <2>1
<1>9. cursors' = ds /\ pc' = "intersect" /\ block' = 1
  BY <1>1, <1>2, <1>4, <1>6, <1>7
<1>10. Keeps(heap, Behind("intersect", ds, 1), limit)
  BY <1>3, <1>4, <1>8
<1> QED BY ONLY <1>1, <1>3, <1>8, <1>9, <1>10, 1 \in Nat \ {0}, StepKeeps

LEMMA IntersectCandidateKeeps ==
  ASSUME SearchInv, IntersectCandidate
  PROVE  SearchInv'
<1>1. PICK n : n = DocId(cursors[1])
  OBVIOUS
<1>2. PICK ds : ds = [m \in DOMAIN cursors |-> Next1(cursors[m])]
  OBVIOUS
<1>3. PICK hits : hits = IF /\ IsLive(snapshot, segment, n)
                            /\ query.op = "phrase" => CursorPhraseMatches
                         THEN Push(heap, HitAt(n)) ELSE heap
  OBVIOUS
<1>4. /\ pc = "intersect" /\ ~Ended /\ Aligned /\ UNCHANGED inputs
      /\ pc' = pc /\ segment' = segment /\ block' = block
      /\ cursors' = ds /\ heap' = hits
  BY <1>1, <1>2, <1>3 DEF IntersectCandidate, HitAt
<1>5. /\ InputsOk /\ segment \in Numbers(snapshot.segments) /\ Scoring # {}
      /\ Keeps(heap, Behind("intersect", cursors, block), limit)
  BY <1>4, InvHas
<1>6. /\ IntersectOk(cursors) /\ block = 1
      /\ \A m \in DOMAIN cursors : ~Exhausted(cursors[m])
      /\ \A m \in DOMAIN cursors : DocId(cursors[m]) \in Numbers(Here.docs)
      /\ 1 \in DOMAIN cursors
  BY <1>4, NotEnded
<1>7. n \in Numbers(Here.docs) /\ \A m \in DOMAIN cursors : DocId(cursors[m]) = n
  BY <1>1, <1>4, <1>6 DEF Aligned
<1>8. /\ IntersectOk(ds)
      /\ Keeps(IF /\ IsLive(snapshot, segment, n)
                  /\ query.op = "phrase" => CursorPhraseMatches
               THEN Push(heap, HitAt(n)) ELSE heap,
               Behind("intersect", ds, block), limit)
  BY ONLY <1>2, <1>5, <1>6, <1>7, CandidateKeeps
<1>9. Keeps(hits, Behind("intersect", ds, 1), limit) /\ pc' = "intersect" /\ block' = 1
  BY <1>3, <1>4, <1>6, <1>8
<1> QED BY ONLY <1>4, <1>5, <1>8, <1>9, 1 \in Nat \ {0}, StepKeeps

LEMMA IntersectEndsKeeps ==
  ASSUME SearchInv, IntersectEnds
  PROVE  SearchInv'
<1>1. /\ pc = "intersect" /\ Ended /\ Leave /\ UNCHANGED <<inputs, heap>>
  BY DEF IntersectEnds
<1>2. /\ InputsOk /\ segment \in Numbers(snapshot.segments) /\ Scoring # {}
      /\ Keeps(heap, Behind("intersect", cursors, block), limit)
  BY <1>1, InvHas
<1>3. CursorsOf(cursors)
  BY <1>1 DEF SearchInv, WayOk, IntersectOk
<1>4. PICK m \in DOMAIN cursors : Exhausted(cursors[m])
  BY <1>1 DEF Ended
<1>5. \A n : PastHere("intersect", cursors, block, n)
  BY ONLY <1>3, <1>4, m \in DOMAIN cursors, IntersectOver
<1>6. Behind("intersect", cursors, block) = Earlier(segment + 1)
  BY ONLY <1>2, <1>5, BehindWhole
<1> QED BY ONLY <1>1, <1>2, <1>6, LeaveKeeps

\* What holds in the pruned loop.
LEMMA InWand ==
  ASSUME SearchInv, pc = "wand"
  PROVE  /\ InputsOk /\ segment \in Numbers(snapshot.segments) /\ Scoring # {}
         /\ Keeps(heap, Behind("wand", cursors, block), limit)
         /\ InOrder(cursors) /\ LeftHopeless(cursors) /\ block = 1
<1>1. InOrder(cursors) /\ LeftHopeless(cursors) /\ block = 1
  BY DEF SearchInv, WayOk
<1> QED BY <1>1, InvHas

LEMMA WandSkipKeeps ==
  ASSUME SearchInv, WandSkip
  PROVE  SearchInv'
<1>1. PICK new : new = Sorted([cursors EXCEPT ![1] = SkipBlock(cursors[1])])
  OBVIOUS
<1>2. /\ pc = "wand" /\ cursors # <<>> /\ SkipsBlock
      /\ UNCHANGED inputs /\ heap' = heap /\ pc' = "wand" /\ segment' = segment
      /\ block' = block /\ cursors' = new
  BY <1>1 DEF WandSkip
<1>3. /\ InputsOk /\ segment \in Numbers(snapshot.segments) /\ Scoring # {}
      /\ Keeps(heap, Behind("wand", cursors, block), limit)
      /\ InOrder(cursors) /\ LeftHopeless(cursors) /\ block = 1
  BY <1>2, InWand
<1>4. Hopeless(BlockBound(cursors[1].term, BlockOf(cursors[1])) + Bounds(2, Len(cursors)))
  BY <1>2 DEF SkipsBlock
<1>5. InOrder(new) /\ LeftHopeless(new) /\ Keeps(heap, Behind("wand", new, block), limit)
  BY ONLY <1>1, <1>2, <1>3, <1>4, SkipKeeps
<1>6. InOrder(new) /\ LeftBelow(heap, new) /\ Keeps(heap, Behind("wand", new, 1), limit)
      /\ block' = 1
  BY <1>2, <1>3, <1>5, LeftIs
<1> QED BY ONLY <1>2, <1>3, <1>6, 1 \in Nat \ {0}, StepKeeps

LEMMA WandAdvanceKeeps ==
  ASSUME SearchInv, WandAdvance
  PROVE  SearchInv'
<1>1. PICK new : new = Sorted([cursors EXCEPT ![1] = AdvanceTo(cursors[1], PivotDoc)])
  OBVIOUS
<1>2. /\ pc = "wand" /\ Pivots # {} /\ DocId(cursors[1]) < PivotDoc
      /\ UNCHANGED inputs /\ heap' = heap /\ pc' = "wand" /\ segment' = segment
      /\ block' = block /\ cursors' = new
  BY <1>1 DEF WandAdvance
<1>3. /\ InputsOk /\ segment \in Numbers(snapshot.segments) /\ Scoring # {}
      /\ Keeps(heap, Behind("wand", cursors, block), limit)
      /\ InOrder(cursors) /\ LeftHopeless(cursors) /\ block = 1
  BY <1>2, InWand
<1>4. InOrder(new) /\ LeftHopeless(new) /\ Keeps(heap, Behind("wand", new, block), limit)
  BY ONLY <1>1, <1>2, <1>3, AdvanceKeeps
<1>5. InOrder(new) /\ LeftBelow(heap, new) /\ Keeps(heap, Behind("wand", new, 1), limit)
      /\ block' = 1
  BY <1>2, <1>3, <1>4, LeftIs
<1> QED BY ONLY <1>2, <1>3, <1>5, 1 \in Nat \ {0}, StepKeeps

LEMMA WandCandidateKeeps ==
  ASSUME SearchInv, WandCandidate
  PROVE  SearchInv'
<1>1. PICK new : new = Sorted([i \in DOMAIN cursors |->
                    IF AtPivot(cursors[i]) THEN Next1(cursors[i]) ELSE cursors[i]])
  OBVIOUS
<1>2. PICK hits :
        hits = IF IsFlatDisjunction(query) THEN ConsiderWandCandidate ELSE Consider
  OBVIOUS
<1>3. /\ pc = "wand" /\ Pivots # {} /\ DocId(cursors[1]) = PivotDoc
      /\ UNCHANGED inputs /\ heap' = hits /\ pc' = "wand" /\ segment' = segment
      /\ block' = block /\ cursors' = new
  BY <1>1, <1>2 DEF WandCandidate
<1>4. /\ InputsOk /\ segment \in Numbers(snapshot.segments) /\ Scoring # {}
      /\ Keeps(heap, Behind("wand", cursors, block), limit)
      /\ InOrder(cursors) /\ LeftHopeless(cursors) /\ block = 1
  BY <1>3, InWand
<1>5. InOrder(new) /\ LeftBelow(hits, new) /\ Keeps(hits, Behind("wand", new, block), limit)
  BY ONLY <1>1, <1>2, <1>3, <1>4, PivotKeeps
<1>6. InOrder(new) /\ LeftBelow(hits, new) /\ Keeps(hits, Behind("wand", new, 1), limit)
      /\ block' = 1
  BY <1>3, <1>4, <1>5
<1> QED BY ONLY <1>3, <1>4, <1>6, 1 \in Nat \ {0}, StepKeeps

LEMMA WandEndsKeeps ==
  ASSUME SearchInv, WandEnds
  PROVE  SearchInv'
<1>1. /\ pc = "wand" /\ Pivots = {} /\ Leave /\ UNCHANGED <<inputs, heap>>
  BY DEF WandEnds
<1>2. /\ InputsOk /\ segment \in Numbers(snapshot.segments) /\ Scoring # {}
      /\ Keeps(heap, Behind("wand", cursors, block), limit) /\ InOrder(cursors)
  BY <1>1, InWand
<1>3. Keeps(heap, Earlier(segment + 1), limit)
  BY ONLY <1>1, <1>2, WandOver
<1> QED BY ONLY <1>1, <1>2, <1>3, LeaveKeeps

\* A segment is entered, or passed by.
LEMMA EnterKeeps ==
  ASSUME SearchInv, Enter
  PROVE  SearchInv'
<1> DEFINE terms == Scoring \cap DOMAIN Here.terms
           all   == Cardinality(terms) = Cardinality(Scoring)
           intersects == \/ IsFlatConjunction(query)
                         \/ query.op = "phrase" /\ Len(query.phrase) = Cardinality(Scoring)
           way   == CASE IsFlatDisjunction(query) /\ Cardinality(Scoring) = 1 /\ all -> "single"
                      [] intersects /\ all  -> "intersect"
                      [] intersects /\ ~all -> "skip"
                      [] OTHER              -> "wand"
<1>1. /\ pc = "segment" /\ segment < Len(snapshot.segments)
      /\ IF way = "skip" THEN Leave
         ELSE /\ pc' = way
              /\ cursors' = IF way = "wand" THEN Sorted(StartList) ELSE StartList
              /\ UNCHANGED <<segment, block>>
      /\ UNCHANGED inputs /\ heap' = heap
  BY DEF Enter, StartList, Starts
<1>2. /\ InputsOk /\ segment \in Numbers(snapshot.segments)
      /\ Keeps(heap, Behind("segment", cursors, block), limit)
  BY <1>1, InvHas
<1>3. Scoring # {} /\ cursors = <<>> /\ block = 1
  BY <1>1 DEF SearchInv, WayOk
<1>4. all <=> Scoring \subseteq DOMAIN Here.terms
  <2>1. IsFiniteSet(Scoring)
    BY <1>2, InputsAre
  <2>2. terms \in SUBSET Scoring
    OBVIOUS
  <2>3. all => terms = Scoring
    BY <2>1, <2>2, FS_Subset
  <2>4. terms = Scoring => all
    OBVIOUS
  <2> QED BY <2>3, <2>4
<1>5. Keeps(heap, Behind("segment", <<>>, 1), limit)
  BY <1>2, <1>3
<1>6. CASE way = "single"
  <2>1. IsFlatDisjunction(query) /\ Cardinality(Scoring) = 1 /\ all
    BY <1>6
  <2>2. SingleOk(StartList) /\ Behind("single", StartList, 1) = Behind("segment", <<>>, 1)
    BY ONLY <1>2, <1>4, <2>1, EnterSingle
  <2>3. Keeps(heap, Behind("single", StartList, 1), limit)
    BY <1>5, <2>2
  <2>4. pc' = "single" /\ cursors' = StartList /\ segment' = segment /\ block' = 1
    BY <1>1, <1>3, <1>6
  <2> QED BY ONLY <1>1, <1>2, <1>3, <2>2, <2>3, <2>4, 1 \in Nat \ {0}, StepKeeps
<1>7. CASE way = "intersect"
  <2>1. intersects /\ all
    BY <1>7
  <2>2. Intersects
    BY <2>1 DEF Intersects
  <2>3. IntersectOk(StartList) /\ Behind("intersect", StartList, 1) = Behind("segment", <<>>, 1)
    BY ONLY <1>2, <1>3, <1>4, <2>1, <2>2, EnterIntersect
  <2>4. Keeps(heap, Behind("intersect", StartList, 1), limit)
    BY <1>5, <2>3
  <2>5. pc' = "intersect" /\ cursors' = StartList /\ segment' = segment /\ block' = 1
    BY <1>1, <1>3, <1>7
  <2> QED BY ONLY <1>1, <1>2, <1>3, <2>3, <2>4, <2>5, 1 \in Nat \ {0}, StepKeeps
<1>8. CASE way = "skip"
  <2>1. intersects /\ ~all
    BY <1>8
  <2>2. Intersects
    BY <2>1 DEF Intersects
  <2>3. \A h \in Reach : h.segment # segment
    BY ONLY <1>2, <1>3, <1>4, <2>1, <2>2, EnterSkip
  <2>4. \A h \in Reach : h.segment \in Nat
    BY <1>2, InputsAre DEF Reach, Hit
  <2>5. Earlier(segment + 1) = Earlier(segment)
    <3>1. segment \in Nat
      BY InvHas
    <3>2. \A h \in Reach : h.segment < segment + 1 <=> h.segment < segment
      BY <2>3, <2>4, <3>1
    <3> QED BY <3>2 DEF Earlier
  <2>6. Keeps(heap, Earlier(segment + 1), limit)
    BY <1>5, <2>5, BehindNone
  <2>7. Leave /\ UNCHANGED <<inputs, heap>>
    BY <1>1, <1>8
  <2> QED BY ONLY <1>2, <1>3, <2>6, <2>7, LeaveKeeps
<1>9. CASE way = "wand"
  <2>1. PICK cs : cs = Sorted(StartList)
    OBVIOUS
  <2>2. /\ InOrder(cs) /\ LeftHopeless(cs)
        /\ Behind("wand", cs, 1) = Behind("segment", <<>>, 1)
    BY ONLY <1>2, <1>3, <2>1, EnterWand
  <2>3. Keeps(heap, Behind("wand", cs, 1), limit) /\ LeftBelow(heap, cs)
    BY <1>5, <2>2, LeftIs
  <2>4. pc' = "wand" /\ cursors' = cs /\ segment' = segment /\ block' = 1
    BY <1>1, <1>3, <1>9, <2>1
  <2> QED BY ONLY <1>1, <1>2, <1>3, <2>2, <2>3, <2>4, 1 \in Nat \ {0}, StepKeeps
<1>10. way \in {"single", "intersect", "skip", "wand"}
  OBVIOUS
<1> QED BY <1>6, <1>7, <1>8, <1>9, <1>10

LEMMA StutterKeeps ==
  ASSUME SearchInv, UNCHANGED vars
  PROVE  SearchInv'
<1>1. /\ UNCHANGED inputs /\ snapshot' = snapshot /\ limit' = limit /\ heap' = heap /\ pc' = pc
      /\ segment' = segment /\ cursors' = cursors /\ block' = block
  BY DEF vars, inputs
<1>2. InputsOk /\ WayOk /\ Keeps(heap, Behind(pc, cursors, block), limit)
  BY DEF SearchInv
<1>3. InputsOk' /\ Scoring' = Scoring
  BY <1>1, <1>2, SteadyInputs
<1>4. /\ Behind(pc, cursors, block)' = Behind(pc', cursors, block')
      /\ InOrder(cursors)' <=> InOrder(cursors)
      /\ SingleOk(cursors)' <=> SingleOk(cursors)
      /\ IntersectOk(cursors)' <=> IntersectOk(cursors)
      /\ LeftHopeless(cursors)' <=> LeftBelow(heap', cursors)
  BY <1>1, SteadyBehind
<1>5. LeftHopeless(cursors)' <=> LeftHopeless(cursors)
  BY <1>1, <1>4, LeftIs
<1>6. WayOk'
  BY <1>1, <1>2, <1>3, <1>4, <1>5 DEF WayOk
<1>7. Keeps(heap, Behind(pc, cursors, block), limit)'
  BY <1>1, <1>2, <1>4 DEF Keeps
<1> QED BY <1>3, <1>6, <1>7 DEF SearchInv

\* At every moment the heap has the best of the hits that the search can reach
\* and has got past, on each of its ways; and the cursors that have been left
\* behind by a block or a pivot cannot make a document count.
THEOREM SearchKeepsBest == Spec => []SearchInv
<1>1. Init => SearchInv
  BY InitKeeps
<1>2. SearchInv /\ [Next]_vars => SearchInv'
  <2> SUFFICES ASSUME SearchInv, [Next]_vars
               PROVE  SearchInv'
    OBVIOUS
  <2>1. CASE SearchAll
    BY <2>1, SearchAllKeeps
  <2>2. CASE Enter
    BY <2>2, EnterKeeps
  <2>3. CASE Finish
    BY <2>3, FinishKeeps
  <2>4. CASE SingleBlock
    BY <2>4, SingleBlockKeeps
  <2>5. CASE SingleEnds
    BY <2>5, SingleEndsKeeps
  <2>6. CASE AlignCursor
    BY <2>6, AlignCursorKeeps
  <2>7. CASE IntersectCandidate
    BY <2>7, IntersectCandidateKeeps
  <2>8. CASE IntersectEnds
    BY <2>8, IntersectEndsKeeps
  <2>9. CASE WandSkip
    BY <2>9, WandSkipKeeps
  <2>10. CASE WandAdvance
    BY <2>10, WandAdvanceKeeps
  <2>11. CASE WandCandidate
    BY <2>11, WandCandidateKeeps
  <2>12. CASE WandEnds
    BY <2>12, WandEndsKeeps
  <2>13. CASE UNCHANGED vars
    BY <2>13, StutterKeeps
  <2> QED BY <2>1, <2>2, <2>3, <2>4, <2>5, <2>6, <2>7, <2>8, <2>9, <2>10, <2>11, <2>12, <2>13
          DEF Next
<1> QED BY <1>1, <1>2, PTL DEF Spec

\* The type invariant of the search.
THEOREM SearchTypeCorrect == Spec => []TypeOK
<1>1. SearchInv => TypeOK
  <2> SUFFICES ASSUME SearchInv
               PROVE  TypeOK
    OBVIOUS
  <2>1. InputsOk /\ WayOk /\ Keeps(heap, Behind(pc, cursors, block), limit)
    BY DEF SearchInv
  <2>2. heap \subseteq Hit /\ Cardinality(heap) <= limit
    BY <2>1, InputsAre DEF Keeps, Behind, Reach
  <2>3. \A i \in DOMAIN cursors : cursors[i].term \in DOMAIN Here.terms
    <3>1. CASE pc \in {"all", "segment", "done"}
      BY <2>1, <3>1 DEF WayOk
    <3>2. CASE pc = "single"
      BY <2>1, <3>2 DEF WayOk, SingleOk
    <3>3. CASE pc \in {"intersect", "wand"}
      <4>1. CursorsOf(cursors)
        BY <2>1, <3>3 DEF WayOk, IntersectOk, InOrder
      <4>2. \A i \in DOMAIN cursors : cursors[i] \in Cursor
        BY <4>1, CursorsIn
      <4> QED BY <4>2 DEF Cursor
    <3> QED BY <2>1, <3>1, <3>2, <3>3 DEF WayOk
  <2> QED BY <2>1, <2>2, <2>3 DEF TypeOK, WayOk
<1> QED BY <1>1, SearchKeepsBest, PTL

-----------------------------------------------------------------------------
(* The pruned search and the exhaustive search.                            *)

\* Every candidate can be reached, where each query that is searched for is
\* anchored in its scoring terms or has none.
LEMMA ReachesAll ==
  ASSUME InputsOk, NEW A \in SUBSET Queries, NEW B \in SUBSET Queries,
         Anchoring(A), Unscored(B), Searched \subseteq A \cup B
  PROVE  Reach = Candidates
<1>1. Good(snapshot) /\ Counted(snapshot) /\ query \in A \cup B
  BY DEF InputsOk
<1>2. CASE query \in B
  <2>1. Scoring = {}
    BY <1>2, NoneScores DEF Scoring
  <2> QED BY <2>1 DEF Reach
<1>3. CASE query \in A
  <2>1. ASSUME NEW h \in Candidates
        PROVE  Scorers(h.segment, h.docid, Scoring) # {}
    <3>1. PICK i \in Numbers(snapshot.segments) : \E n \in Numbers(Segment(i).docs) :
            Matching(i, n) /\ h = RankedDoc(i, n, Scoring)
      BY <1>1, CandidatesAre
    <3>2. PICK n \in Numbers(Segment(i).docs) : Matching(i, n) /\ h = RankedDoc(i, n, Scoring)
      BY <3>1
    <3>3. h.segment = i /\ h.docid = n
      BY <3>2 DEF RankedDoc
    <3>4. IsLive(snapshot, i, n) /\ MatchesInColumn(Segment(i), n)[query][AnyColumn]
      BY <3>2 DEF Matching, Matches
    <3>5. AnyColumn \in AllColumns
      BY DEF AllColumns
    <3>6. \E t \in ScoringTerms(snapshot, query) : t \in Segment(i).docs[n + 1].terms
      BY <1>1, <1>3, <3>4, <3>5, Anchored
    <3>7. Scorers(i, n, Scoring) = Scoring \cap Segment(i).docs[n + 1].terms
      BY <1>1, ScorersHave
    <3> QED BY <3>3, <3>6, <3>7 DEF Scoring
  <2> QED BY <2>1 DEF Reach
<1> QED BY <1>1, <1>2, <1>3

\* The pruned search returns what search_exhaustive returns, for all queries
\* that match a document only through a term that scores, such as words,
\* prefixes, phrases, NEAR, their disjunctions and their conjunctions with
\* anything; and for those without a term that scores.  Only a negation in a
\* disjunction with words is neither.
THEOREM PrunedFindsTheBest ==
  ASSUME NEW A \in SUBSET Queries, NEW B \in SUBSET Queries,
         Anchoring(A), Unscored(B), Searched \subseteq A \cup B
  PROVE  Spec => []PrunedIsExhaustive
<1>1. SearchInv => PrunedIsExhaustive
  <2> SUFFICES ASSUME SearchInv, pc = "done"
               PROVE  /\ heap \subseteq Candidates
                      /\ Cardinality(heap) = Smaller(limit, Cardinality(Candidates))
                      /\ \A kept \in heap, other \in Candidates \ heap : Better(kept, other)
    BY DEF PrunedIsExhaustive
  <2>1. InputsOk /\ Keeps(heap, Behind(pc, cursors, block), limit)
    BY DEF SearchInv
  <2>2. Behind(pc, cursors, block) = Candidates
    BY <2>1, ReachesAll DEF Behind
  <2>3. /\ heap \subseteq Candidates /\ Cardinality(heap) <= limit
        /\ \A x \in Candidates \ heap : Cardinality(heap) = limit /\ \A kept \in heap : Better(kept, x)
    BY <2>1, <2>2 DEF Keeps
  <2>4. limit \in Nat /\ IsFiniteSet(Candidates)
    BY <2>1, InputsAre DEF Rankable
  <2>5. /\ Cardinality(heap) \in Nat /\ Cardinality(Candidates) \in Nat
        /\ Cardinality(heap) <= Cardinality(Candidates)
        /\ heap # Candidates => Cardinality(heap) < Cardinality(Candidates)
    BY <2>3, <2>4, FS_Subset, FS_CardinalityType
  <2>6. Cardinality(heap) = Smaller(limit, Cardinality(Candidates))
    <3>1. CASE heap = Candidates
      BY <2>3, <2>4, <2>5, <3>1 DEF Smaller
    <3>2. CASE heap # Candidates
      <4>1. Cardinality(heap) = limit
        BY <2>3, <3>2
      <4> QED BY <2>4, <2>5, <3>2, <4>1 DEF Smaller
    <3> QED BY <3>1, <3>2
  <2> QED BY <2>3, <2>6
<1> QED BY <1>1, SearchKeepsBest, PTL

\* At every moment of such a search, what it has skipped or dropped is no better
\* than anything in the heap, and the heap is full.
THEOREM NothingBetterIsPassed ==
  ASSUME NEW A \in SUBSET Queries, NEW B \in SUBSET Queries,
         Anchoring(A), Unscored(B), Searched \subseteq A \cup B
  PROVE  Spec => []NothingBetterPassed
<1>1. SearchInv => NothingBetterPassed
  <2> SUFFICES ASSUME SearchInv, NEW hit \in Candidates, Passed(hit), hit \notin heap
               PROVE  IsFull /\ \A kept \in heap : Better(kept, hit)
    BY DEF NothingBetterPassed
  <2>1. InputsOk /\ Keeps(heap, Behind(pc, cursors, block), limit)
    BY DEF SearchInv
  <2>2. hit \in Reach
    BY <2>1, ReachesAll
  <2>3. hit \in Behind(pc, cursors, block)
    <3>1. CASE pc = "done" \/ hit.segment < segment
      BY <2>2, <3>1 DEF Behind
    <3>2. CASE hit.segment = segment /\ pc = "wand"
                 /\ \A i \in DOMAIN cursors : DocId(cursors[i]) > hit.docid
      <4>1. InputsOk /\ segment \in Numbers(snapshot.segments) /\ Scoring # {} /\ InOrder(cursors)
        BY <3>2, InWand
      <4>2. Scorers(segment, hit.docid, Scoring) # {}
        BY <2>2, <3>2, <4>1 DEF Reach
      <4>3. hit.docid \in Nat
        BY <2>1, InputsAre DEF Hit
      <4>4. \A c \in ToSet(cursors) : ~Exhausted(c) /\ DocId(c) \in Nat /\ DocId(c) > hit.docid
        <5>1. CursorsOf(cursors) /\ \A i \in DOMAIN cursors : ~Exhausted(cursors[i])
          BY <4>1 DEF InOrder
        <5>2. \A i \in DOMAIN cursors : DocId(cursors[i]) \in Nat
          BY <4>1, <5>1, CursorsIn, CursorAt DEF InputsOk
        <5>3. \A c \in ToSet(cursors) : \E i \in DOMAIN cursors : cursors[i] = c
          BY <5>1, CursorsIn
        <5> QED BY <3>2, <5>1, <5>2, <5>3
      <4>5. Waiting(cursors, hit.docid) = {}
        BY <4>3, <4>4 DEF Waiting
      <4> QED BY <2>2, <3>2, <4>2, <4>5 DEF Behind, PastHere
    <3>3. CASE hit.segment = segment /\ pc = "intersect"
                 /\ \E i \in DOMAIN cursors :
                      Exhausted(cursors[i]) \/ DocId(cursors[i]) > hit.docid
      <4>1. CursorsOf(cursors)
        BY <3>3 DEF SearchInv, WayOk, IntersectOk
      <4>2. \A i \in DOMAIN cursors : cursors[i] \in ToSet(cursors)
        BY <4>1, CursorsIn
      <4> QED BY <2>2, <3>3, <4>2 DEF Behind, PastHere
    <3>4. CASE hit.segment = segment /\ pc = "single"
                 /\ \E i \in 1..((block - 1) * BlockSize) \cap DOMAIN List(cursors[1].term).docids :
                      List(cursors[1].term).docids[i] = hit.docid
      BY <2>2, <3>4 DEF Behind, PastHere
    <3> QED BY <3>1, <3>2, <3>3, <3>4 DEF Passed
  <2> QED BY <2>1, <2>3 DEF Keeps, IsFull
<1> QED BY <1>1, SearchKeepsBest, PTL

=============================================================================
