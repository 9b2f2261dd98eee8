--------------------------- MODULE KestrelTextProofs ---------------------------
(***************************************************************************)
(* The sliding window of matches_near answers what its definition says,    *)
(* and counts what it has, for any texts, any queries and columns of any   *)
(* size.                                                                   *)
(***************************************************************************)
EXTENDS KestrelText, KestrelIndexProofs

-----------------------------------------------------------------------------
(* The events of a window.                                                 *)

\* The positions of term t that a stretch from first to last has.
Inside(found_t, first, last) ==
  {n \in DOMAIN found_t : first <= found_t[n] /\ found_t[n] <= last}

EventsFrom(positions, T, c) ==
  {e \in [at : Nat, term : T, nth : Nat] :
     /\ e.nth \in DOMAIN positions[e.term] /\ e.at = positions[e.term][e.nth]
     /\ InColumn(e.at, c)}

\* The list has one event for each position of the column, in ascending order.
EventList(list, positions, T, c) ==
  /\ list \in Seq(EventsFrom(positions, T, c))
  /\ \A i, j \in DOMAIN list : i < j => list[i].at <= list[j].at
  /\ \A i, j \in DOMAIN list :
       list[i].term = list[j].term /\ list[i].nth = list[j].nth => i = j
  /\ \A t \in T : \A n \in DOMAIN positions[t] : InColumn(positions[t][n], c) =>
       \E i \in DOMAIN list : list[i].term = t /\ list[i].nth = n

LEMMA RanksOfTerms ==
  ASSUME NEW q, q.near \in Seq(Terms)
  PROVE  /\ \A t \in TermsOf(q) : RankOf(q, t) \in Nat /\ q.near[RankOf(q, t)] = t
         /\ \A t, u \in TermsOf(q) : RankOf(q, t) = RankOf(q, u) => t = u
<1>1. ASSUME NEW t \in TermsOf(q)
      PROVE  RankOf(q, t) \in Nat /\ q.near[RankOf(q, t)] = t
  <2> DEFINE S == {i \in DOMAIN q.near : q.near[i] = t}
  <2>1. S # {} /\ S \subseteq Nat
    BY ToSetIs DEF TermsOf
  <2>2. RankOf(q, t) = Min(S)
    BY DEF RankOf
  <2>3. Min(S) \in S
    <3> HIDE DEF S
    <3> QED BY <2>1, MinIs
  <2> QED BY <2>2, <2>3
<1> QED BY <1>1

LEMMA EventsAre ==
  ASSUME NEW q, q.near \in Seq(Terms), NEW positions \in [TermsOf(q) -> Seq(Nat)],
         NEW c
  PROVE  EventList(Events(positions, q, c), positions, TermsOf(q), c)
<1> DEFINE T == TermsOf(q)
           of(t) == {[at |-> positions[t][i], term |-> t, nth |-> i] :
                       i \in DOMAIN positions[t]}
           all == UNION {of(t) : t \in T}
           S == {e \in all : InColumn(e.at, c)}
           R == {p \in S \X S : Before(q, p[1], p[2])}
           list == Events(positions, q, c)
<1>1. S = EventsFrom(positions, T, c)
  <2>1. ASSUME NEW e \in S PROVE e \in EventsFrom(positions, T, c)
    <3>1. PICK t \in T : e \in of(t)
      OBVIOUS
    <3>2. PICK i \in DOMAIN positions[t] :
            e = [at |-> positions[t][i], term |-> t, nth |-> i]
      BY <3>1
    <3>3. positions[t] \in Seq(Nat)
      OBVIOUS
    <3>4. positions[t][i] \in Nat /\ i \in Nat
      BY <3>3
    <3>5. InColumn(e.at, c)
      OBVIOUS
    <3> QED BY <3>2, <3>4, <3>5 DEF EventsFrom
  <2>2. ASSUME NEW e \in EventsFrom(positions, T, c) PROVE e \in S
    <3>1. /\ e \in [at : Nat, term : T, nth : Nat] /\ e.term \in T
          /\ e.nth \in DOMAIN positions[e.term] /\ e.at = positions[e.term][e.nth]
          /\ InColumn(e.at, c)
      BY DEF EventsFrom
    <3>2. e = [at |-> positions[e.term][e.nth], term |-> e.term, nth |-> e.nth]
      BY <3>1
    <3>3. e \in of(e.term)
      BY <3>1, <3>2
    <3> QED BY <3>1, <3>3
  <2> QED BY <2>1, <2>2
<1>2. IsFiniteSet(S)
  <2>1. IsFiniteSet(T)
    BY ToSetIs DEF TermsOf
  <2>2. ASSUME NEW t \in T PROVE IsFiniteSet(of(t))
    <3> DEFINE f == [i \in DOMAIN positions[t] |->
                       [at |-> positions[t][i], term |-> t, nth |-> i]]
    <3>1. IsFiniteSet(DOMAIN positions[t])
      BY ToSetIs
    <3>2. f \in Surjection(DOMAIN positions[t], of(t))
      BY DEF Surjection
    <3> QED BY <3>1, <3>2, FS_Surjection
  <2> DEFINE g == [t \in T |-> of(t)]
             parts == {of(t) : t \in T}
  <2>3. IsFiniteSet(parts)
    <3>1. g \in Surjection(T, parts)
      BY DEF Surjection
    <3> HIDE DEF T, parts, g
    <3> QED BY <2>1, <3>1, FS_Surjection
  <2>4. \A P \in parts : IsFiniteSet(P)
    BY <2>2
  <2>5. IsFiniteSet(all)
    <3> HIDE DEF parts
    <3>1. IsFiniteSet(UNION parts)
      BY <2>3, <2>4, FS_UNION
    <3> QED BY <3>1 DEF parts
  <2>6. S \in SUBSET all
    OBVIOUS
  <2> HIDE DEF all, S
  <2> QED BY <2>5, <2>6, FS_Subset
<1>3. \A e \in S : /\ e.at \in Nat /\ e.term \in T /\ e.nth \in Nat
                   /\ e = [at |-> e.at, term |-> e.term, nth |-> e.nth]
                   /\ e.at = positions[e.term][e.nth]
                   /\ RankOf(q, e.term) \in Nat
  BY <1>1, RanksOfTerms DEF EventsFrom
<1>4. list = [i \in 1..Cardinality(S) |->
                CHOOSE x \in S : Cardinality({y \in S : Before(q, y, x)}) = i - 1]
  BY DEF Events, SortedBy
<1> HIDE DEF S
<1>5. \A x, y \in S : <<x, y>> \in R <=> Before(q, x, y)
  OBVIOUS
<1> HIDE DEF R
<1>6. Orders(R, S)
  <2>1. \A x, y \in S : Before(q, x, y) => ~Before(q, y, x)
    BY <1>3 DEF Before
  <2>2. \A x, y, z \in S : Before(q, x, y) /\ Before(q, y, z) => Before(q, x, z)
    BY <1>3 DEF Before
  <2>3. ASSUME NEW x \in S, NEW y \in S, ~Before(q, x, y), ~Before(q, y, x)
        PROVE  x = y
    <3>1. x.at = y.at /\ RankOf(q, x.term) = RankOf(q, y.term)
      BY <1>3, <2>3 DEF Before
    <3>2. x.term = y.term
      BY <1>3, <3>1, RanksOfTerms
    <3>3. x.nth = y.nth
      BY <1>3, <2>3, <3>1, <3>2 DEF Before
    <3> QED BY <1>3, <3>1, <3>2, <3>3
  <2> QED BY <1>5, <2>1, <2>2, <2>3 DEF Orders
<1>7. ASSUME NEW x \in S
      PROVE  Cardinality({y \in S : Before(q, y, x)}) = RankIn(R, S, x)
  <2>1. {y \in S : Before(q, y, x)} = {y \in S : <<y, x>> \in R}
    BY <1>5
  <2> QED BY <2>1 DEF RankIn
<1>8. /\ list \in [1..Cardinality(S) -> S]
      /\ \A i \in 1..Cardinality(S) : RankIn(R, S, list[i]) = i - 1
  <2>1. list = [i \in 1..Cardinality(S) |-> list[i]]
    BY <1>4
  <2>2. ASSUME NEW i \in 1..Cardinality(S)
        PROVE  list[i] \in S /\ RankIn(R, S, list[i]) = i - 1
    <3>1. \E x \in S : Cardinality({y \in S : Before(q, y, x)}) = i - 1
      BY <1>2, <1>6, <1>7, RanksIn
    <3>2. list[i] = CHOOSE x \in S : Cardinality({y \in S : Before(q, y, x)}) = i - 1
      BY <1>4
    <3>3. list[i] \in S /\ Cardinality({y \in S : Before(q, y, list[i])}) = i - 1
      BY <3>1, <3>2
    <3> QED BY <1>7, <3>3
  <2> QED BY <2>1, <2>2
<1> HIDE DEF list
<1>9. /\ list \in Seq(S)
      /\ \A i, j \in DOMAIN list : i < j <=> <<list[i], list[j]>> \in R
      /\ \A i, j \in DOMAIN list : list[i] = list[j] => i = j
      /\ \A x \in S : \E i \in DOMAIN list : list[i] = x
  <2>1. Lists(list, R, S)
    BY <1>2, <1>6, <1>8, RankedLists
  <2> QED BY <2>1 DEF Lists
<1>10. \A i, j \in DOMAIN list : i < j => list[i].at <= list[j].at
  <2> SUFFICES ASSUME NEW i \in DOMAIN list, NEW j \in DOMAIN list, i < j
               PROVE  list[i].at <= list[j].at
    OBVIOUS
  <2>1. list[i] \in S /\ list[j] \in S
    BY <1>9
  <2>2. Before(q, list[i], list[j])
    BY <1>5, <1>9, <2>1
  <2> QED BY <1>3, <2>1, <2>2 DEF Before
<1>11. ASSUME NEW i \in DOMAIN list, NEW j \in DOMAIN list,
              list[i].term = list[j].term, list[i].nth = list[j].nth
       PROVE  i = j
  <2>1. list[i] \in S /\ list[j] \in S
    BY <1>9
  <2>2. list[i] = list[j]
    BY <1>3, <1>11, <2>1
  <2> QED BY <1>9, <2>2
<1>12. ASSUME NEW t \in T, NEW n \in DOMAIN positions[t], InColumn(positions[t][n], c)
       PROVE  \E i \in DOMAIN list : list[i].term = t /\ list[i].nth = n
  <2> DEFINE e == [at |-> positions[t][n], term |-> t, nth |-> n]
  <2>1. positions[t] \in Seq(Nat)
    OBVIOUS
  <2>2. positions[t][n] \in Nat /\ n \in Nat
    BY <2>1
  <2>3. e \in S
    BY <1>1, <1>12, <2>2 DEF EventsFrom
  <2>4. PICK i \in DOMAIN list : list[i] = e
    BY <1>9, <2>3
  <2> QED BY <2>4
<1> QED BY <1>1, <1>9, <1>10, <1>11, <1>12 DEF EventList, list

-----------------------------------------------------------------------------
(* Columns.                                                                *)

LEMMA ColumnsAre ==
  ASSUME NEW p \in Nat
  PROVE  /\ ColumnOf(p) \in Nat /\ OffsetOf(p) \in Nat
         /\ p = ColumnSize * ColumnOf(p) + OffsetOf(p)
  BY IndexAssumption, DivMod DEF ColumnOf, OffsetOf

LEMMA ColumnsAscend ==
  ASSUME NEW p \in Nat, NEW r \in Nat, p <= r
  PROVE  /\ ColumnOf(p) <= ColumnOf(r)
         /\ ColumnOf(p) = ColumnOf(r) => OffsetOf(r) - OffsetOf(p) = r - p
<1> DEFINE a == ColumnOf(p)
           b == ColumnOf(r)
<1>1. /\ a \in Nat /\ b \in Nat /\ OffsetOf(p) \in Nat /\ OffsetOf(r) \in Nat
      /\ p = ColumnSize * a + OffsetOf(p) /\ r = ColumnSize * b + OffsetOf(r)
  BY ColumnsAre
<1>2. ColumnSize * a <= r
  <2>1. ColumnSize * a \in Nat
    BY <1>1, IndexAssumption
  <2> HIDE DEF a
  <2> QED BY <1>1, <2>1
<1>3. a <= b
  BY <1>1, <1>2, IndexAssumption, DivBounds DEF ColumnOf
<1>4. a = b => OffsetOf(r) - OffsetOf(p) = r - p
  <2>1. ColumnSize * a \in Nat
    BY <1>1, IndexAssumption
  <2> HIDE DEF a, b
  <2> QED BY <1>1, <2>1
<1> QED BY <1>3, <1>4

-----------------------------------------------------------------------------
(* Windows.                                                                *)

\* The events from i to j that are of term t.
Span(list, t, i, j)  == {k \in i..j : list[k].term = t}
Marks(list, t, i, j) == {list[k].nth : k \in Span(list, t, i, j)}

\* The events from i to j lie in one column, are close, and have all terms.
Meets(list, needed, distance, i, j) ==
  /\ i <= j
  /\ ColumnOf(list[i].at) = ColumnOf(list[j].at)
  /\ OffsetOf(list[j].at) - OffsetOf(list[i].at) <= distance
  /\ \A t \in DOMAIN needed : needed[t] <= Cardinality(Span(list, t, i, j))

\* The events of a term stand for some of its positions.
LEMMA SpanSize ==
  ASSUME NEW positions, NEW T, NEW c, NEW list, EventList(list, positions, T, c),
         NEW t \in T, NEW i \in DOMAIN list, NEW j \in DOMAIN list
  PROVE  /\ IsFiniteSet(Span(list, t, i, j))
         /\ Cardinality(Marks(list, t, i, j)) = Cardinality(Span(list, t, i, j))
<1> DEFINE S == Span(list, t, i, j)
           V == {list[k].nth : k \in S}
           b == [k \in S |-> list[k].nth]
<1>1. i \in Nat /\ j \in Nat /\ Len(list) \in Nat /\ DOMAIN list = 1..Len(list)
  BY DEF EventList
<1>2. \A k \in S : k \in DOMAIN list /\ list[k].term = t
  BY <1>1 DEF Span
<1>3. IsFiniteSet(S)
  <2>1. IsFiniteSet(i..j) /\ S \in SUBSET (i..j)
    BY <1>1, FS_Interval DEF Span
  <2> HIDE DEF S
  <2> QED BY <2>1, FS_Subset
<1>4. b \in Bijection(S, V)
  <2>1. \A x, y \in S : b[x] = b[y] => x = y
    BY <1>2 DEF EventList
  <2> HIDE DEF S
  <2> QED BY <2>1 DEF Bijection, Injection, Surjection, IsInjective
<1> HIDE DEF b, V, S
<1>5. Cardinality(V) = Cardinality(S)
  <2>1. ExistsBijection(S, V)
    BY <1>4 DEF ExistsBijection
  <2> QED BY <1>3, <2>1, FS_Bijection
<1> QED BY <1>3, <1>5 DEF S, V, Marks

\* The events from i to j have a term as often as it has positions between
\* theirs; where they are all events from some position to another, exactly as
\* often.
LEMMA SpanInside ==
  ASSUME NEW positions, NEW T, positions \in [T -> Seq(Nat)],
         NEW c, NEW list, EventList(list, positions, T, c),
         NEW t \in T, NEW i \in DOMAIN list, NEW j \in DOMAIN list,
         NEW first, NEW last, first = list[i].at, last = list[j].at
  PROVE  LET size == Cardinality(Inside(positions[t], first, last))
         IN /\ Cardinality(Span(list, t, i, j)) \in Nat /\ size \in Nat
            /\ Cardinality(Span(list, t, i, j)) <= size
            /\ (/\ ColumnOf(first) = ColumnOf(last)
                /\ \A k \in DOMAIN list :
                     first <= list[k].at /\ list[k].at <= last => i <= k /\ k <= j)
               => size <= Cardinality(Span(list, t, i, j))
<1> DEFINE S == Span(list, t, i, j)
           V == Marks(list, t, i, j)
           W == Inside(positions[t], first, last)
<1>1. /\ list \in Seq(EventsFrom(positions, T, c)) /\ DOMAIN list = 1..Len(list)
      /\ Len(list) \in Nat /\ i \in Nat /\ j \in Nat
  BY DEF EventList
<1>2. \A k \in DOMAIN list :
        /\ list[k].at \in Nat /\ list[k].nth \in DOMAIN positions[list[k].term]
        /\ list[k].at = positions[list[k].term][list[k].nth]
        /\ InColumn(list[k].at, c)
  <2> SUFFICES ASSUME NEW k \in DOMAIN list
               PROVE  /\ list[k].at \in Nat
                      /\ list[k].nth \in DOMAIN positions[list[k].term]
                      /\ list[k].at = positions[list[k].term][list[k].nth]
                      /\ InColumn(list[k].at, c)
    OBVIOUS
  <2>1. list[k] \in EventsFrom(positions, T, c)
    BY <1>1
  <2> QED BY <2>1 DEF EventsFrom
<1>3. positions[t] \in Seq(Nat)
  OBVIOUS
<1>4. \A x \in DOMAIN list, y \in DOMAIN list : x <= y => list[x].at <= list[y].at
  BY <1>1, <1>2 DEF EventList
<1>5. V \in SUBSET W
  <2>1. ASSUME NEW k \in S PROVE list[k].nth \in W
    <3>1. k \in DOMAIN list /\ i <= k /\ k <= j /\ list[k].term = t
      BY <1>1 DEF Span
    <3>2. list[i].at <= list[k].at /\ list[k].at <= list[j].at
      BY <1>4, <3>1
    <3> QED BY <1>2, <3>1, <3>2 DEF Inside
  <2> QED BY <2>1 DEF Marks
<1>6. IsFiniteSet(W) /\ Cardinality(W) \in Nat
  <2>1. IsFiniteSet(DOMAIN positions[t])
    BY <1>3, ToSetIs
  <2>2. W \in SUBSET DOMAIN positions[t]
    BY DEF Inside
  <2> HIDE DEF W
  <2> QED BY <2>1, <2>2, FS_Subset, FS_CardinalityType
<1>7. IsFiniteSet(S) /\ Cardinality(V) = Cardinality(S) /\ Cardinality(S) \in Nat
  <2>1. IsFiniteSet(S)
    BY SpanSize
  <2>2. Cardinality(V) = Cardinality(S)
    BY SpanSize
  <2> HIDE DEF S, V
  <2> QED BY <2>1, <2>2, FS_CardinalityType
<1>8. Cardinality(V) <= Cardinality(W) /\ IsFiniteSet(V)
  <2> HIDE DEF V, W, S
  <2> QED BY <1>5, <1>6, FS_Subset
<1>9. ASSUME ColumnOf(first) = ColumnOf(last),
             \A k \in DOMAIN list :
               first <= list[k].at /\ list[k].at <= last => i <= k /\ k <= j
      PROVE  Cardinality(W) <= Cardinality(V)
  <2>1. ASSUME NEW n \in W PROVE n \in V
    <3> DEFINE p == positions[t][n]
    <3>1. n \in DOMAIN positions[t] /\ first <= p /\ p <= last /\ p \in Nat
      BY <1>3 DEF Inside
    <3>2. first \in Nat /\ last \in Nat /\ InColumn(first, c)
      BY <1>2
    <3>3. /\ ColumnOf(first) <= ColumnOf(p) /\ ColumnOf(p) <= ColumnOf(last)
          /\ ColumnOf(first) \in Nat /\ ColumnOf(p) \in Nat
      BY <3>1, <3>2, ColumnsAscend, ColumnsAre
    <3>4. ColumnOf(p) = ColumnOf(first)
      BY <1>9, <3>3
    <3>5. InColumn(p, c)
      BY <3>2, <3>4 DEF InColumn
    <3>6. PICK k \in DOMAIN list : list[k].term = t /\ list[k].nth = n
      BY <3>1, <3>5 DEF EventList
    <3>7. list[k].at = p
      BY <1>2, <3>6
    <3>8. i <= k /\ k <= j
      BY <1>9, <3>1, <3>7
    <3>9. k \in S
      BY <1>1, <3>6, <3>8 DEF Span
    <3> QED BY <3>6, <3>9 DEF Marks
  <2>2. W \in SUBSET V
    BY <2>1
  <2> HIDE DEF V, W, S
  <2> QED BY <1>8, <2>2, FS_Subset
<1> HIDE DEF V, W, S
<1>10. Cardinality(S) <= Cardinality(W)
  BY <1>7, <1>8
<1> QED BY <1>6, <1>7, <1>9, <1>10 DEF S, W

\* Two events that meet the query are two positions that do.
LEMMA MeetsIsNear ==
  ASSUME NEW T, NEW positions \in [T -> Seq(Nat)], NEW needed \in [T -> Nat],
         NEW c, NEW distance \in Nat,
         NEW list, EventList(list, positions, T, c),
         NEW i \in DOMAIN list, NEW j \in DOMAIN list,
         Meets(list, needed, distance, i, j)
  PROVE  NearMatches(positions, needed, distance, c)
<1> DEFINE first == list[i].at
           last  == list[j].at
           all   == UNION {ToSet(positions[t]) : t \in T}
<1>1. \A k \in DOMAIN list : list[k].at \in all /\ InColumn(list[k].at, c)
                             /\ list[k].at \in Nat
  <2> SUFFICES ASSUME NEW k \in DOMAIN list
               PROVE  list[k].at \in all /\ InColumn(list[k].at, c) /\ list[k].at \in Nat
    OBVIOUS
  <2>1. list[k] \in EventsFrom(positions, T, c)
    BY DEF EventList
  <2>2. /\ list[k].term \in T /\ list[k].nth \in DOMAIN positions[list[k].term]
        /\ list[k].at = positions[list[k].term][list[k].nth]
        /\ InColumn(list[k].at, c) /\ list[k].at \in Nat
    BY <2>1 DEF EventsFrom
  <2>3. list[k].at \in ToSet(positions[list[k].term])
    BY <2>2 DEF ToSet
  <2> QED BY <2>2, <2>3
<1>2. first <= last
  <2>1. DOMAIN list = 1..Len(list) /\ Len(list) \in Nat
    BY DEF EventList
  <2>2. i < j \/ i = j
    BY <2>1 DEF Meets
  <2> QED BY <1>1, <2>2 DEF EventList
<1>3. ColumnOf(first) = ColumnOf(last) /\ last - first <= distance
  <2>1. first \in Nat /\ last \in Nat
    BY <1>1
  <2>2. ColumnOf(first) = ColumnOf(last) /\ OffsetOf(last) - OffsetOf(first) <= distance
    BY DEF Meets
  <2> HIDE DEF first, last
  <2>3. OffsetOf(last) - OffsetOf(first) = last - first
    BY <1>2, <2>1, <2>2, ColumnsAscend
  <2> QED BY <2>2, <2>3
<1>4. ASSUME NEW t \in T PROVE needed[t] <= Cardinality(Inside(positions[t], first, last))
  <2> DEFINE size == Cardinality(Inside(positions[t], first, last))
             span == Cardinality(Span(list, t, i, j))
  <2>1. needed[t] <= span
    BY DEF Meets
  <2>2. span \in Nat /\ size \in Nat /\ span <= size
    BY SpanInside
  <2>3. needed[t] \in Nat
    OBVIOUS
  <2> HIDE DEF size, span
  <2> QED BY <2>1, <2>2, <2>3 DEF size
<1>5. first \in {p \in all : InColumn(p, c)} /\ last \in {p \in all : InColumn(p, c)}
  BY <1>1
<1>6. DOMAIN needed = T
  OBVIOUS
<1> HIDE DEF first, last
<1> QED BY <1>2, <1>3, <1>4, <1>5, <1>6 DEF NearMatches, Inside

\* Where two positions meet the query, two events do: the first one with the
\* one position and the last one with the other.
LEMMA NearIsMet ==
  ASSUME NEW T, NEW positions \in [T -> Seq(Nat)], NEW needed \in [T -> Nat],
         NEW c, NEW distance \in Nat,
         NEW list, EventList(list, positions, T, c),
         NearMatches(positions, needed, distance, c)
  PROVE  \E i, j \in DOMAIN list : Meets(list, needed, distance, i, j)
<1> DEFINE all == UNION {ToSet(positions[t]) : t \in T}
<1>1. DOMAIN needed = T
  OBVIOUS
<1>2. PICK first \in all, last \in all :
        /\ InColumn(first, c) /\ InColumn(last, c)
        /\ ColumnOf(first) = ColumnOf(last)
        /\ first <= last /\ last - first <= distance
        /\ \A t \in T : needed[t] <= Cardinality(Inside(positions[t], first, last))
  BY <1>1 DEF NearMatches, Inside
<1>3. DOMAIN list = 1..Len(list) /\ Len(list) \in Nat /\ DOMAIN list \subseteq Nat
  BY DEF EventList
<1>4. \A k \in DOMAIN list :
        /\ list[k].at \in Nat /\ list[k].at = positions[list[k].term][list[k].nth]
  <2> SUFFICES ASSUME NEW k \in DOMAIN list
               PROVE  /\ list[k].at \in Nat
                      /\ list[k].at = positions[list[k].term][list[k].nth]
    OBVIOUS
  <2>1. list[k] \in EventsFrom(positions, T, c)
    BY DEF EventList
  <2> QED BY <2>1 DEF EventsFrom
<1>5. ASSUME NEW p \in all, InColumn(p, c)
      PROVE  p \in Nat /\ \E k \in DOMAIN list : list[k].at = p
  <2>1. PICK t \in T : p \in ToSet(positions[t])
    OBVIOUS
  <2>2. PICK n \in DOMAIN positions[t] : positions[t][n] = p
    BY <2>1 DEF ToSet
  <2>3. PICK k \in DOMAIN list : list[k].term = t /\ list[k].nth = n
    BY <1>5, <2>2 DEF EventList
  <2>4. list[k].at = p
    BY <1>4, <2>2, <2>3
  <2> QED BY <1>4, <2>4
<1> HIDE DEF all
<1>6. first \in Nat /\ last \in Nat
  BY <1>2, <1>5
<1> DEFINE I == {k \in DOMAIN list : list[k].at = first}
           J == {k \in DOMAIN list : list[k].at = last}
<1>7. PICK i \in I : \A k \in I : i <= k
  <2>1. I \subseteq Nat /\ I # {}
    BY <1>2, <1>3, <1>5
  <2> HIDE DEF I
  <2> QED BY <2>1, Least
<1>8. PICK j \in J : \A k \in J : k <= j
  <2>1. J \subseteq Nat /\ J # {} /\ \A k \in J : k <= Len(list)
    BY <1>2, <1>3, <1>5
  <2> HIDE DEF J
  <2> QED BY <1>3, <2>1, Greatest
<1>9. /\ i \in DOMAIN list /\ j \in DOMAIN list
      /\ list[i].at = first /\ list[j].at = last
  BY <1>7, <1>8
<1>10. ASSUME NEW k \in DOMAIN list, first <= list[k].at, list[k].at <= last
       PROVE  i <= k /\ k <= j
  <2>1. k < i => list[k].at <= first
    BY <1>9 DEF EventList
  <2>2. j < k => last <= list[k].at
    BY <1>9 DEF EventList
  <2>3. ~(k < i)
    <3> SUFFICES ASSUME k < i PROVE FALSE
      OBVIOUS
    <3>1. list[k].at = first
      BY <1>4, <1>6, <1>10, <2>1
    <3>2. i <= k
      BY <1>7, <3>1
    <3> QED BY <1>3, <1>9, <3>2
  <2>4. ~(j < k)
    <3> SUFFICES ASSUME j < k PROVE FALSE
      OBVIOUS
    <3>1. list[k].at = last
      BY <1>4, <1>6, <1>10, <2>2
    <3>2. k <= j
      BY <1>8, <3>1
    <3> QED BY <1>3, <1>9, <3>2
  <2> QED BY <1>3, <1>9, <2>3, <2>4
<1>11. i <= j
  <2>1. first <= list[i].at /\ list[i].at <= last
    BY <1>2, <1>6, <1>9
  <2> QED BY <1>9, <1>10, <2>1
<1>12. OffsetOf(last) - OffsetOf(first) <= distance
  <2>1. OffsetOf(last) - OffsetOf(first) = last - first
    BY <1>2, <1>6, ColumnsAscend
  <2> QED BY <1>2, <2>1
<1>13. ASSUME NEW t \in T PROVE needed[t] <= Cardinality(Span(list, t, i, j))
  <2> DEFINE size == Cardinality(Inside(positions[t], first, last))
             span == Cardinality(Span(list, t, i, j))
  <2>1. size \in Nat /\ span \in Nat
    BY <1>9, SpanInside
  <2>2. size <= span
    BY <1>2, <1>9, <1>10, SpanInside
  <2>3. needed[t] <= size /\ needed[t] \in Nat
    BY <1>2
  <2> HIDE DEF size, span
  <2> QED BY <2>1, <2>2, <2>3 DEF span
<1> HIDE DEF I, J
<1>14. Meets(list, needed, distance, i, j)
  BY <1>1, <1>2, <1>9, <1>11, <1>12, <1>13 DEF Meets
<1> QED BY <1>9, <1>14

-----------------------------------------------------------------------------
(* The sliding window.                                                     *)

\* The terms that are counted often enough.
Enough(needed, n) == {t \in DOMAIN needed : n[t] >= needed[t]}

\* The count changes by one, or not at all.
CountsTo(next, changes, count, by) == next = IF changes THEN count + by ELSE count

LEMMA CountedOnce ==
  ASSUME NEW T, IsFiniteSet(T), NEW needed \in [T -> Nat \ {0}], NEW n \in [T -> Nat],
         NEW u \in T, NEW more, more = [n EXCEPT ![u] = @ + 1]
  PROVE  CountsTo(Cardinality(Enough(needed, more)), more[u] = needed[u],
                  Cardinality(Enough(needed, n)), 1)
<1>1. IsFiniteSet(Enough(needed, n))
  <2>1. Enough(needed, n) \in SUBSET T
    BY DEF Enough
  <2> QED BY <2>1, FS_Subset
<1>2. more[u] = n[u] + 1 /\ \A t \in T \ {u} : more[t] = n[t]
  OBVIOUS
<1>3. \A t \in T : n[t] \in Nat /\ needed[t] \in Nat
  OBVIOUS
<1>4. CASE more[u] = needed[u]
  <2>1. u \notin Enough(needed, n) /\ Enough(needed, more) = Enough(needed, n) \cup {u}
    BY <1>2, <1>3, <1>4 DEF Enough
  <2>2. Cardinality(Enough(needed, more)) = Cardinality(Enough(needed, n)) + 1
    BY <1>1, <2>1, FS_AddElement
  <2> QED BY <1>4, <2>2 DEF CountsTo
<1>5. CASE more[u] # needed[u]
  <2>1. Enough(needed, more) = Enough(needed, n)
    BY <1>2, <1>3, <1>5 DEF Enough
  <2> QED BY <1>5, <2>1 DEF CountsTo
<1> QED BY <1>4, <1>5

LEMMA CountedLess ==
  ASSUME NEW T, IsFiniteSet(T), NEW needed \in [T -> Nat \ {0}], NEW n \in [T -> Nat],
         NEW u \in T, NEW less, less = [n EXCEPT ![u] = @ - 1]
  PROVE  CountsTo(Cardinality(Enough(needed, less)), n[u] = needed[u],
                  Cardinality(Enough(needed, n)), -1)
<1>1. IsFiniteSet(Enough(needed, n))
  <2>1. Enough(needed, n) \in SUBSET T
    BY DEF Enough
  <2> QED BY <2>1, FS_Subset
<1>2. less[u] = n[u] - 1 /\ \A t \in T \ {u} : less[t] = n[t]
  OBVIOUS
<1>3. \A t \in T : n[t] \in Nat /\ needed[t] \in Nat
  OBVIOUS
<1>4. CASE n[u] = needed[u]
  <2>1. u \in Enough(needed, n) /\ Enough(needed, less) = Enough(needed, n) \ {u}
    BY <1>2, <1>3, <1>4 DEF Enough
  <2>2. Cardinality(Enough(needed, less)) = Cardinality(Enough(needed, n)) - 1
    BY <1>1, <2>1, FS_RemoveElement
  <2>3. Cardinality(Enough(needed, n)) \in Nat
    BY <1>1, FS_CardinalityType
  <2> QED BY <1>4, <2>2, <2>3 DEF CountsTo
<1>5. CASE n[u] # needed[u]
  <2>1. Enough(needed, less) = Enough(needed, n)
    BY <1>2, <1>3, <1>5 DEF Enough
  <2> QED BY <1>5, <2>1 DEF CountsTo
<1> QED BY <1>4, <1>5

\* The events of each term from l to r.
Sizes(list, T, l, r) == [t \in T |-> Cardinality(Span(list, t, l, r))]

\* One event more at the right end.
LEMMA SizesGrow ==
  ASSUME NEW list, NEW T, NEW l \in Nat, NEW r \in Nat, l <= r, list[r].term \in T
  PROVE  /\ Sizes(list, T, l, r - 1) \in [T -> Nat]
         /\ Sizes(list, T, l, r) =
              [Sizes(list, T, l, r - 1) EXCEPT ![list[r].term] = @ + 1]
<1>1. ASSUME NEW t \in T
      PROVE  /\ Cardinality(Span(list, t, l, r - 1)) \in Nat
             /\ Cardinality(Span(list, t, l, r)) =
                  IF t = list[r].term THEN Cardinality(Span(list, t, l, r - 1)) + 1
                  ELSE Cardinality(Span(list, t, l, r - 1))
  <2> DEFINE S == Span(list, t, l, r - 1)
  <2>1. IsFiniteSet(S)
    <3>1. IsFiniteSet(l..(r - 1)) /\ S \in SUBSET (l..(r - 1))
      BY FS_Interval DEF Span
    <3> HIDE DEF S
    <3> QED BY <3>1, FS_Subset
  <2>2. r \notin S
    BY DEF Span
  <2>3. CASE t = list[r].term
    <3>1. Span(list, t, l, r) = S \cup {r}
      BY <2>3 DEF Span
    <3> HIDE DEF S
    <3>2. Cardinality(Span(list, t, l, r)) = Cardinality(S) + 1
      BY <2>1, <2>2, <3>1, FS_AddElement
    <3>3. Cardinality(S) \in Nat
      BY <2>1, FS_CardinalityType
    <3> QED BY <2>3, <3>2, <3>3 DEF S
  <2>4. CASE t # list[r].term
    <3>1. Span(list, t, l, r) = S
      BY <2>4 DEF Span
    <3> QED BY <2>1, <2>4, <3>1, FS_CardinalityType
  <2> QED BY <2>3, <2>4
<1> QED BY <1>1 DEF Sizes

\* One event less at the left end.
LEMMA SizesShrink ==
  ASSUME NEW list, NEW T, NEW l \in Nat, NEW r \in Nat, l <= r, list[l].term \in T
  PROVE  /\ Sizes(list, T, l, r) \in [T -> Nat]
         /\ Sizes(list, T, l + 1, r) =
              [Sizes(list, T, l, r) EXCEPT ![list[l].term] = @ - 1]
<1>1. ASSUME NEW t \in T
      PROVE  /\ Cardinality(Span(list, t, l, r)) \in Nat
             /\ Cardinality(Span(list, t, l + 1, r)) =
                  IF t = list[l].term THEN Cardinality(Span(list, t, l, r)) - 1
                  ELSE Cardinality(Span(list, t, l, r))
  <2> DEFINE S == Span(list, t, l, r)
  <2>1. IsFiniteSet(S)
    <3>1. IsFiniteSet(l..r) /\ S \in SUBSET (l..r)
      BY FS_Interval DEF Span
    <3> HIDE DEF S
    <3> QED BY <3>1, FS_Subset
  <2>2. CASE t = list[l].term
    <3>1. l \in S /\ Span(list, t, l + 1, r) = S \ {l}
      BY <2>2 DEF Span
    <3> HIDE DEF S
    <3>2. Cardinality(Span(list, t, l + 1, r)) = Cardinality(S) - 1
      BY <2>1, <3>1, FS_RemoveElement
    <3>3. Cardinality(S) \in Nat
      BY <2>1, FS_CardinalityType
    <3> QED BY <2>2, <3>2, <3>3 DEF S
  <2>3. CASE t # list[l].term
    <3>1. Span(list, t, l + 1, r) = S
      BY <2>3 DEF Span
    <3> QED BY <2>1, <2>3, <3>1, FS_CardinalityType
  <2> QED BY <2>2, <2>3
<1> QED BY <1>1 DEF Sizes

\* A longer window has no term less often.
LEMMA SpanWithin ==
  ASSUME NEW list, NEW t, NEW l \in Nat, NEW r \in Nat, NEW i \in Nat, NEW j \in Nat,
         l <= i, j <= r
  PROVE  /\ Cardinality(Span(list, t, i, j)) \in Nat
         /\ Cardinality(Span(list, t, l, r)) \in Nat
         /\ Cardinality(Span(list, t, i, j)) <= Cardinality(Span(list, t, l, r))
<1>1. IsFiniteSet(l..r) /\ Span(list, t, l, r) \in SUBSET (l..r)
  BY FS_Interval DEF Span
<1>2. IsFiniteSet(Span(list, t, l, r))
  BY <1>1, FS_Subset
<1>3. Span(list, t, i, j) \in SUBSET Span(list, t, l, r)
  BY DEF Span
<1> QED BY <1>2, <1>3, FS_Subset, FS_CardinalityType

LEMMA NeededAre ==
  ASSUME NEW q, q.near \in Seq(Terms)
  PROVE  /\ IsFiniteSet(TermsOf(q))
         /\ [t \in TermsOf(q) |-> NeedOf(q, t)] \in [TermsOf(q) -> Nat \ {0}]
         /\ q.near = <<>> <=> TermsOf(q) = {}
<1>1. IsFiniteSet(TermsOf(q)) /\ IsFiniteSet(DOMAIN q.near)
  BY ToSetIs DEF TermsOf
<1>2. ASSUME NEW t \in TermsOf(q) PROVE NeedOf(q, t) \in Nat \ {0}
  <2> DEFINE S == {i \in DOMAIN q.near : q.near[i] = t}
  <2>1. S # {} /\ S \in SUBSET DOMAIN q.near
    BY ToSetIs DEF TermsOf
  <2>2. NeedOf(q, t) = Cardinality(S)
    BY DEF NeedOf
  <2> HIDE DEF S
  <2>3. IsFiniteSet(S) /\ Cardinality(S) \in Nat /\ Cardinality(S) # 0
    BY <1>1, <2>1, FS_Subset, FS_CardinalityType, FS_EmptySet
  <2> QED BY <2>2, <2>3
<1>3. q.near = <<>> <=> TermsOf(q) = {}
  <2>1. q.near # <<>> => 1 \in DOMAIN q.near
    OBVIOUS
  <2>2. q.near = <<>> => DOMAIN q.near = {}
    OBVIOUS
  <2> QED BY <2>1, <2>2 DEF TermsOf, ToSet
<1> QED BY <1>1, <1>2, <1>3

\* The window and its counts.  While the question is open, no two events that
\* meet the query lie behind the left end, and none before the last position
\* that was taken.
Sliding ==
  /\ query \in Queries
  /\ found \in [NearTerms -> Seq(Nat)]
  /\ EventList(events, found, NearTerms, column)
  /\ left \in Nat \ {0} /\ right \in Nat
  /\ left <= right /\ right <= Len(events) + 1
  /\ counts = Sizes(events, NearTerms, left, right - 1)
  /\ covered = Cardinality(Enough(Needed, counts))
  /\ answer = "open" =>
       /\ NearTerms # {}
       /\ \A i, j \in DOMAIN events : Meets(events, Needed, query.distance, i, j) =>
            left <= i /\ right - 1 <= j
  /\ answer # "open" => AnswerIsNear

NearInv ==
  /\ answer \in {"none", "open", "yes", "no"}
  /\ answer = "open" => query.op = "near"
  /\ answer = "none" => left = 1 /\ right = 1 /\ covered = 0
  /\ answer # "none" /\ query.op = "near" => Sliding

\* What is known of the query.
LEMMA AskedIs ==
  ASSUME query \in Queries, query.op = "near"
  PROVE  /\ query.near \in Seq(Terms) /\ query.distance \in Nat
         /\ IsFiniteSet(NearTerms) /\ Needed \in [NearTerms -> Nat \ {0}]
         /\ Needed \in [NearTerms -> Nat]
         /\ query.near = <<>> <=> NearTerms = {}
<1>1. query.near \in Seq(Terms) /\ query.distance \in Nat
  BY QueryAssumption
<1>2. /\ IsFiniteSet(NearTerms) /\ Needed \in [NearTerms -> Nat \ {0}]
      /\ query.near = <<>> <=> NearTerms = {}
  BY <1>1, NeededAre DEF NearTerms, Needed
<1>3. Needed \in [NearTerms -> Nat]
  BY <1>2
<1> QED BY <1>1, <1>2, <1>3

\* What the invariant says of a window.
LEMMA WindowIs ==
  ASSUME Sliding, query.op = "near"
  PROVE  /\ \A t \in NearTerms : counts[t] = Cardinality(Span(events, t, left, right - 1))
         /\ counts \in [NearTerms -> Nat]
         /\ DOMAIN events = 1..Len(events) /\ Len(events) \in Nat
         /\ \A k \in DOMAIN events : events[k].term \in NearTerms /\ events[k].at \in Nat
         /\ AllCovered <=> \A t \in NearTerms : Needed[t] <= counts[t]
<1>1. \A t \in NearTerms : counts[t] = Cardinality(Span(events, t, left, right - 1))
  BY DEF Sliding, Sizes
<1>2. DOMAIN events = 1..Len(events) /\ Len(events) \in Nat
  BY DEF Sliding, EventList
<1>3. \A k \in DOMAIN events : events[k].term \in NearTerms /\ events[k].at \in Nat
  <2> SUFFICES ASSUME NEW k \in DOMAIN events
               PROVE  events[k].term \in NearTerms /\ events[k].at \in Nat
    OBVIOUS
  <2>1. events[k] \in EventsFrom(found, NearTerms, column)
    BY DEF Sliding, EventList
  <2> QED BY <2>1 DEF EventsFrom
<1>4. counts \in [NearTerms -> Nat]
  <2>1. ASSUME NEW t \in NearTerms
        PROVE  Cardinality(Span(events, t, left, right - 1)) \in Nat
    <3>1. left \in Nat /\ right - 1 \in Nat
      BY DEF Sliding
    <3> QED BY <3>1, SpanWithin
  <2> QED BY <2>1 DEF Sliding, Sizes
<1>5. AllCovered <=> \A t \in NearTerms : Needed[t] <= counts[t]
  <2>1. /\ IsFiniteSet(NearTerms) /\ Needed \in [NearTerms -> Nat]
        /\ covered = Cardinality(Enough(Needed, counts))
    BY AskedIs DEF Sliding
  <2>2. Enough(Needed, counts) \in SUBSET NearTerms
    BY <2>1 DEF Enough
  <2>3. AllCovered <=> Enough(Needed, counts) = NearTerms
    BY <2>1, <2>2, FS_Subset DEF AllCovered
  <2>4. Enough(Needed, counts) = NearTerms <=> \A t \in NearTerms : counts[t] >= Needed[t]
    BY <2>1 DEF Enough
  <2>5. \A t \in NearTerms : counts[t] >= Needed[t] <=> Needed[t] <= counts[t]
    BY <1>4, <2>1
  <2> QED BY <2>3, <2>4, <2>5
<1> QED BY <1>1, <1>2, <1>3, <1>4, <1>5

\* A window that has all terms has more than none.
LEMMA CoveredHasEvents ==
  ASSUME Sliding, query.op = "near", answer = "open", AllCovered
  PROVE  left < right /\ left \in DOMAIN events /\ right - 1 \in DOMAIN events
<1>1. left \in Nat \ {0} /\ right \in Nat /\ left <= right /\ right <= Len(events) + 1
  BY DEF Sliding
<1>2. ASSUME left = right PROVE FALSE
  <2>1. PICK t \in NearTerms : TRUE
    BY DEF Sliding
  <2>2. Span(events, t, left, right - 1) = {}
    BY <1>1, <1>2 DEF Span
  <2>3. counts[t] = 0
    BY <2>2, WindowIs, FS_EmptySet
  <2>4. Needed[t] \in Nat \ {0} /\ Needed[t] <= counts[t]
    BY WindowIs, AskedIs DEF Sliding
  <2> QED BY <2>3, <2>4
<1> QED BY <1>1, <1>2, WindowIs

\* Events that meet the query within the window are a window with all terms.
LEMMA MeetsCovers ==
  ASSUME Sliding, query.op = "near", NEW i \in DOMAIN events, NEW j \in DOMAIN events,
         Meets(events, Needed, query.distance, i, j), left <= i, j <= right - 1
  PROVE  AllCovered
<1>1. ASSUME NEW t \in NearTerms PROVE Needed[t] <= counts[t]
  <2> DEFINE inner == Cardinality(Span(events, t, i, j))
             outer == Cardinality(Span(events, t, left, right - 1))
  <2>1. Needed \in [NearTerms -> Nat]
    BY AskedIs DEF Sliding
  <2>2. Needed[t] <= inner /\ Needed[t] \in Nat
    BY <2>1 DEF Meets
  <2>3. left \in Nat /\ right - 1 \in Nat /\ i \in Nat /\ j \in Nat
    BY WindowIs DEF Sliding
  <2>4. inner \in Nat /\ outer \in Nat /\ inner <= outer
    BY <2>3, SpanWithin
  <2>5. counts[t] = outer
    BY WindowIs
  <2> HIDE DEF inner, outer
  <2> QED BY <2>2, <2>4, <2>5
<1> QED BY <1>1, WindowIs

\* What a step of the window leaves alone.
LEMMA SameQuestion ==
  ASSUME UNCHANGED asked
  PROVE  /\ query' = query /\ found' = found /\ column' = column /\ events' = events
         /\ NearTerms' = NearTerms /\ Needed' = Needed
BY DEF asked, NearTerms, Needed

\* The right end takes a position: no two events that meet the query end with
\* it or before it, for the window with them would have had all terms.
LEMMA TakeSlides ==
  ASSUME Sliding, query.op = "near", Take
  PROVE  Sliding'
<1> DEFINE t == events[right].term
           n == Sizes(events, NearTerms, left, right - 1)
<1>1. /\ query' = query /\ found' = found /\ column' = column /\ events' = events
      /\ NearTerms' = NearTerms /\ Needed' = Needed
  BY SameQuestion DEF Take
<1>2. /\ answer = "open" /\ ~AllCovered /\ right <= Len(events)
      /\ counts' = [counts EXCEPT ![t] = @ + 1]
      /\ covered' = IF counts'[t] = Needed[t] THEN covered + 1 ELSE covered
      /\ right' = right + 1 /\ left' = left /\ answer' = answer
  BY DEF Take
<1>3. /\ left \in Nat \ {0} /\ right \in Nat /\ left <= right
      /\ counts = n /\ covered = Cardinality(Enough(Needed, counts))
  BY DEF Sliding
<1>4. right \in DOMAIN events /\ t \in NearTerms
  BY <1>2, <1>3, WindowIs
<1>5. counts' = Sizes(events, NearTerms, left, right' - 1)
  <2>1. Sizes(events, NearTerms, left, right) = [n EXCEPT ![t] = @ + 1]
    <3>1. left \in Nat /\ right \in Nat /\ left <= right
      BY <1>3
    <3>2. t \in NearTerms
      BY <1>4
    <3>3. Sizes(events, NearTerms, left, right) =
            [Sizes(events, NearTerms, left, right - 1) EXCEPT ![events[right].term] = @ + 1]
      BY ONLY <3>1, <3>2, SizesGrow
    <3> QED BY <3>3
  <2>2. right' - 1 = right
    BY <1>2, <1>3
  <2> QED BY <1>2, <1>3, <2>1, <2>2
<1>6. covered' = Cardinality(Enough(Needed, counts'))
  <2>1. counts \in [NearTerms -> Nat]
    BY WindowIs
  <2>2. IsFiniteSet(NearTerms) /\ Needed \in [NearTerms -> Nat \ {0}]
    BY AskedIs DEF Sliding
  <2> DEFINE more == [counts EXCEPT ![t] = @ + 1]
  <2>3. Cardinality(Enough(Needed, more)) =
          IF more[t] = Needed[t] THEN Cardinality(Enough(Needed, counts)) + 1
          ELSE Cardinality(Enough(Needed, counts))
    <3>1. t \in NearTerms
      BY <1>4
    <3> HIDE DEF t
    <3>2. more = [counts EXCEPT ![t] = @ + 1]
      OBVIOUS
    <3> HIDE DEF more
    <3>3. CountsTo(Cardinality(Enough(Needed, more)), more[t] = Needed[t],
                   Cardinality(Enough(Needed, counts)), 1)
      BY <2>1, <2>2, <3>1, <3>2, CountedOnce
    <3>4. Cardinality(Enough(Needed, counts)) \in Nat
      <4>1. Enough(Needed, counts) \in SUBSET NearTerms
        BY <2>2 DEF Enough
      <4> QED BY <2>2, <4>1, FS_Subset, FS_CardinalityType
    <3> QED BY <3>3, <3>4 DEF CountsTo
  <2> QED BY <1>2, <1>3, <2>3
<1>7. ASSUME NEW i \in DOMAIN events, NEW j \in DOMAIN events,
             Meets(events, Needed, query.distance, i, j)
      PROVE  left <= i /\ right <= j
  <2>1. left <= i /\ right - 1 <= j
    BY <1>2, <1>7 DEF Sliding
  <2>2. ~(j <= right - 1)
    BY <1>2, <1>7, <2>1, MeetsCovers
  <2> QED BY <1>3, <2>1, <2>2, WindowIs
<1>8. right' - 1 = right
  BY <1>2, <1>3
<1>9. answer' = "open" =>
        /\ NearTerms' # {}
        /\ \A i, j \in DOMAIN events' : Meets(events', Needed', query'.distance, i, j) =>
             left' <= i /\ right' - 1 <= j
  <2>1. NearTerms # {}
    BY <1>2 DEF Sliding
  <2> QED BY <1>1, <1>2, <1>7, <1>8, <2>1
<1>10. left' <= right' /\ right' <= Len(events') + 1 /\ right' \in Nat
  BY <1>1, <1>2, <1>3, WindowIs
<1> HIDE DEF t, n
<1> QED BY <1>1, <1>2, <1>3, <1>5, <1>6, <1>9, <1>10 DEF Sliding

\* The left end gives up a position: where events from it on met the query, the
\* window with all terms, which does not reach further, would meet it.
LEMMA GiveUpSlides ==
  ASSUME Sliding, query.op = "near", GiveUp
  PROVE  Sliding'
<1> DEFINE t == events[left].term
           n == Sizes(events, NearTerms, left, right - 1)
<1>1. /\ query' = query /\ found' = found /\ column' = column /\ events' = events
      /\ NearTerms' = NearTerms /\ Needed' = Needed
  BY SameQuestion DEF GiveUp
<1>2. /\ answer = "open" /\ AllCovered /\ ~Close
      /\ covered' = IF counts[t] = Needed[t] THEN covered - 1 ELSE covered
      /\ counts' = [counts EXCEPT ![t] = @ - 1]
      /\ left' = left + 1 /\ right' = right /\ answer' = answer
  BY DEF GiveUp
<1>3. /\ left \in Nat \ {0} /\ right \in Nat /\ left <= right /\ right <= Len(events) + 1
      /\ counts = n /\ covered = Cardinality(Enough(Needed, counts))
  BY DEF Sliding
<1>4. /\ left < right /\ left \in DOMAIN events /\ right - 1 \in DOMAIN events
      /\ t \in NearTerms
  BY <1>2, CoveredHasEvents, WindowIs
<1>5. counts' = Sizes(events, NearTerms, left + 1, right - 1)
  <2>1. Sizes(events, NearTerms, left + 1, right - 1) = [n EXCEPT ![t] = @ - 1]
    <3>1. right - 1 \in Nat /\ left \in Nat /\ left <= right - 1
      BY <1>3, <1>4
    <3> QED BY <1>4, <3>1, SizesShrink
  <2> QED BY <1>2, <1>3, <2>1
<1>6. covered' = Cardinality(Enough(Needed, counts'))
  <2>1. counts \in [NearTerms -> Nat]
    BY WindowIs
  <2>2. IsFiniteSet(NearTerms) /\ Needed \in [NearTerms -> Nat \ {0}]
    BY AskedIs DEF Sliding
  <2> DEFINE less == [counts EXCEPT ![t] = @ - 1]
  <2>3. Cardinality(Enough(Needed, less)) =
          IF counts[t] = Needed[t] THEN Cardinality(Enough(Needed, counts)) - 1
          ELSE Cardinality(Enough(Needed, counts))
    <3>1. t \in NearTerms
      BY <1>4
    <3> HIDE DEF t
    <3>2. less = [counts EXCEPT ![t] = @ - 1]
      OBVIOUS
    <3> HIDE DEF less
    <3>3. CountsTo(Cardinality(Enough(Needed, less)), counts[t] = Needed[t],
                   Cardinality(Enough(Needed, counts)), -1)
      BY <2>1, <2>2, <3>1, <3>2, CountedLess
    <3>4. Cardinality(Enough(Needed, counts)) \in Nat
      <4>1. Enough(Needed, counts) \in SUBSET NearTerms
        BY <2>2 DEF Enough
      <4> QED BY <2>2, <4>1, FS_Subset, FS_CardinalityType
    <3> QED BY <3>3, <3>4 DEF CountsTo
  <2> QED BY <1>2, <1>3, <2>3
<1>7. ASSUME NEW i \in DOMAIN events, NEW j \in DOMAIN events,
             Meets(events, Needed, query.distance, i, j)
      PROVE  left + 1 <= i /\ right - 1 <= j
  <2>1. left <= i /\ right - 1 <= j
    BY <1>2, <1>7 DEF Sliding
  <2>2. i # left
    <3> SUFFICES ASSUME i = left PROVE FALSE
      OBVIOUS
    <3> DEFINE first == events[left].at
               last  == events[right - 1].at
               other == events[j].at
    <3>1. first \in Nat /\ last \in Nat /\ other \in Nat
      BY <1>4, WindowIs
    <3>2. first <= last
      <4>1. left = right - 1 \/ left < right - 1
        BY <1>3, <1>4
      <4> QED BY <1>4, <3>1, <4>1 DEF Sliding, EventList
    <3>3. last <= other
      <4>1. right - 1 = j \/ right - 1 < j
        BY <1>3, <2>1, WindowIs
      <4> QED BY <1>4, <3>1, <4>1 DEF Sliding, EventList
    <3>4. ColumnOf(first) = ColumnOf(other)
          /\ OffsetOf(other) - OffsetOf(first) <= query.distance
      BY <1>7 DEF Meets
    <3>5. query.distance \in Nat
      BY AskedIs DEF Sliding
    <3> HIDE DEF first, last, other
    <3>6. ColumnOf(first) = ColumnOf(last)
      <4>1. /\ ColumnOf(first) <= ColumnOf(last) /\ ColumnOf(last) <= ColumnOf(other)
            /\ ColumnOf(first) \in Nat /\ ColumnOf(last) \in Nat
        BY <3>1, <3>2, <3>3, ColumnsAscend, ColumnsAre
      <4> QED BY <3>4, <4>1
    <3>7. OffsetOf(last) - OffsetOf(first) <= query.distance
      <4>1. OffsetOf(last) - OffsetOf(first) = last - first
        BY <3>1, <3>2, <3>6, ColumnsAscend
      <4>2. first <= other
        BY <3>1, <3>2, <3>3
      <4>3. OffsetOf(other) - OffsetOf(first) = other - first
        BY <3>1, <3>4, <4>2, ColumnsAscend
      <4> QED BY <3>1, <3>3, <3>4, <3>5, <4>1, <4>3
    <3>8. Close
      BY <3>6, <3>7 DEF Close, first, last
    <3> QED BY <1>2, <3>8
  <2> QED BY <1>3, <2>1, <2>2, WindowIs
<1>8. answer' = "open" =>
        /\ NearTerms' # {}
        /\ \A i, j \in DOMAIN events' : Meets(events', Needed', query'.distance, i, j) =>
             left' <= i /\ right' - 1 <= j
  <2>1. NearTerms # {}
    BY <1>2 DEF Sliding
  <2> QED BY <1>1, <1>2, <1>7, <2>1
<1>9. left' <= right' /\ right' <= Len(events') + 1 /\ left' \in Nat \ {0}
  BY <1>1, <1>2, <1>3, <1>4
<1> HIDE DEF t, n
<1> QED BY <1>1, <1>2, <1>3, <1>5, <1>6, <1>8, <1>9 DEF Sliding

\* A window that is accepted meets the query.
LEMMA AcceptIsNear ==
  ASSUME Sliding, query.op = "near", Accept
  PROVE  Sliding'
<1>1. /\ query' = query /\ found' = found /\ column' = column /\ events' = events
      /\ NearTerms' = NearTerms /\ Needed' = Needed
  BY SameQuestion DEF Accept
<1>2. /\ answer = "open" /\ AllCovered /\ Close /\ answer' = "yes"
      /\ left' = left /\ right' = right /\ counts' = counts /\ covered' = covered
  BY DEF Accept
<1>3. left < right /\ left \in DOMAIN events /\ right - 1 \in DOMAIN events
  BY <1>2, CoveredHasEvents
<1>4. Meets(events, Needed, query.distance, left, right - 1)
  <2>1. left <= right - 1
    BY <1>3 DEF Sliding
  <2>2. \A t \in NearTerms : Needed[t] <= Cardinality(Span(events, t, left, right - 1))
    BY <1>2, WindowIs
  <2>3. DOMAIN Needed = NearTerms
    BY DEF Needed
  <2> QED BY <1>2, <2>1, <2>2, <2>3 DEF Meets, Close
<1>5. NearMatches(found, Needed, query.distance, column)
  <2>1. Needed \in [NearTerms -> Nat] /\ query.distance \in Nat
    BY AskedIs DEF Sliding
  <2>2. found \in [NearTerms -> Seq(Nat)] /\ EventList(events, found, NearTerms, column)
    BY DEF Sliding
  <2> QED BY <1>3, <1>4, <2>1, <2>2, MeetsIsNear
<1>6. query.near # <<>>
  BY <1>2, AskedIs DEF Sliding
<1>7. AnswerIsNear'
  BY <1>1, <1>2, <1>5, <1>6 DEF AnswerIsNear
<1> QED BY <1>1, <1>2, <1>7 DEF Sliding

\* Where no position is left and the window has not all terms, nothing meets
\* the query.
LEMMA NoneLeftIsNear ==
  ASSUME Sliding, query.op = "near", NoneLeft
  PROVE  Sliding'
<1>1. /\ query' = query /\ found' = found /\ column' = column /\ events' = events
      /\ NearTerms' = NearTerms /\ Needed' = Needed
  BY SameQuestion DEF NoneLeft
<1>2. /\ answer = "open" /\ ~AllCovered /\ right > Len(events) /\ answer' = "no"
      /\ left' = left /\ right' = right /\ counts' = counts /\ covered' = covered
  BY DEF NoneLeft
<1>3. ASSUME NEW i \in DOMAIN events, NEW j \in DOMAIN events
      PROVE  ~Meets(events, Needed, query.distance, i, j)
  <2>1. Meets(events, Needed, query.distance, i, j) => left <= i
    BY <1>2 DEF Sliding
  <2>2. j <= right - 1
    BY <1>2, WindowIs DEF Sliding
  <2> QED BY <1>2, <2>1, <2>2, MeetsCovers
<1>4. ~NearMatches(found, Needed, query.distance, column)
  <2>1. Needed \in [NearTerms -> Nat] /\ query.distance \in Nat
    BY AskedIs DEF Sliding
  <2>2. found \in [NearTerms -> Seq(Nat)] /\ EventList(events, found, NearTerms, column)
    BY DEF Sliding
  <2> QED BY <1>3, <2>1, <2>2, NearIsMet
<1>5. AnswerIsNear'
  BY <1>1, <1>2, <1>4 DEF AnswerIsNear
<1> QED BY <1>1, <1>2, <1>5 DEF Sliding

-----------------------------------------------------------------------------
(* The text.                                                               *)

Spelt == Seq(Letters \cup Cjk)
Token == [term : Spelt, position : Nat]

\* What the loop of tokenize_fields keeps.
Reading ==
  /\ text \in Seq(Seq(Characters))
  /\ field \in Nat \ {0} /\ at \in Nat \ {0}
  /\ word \in Seq(Letters) /\ cjk \in Seq(Cjk)
  /\ offset \in Nat /\ total \in Nat
  /\ tokens \in Seq(Token)

\* The segment has a sequence of positions for each term.
Listing == segment # <<>> => \A t \in Terms : TermPositions(segment, 0, t) \in Seq(Nat)

LEMMA NormalizedIs ==
  ASSUME NEW t \in Spelt
  PROVE  normalize_term(t) \in Spelt /\ Len(normalize_term(t)) = Len(t)
<1> USE DEF Spelt
<1>1. \A i \in 1..Len(t) :
        (IF t[i] \in Letters THEN Lower[t[i]] ELSE t[i]) \in Letters \cup Cjk
  BY CharacterAssumption
<1>2. normalize_term(t) \in [1..Len(t) -> Letters \cup Cjk] /\ Len(t) \in Nat
  BY <1>1 DEF normalize_term
<1> QED BY <1>2

\* Sequences of one element, of several, and of two sequences.
LEMMA SequencesOf ==
  ASSUME NEW X
  PROVE  /\ <<>> \in Seq(X)
         /\ \A x \in X : <<x>> \in Seq(X) /\ \A s \in Seq(X) : Append(s, x) \in Seq(X)
         /\ \A n \in Nat : \A f \in [1..n -> X] : f \in Seq(X) /\ Len(f) = n
         /\ \A s, u \in Seq(X) : s \o u \in Seq(X) /\ Len(s \o u) = Len(s) + Len(u)
OBVIOUS

LEMMA FlushedTerms ==
  ASSUME word \in Seq(Letters), cjk \in Seq(Cjk)
  PROVE  WordTerms \in Seq(Spelt) /\ CjkTerms \in Seq(Spelt)
<1>1. WordTerms \in Seq(Spelt)
  <2>1. word \in Spelt
    BY DEF Spelt
  <2>2. normalize_term(word) \in Spelt
    BY <2>1, NormalizedIs
  <2> QED BY <2>2, SequencesOf DEF WordTerms
<1>2. CjkTerms \in Seq(Spelt)
  <2>1. cjk \in Spelt
    BY DEF Spelt
  <2>2. ASSUME NEW i \in 1..(Len(cjk) - 1)
        PROVE  <<cjk[i], cjk[i + 1]>> \in Spelt
    <3>1. cjk[i] \in Letters \cup Cjk /\ cjk[i + 1] \in Letters \cup Cjk
      BY <2>1 DEF Spelt
    <3> QED BY <3>1 DEF Spelt
  <2>3. cjk # <<>> => Len(cjk) - 1 \in Nat
    OBVIOUS
  <2>4. cjk # <<>> => CjkPairs \in Seq(Spelt)
    <3> SUFFICES ASSUME cjk # <<>> PROVE CjkPairs \in Seq(Spelt)
      OBVIOUS
    <3>1. CjkPairs \in [1..(Len(cjk) - 1) -> Spelt]
      BY <2>2 DEF CjkPairs
    <3> QED BY <2>3, <3>1, SequencesOf
  <2>5. <<cjk>> \in Seq(Spelt) /\ <<>> \in Seq(Spelt)
    BY <2>1, SequencesOf
  <2> QED BY <2>4, <2>5 DEF CjkTerms
<1> QED BY <1>1, <1>2

LEMMA OccurrencesAre ==
  ASSUME NEW terms \in Seq(Spelt), field \in Nat \ {0}, offset \in Nat
  PROVE  Occurrences(terms) \in Seq(Token) /\ Len(Occurrences(terms)) = Len(terms)
<1>1. ASSUME NEW i \in DOMAIN terms
      PROVE  [term |-> terms[i],
              position |-> (field - 1) * ColumnSize + Smaller(offset + i - 1, ColumnSize - 1)]
             \in Token
  <2>1. (field - 1) * ColumnSize \in Nat
    BY IndexAssumption
  <2>2. Smaller(offset + i - 1, ColumnSize - 1) \in Nat
    BY IndexAssumption DEF Smaller
  <2>3. (field - 1) * ColumnSize + Smaller(offset + i - 1, ColumnSize - 1) \in Nat
    BY <2>1, <2>2
  <2> QED BY <2>3 DEF Token
<1>2. DOMAIN terms = 1..Len(terms) /\ Len(terms) \in Nat
  OBVIOUS
<1>3. Occurrences(terms) \in [1..Len(terms) -> Token]
  BY <1>1, <1>2 DEF Occurrences
<1> QED BY <1>2, <1>3, SequencesOf

LEMMA TokenizeReads ==
  ASSUME Reading, Tokenize
  PROVE  Reading'
<1>0. /\ field \in Nat \ {0} /\ at \in Nat \ {0}
      /\ word \in Seq(Letters) /\ cjk \in Seq(Cjk)
      /\ offset \in Nat /\ total \in Nat /\ tokens \in Seq(Token)
      /\ text \in Seq(Seq(Characters))
  BY DEF Reading
<1>1. /\ WordTerms \in Seq(Spelt) /\ CjkTerms \in Seq(Spelt)
      /\ CjkTerms \o WordTerms \in Seq(Spelt)
      /\ WordTerms \o CjkTerms \in Seq(Spelt)
  <2>1. WordTerms \in Seq(Spelt) /\ CjkTerms \in Seq(Spelt)
    BY <1>0, FlushedTerms
  <2> QED BY <2>1, SequencesOf
<1>2. ASSUME NEW terms \in Seq(Spelt)
      PROVE  tokens \o Occurrences(terms) \in Seq(Token) /\ offset + Len(terms) \in Nat
  <2>1. Occurrences(terms) \in Seq(Token) /\ Len(terms) \in Nat
    BY <1>0, OccurrencesAre
  <2> QED BY <1>0, <2>1, SequencesOf
<1>3. /\ text' = text /\ field' \in Nat \ {0} /\ at' \in Nat \ {0}
      /\ word' \in Seq(Letters) /\ cjk' \in Seq(Cjk) /\ offset' \in Nat
  <2>1. CASE CjkCharacter
    <3>1. /\ text' = text /\ field' = field /\ at' = at + 1 /\ text[field][at] \in Cjk
          /\ word' = <<>> /\ cjk' = Append(cjk, text[field][at])
          /\ offset' = offset + Len(WordTerms)
      BY <2>1 DEF CjkCharacter, Reads, Flush
    <3>2. cjk' \in Seq(Cjk) /\ word' \in Seq(Letters)
      BY <1>0, <3>1, SequencesOf
    <3> QED BY <1>0, <1>1, <1>2, <3>1, <3>2
  <2>2. CASE Letter
    <3>1. /\ text' = text /\ field' = field /\ at' = at + 1 /\ text[field][at] \in Letters
          /\ cjk' = <<>> /\ word' = Append(word, text[field][at])
          /\ offset' = offset + Len(CjkTerms)
      BY <2>2 DEF Letter, Reads, Flush
    <3>2. cjk' \in Seq(Cjk) /\ word' \in Seq(Letters)
      BY <1>0, <3>1, SequencesOf
    <3> QED BY <1>0, <1>1, <1>2, <3>1, <3>2
  <2>3. CASE Separator
    <3>1. /\ text' = text /\ field' = field /\ at' = at + 1
          /\ cjk' = <<>> /\ word' = <<>> /\ offset' = offset + Len(CjkTerms \o WordTerms)
      BY <2>3 DEF Separator, Reads, Flush
    <3> QED BY <1>0, <1>1, <1>2, <3>1, SequencesOf
  <2>4. CASE FieldEnds
    <3>1. /\ text' = text /\ field' = field + 1 /\ at' = 1
          /\ cjk' = <<>> /\ word' = <<>> /\ offset' = 0
      BY <2>4 DEF FieldEnds
    <3> QED BY <1>0, <3>1, SequencesOf
  <2> QED BY <2>1, <2>2, <2>3, <2>4 DEF Tokenize
<1>4. /\ tokens' \in Seq(Token) /\ total' \in Nat
  <2>1. CASE CjkCharacter
    BY <1>0, <1>1, <1>2, <2>1 DEF CjkCharacter, Reads, Flush
  <2>2. CASE Letter
    BY <1>0, <1>1, <1>2, <2>2 DEF Letter, Reads, Flush
  <2>3. CASE Separator
    BY <1>0, <1>1, <1>2, <2>3 DEF Separator, Reads, Flush
  <2>4. CASE FieldEnds
    <3>1. Len(WordTerms \o CjkTerms) \in Nat
      BY <1>1
    <3>2. /\ tokens' = tokens \o Occurrences(WordTerms \o CjkTerms)
          /\ total' = total + offset + Len(WordTerms \o CjkTerms)
      BY <2>4 DEF FieldEnds
    <3>3. total' \in Nat
      BY <1>0, <3>1, <3>2
    <3> QED BY <1>1, <1>2, <3>2, <3>3
  <2> QED BY <2>1, <2>2, <2>3, <2>4 DEF Tokenize
<1> QED BY <1>0, <1>3, <1>4 DEF Reading

\* The tokens of a term, by their positions.
LEMMA GroupsAre ==
  ASSUME tokens \in Seq(Token)
  PROVE  GroupPositions \in [Terms -> Seq(Nat)]
<1>1. ASSUME NEW t \in Terms, NEW nth,
             nth = Ascending({n \in DOMAIN tokens : tokens[n].term = t})
      PROVE  [i \in DOMAIN nth |-> tokens[nth[i]].position] \in Seq(Nat)
  <2> DEFINE S == {n \in DOMAIN tokens : tokens[n].term = t}
  <2>1. S \in SUBSET DOMAIN tokens /\ S \in SUBSET Int /\ IsFiniteSet(DOMAIN tokens)
    BY ToSetIs
  <2> HIDE DEF S
  <2>2. IsFiniteSet(S)
    BY <2>1, FS_Subset
  <2>3. nth \in Seq(S)
    BY <1>1, <2>1, <2>2, AscendingLists DEF S
  <2>4. \A i \in 1..Len(nth) : nth[i] \in DOMAIN tokens
    BY <2>1, <2>3
  <2>5. \A i \in 1..Len(nth) : tokens[nth[i]] \in Token
    BY <2>4
  <2>6. \A i \in 1..Len(nth) : tokens[nth[i]].position \in Nat
    BY <2>5 DEF Token
  <2>7. DOMAIN nth = 1..Len(nth) /\ Len(nth) \in Nat
    BY <2>3
  <2> QED BY <2>6, <2>7
<1> QED BY <1>1 DEF GroupPositions

\* The one document has its terms where they were grouped.
LEMMA BuiltIs ==
  ASSUME NEW grouped \in [Terms -> Seq(Nat)], NEW t \in Terms
  PROVE  TermPositions(BuiltFrom(grouped), 0, t) = grouped[t]
<1> DEFINE terms == {u \in Terms : grouped[u] # <<>>}
           doc == [row |-> 0, len |-> total, terms |-> terms]
           docs == <<doc>>
           posting == [n \in {0} |-> [u \in terms |->
                        [freq |-> Len(grouped[u]), positions |-> grouped[u]]]]
           built == SegmentOf(docs, posting)
<1>1. BuiltFrom(grouped) = built
  BY DEF BuiltFrom
<1>2. /\ docs \in Seq({doc}) /\ Len(docs) = 1 /\ DOMAIN docs = {1} /\ docs[1].terms = terms
      /\ Numbers(docs) = {0}
  BY DEF Numbers
<1>3. AllTerms(docs) = terms
  BY <1>2 DEF AllTerms
<1> HIDE DEF docs
<1>4. Having(docs, t) = IF t \in terms THEN {0} ELSE {}
  BY <1>2 DEF Having
<1>5. built = [docs |-> docs, terms |-> [u \in terms |-> Listed(docs, posting, u)]]
  BY <1>3, SegmentLists
<1>6. CASE t \in terms
  <2> DEFINE ids == Docids(docs, t)
             list == Listed(docs, posting, t)
             i == Find(list, 0)
  <2>1. /\ \E k \in DOMAIN ids : ids[k] = 0
        /\ \A k \in DOMAIN ids : ids[k] = 0
    <3>1. Having(docs, t) = {0} /\ docs \in Seq({doc})
      BY <1>2, <1>4, <1>6
    <3> HIDE DEF docs, terms, doc, posting
    <3>2. \A k \in DOMAIN ids : ids[k] \in Having(docs, t)
      BY <3>1, DocidsAre
    <3>3. \A n \in Having(docs, t) : \E k \in DOMAIN ids : ids[k] = n
      BY <3>1, DocidsAre
    <3> HIDE DEF ids
    <3> QED BY <3>1, <3>2, <3>3
  <2>2. built.terms[t] = list /\ t \in DOMAIN built.terms
    <3> HIDE DEF built, posting, terms
    <3>1. built.terms = [u \in terms |-> Listed(docs, posting, u)]
      BY <1>5
    <3> QED BY <1>6, <3>1
  <2> HIDE DEF ids, built
  <2>3. /\ list.docids = ids
        /\ list.positions = [k \in DOMAIN ids |-> posting[ids[k]][t].positions]
    BY DEF Listed, FinishBlocks, ids
  <2> HIDE DEF list
  <2>4. i \in DOMAIN ids /\ ids[i] = 0
    BY <2>1, <2>3 DEF Find
  <2>5. 0 \in ToSet(list.docids)
    BY <2>3, <2>4 DEF ToSet
  <2>6. posting[0][t].positions = grouped[t]
    BY <1>6
  <2> HIDE DEF posting, i
  <2>7. list.positions[i] = grouped[t]
    BY <2>3, <2>4, <2>6
  <2> QED BY <1>1, <2>2, <2>5, <2>7 DEF TermPositions, i
<1>7. CASE t \notin terms
  BY <1>1, <1>5, <1>7 DEF TermPositions
<1> QED BY <1>6, <1>7

-----------------------------------------------------------------------------
(* The invariant.                                                          *)

\* The question is put: the window is empty, and has no term often enough.
LEMMA AskSlides ==
  ASSUME NearInv, NEW q \in Queries, q.op = "near", NEW c,
         NEW positions \in [TermsOf(q) -> Seq(Nat)], Ask(positions, q, c)
  PROVE  NearInv'
<1> DEFINE T == TermsOf(q)
<1>1. /\ answer = "none" /\ found' = positions /\ query' = q /\ column' = c
      /\ events' = Events(positions, q, c) /\ counts' = [t \in T |-> 0]
      /\ answer' = IF q.near = <<>> \/ \E t \in T : positions[t] = <<>>
                   THEN "no" ELSE "open"
      /\ left' = 1 /\ right' = 1 /\ covered' = 0
  BY DEF Ask, NearInv
<1>2. NearTerms' = T /\ Needed' = [t \in T |-> NeedOf(q, t)]
  BY <1>1 DEF NearTerms, Needed
<1>3. /\ q.near \in Seq(Terms) /\ q.distance \in Nat
  BY QueryAssumption
<1>4. IsFiniteSet(T) /\ Needed' \in [T -> Nat \ {0}] /\ (q.near = <<>> <=> T = {})
  BY <1>2, <1>3, NeededAre
<1>5. EventList(events', positions, T, c)
  BY <1>1, <1>3, EventsAre
<1> HIDE DEF T
<1>6. counts' = Sizes(events', T, 1, 0)
  <2>1. ASSUME NEW t \in T PROVE Cardinality(Span(events', t, 1, 0)) = 0
    <3>1. Span(events', t, 1, 0) = {}
      BY DEF Span
    <3> QED BY <3>1, FS_EmptySet
  <2> QED BY <1>1, <2>1 DEF Sizes
<1>7. Cardinality(Enough(Needed', counts')) = 0
  <2>1. \A t \in T : counts'[t] = 0 /\ Needed'[t] \in Nat \ {0}
    BY <1>1, <1>4
  <2>2. DOMAIN Needed' = T
    BY <1>4
  <2>3. Enough(Needed', counts') = {}
    BY <2>1, <2>2 DEF Enough
  <2> QED BY <2>3, FS_EmptySet
<1>8. answer' = "open" =>
        /\ T # {}
        /\ \A i, j \in DOMAIN events' : Meets(events', Needed', query'.distance, i, j) =>
             left' <= i /\ right' - 1 <= j
  <2>1. DOMAIN events' = 1..Len(events') /\ Len(events') \in Nat
    BY <1>5 DEF EventList
  <2>2. answer' = "open" => T # {}
    BY <1>1, <1>4
  <2> QED BY <1>1, <2>1, <2>2
<1>9. answer' # "open" => AnswerIsNear'
  <2> SUFFICES ASSUME answer' # "open" PROVE AnswerIsNear'
    OBVIOUS
  <2>1. answer' = "no" /\ (q.near = <<>> \/ \E t \in T : positions[t] = <<>>)
    BY <1>1
  <2>2. ASSUME NEW t \in T, positions[t] = <<>>
        PROVE  ~NearMatches(positions, Needed', q.distance, c)
    <3>1. ASSUME NEW first, NEW last
          PROVE  ~(Needed'[t] <= Cardinality({n \in DOMAIN positions[t] :
                     first <= positions[t][n] /\ positions[t][n] <= last}))
      <4> DEFINE S == {n \in DOMAIN positions[t] :
                         first <= positions[t][n] /\ positions[t][n] <= last}
      <4>1. S = {}
        BY <2>2
      <4> HIDE DEF S
      <4>2. Cardinality(S) = 0 /\ Needed'[t] \in Nat \ {0}
        BY <1>4, <4>1, FS_EmptySet
      <4>3. ~(Needed'[t] <= Cardinality(S))
        BY <4>2
      <4> QED BY <4>3 DEF S
    <3>2. t \in DOMAIN Needed'
      BY <1>4
    <3> QED BY <3>1, <3>2 DEF NearMatches
  <2>3. ~(q.near # <<>> /\ NearMatches(positions, Needed', q.distance, c))
    BY <2>1, <2>2
  <2> QED BY <1>1, <2>1, <2>3 DEF AnswerIsNear
<1>10. Sliding'
  <2>1. left' \in Nat \ {0} /\ right' \in Nat /\ left' <= right' /\ right' <= Len(events') + 1
    <3>1. Len(events') \in Nat
      BY <1>5 DEF EventList
    <3> QED BY <1>1, <3>1
  <2>2. right' - 1 = 0
    BY <1>1
  <2>3. found' \in [T -> Seq(Nat)]
    BY <1>1 DEF T
  <2>4. /\ counts' = Sizes(events', NearTerms', left', right' - 1)
        /\ covered' = Cardinality(Enough(Needed', counts'))
    BY <1>1, <1>2, <1>6, <1>7, <2>2
  <2>5. EventList(events', found', NearTerms', column')
    BY <1>1, <1>2, <1>5
  <2> QED BY <1>1, <1>2, <1>8, <1>9, <2>1, <2>3, <2>4, <2>5 DEF Sliding
<1> QED BY <1>1, <1>10 DEF NearInv

LEMMA SlideKeeps ==
  ASSUME NearInv, Slide
  PROVE  NearInv'
<1>1. /\ answer = "open" /\ query.op = "near" /\ Sliding /\ query' = query
      /\ answer' \in {"open", "yes", "no"}
  BY DEF NearInv, Slide, Take, Accept, GiveUp, NoneLeft, asked
<1>2. Sliding'
  BY <1>1, TakeSlides, GiveUpSlides, AcceptIsNear, NoneLeftIsNear DEF Slide
<1> QED BY <1>1, <1>2 DEF NearInv

LEMMA NearInvSame ==
  ASSUME NearInv, UNCHANGED nearVars
  PROVE  NearInv'
BY DEF NearInv, Sliding, nearVars, asked, AnswerIsNear, NearTerms, Needed

LEMMA NearInvInitially ==
  ASSUME Init
  PROVE  Reading /\ Listing /\ NearInv
<1>1. Reading
  <2>1. /\ text \in Texts /\ field = 1 /\ at = 1 /\ word = <<>> /\ cjk = <<>>
        /\ offset = 0 /\ tokens = <<>> /\ total = 0
    BY DEF Init, Start
  <2>2. text \in Seq(Seq(Characters))
    BY <2>1, CharacterAssumption
  <2> QED BY <2>1, <2>2, SequencesOf DEF Reading
<1>2. Listing /\ NearInv
  BY DEF Init, Idle, Listing, NearInv
<1> QED BY <1>1, <1>2

LEMMA NearInvKept ==
  ASSUME Reading, Listing, NearInv, [Next]_vars
  PROVE  Reading' /\ Listing' /\ NearInv'
<1>1. CASE ReadText
  <2>1. Tokenize /\ UNCHANGED nearVars /\ segment' = segment
    BY <1>1 DEF ReadText
  <2>2. Reading'
    BY <2>1, TokenizeReads
  <2>3. NearInv'
    BY <2>1, NearInvSame
  <2>4. Listing'
    BY <2>1 DEF Listing
  <2> QED BY <2>2, <2>3, <2>4
<1>2. CASE BuildSegment
  <2>1. /\ segment' = BuiltFrom(GroupPositions) /\ UNCHANGED nearVars
        /\ text' = <<>> /\ field' = 1 /\ at' = 1 /\ word' = <<>> /\ cjk' = <<>>
        /\ offset' = 0 /\ tokens' = <<>> /\ total' = 0
    BY <1>2 DEF BuildSegment
  <2>2. Reading'
    BY <2>1, SequencesOf DEF Reading
  <2>3. NearInv'
    BY <2>1, NearInvSame
  <2>4. Listing'
    <3>1. GroupPositions \in [Terms -> Seq(Nat)]
      BY GroupsAre DEF Reading
    <3>2. ASSUME NEW t \in Terms PROVE TermPositions(segment', 0, t) \in Seq(Nat)
      <4>1. TermPositions(BuiltFrom(GroupPositions), 0, t) = GroupPositions[t]
        BY <3>1, BuiltIs
      <4> QED BY <2>1, <3>1, <4>1
    <3> QED BY <3>2 DEF Listing
  <2> QED BY <2>2, <2>3, <2>4
<1>3. CASE AskNear
  <2>1. PICK q \in {r \in Queries : r.op = "near"}, c \in {AnyColumn} \cup (0..1) :
          Ask([t \in TermsOf(q) |-> TermPositions(segment, 0, t)], q, c)
    BY <1>3 DEF AskNear
  <2>2. segment # <<>> /\ UNCHANGED <<tokenizerVars, segment>>
    BY <1>3 DEF AskNear
  <2>3. q.near \in Seq(Terms)
    BY QueryAssumption
  <2>4. TermsOf(q) \subseteq Terms
    BY <2>3, ToSetIs DEF TermsOf
  <2>5. [t \in TermsOf(q) |-> TermPositions(segment, 0, t)] \in [TermsOf(q) -> Seq(Nat)]
    BY <2>2, <2>4 DEF Listing
  <2>6. NearInv'
    BY <2>1, <2>5, AskSlides
  <2> QED BY <2>2, <2>6 DEF Reading, Listing, tokenizerVars
<1>4. CASE AskAny
  <2>1. /\ query' \in Queries /\ query'.op # "near" /\ answer' \in {"yes", "no"}
        /\ UNCHANGED <<tokenizerVars, segment>>
    BY <1>4 DEF AskAny
  <2>2. NearInv'
    BY <2>1 DEF NearInv
  <2> QED BY <2>1, <2>2 DEF Reading, Listing, tokenizerVars
<1>5. CASE SlideWindow
  <2>1. Slide /\ UNCHANGED <<tokenizerVars, segment>>
    BY <1>5 DEF SlideWindow
  <2>2. NearInv'
    BY <2>1, SlideKeeps
  <2> QED BY <2>1, <2>2 DEF Reading, Listing, tokenizerVars
<1>6. CASE UNCHANGED vars
  <2>1. UNCHANGED nearVars /\ UNCHANGED <<tokenizerVars, segment>>
    BY <1>6 DEF vars
  <2>2. NearInv'
    BY <2>1, NearInvSame
  <2> QED BY <2>1, <2>2 DEF Reading, Listing, tokenizerVars
<1> QED BY <1>1, <1>2, <1>3, <1>4, <1>5, <1>6 DEF Next

\* Tokenizing, the segment of a document and the windows of its NEAR queries
\* keep to their types and to the window's invariant.
THEOREM TextTypeCorrect == Spec => [](Reading /\ Listing /\ NearInv)
<1>1. Init => Reading /\ Listing /\ NearInv
  BY NearInvInitially
<1>2. Reading /\ Listing /\ NearInv /\ [Next]_vars => (Reading /\ Listing /\ NearInv)'
  BY NearInvKept
<1> QED BY <1>1, <1>2, PTL DEF Spec

LEMMA NearInvIsCounted ==
  ASSUME NearInv
  PROVE  WindowIsCounted
<1> SUFFICES ASSUME answer # "none", query.op = "near"
             PROVE  /\ counts = [t \in NearTerms |->
                          Cardinality({i \in Window : events[i].term = t})]
                    /\ covered = Cardinality({t \in NearTerms : counts[t] >= Needed[t]})
  BY DEF WindowIsCounted
<1>1. Sliding
  BY DEF NearInv
<1>2. counts = [t \in NearTerms |-> Cardinality({i \in Window : events[i].term = t})]
  BY <1>1 DEF Sliding, Sizes, Span, Window
<1>3. {t \in NearTerms : counts[t] >= Needed[t]} = Enough(Needed, counts)
  BY DEF Enough, Needed
<1> QED BY <1>1, <1>2, <1>3 DEF Sliding

LEMMA NearInvAnswers ==
  ASSUME NearInv
  PROVE  AnswerIsNear
<1> SUFFICES ASSUME answer \in {"yes", "no"}, query.op = "near" PROVE AnswerIsNear
  BY DEF AnswerIsNear
<1> QED BY DEF NearInv, Sliding

\* The counts of the sliding window are those of the events in it, whatever was
\* taken and given up.
THEOREM WindowsAreCounted == Spec => []WindowIsCounted
<1>1. Reading /\ Listing /\ NearInv => WindowIsCounted
  BY NearInvIsCounted
<1> QED BY <1>1, TextTypeCorrect, PTL

\* matches_near finds a stretch of a column if and only if there is one: no
\* position that it gives up, and no window that spans columns, loses one.
THEOREM WindowsAnswerNear == Spec => []AnswerIsNear
<1>1. Reading /\ Listing /\ NearInv => AnswerIsNear
  BY NearInvAnswers
<1> QED BY <1>1, TextTypeCorrect, PTL

=============================================================================
