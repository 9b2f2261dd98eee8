-------------------------- MODULE KestrelCacheProofs --------------------------
(***************************************************************************)
(* What a search returns is current, and every shard of the query cache is *)
(* a least-recently-used cache, for any number of readers, queries, shards *)
(* and commits, and any capacity.                                          *)
(***************************************************************************)
EXTENDS KestrelCache, SequenceTheorems, FiniteSetTheorems, TLAPS

\* A search holds a snapshot no older than its call and no newer than the
\* published one, and a result of its own query at that snapshot.
SearchIsCurrent(x, g) ==
  /\ x.pc # "idle" => x.since <= g
  /\ x.pc \in {"lookup", "evaluate", "insert", "done"} =>
       x.since <= x.snapshot /\ x.snapshot <= g
  /\ x.pc \in {"insert", "done"} => x.result = KeyOf(x.snapshot, x.query)

\* Whatever a shard holds under a key is the result of that key's query at
\* that key's generation.
EntriesAreExact ==
  \A s \in 1..ShardCount : \A k \in DOMAIN entries[s] : entries[s][k] = k

\* The inductive invariant.
CurrentInv ==
  /\ generation \in 0..MaxGeneration
  /\ capacity \in Nat
  /\ hash \in [CacheKey -> 1..ShardCount]
  /\ DOMAIN entries = 1..ShardCount
  /\ EntriesAreExact
  /\ search \in [Readers -> Searches]
  /\ \A r \in Readers : SearchIsCurrent(search[r], generation)

-----------------------------------------------------------------------------
\* The key of a search that has its snapshot is a key, and hashes to a shard.
LEMMA KeyOfSearchType ==
  ASSUME CurrentInv, NEW r \in Readers,
         search[r].pc \in {"lookup", "evaluate", "insert", "done"}
  PROVE  /\ search[r].snapshot \in 0..MaxGeneration
         /\ search[r].query \in Queries
         /\ search[r].cache \in BOOLEAN
         /\ search[r].since \in Nat
         /\ KeyOfSearch(r) \in CacheKey
         /\ hash[KeyOfSearch(r)] \in 1..ShardCount
<1>1. search[r] \in Searches /\ search[r].pc \notin {"idle", "snapshot"}
  BY DEF CurrentInv
<1>2. /\ search[r].snapshot \in 0..MaxGeneration
      /\ search[r].query \in Queries
      /\ search[r].cache \in BOOLEAN
      /\ search[r].since \in Nat
  BY <1>1 DEF Searches, Idle
<1>3. KeyOfSearch(r) \in CacheKey
  BY <1>2 DEF KeyOfSearch, KeyOf, CacheKey
<1> QED BY <1>2, <1>3 DEF CurrentInv

\* A step of one search that leaves the shards' entries alone keeps the
\* invariant if it leaves that search well-typed and current.
LEMMA SearchStep ==
  ASSUME CurrentInv, NEW r \in Readers, NEW x \in Searches,
         SearchIsCurrent(x, generation),
         search' = [search EXCEPT ![r] = x],
         UNCHANGED <<generation, capacity, hash, entries>>
  PROVE  CurrentInv'
<1>1. (search \in [Readers -> Searches])'
  BY DEF CurrentInv
<1>2. ASSUME NEW q \in Readers PROVE SearchIsCurrent(search[q], generation)'
  <2>1. CASE q = r
    <3>1. search'[q] = x
      BY <2>1 DEF CurrentInv
    <3> QED BY <3>1 DEF SearchIsCurrent, KeyOf
  <2>2. CASE q # r
    <3>1. search'[q] = search[q]
      BY <2>2 DEF CurrentInv
    <3> QED BY <3>1 DEF SearchIsCurrent, KeyOf, CurrentInv
  <2> QED BY <2>1, <2>2
<1>3. EntriesAreExact'
  BY DEF CurrentInv, EntriesAreExact, ShardCount
<1> QED BY <1>1, <1>2, <1>3 DEF CurrentInv, ShardCount

\* A call, the snapshot it takes, and its return.
LEMMA SearchOutsideCache ==
  ASSUME CacheAssumption, CurrentInv, NEW r \in Readers,
         Call(r) \/ TakeSnapshot(r) \/ SearchReturns(r)
  PROVE  CurrentInv'
<1>g. generation \in Nat /\ generation \in 0..MaxGeneration
  BY DEF CurrentInv, CacheAssumption
<1>1. CASE Call(r)
  <2>1. PICK q \in Queries, cache \in BOOLEAN :
          search' = [search EXCEPT ![r] =
                       [pc |-> "snapshot", query |-> q, cache |-> cache,
                        since |-> generation]]
    BY <1>1 DEF Call
  <2> DEFINE x == [pc |-> "snapshot", query |-> q, cache |-> cache,
                   since |-> generation]
  <2>2. x \in Searches
    BY <1>g DEF Searches
  <2>3. SearchIsCurrent(x, generation)
    BY <1>g DEF SearchIsCurrent
  <2> QED BY <1>1, <2>1, <2>2, <2>3, SearchStep DEF Call, shardVars
<1>2. CASE TakeSnapshot(r)
  <2> DEFINE x == [pc |-> IF search[r].cache THEN "lookup" ELSE "evaluate",
                   query |-> search[r].query, cache |-> search[r].cache,
                   since |-> search[r].since, snapshot |-> generation]
  <2>1. search[r] \in Searches /\ search[r].pc = "snapshot"
    BY <1>2 DEF TakeSnapshot, CurrentInv
  <2>2. /\ search[r].query \in Queries
        /\ search[r].cache \in BOOLEAN
        /\ search[r].since \in Nat
    BY <2>1 DEF Searches, Idle
  <2>3. search[r].since <= generation
    BY <2>1 DEF CurrentInv, SearchIsCurrent
  <2>4. x \in Searches
    BY <1>g, <2>2 DEF Searches
  <2>5. SearchIsCurrent(x, generation)
    BY <1>g, <2>2, <2>3 DEF SearchIsCurrent
  <2>6. search' = [search EXCEPT ![r] = x]
    BY <1>2 DEF TakeSnapshot
  <2> QED BY <1>2, <2>4, <2>5, <2>6, SearchStep DEF TakeSnapshot, shardVars
<1>3. CASE SearchReturns(r)
  <2>1. Idle \in Searches
    BY DEF Searches
  <2>2. SearchIsCurrent(Idle, generation)
    BY DEF SearchIsCurrent, Idle
  <2> QED BY <1>3, <2>1, <2>2, SearchStep DEF SearchReturns, shardVars
<1> QED BY <1>1, <1>2, <1>3

\* A search that has its snapshot and gets the result of its key is current.
LEMMA FoundIsCurrent ==
  ASSUME CacheAssumption, CurrentInv, NEW r \in Readers,
         search[r].pc \in {"lookup", "evaluate"},
         NEW next \in {"insert", "done"},
         Found(r, KeyOfSearch(r), next),
         UNCHANGED <<generation, capacity, hash, entries>>
  PROVE  CurrentInv'
<1> DEFINE x == [pc |-> next, query |-> search[r].query,
                 cache |-> search[r].cache, since |-> search[r].since,
                 snapshot |-> search[r].snapshot, result |-> KeyOfSearch(r)]
<1>1. /\ search[r].snapshot \in 0..MaxGeneration
      /\ search[r].query \in Queries
      /\ search[r].cache \in BOOLEAN
      /\ search[r].since \in Nat
      /\ KeyOfSearch(r) \in SearchResult
  BY KeyOfSearchType DEF SearchResult
<1>2. x \in Searches
  BY <1>1 DEF Searches
<1>3. /\ search[r].since <= search[r].snapshot
      /\ search[r].snapshot <= generation
  BY DEF CurrentInv, SearchIsCurrent
<1>4. search[r].since <= generation
  BY <1>1, <1>3 DEF CurrentInv, CacheAssumption
<1>5. SearchIsCurrent(x, generation)
  BY <1>3, <1>4 DEF SearchIsCurrent, KeyOfSearch
<1>6. search' = [search EXCEPT ![r] = x]
  BY DEF Found
<1> QED BY <1>2, <1>5, <1>6, SearchStep

\* The lookup, with either outcome, and the evaluation.
LEMMA SearchGetsResult ==
  ASSUME CacheAssumption, CurrentInv, NEW r \in Readers,
         Hit(r) \/ Miss(r) \/ EvaluateQuery(r)
  PROVE  CurrentInv'
<1>1. CASE Hit(r)
  <2>1. search[r].pc = "lookup"
    BY <1>1 DEF Hit
  <2>2. hash[KeyOfSearch(r)] \in 1..ShardCount
    BY <2>1, KeyOfSearchType
  <2>3. entries[hash[KeyOfSearch(r)]][KeyOfSearch(r)] = KeyOfSearch(r)
    BY <1>1, <2>2 DEF Hit, CurrentInv, EntriesAreExact
  <2>4. Found(r, KeyOfSearch(r), "done")
    BY <1>1, <2>3 DEF Hit
  <2> QED BY <1>1, <2>1, <2>4, FoundIsCurrent DEF Hit
<1>2. CASE Miss(r)
  <2> DEFINE x == [search[r] EXCEPT !.pc = "evaluate"]
  <2>1. search[r] \in Searches /\ search[r].pc = "lookup"
    BY <1>2 DEF Miss, CurrentInv
  <2>2. search[r] \in [pc : {"lookup", "evaluate"}, query : Queries,
                       cache : BOOLEAN, since : Nat, snapshot : 0..MaxGeneration]
    BY <2>1 DEF Searches, Idle
  <2>3. x \in [pc : {"lookup", "evaluate"}, query : Queries,
               cache : BOOLEAN, since : Nat, snapshot : 0..MaxGeneration]
    BY <2>2
  <2>4. /\ x.pc = "evaluate"
        /\ x.since = search[r].since
        /\ x.snapshot = search[r].snapshot
    BY <2>2
  <2>5. SearchIsCurrent(x, generation)
    BY <2>1, <2>4 DEF CurrentInv, SearchIsCurrent
  <2>6. x \in Searches
    BY <2>3 DEF Searches
  <2>7. search' = [search EXCEPT ![r] = x]
    BY <1>2 DEF Miss
  <2> QED BY <1>2, <2>5, <2>6, <2>7, SearchStep DEF Miss, shardVars
<1>3. CASE EvaluateQuery(r)
  <2>1. search[r].pc = "evaluate"
    BY <1>3 DEF EvaluateQuery
  <2>2. Evaluate(search[r].snapshot, search[r].query) = KeyOfSearch(r)
    BY DEF Evaluate, KeyOfSearch, KeyOf
  <2>3. Found(r, KeyOfSearch(r), IF search[r].cache THEN "insert" ELSE "done")
    BY <1>3, <2>2 DEF EvaluateQuery
  <2> DEFINE next == IF search[r].cache THEN "insert" ELSE "done"
  <2>4. next \in {"insert", "done"} /\ Found(r, KeyOfSearch(r), next)
    BY <2>3
  <2>5. UNCHANGED <<generation, capacity, hash, entries>>
    BY <1>3 DEF EvaluateQuery, shardVars
  <2> HIDE DEF next
  <2> QED BY <2>1, <2>4, <2>5, FoundIsCurrent
<1> QED BY <1>1, <1>2, <1>3

\* What an insertion leaves in its shard, wherever it stops dropping keys.
LEMMA InsertKeepsCurrent ==
  ASSUME CacheAssumption, CurrentInv, NEW r \in Readers, Insert(r)
  PROVE  CurrentInv'
<1> DEFINE k == KeyOfSearch(r)
           s == hash[k]
           x == [search[r] EXCEPT !.pc = "done"]
<1>1. search[r] \in Searches /\ search[r].pc = "insert"
  BY DEF Insert, CurrentInv
<1>2. search[r] \in [pc : {"insert", "done"}, query : Queries, cache : BOOLEAN,
                     since : Nat, snapshot : 0..MaxGeneration, result : SearchResult]
  BY <1>1 DEF Searches, Idle
<1>3. search' = [search EXCEPT ![r] = x]
  BY DEF Insert
<1>4. x \in Searches
  <2>1. x \in [pc : {"insert", "done"}, query : Queries, cache : BOOLEAN,
               since : Nat, snapshot : 0..MaxGeneration, result : SearchResult]
    BY <1>2
  <2> QED BY <2>1 DEF Searches
<1>5. /\ x.pc = "done" /\ x.since = search[r].since
      /\ x.snapshot = search[r].snapshot
      /\ x.query = search[r].query /\ x.result = search[r].result
  BY <1>2
<1>6. SearchIsCurrent(x, generation)
  BY <1>1, <1>5 DEF CurrentInv, SearchIsCurrent
<1>7. search[r].result = k
  BY <1>1 DEF CurrentInv, SearchIsCurrent, KeyOfSearch
<1>8. UNCHANGED <<generation, capacity, hash>>
  BY DEF Insert
<1>9. CASE ShardCapacity = 0
  <2>1. entries' = entries
    BY <1>9 DEF Insert, shardVars
  <2> QED BY <1>3, <1>4, <1>6, <1>8, <2>1, SearchStep
<1>10. CASE ShardCapacity # 0
  <2>1. PICK left \in SUBSET (DOMAIN entries[s] \cup {k}) :
          entries' = [entries EXCEPT ![s] =
                        [i \in left |-> IF i = k THEN search[r].result
                                        ELSE entries[s][i]]]
    <3> DEFINE kept == DOMAIN entries[s] \cup {k}
               keys == IF k \in DOMAIN entries[s] THEN Touch(order[s], k)
                       ELSE Append(order[s], k)
               left == kept \ ToSet(SubSeq(keys, 1, Dropped(kept, keys)))
    <3>1. entries' = [entries EXCEPT ![s] =
                        [i \in left |-> IF i = k THEN search[r].result
                                        ELSE entries[s][i]]]
      BY <1>10 DEF Insert
    <3>2. left \in SUBSET kept
      OBVIOUS
    <3> QED BY <3>1, <3>2
  <2>2. s \in 1..ShardCount /\ s \in DOMAIN entries
    BY <1>1, KeyOfSearchType DEF CurrentInv
  <2>3. EntriesAreExact'
    <3>1. ASSUME NEW t \in 1..ShardCount, NEW i \in DOMAIN entries'[t]
          PROVE  entries'[t][i] = i
      <4>1. CASE t = s
        BY <1>7, <2>1, <2>2, <4>1 DEF CurrentInv, EntriesAreExact
      <4>2. CASE t # s
        BY <2>1, <4>2 DEF CurrentInv, EntriesAreExact
      <4> QED BY <4>1, <4>2
    <3> QED BY <3>1, <1>8 DEF EntriesAreExact, ShardCount
  <2>4. DOMAIN entries' = 1..ShardCount'
    BY <2>1, <1>8 DEF CurrentInv, ShardCount
  <2>5. \A q \in Readers : SearchIsCurrent(search'[q], generation)
    BY <1>3, <1>6 DEF CurrentInv
  <2>6. search' \in [Readers -> Searches]
    BY <1>3, <1>4 DEF CurrentInv
  <2> HIDE DEF x
  <2> QED BY <1>8, <2>3, <2>4, <2>5, <2>6 DEF CurrentInv, ShardCount, SearchIsCurrent, KeyOf
<1> QED BY <1>9, <1>10

\* A commit, a compaction, and each step of the clear that follows them.
LEMMA WriterKeepsCurrent ==
  ASSUME CacheAssumption, CurrentInv,
         PublishCommit \/ PublishCompacted \/ ClearShard
  PROVE  CurrentInv'
<1>g. generation \in Nat /\ MaxGeneration \in Nat
  BY DEF CurrentInv, CacheAssumption
<1>1. CASE PublishCommit
  <2>1. /\ generation' = generation + 1 /\ generation < MaxGeneration
        /\ UNCHANGED <<capacity, hash, entries, search>>
    BY <1>1 DEF PublishCommit, shardVars
  <2>2. ASSUME NEW r \in Readers PROVE SearchIsCurrent(search[r], generation')
    <3>1. SearchIsCurrent(search[r], generation) /\ search[r] \in Searches
      BY DEF CurrentInv
    <3>2. search[r].pc # "idle" => search[r].since \in Nat
      BY <3>1 DEF Searches, Idle
    <3>3. search[r].pc \in {"lookup", "evaluate", "insert", "done"} =>
            search[r].snapshot \in 0..MaxGeneration
      BY KeyOfSearchType
    <3> QED BY <1>g, <2>1, <3>1, <3>2, <3>3 DEF SearchIsCurrent
  <2> QED BY <1>g, <2>1, <2>2
          DEF CurrentInv, EntriesAreExact, ShardCount, SearchIsCurrent, KeyOf
<1>2. CASE PublishCompacted
  BY <1>2 DEF PublishCompacted, shardVars, CurrentInv, EntriesAreExact,
              ShardCount, SearchIsCurrent, KeyOf
<1>3. CASE ClearShard
  <2>1. /\ entries' = [entries EXCEPT ![clearing] = << >>]
        /\ UNCHANGED <<generation, capacity, hash, search>>
    BY <1>3 DEF ClearShard
  <2>2. EntriesAreExact' /\ DOMAIN entries' = 1..ShardCount
    BY <2>1 DEF CurrentInv, EntriesAreExact, ShardCount
  <2> QED BY <2>1, <2>2 DEF CurrentInv, ShardCount, SearchIsCurrent, KeyOf
<1> QED BY <1>1, <1>2, <1>3

-----------------------------------------------------------------------------
\* Nothing is cached and no search is under way at first.
LEMMA InitCurrent == Init => CurrentInv
<1> SUFFICES ASSUME Init PROVE CurrentInv
  OBVIOUS
<1>1. generation \in 0..MaxGeneration /\ capacity \in Nat
  BY CacheAssumption DEF Init, CacheAssumption
<1>2. hash \in [CacheKey -> 1..ShardCount] /\ DOMAIN entries = 1..ShardCount
  BY DEF Init
<1>3. EntriesAreExact
  BY DEF Init, EntriesAreExact
<1>4. search \in [Readers -> Searches]
  BY DEF Init, Searches
<1>5. \A r \in Readers : SearchIsCurrent(search[r], generation)
  BY DEF Init, SearchIsCurrent, Idle
<1> QED BY <1>1, <1>2, <1>3, <1>4, <1>5 DEF CurrentInv

\* Every step keeps what is cached exact and every search current.
LEMMA CurrentStep == CurrentInv /\ [Next]_vars => CurrentInv'
<1> USE CacheAssumption
<1> SUFFICES ASSUME CurrentInv, [Next]_vars PROVE CurrentInv'
  OBVIOUS
<1>1. CASE PublishCommit \/ PublishCompacted \/ ClearShard
  BY <1>1, WriterKeepsCurrent
<1>2. ASSUME NEW r \in Readers,
             Call(r) \/ TakeSnapshot(r) \/ SearchReturns(r)
      PROVE  CurrentInv'
  BY <1>2, SearchOutsideCache
<1>3. ASSUME NEW r \in Readers, Hit(r) \/ Miss(r) \/ EvaluateQuery(r)
      PROVE  CurrentInv'
  BY <1>3, SearchGetsResult
<1>4. ASSUME NEW r \in Readers, Insert(r) PROVE CurrentInv'
  BY <1>4, InsertKeepsCurrent
<1>5. CASE UNCHANGED vars
  BY <1>5 DEF vars, CurrentInv, EntriesAreExact, ShardCount, SearchIsCurrent, KeyOf
<1> QED BY <1>1, <1>2, <1>3, <1>4, <1>5 DEF Next

\* A search that returns returns the result of its own query at a generation
\* that was published between its call and its return, whatever capacity,
\* hashing and interleaving with commits, compactions and clears.
THEOREM CachedReadsAreCurrent == Spec => []ReadsAreCurrent
<1>1. Init => CurrentInv
  BY InitCurrent
<1>2. CurrentInv /\ [Next]_vars => CurrentInv'
  BY CurrentStep
<1>3. CurrentInv => ReadsAreCurrent
  <2> SUFFICES ASSUME CurrentInv, NEW r \in Readers, search[r].pc = "done"
               PROVE  /\ search[r].result.query = search[r].query
                      /\ search[r].result.generation \in search[r].since..generation
    BY DEF ReadsAreCurrent
  <2>1. /\ search[r].snapshot \in 0..MaxGeneration /\ search[r].since \in Nat
        /\ generation \in Nat
    BY KeyOfSearchType DEF CurrentInv, CacheAssumption
  <2>2. /\ search[r].result = KeyOf(search[r].snapshot, search[r].query)
        /\ search[r].since <= search[r].snapshot
        /\ search[r].snapshot <= generation
    BY DEF CurrentInv, SearchIsCurrent
  <2> QED BY <2>1, <2>2, CacheAssumption DEF KeyOf, CacheAssumption
<1> QED BY <1>1, <1>2, <1>3, PTL DEF Spec

-----------------------------------------------------------------------------
(* Orders of keys.                                                         *)

\* No key is in an order twice.
Distinct(keys) == \A i, j \in 1..Len(keys) : keys[i] = keys[j] => i = j

\* The last keys of an order, in the same order.
SuffixOf(keys, longer) ==
  /\ Len(keys) <= Len(longer)
  /\ \A i \in 1..Len(keys) : keys[i] = longer[Len(longer) - Len(keys) + i]

\* The front of an order.
LEMMA FrontOf ==
  ASSUME NEW S, NEW keys \in Seq(S), NEW n \in 0..Len(keys)
  PROVE  /\ SubSeq(keys, 1, n) \in Seq(S)
         /\ Len(SubSeq(keys, 1, n)) = n
         /\ \A i \in 1..n : SubSeq(keys, 1, n)[i] = keys[i]
<1>1. Len(keys) \in Nat /\ \A i \in 1..n : keys[i] \in S
  BY ElementOfSeq, LenProperties
<1>2. n \in Int /\ 1 \in Int
  BY <1>1
<1> QED BY <1>1, <1>2, SubSeqProperties

\* The back of an order.
LEMMA BackOf ==
  ASSUME NEW S, NEW keys \in Seq(S), NEW n \in 0..Len(keys)
  PROVE  /\ SubSeq(keys, n + 1, Len(keys)) \in Seq(S)
         /\ Len(SubSeq(keys, n + 1, Len(keys))) = Len(keys) - n
         /\ \A i \in 1..(Len(keys) - n) : SubSeq(keys, n + 1, Len(keys))[i] = keys[n + i]
<1>1. /\ Len(keys) \in Nat /\ n + 1 \in Int /\ Len(keys) \in Int
      /\ \A i \in (n + 1)..Len(keys) : keys[i] \in S
  BY ElementOfSeq, LenProperties
<1>2. /\ SubSeq(keys, n + 1, Len(keys)) \in Seq(S)
      /\ Len(SubSeq(keys, n + 1, Len(keys))) =
           IF n + 1 <= Len(keys) THEN Len(keys) - (n + 1) + 1 ELSE 0
      /\ \A i \in 1..(Len(keys) - (n + 1) + 1) :
           SubSeq(keys, n + 1, Len(keys))[i] = keys[(n + 1) + i - 1]
  BY <1>1, SubSeqProperties
<1> DEFINE back == SubSeq(keys, n + 1, Len(keys))
<1>3. Len(back) = Len(keys) - n
  BY <1>1, <1>2
<1>4. ASSUME NEW i \in 1..(Len(keys) - n) PROVE back[i] = keys[n + i]
  <2>1. i \in 1..(Len(keys) - (n + 1) + 1) /\ (n + 1) + i - 1 = n + i
    BY <1>1
  <2> QED BY <1>2, <2>1
<1> QED BY <1>2, <1>3, <1>4

\* Where a key has exactly one place, that is the one that is found.
LEMMA FirstPlace ==
  ASSUME NEW keys, NEW p \in 1..Len(keys), \A i \in 1..Len(keys) : keys[i] = keys[p] => i = p
  PROVE  RemoveFirst(keys, keys[p]) = SubSeq(keys, 1, p - 1) \o SubSeq(keys, p + 1, Len(keys))
<1> DEFINE Places == {i \in 1..Len(keys) : keys[i] = keys[p]}
<1>1. Places = {p}
  OBVIOUS
<1>2. Min(Places) = p
  <2>1. Min({p}) = p
    BY DEF Min
  <2> QED BY <1>1, <2>1
<1>3. SelectInSeq(keys, LAMBDA v : v = keys[p]) = p
  BY <1>1, <1>2 DEF SelectInSeq
<1> QED BY <1>3 DEF RemoveFirst, RemoveAt

\* A key that is not in an order is added at its back.
LEMMA LatestOfNew ==
  ASSUME NEW S, NEW keys \in Seq(S), NEW k \in S, \A i \in 1..Len(keys) : keys[i] # k
  PROVE  Latest(keys, k) = Append(keys, k)
BY DEF Latest, RemoveFirst

\* A key that is in an order leaves its place for the back.
LEMMA LatestOfOld ==
  ASSUME NEW S, NEW keys \in Seq(S), Distinct(keys), NEW p \in 1..Len(keys)
  PROVE  /\ Latest(keys, keys[p]) \in Seq(S)
         /\ Len(Latest(keys, keys[p])) = Len(keys)
         /\ \A i \in 1..Len(keys) :
              Latest(keys, keys[p])[i] =
                IF i < p THEN keys[i] ELSE IF i < Len(keys) THEN keys[i + 1] ELSE keys[p]
<1> DEFINE front == SubSeq(keys, 1, p - 1)
           back  == SubSeq(keys, p + 1, Len(keys))
           rest  == front \o back
<1>1. Len(keys) \in Nat /\ p - 1 \in 0..Len(keys) /\ p \in 0..Len(keys) /\ keys[p] \in S
  BY ElementOfSeq, LenProperties
<1>2. Latest(keys, keys[p]) = Append(rest, keys[p])
  BY FirstPlace DEF Latest, Distinct
<1>3. /\ front \in Seq(S) /\ Len(front) = p - 1
      /\ \A i \in 1..(p - 1) : front[i] = keys[i]
  BY <1>1, FrontOf
<1>4. /\ back \in Seq(S) /\ Len(back) = Len(keys) - p
      /\ \A i \in 1..(Len(keys) - p) : back[i] = keys[p + i]
  BY <1>1, BackOf
<1> HIDE DEF front, back
<1>5. /\ rest \in Seq(S) /\ Len(rest) = Len(front) + Len(back)
      /\ \A i \in 1..(Len(front) + Len(back)) :
           rest[i] = IF i <= Len(front) THEN front[i] ELSE back[i - Len(front)]
  BY <1>3, <1>4, ConcatProperties
<1>6. Len(rest) = Len(keys) - 1
  BY <1>1, <1>3, <1>4, <1>5
<1>7. ASSUME NEW i \in 1..(Len(keys) - 1)
      PROVE  rest[i] = IF i < p THEN keys[i] ELSE keys[i + 1]
  <2>1. rest[i] = IF i <= p - 1 THEN front[i] ELSE back[i - (p - 1)]
    <3>1. i \in 1..(Len(front) + Len(back)) /\ Len(front) = p - 1
      BY <1>1, <1>3, <1>4
    <3> QED BY <1>5, <3>1
  <2>2. CASE i < p
    <3>1. i \in 1..(p - 1) /\ i <= p - 1
      BY <1>1, <2>2
    <3> QED BY <1>3, <2>1, <2>2, <3>1
  <2>3. CASE ~(i < p)
    <3>1. i - (p - 1) \in 1..(Len(keys) - p) /\ p + (i - (p - 1)) = i + 1 /\ ~(i <= p - 1)
      BY <1>1, <2>3
    <3> QED BY <1>4, <2>1, <2>3, <3>1
  <2> QED BY <2>2, <2>3
<1> HIDE DEF rest
<1>8. /\ Append(rest, keys[p]) \in Seq(S)
      /\ Len(Append(rest, keys[p])) = Len(keys)
      /\ \A i \in 1..(Len(keys) - 1) : Append(rest, keys[p])[i] = rest[i]
      /\ Append(rest, keys[p])[Len(keys)] = keys[p]
  BY <1>1, <1>5, <1>6, AppendProperties
<1>9. ASSUME NEW i \in 1..Len(keys)
      PROVE  Append(rest, keys[p])[i] =
               IF i < p THEN keys[i] ELSE IF i < Len(keys) THEN keys[i + 1] ELSE keys[p]
  <2>1. CASE i = Len(keys)
    BY <1>1, <1>8, <2>1
  <2>2. CASE i # Len(keys)
    <3>1. i \in 1..(Len(keys) - 1) /\ i < Len(keys)
      BY <1>1, <2>2
    <3> QED BY <1>7, <1>8, <3>1
  <2> QED BY <2>1, <2>2
<1> QED BY <1>2, <1>8, <1>9

\* An order to whose back a key goes is an order of the same keys and this
\* one, none of them twice.
LEMMA LatestType ==
  ASSUME NEW S, NEW keys \in Seq(S), Distinct(keys), NEW k \in S
  PROVE  /\ Latest(keys, k) \in Seq(S)
         /\ Distinct(Latest(keys, k))
         /\ ToSet(Latest(keys, k)) = ToSet(keys) \cup {k}
         /\ Len(Latest(keys, k)) =
              IF \E p \in 1..Len(keys) : keys[p] = k THEN Len(keys) ELSE Len(keys) + 1
<1>1. Len(keys) \in Nat /\ DOMAIN keys = 1..Len(keys)
  BY LenProperties
<1>2. CASE \A i \in 1..Len(keys) : keys[i] # k
  <2> DEFINE more == Append(keys, k)
  <2>1. Latest(keys, k) = more
    BY <1>2, LatestOfNew
  <2>2. /\ more \in Seq(S) /\ Len(more) = Len(keys) + 1
        /\ \A i \in 1..Len(keys) : more[i] = keys[i]
        /\ more[Len(keys) + 1] = k
    BY AppendProperties
  <2>3. DOMAIN more = 1..(Len(keys) + 1)
    BY <2>2, LenProperties
  <2> HIDE DEF more
  <2>4. \A i \in 1..(Len(keys) + 1) : i \in 1..Len(keys) \/ i = Len(keys) + 1
    BY <1>1
  <2>5. 1..Len(keys) \subseteq 1..(Len(keys) + 1) /\ Len(keys) + 1 \in 1..(Len(keys) + 1)
    BY <1>1
  <2>6. Distinct(more)
    BY <1>2, <2>2, <2>4 DEF Distinct
  <2>7. ToSet(more) = ToSet(keys) \cup {k}
    BY <1>1, <2>2, <2>3, <2>4, <2>5 DEF ToSet
  <2> QED BY <1>2, <2>1, <2>2, <2>6, <2>7
<1>3. ASSUME NEW p \in 1..Len(keys), keys[p] = k
      PROVE  /\ Latest(keys, k) \in Seq(S)
             /\ Distinct(Latest(keys, k))
             /\ ToSet(Latest(keys, k)) = ToSet(keys) \cup {k}
             /\ Len(Latest(keys, k)) = Len(keys)
  <2> DEFINE moved == Latest(keys, k)
  <2>1. /\ moved \in Seq(S) /\ Len(moved) = Len(keys)
        /\ \A i \in 1..Len(keys) :
             moved[i] = IF i < p THEN keys[i] ELSE IF i < Len(keys) THEN keys[i + 1]
                                                  ELSE keys[p]
    BY <1>3, LatestOfOld
  <2> HIDE DEF moved
  <2>2. DOMAIN moved = 1..Len(keys)
    BY <2>1, LenProperties
  <2> DEFINE from == [i \in 1..Len(keys) |-> IF i < p THEN i
                                             ELSE IF i < Len(keys) THEN i + 1 ELSE p]
  <2>3. \A i \in 1..Len(keys) : from[i] \in 1..Len(keys) /\ moved[i] = keys[from[i]]
    BY <1>1, <2>1
  <2>4. \A i, j \in 1..Len(keys) : from[i] = from[j] => i = j
    BY <1>1
  <2>5. \A j \in 1..Len(keys) : \E i \in 1..Len(keys) : from[i] = j
    <3> SUFFICES ASSUME NEW j \in 1..Len(keys) PROVE \E i \in 1..Len(keys) : from[i] = j
      OBVIOUS
    <3>1. CASE j < p
      BY <3>1
    <3>2. CASE j = p
      <4>1. Len(keys) \in 1..Len(keys) /\ ~(Len(keys) < p) /\ ~(Len(keys) < Len(keys))
        BY <1>1
      <4>2. from[Len(keys)] = p
        BY <4>1
      <4> QED BY <3>2, <4>1, <4>2
    <3>3. CASE j > p
      <4>1. j - 1 \in 1..Len(keys) /\ from[j - 1] = j
        BY <1>1, <3>3
      <4> QED BY <4>1
    <3> QED BY <1>1, <3>1, <3>2, <3>3
  <2> HIDE DEF from
  <2>6. Distinct(moved)
    <3> SUFFICES ASSUME NEW i \in 1..Len(keys), NEW j \in 1..Len(keys), moved[i] = moved[j]
                 PROVE  i = j
      BY <2>1 DEF Distinct
    <3>1. keys[from[i]] = keys[from[j]] /\ from[i] \in 1..Len(keys) /\ from[j] \in 1..Len(keys)
      BY <2>3
    <3> QED BY <2>4, <3>1 DEF Distinct
  <2>7. ToSet(moved) = ToSet(keys)
    <3>1. \A i \in DOMAIN moved : \E j \in DOMAIN keys : moved[i] = keys[j]
      BY <1>1, <2>2, <2>3
    <3>2. \A j \in DOMAIN keys : \E i \in DOMAIN moved : keys[j] = moved[i]
      <4> SUFFICES ASSUME NEW j \in DOMAIN keys
                   PROVE  \E i \in DOMAIN moved : keys[j] = moved[i]
        OBVIOUS
      <4>1. PICK i \in 1..Len(keys) : from[i] = j
        BY <1>1, <2>5
      <4> QED BY <2>2, <2>3, <4>1
    <3> QED BY <3>1, <3>2 DEF ToSet
  <2>8. k \in ToSet(keys)
    BY <1>1, <1>3 DEF ToSet
  <2> QED BY <2>1, <2>6, <2>7, <2>8 DEF moved
<1> QED BY <1>2, <1>3

-----------------------------------------------------------------------------
(* Evicting.                                                               *)

\* An order has as many keys as places.
LEMMA CardinalityOfOrder ==
  ASSUME NEW S, NEW keys \in Seq(S), Distinct(keys)
  PROVE  IsFiniteSet(ToSet(keys)) /\ Cardinality(ToSet(keys)) = Len(keys)
<1>1. /\ Len(keys) \in Nat /\ DOMAIN keys = 1..Len(keys)
      /\ keys \in [1..Len(keys) -> S]
  BY LenProperties
<1>2. keys \in Surjection(1..Len(keys), ToSet(keys))
  BY <1>1 DEF Surjection, ToSet
<1>3. keys \in Injection(1..Len(keys), ToSet(keys))
  BY <1>1, <1>2 DEF Injection, IsInjective, Distinct, Surjection
<1>4. IsFiniteSet(1..Len(keys)) /\ Cardinality(1..Len(keys)) = Len(keys)
  BY <1>1, FS_Interval, SMTT(30)
<1> QED BY <1>2, <1>3, <1>4, FS_Surjection

\* What is left when the first keys are dropped.
LEMMA LeftOfOrder ==
  ASSUME NEW S, NEW keys \in Seq(S), Distinct(keys), NEW n \in 0..Len(keys)
  PROVE  /\ Distinct(SubSeq(keys, n + 1, Len(keys)))
         /\ ToSet(keys) \ ToSet(SubSeq(keys, 1, n)) = ToSet(SubSeq(keys, n + 1, Len(keys)))
<1> DEFINE front == SubSeq(keys, 1, n)
           back  == SubSeq(keys, n + 1, Len(keys))
<1>1. Len(keys) \in Nat /\ n \in Nat /\ DOMAIN keys = 1..Len(keys)
  BY LenProperties
<1>2. /\ front \in Seq(S) /\ DOMAIN front = 1..n
      /\ \A i \in 1..n : front[i] = keys[i]
  BY FrontOf, LenProperties
<1>3. /\ back \in Seq(S) /\ Len(back) = Len(keys) - n
      /\ DOMAIN back = 1..(Len(keys) - n)
      /\ \A i \in 1..(Len(keys) - n) : back[i] = keys[n + i]
  BY BackOf, LenProperties
<1> HIDE DEF front, back
<1>4. Distinct(back)
  <2> SUFFICES ASSUME NEW i \in 1..(Len(keys) - n), NEW j \in 1..(Len(keys) - n),
                      back[i] = back[j]
               PROVE  i = j
    BY <1>3 DEF Distinct
  <2>1. n + i \in 1..Len(keys) /\ n + j \in 1..Len(keys) /\ keys[n + i] = keys[n + j]
    BY <1>1, <1>3
  <2>2. n + i = n + j
    BY <2>1 DEF Distinct
  <2> QED BY <1>1, <2>2
<1>5. ASSUME NEW x \in ToSet(keys), x \notin ToSet(front)
      PROVE  x \in ToSet(back)
  <2>1. PICK i \in 1..Len(keys) : x = keys[i]
    BY <1>1 DEF ToSet
  <2>2. ~(i <= n)
    <3>1. i <= n => i \in 1..n
      BY <1>1
    <3> QED BY <1>2, <1>5, <2>1, <3>1 DEF ToSet
  <2>3. i - n \in 1..(Len(keys) - n) /\ n + (i - n) = i
    BY <1>1, <2>2
  <2>4. back[i - n] = x
    BY <1>3, <2>1, <2>3
  <2> QED BY <1>3, <2>3, <2>4 DEF ToSet
<1>6. ASSUME NEW x \in ToSet(back)
      PROVE  x \in ToSet(keys) /\ x \notin ToSet(front)
  <2>1. PICK i \in 1..(Len(keys) - n) : x = back[i]
    BY <1>3 DEF ToSet
  <2>2. n + i \in 1..Len(keys) /\ x = keys[n + i]
    BY <1>1, <1>3, <2>1
  <2>3. \A j \in 1..n : front[j] # x
    <3> SUFFICES ASSUME NEW j \in 1..n, front[j] = x PROVE FALSE
      OBVIOUS
    <3>1. j \in 1..Len(keys) /\ keys[j] = keys[n + i]
      BY <1>1, <1>2, <2>2
    <3>2. j = n + i
      BY <2>2, <3>1 DEF Distinct
    <3> QED BY <1>1, <3>2
  <2> QED BY <1>1, <1>2, <2>2, <2>3 DEF ToSet
<1> QED BY <1>4, <1>5, <1>6 DEF front, back

\* The eviction loop of insert drops nothing from a shard that is not
\* overfull, and one key from one that has one too many.
LEMMA DroppedIs ==
  ASSUME NEW S, NEW keys \in Seq(S), Distinct(keys),
         ShardCapacity \in Nat \ {0}, Len(keys) <= ShardCapacity + 1
  PROVE  Dropped(ToSet(keys), keys) = IF Len(keys) <= ShardCapacity THEN 0 ELSE 1
<1> DEFINE over(n) == Overfull(ToSet(keys) \ ToSet(SubSeq(keys, 1, n)))
<1>1. Len(keys) \in Nat
  BY LenProperties
<1>2. ASSUME NEW n \in 0..Len(keys)
      PROVE  over(n) <=> Len(keys) - n > ShardCapacity
  <2> DEFINE back == SubSeq(keys, n + 1, Len(keys))
  <2>1. back \in Seq(S) /\ Len(back) = Len(keys) - n
    BY BackOf
  <2>2. Distinct(back) /\ ToSet(keys) \ ToSet(SubSeq(keys, 1, n)) = ToSet(back)
    BY LeftOfOrder
  <2> HIDE DEF back
  <2>3. Cardinality(ToSet(back)) = Len(keys) - n
    BY <2>1, <2>2, CardinalityOfOrder
  <2> QED BY <2>2, <2>3 DEF Overfull
<1> DEFINE drops(n) == ~over(n) /\ \A m \in 0..(n - 1) : over(m)
           least    == IF Len(keys) <= ShardCapacity THEN 0 ELSE 1
<1>3. Dropped(ToSet(keys), keys) = CHOOSE n \in 0..Len(keys) : drops(n)
  BY DEF Dropped
<1>4. least \in 0..Len(keys) /\ drops(least)
  <2>1. CASE Len(keys) <= ShardCapacity
    <3>1. 0 \in 0..Len(keys) /\ least = 0 /\ ~(Len(keys) - 0 > ShardCapacity)
      BY <1>1, <2>1
    <3>2. ~over(0)
      BY <1>2, <3>1
    <3>3. \A m \in 0..(0 - 1) : over(m)
      OBVIOUS
    <3> QED BY <3>1, <3>2, <3>3
  <2>2. CASE ~(Len(keys) <= ShardCapacity)
    <3>1. /\ 0 \in 0..Len(keys) /\ 1 \in 0..Len(keys) /\ least = 1
          /\ Len(keys) - 0 > ShardCapacity /\ ~(Len(keys) - 1 > ShardCapacity)
      BY <1>1, <2>2
    <3>2. over(0) /\ ~over(1)
      BY <1>2, <3>1
    <3>3. \A m \in 0..(1 - 1) : m = 0
      OBVIOUS
    <3> HIDE DEF over, least
    <3>4. drops(1)
      BY <3>2, <3>3
    <3> QED BY <3>1, <3>4
  <2> QED BY <2>1, <2>2
<1>5. ASSUME NEW n \in 0..Len(keys), drops(n)
      PROVE  n = least
  <2> HIDE DEF over
  <2>1. n < least \/ least < n \/ n = least
    BY <1>1, <1>4
  <2>2. ~(n < least)
    <3>1. n < least => n \in 0..(least - 1)
      BY <1>1, <1>4
    <3> QED BY <1>4, <1>5, <3>1
  <2>3. ~(least < n)
    <3>1. least < n => least \in 0..(n - 1)
      BY <1>1, <1>4
    <3> QED BY <1>4, <1>5, <3>1
  <2> QED BY <2>1, <2>2, <2>3
<1> HIDE DEF drops, least
<1>6. Dropped(ToSet(keys), keys) = least
  BY <1>3, <1>4, <1>5
<1> QED BY <1>6 DEF least

-----------------------------------------------------------------------------
(* One shard.                                                              *)

\* What a shard holds, its order, and the keys used since the last clear.
ShardOrder(held, keys, used) ==
  /\ keys \in Seq(CacheKey) /\ Distinct(keys)
  /\ used \in Seq(CacheKey) /\ Distinct(used)
  /\ SuffixOf(keys, used)
  /\ Len(keys) = IF Len(used) < ShardCapacity THEN Len(used) ELSE ShardCapacity
  /\ held = ToSet(keys)

\* An order that is the end of another one, written as a part of it.
LEMMA SuffixIs ==
  ASSUME NEW S, NEW keys \in Seq(S), NEW used \in Seq(S), Len(keys) <= Len(used)
  PROVE  SuffixOf(keys, used) <=>
           keys = SubSeq(used, Len(used) - Len(keys) + 1, Len(used))
<1> DEFINE n    == Len(used) - Len(keys)
           back == SubSeq(used, n + 1, Len(used))
<1>1. n \in 0..Len(used) /\ Len(used) - n = Len(keys)
  BY LenProperties
<1>2. /\ back \in Seq(S) /\ Len(back) = Len(keys)
      /\ \A i \in 1..Len(keys) : back[i] = used[n + i]
  <2> HIDE DEF n
  <2> QED BY <1>1, BackOf
<1>3. SuffixOf(keys, used) => keys = back
  <2> HIDE DEF back
  <2> QED BY <1>2, SeqEqual DEF SuffixOf
<1>4. keys = back => SuffixOf(keys, used)
  BY <1>2 DEF SuffixOf
<1> QED BY <1>3, <1>4

\* The facts about a shard in the form in which proofs need them: the order
\* begins d places behind the begin of what was used.
LEMMA ShardFacts ==
  ASSUME NEW held, NEW keys, NEW used, ShardOrder(held, keys, used), ShardCapacity \in Nat
  PROVE  \E d \in Nat :
           /\ keys \in Seq(CacheKey) /\ Distinct(keys) /\ DOMAIN keys = 1..Len(keys)
           /\ used \in Seq(CacheKey) /\ Distinct(used)
           /\ Len(keys) \in Nat /\ Len(used) \in Nat
           /\ Len(used) = d + Len(keys) /\ Len(used) - Len(keys) = d
           /\ Len(keys) = IF Len(used) < ShardCapacity THEN Len(used) ELSE ShardCapacity
           /\ \A i \in 1..Len(keys) : keys[i] = used[d + i]
           /\ held = ToSet(keys)
<1>1. /\ keys \in Seq(CacheKey) /\ Distinct(keys) /\ DOMAIN keys = 1..Len(keys)
      /\ used \in Seq(CacheKey) /\ Distinct(used)
      /\ Len(keys) \in Nat /\ Len(used) \in Nat
      /\ Len(keys) = IF Len(used) < ShardCapacity THEN Len(used) ELSE ShardCapacity
      /\ held = ToSet(keys)
  BY LenProperties DEF ShardOrder
<1>2. /\ Len(keys) <= Len(used)
      /\ \A i \in 1..Len(keys) : keys[i] = used[Len(used) - Len(keys) + i]
  BY Zenon DEF ShardOrder, SuffixOf
<1>3. PICK d \in Nat : Len(used) = d + Len(keys) /\ Len(used) - Len(keys) = d
  <2>1. Len(used) - Len(keys) \in Nat /\ Len(used) = (Len(used) - Len(keys)) + Len(keys)
    BY <1>1, <1>2
  <2> QED BY <2>1, Zenon
<1>4. \A i \in 1..Len(keys) : keys[i] = used[d + i]
  BY <1>2, <1>3
<1> QED BY <1>1, <1>3, <1>4

\* A hit, or an insertion under a key that has an entry, keeps the order.
LEMMA TouchKeepsOrder ==
  ASSUME NEW held, NEW keys, NEW used, ShardOrder(held, keys, used), NEW k \in held,
         ShardCapacity \in Nat
  PROVE  ShardOrder(held, Latest(keys, k), Latest(used, k))
<1> DEFINE n == Len(keys)
<1>0. PICK d \in Nat :
      /\ keys \in Seq(CacheKey) /\ Distinct(keys) /\ DOMAIN keys = 1..n
      /\ used \in Seq(CacheKey) /\ Distinct(used)
      /\ n \in Nat /\ Len(used) \in Nat
      /\ Len(used) = d + n /\ Len(used) - n = d
      /\ \A i \in 1..n : keys[i] = used[d + i]
      /\ held = ToSet(keys)
  BY ShardFacts, SMTT(30)
<1>1. n \in Nat /\ Len(used) \in Nat /\ Len(used) = d + n /\ Len(used) - n = d
  BY <1>0
<1>2. PICK p \in 1..n : keys[p] = k
  BY <1>0 DEF ToSet
<1>3. d + p \in 1..Len(used) /\ used[d + p] = k
  BY <1>0, <1>1, <1>2
<1>4. /\ Latest(keys, k) \in Seq(CacheKey) /\ Len(Latest(keys, k)) = n
      /\ \A i \in 1..n : Latest(keys, k)[i] =
           IF i < p THEN keys[i] ELSE IF i < n THEN keys[i + 1] ELSE k
  BY <1>0, <1>2, LatestOfOld, ZenonT(60)
<1>5. /\ Latest(used, k) \in Seq(CacheKey) /\ Len(Latest(used, k)) = Len(used)
      /\ \A i \in 1..Len(used) : Latest(used, k)[i] =
           IF i < d + p THEN used[i] ELSE IF i < Len(used) THEN used[i + 1] ELSE k
  BY <1>0, <1>3, LatestOfOld, ZenonT(60)
<1>6. k \in CacheKey /\ k \in ToSet(keys)
  <2>1. k \in CacheKey
    BY <1>0, <1>2, ElementOfSeq
  <2> QED BY <1>0, <2>1
<1>7. Distinct(Latest(keys, k)) /\ ToSet(Latest(keys, k)) = ToSet(keys) \cup {k}
      /\ Distinct(Latest(used, k))
  <2>1. /\ keys \in Seq(CacheKey) /\ Distinct(keys)
        /\ used \in Seq(CacheKey) /\ Distinct(used)
    BY <1>0
  <2> QED BY <1>6, <2>1, LatestType
<1>8. ASSUME NEW i \in 1..n
      PROVE  Latest(keys, k)[i] = Latest(used, k)[d + i]
  <2>1. /\ d + i \in 1..Len(used)
        /\ i < p <=> d + i < d + p
        /\ i < n <=> d + i < Len(used)
        /\ i < n => i + 1 \in 1..n /\ d + (i + 1) = (d + i) + 1
    BY <1>1
  <2>2. /\ keys[i] = used[d + i]
        /\ i < n => keys[i + 1] = used[(d + i) + 1]
    <3>1. i < n => keys[i + 1] = used[d + (i + 1)]
      BY <1>0, <2>1
    <3>2. keys[i] = used[d + i]
      BY <1>0
    <3> QED BY <2>1, <3>1, <3>2
  <2>3. Latest(keys, k)[i] = IF i < p THEN keys[i] ELSE IF i < n THEN keys[i + 1] ELSE k
    BY <1>4
  <2>4. Latest(used, k)[d + i] =
          IF d + i < d + p THEN used[d + i]
          ELSE IF d + i < Len(used) THEN used[(d + i) + 1] ELSE k
    BY <1>5, <2>1
  <2> QED BY <1>1, <2>1, <2>2, <2>3, <2>4
<1>9. SuffixOf(Latest(keys, k), Latest(used, k))
  BY <1>1, <1>4, <1>5, <1>8 DEF SuffixOf
<1> QED BY <1>4, <1>5, <1>6, <1>7, <1>9, <1>0 DEF ShardOrder

\* An insertion under a new key keeps the order, and drops at most the key
\* that was used least recently.
LEMMA InsertKeepsOrder ==
  ASSUME NEW held, NEW keys, NEW used, ShardOrder(held, keys, used),
         NEW k \in CacheKey, k \notin held, ShardCapacity \in Nat \ {0},
         NEW n, n = Dropped(held \cup {k}, Append(keys, k))
  PROVE  ShardOrder((held \cup {k}) \ ToSet(SubSeq(Append(keys, k), 1, n)),
                    SubSeq(Append(keys, k), n + 1, Len(Append(keys, k))),
                    Latest(used, k))
<1>1. PICK d \in Nat :
        /\ keys \in Seq(CacheKey) /\ Distinct(keys) /\ DOMAIN keys = 1..Len(keys)
        /\ used \in Seq(CacheKey) /\ Distinct(used)
        /\ Len(keys) \in Nat /\ Len(used) \in Nat
        /\ Len(used) = d + Len(keys) /\ Len(used) - Len(keys) = d
        /\ Len(keys) = IF Len(used) < ShardCapacity THEN Len(used) ELSE ShardCapacity
        /\ \A i \in 1..Len(keys) : keys[i] = used[d + i]
        /\ held = ToSet(keys)
  BY ShardFacts
<1>b. /\ keys \in Seq(CacheKey) /\ Distinct(keys)
      /\ used \in Seq(CacheKey) /\ Distinct(used)
  BY <1>1
<1> DEFINE more == Append(keys, k)
           left == SubSeq(more, n + 1, Len(more))
           used2 == Latest(used, k)
<1>2. \A i \in 1..Len(keys) : keys[i] # k
  BY <1>1 DEF ToSet
<1>3. /\ more \in Seq(CacheKey) /\ Len(more) = Len(keys) + 1
      /\ \A i \in 1..Len(keys) : more[i] = keys[i]
      /\ more[Len(keys) + 1] = k
  BY <1>1, AppendProperties
<1>4. Distinct(more) /\ ToSet(more) = held \cup {k}
  <2>1. Latest(keys, k) = more
    BY <1>1, <1>2, LatestOfNew
  <2>2. Distinct(Latest(keys, k)) /\ ToSet(Latest(keys, k)) = ToSet(keys) \cup {k}
    BY <1>b, LatestType
  <2> QED BY <1>1, <2>1, <2>2
<1> HIDE DEF more
\* Arithmetic.
<1>a. /\ Len(keys) \in Nat /\ Len(used) \in Nat /\ Len(used) = d + Len(keys)
      /\ Len(keys) = IF Len(used) < ShardCapacity THEN Len(used) ELSE ShardCapacity
      /\ Len(more) = Len(keys) + 1
  BY <1>1, <1>3
<1>5. n = IF Len(more) <= ShardCapacity THEN 0 ELSE 1
  <2>1. Len(more) <= ShardCapacity + 1
    BY <1>a
  <2>2. n = Dropped(ToSet(more), more)
    BY <1>4 DEF more
  <2> QED BY <1>3, <1>4, <2>1, <2>2, DroppedIs
<1>6. n \in 0..Len(more) /\ n \in Nat
  BY <1>a, <1>5
<1>7. /\ left \in Seq(CacheKey) /\ Len(left) = Len(more) - n
      /\ \A i \in 1..(Len(more) - n) : left[i] = more[n + i]
  <2>1. more \in Seq(CacheKey) /\ n \in 0..Len(more)
    BY <1>3, <1>6
  <2> QED BY <2>1, BackOf, ZenonT(60)
<1>8. Distinct(left) /\ (held \cup {k}) \ ToSet(SubSeq(more, 1, n)) = ToSet(left)
  BY <1>3, <1>4, <1>6, LeftOfOrder
<1> HIDE DEF left
<1>9. used2 \in Seq(CacheKey) /\ Distinct(used2)
  BY <1>1, LatestType
<1>10. ASSUME \A i \in 1..Len(used) : used[i] # k
       PROVE  ShardOrder(ToSet(left), left, used2)
  <2>1. /\ Len(used2) = Len(used) + 1
        /\ \A i \in 1..Len(used) : used2[i] = used[i]
        /\ used2[Len(used) + 1] = k
    <3>1. used2 = Append(used, k)
      BY <1>1, <1>10, LatestOfNew
    <3> QED BY <1>1, <3>1, AppendProperties
  <2> HIDE DEF used2
  <2>2. /\ Len(left) = IF Len(used) + 1 < ShardCapacity THEN Len(used) + 1
                      ELSE ShardCapacity
        /\ Len(left) <= Len(used) + 1
        /\ (Len(used) + 1) - Len(left) = d + n
    <3>1. Len(left) = Len(more) - n
      BY <1>7
    <3>2. CASE Len(used) < ShardCapacity
      <4>1. Len(keys) = Len(used) /\ d = 0 /\ n = 0
        BY <1>a, <1>5, <3>2
      <4> QED BY <1>a, <3>1, <3>2, <4>1
    <3>3. CASE ~(Len(used) < ShardCapacity)
      <4>1. Len(keys) = ShardCapacity /\ n = 1
        BY <1>a, <1>5, <3>3
      <4> QED BY <1>a, <3>1, <3>3, <4>1
    <3> QED BY <3>2, <3>3
  <2>3. ASSUME NEW i \in 1..Len(left)
        PROVE  left[i] = used2[(d + n) + i]
    <3>1. n + i \in 1..(Len(keys) + 1) /\ left[i] = more[n + i]
      <4>1. Len(left) = Len(more) - n
        BY <1>7
      <4>2. n + i \in 1..(Len(keys) + 1)
        BY <1>a, <1>6, <4>1
      <4> QED BY <1>7, <4>1, <4>2
    <3>2. CASE n + i = Len(keys) + 1
      <4>1. (d + n) + i = Len(used) + 1
        <5>1. i \in Nat
          BY <1>a, <1>6, <1>7
        <5>2. n \in Nat
          BY <1>6
        <5>3. Len(keys) \in Nat /\ Len(used) = d + Len(keys)
          BY <1>a
        <5> QED BY <3>2, <5>1, <5>2, <5>3, SMTT(30)
      <4> QED BY <1>3, <2>1, <3>1, <3>2, <4>1
    <3>3. CASE n + i # Len(keys) + 1
      <4>1. n + i \in 1..Len(keys)
        BY <1>a, <1>6, <3>1, <3>3
      <4>2. (d + n) + i = d + (n + i) /\ d + (n + i) \in 1..Len(used)
        BY <1>a, <1>6, <4>1, SMTT(30)
      <4>3. more[n + i] = used[d + (n + i)]
        BY <1>1, <1>3, <4>1
      <4> QED BY <2>1, <3>1, <4>2, <4>3
    <3> QED BY <3>2, <3>3
  <2>4. SuffixOf(left, used2)
    <3>1. Len(used2) - Len(left) = d + n /\ Len(left) <= Len(used2)
      BY <2>1, <2>2
    <3> QED BY <2>3, <3>1 DEF SuffixOf
  <2>5. Len(left) = IF Len(used2) < ShardCapacity THEN Len(used2) ELSE ShardCapacity
    BY <2>1, <2>2
  <2> QED BY <1>7, <1>8, <1>9, <2>4, <2>5 DEF ShardOrder
<1>11. ASSUME NEW q \in 1..Len(used), used[q] = k
       PROVE  ShardOrder(ToSet(left), left, used2)
  <2>1. q <= d
    <3> SUFFICES ASSUME ~(q <= d) PROVE FALSE
      OBVIOUS
    <3>1. q - d \in 1..Len(keys) /\ d + (q - d) = q
      BY <1>a
    <3> QED BY <1>1, <1>2, <1>11, <3>1
  <2>2. /\ Len(keys) = ShardCapacity /\ n = 1 /\ Len(left) = ShardCapacity
        /\ ~(Len(used) < ShardCapacity)
    <3>1. Len(left) = Len(more) - n
      BY <1>7
    <3>2. Len(used) # Len(keys)
      BY <1>a, <2>1
    <3>3. Len(keys) = ShardCapacity /\ ~(Len(used) < ShardCapacity)
      BY <1>a, <3>2
    <3> QED BY <1>a, <1>5, <3>1, <3>3
  <2>3. /\ Len(used2) = Len(used)
        /\ \A i \in 1..Len(used) : used2[i] =
             IF i < q THEN used[i] ELSE IF i < Len(used) THEN used[i + 1] ELSE k
    BY <1>1, <1>11, LatestOfOld, ZenonT(60)
  <2> HIDE DEF used2
  <2>4. ASSUME NEW i \in 1..Len(left)
        PROVE  left[i] = used2[d + i]
    <3>1. /\ i \in 1..Len(keys) /\ i \in 1..(Len(more) - n)
          /\ d + i \in 1..Len(used) /\ ~(d + i < q)
      BY <1>a, <2>1, <2>2
    <3>2. left[i] = more[1 + i]
      BY <1>7, <2>2, <3>1
    <3>3. CASE i = Len(keys)
      <4>1. ~(d + i < Len(used)) /\ 1 + i = Len(keys) + 1
        BY <1>a, <3>3
      <4> QED BY <1>3, <2>3, <3>1, <3>2, <4>1
    <3>4. CASE i # Len(keys)
      <4>1. d + i < Len(used) /\ 1 + i \in 1..Len(keys) /\ d + (1 + i) = (d + i) + 1
        BY <1>a, <3>1, <3>4
      <4>2. more[1 + i] = used[d + (1 + i)]
        BY <1>1, <1>3, <4>1
      <4> QED BY <2>3, <3>1, <3>2, <4>1, <4>2
    <3> QED BY <3>3, <3>4
  <2>5. Len(left) <= Len(used2) /\ Len(used2) - Len(left) = d
    BY <1>a, <2>2, <2>3
  <2>6. SuffixOf(left, used2)
    BY <2>4, <2>5 DEF SuffixOf
  <2> QED BY <1>7, <1>8, <1>9, <2>2, <2>3, <2>6 DEF ShardOrder
<1> QED BY <1>8, <1>10, <1>11 DEF left, more

-----------------------------------------------------------------------------
(* The cache.                                                              *)

\* Each shard is in order, holds keys that hash to it, and no shard without
\* capacity holds anything.
ShardInv ==
  /\ clearing \in 0..ShardCount
  /\ capacity \in Capacities
  /\ order \in [1..ShardCount -> Seq(CacheKey)]
  /\ recency \in [1..ShardCount -> Seq(CacheKey)]
  /\ \A s \in 1..ShardCount :
       /\ ShardOrder(DOMAIN entries[s], order[s], recency[s])
       /\ \A k \in DOMAIN entries[s] : hash[k] = s

LruInv == CurrentInv /\ ShardInv

\* The invariant says what the checked properties say.
LEMMA LruInvTypes == LruInv => TypeOK /\ KeepsMostRecent
<1> SUFFICES ASSUME LruInv PROVE TypeOK /\ KeepsMostRecent
  OBVIOUS
<1>1. ASSUME NEW s \in 1..ShardCount
      PROVE  /\ \A k \in DOMAIN entries[s] : hash[k] = s /\ entries[s][k] \in SearchResult
             /\ IsInjective(order[s]) /\ IsInjective(recency[s])
             /\ order[s] = SubSeq(recency[s], Len(recency[s]) - Len(order[s]) + 1,
                                  Len(recency[s]))
             /\ Len(order[s]) = IF Len(recency[s]) < ShardCapacity THEN Len(recency[s])
                                ELSE ShardCapacity
             /\ DOMAIN entries[s] = ToSet(order[s])
  <2>1. /\ order[s] \in Seq(CacheKey) /\ Distinct(order[s])
        /\ recency[s] \in Seq(CacheKey) /\ Distinct(recency[s])
        /\ SuffixOf(order[s], recency[s]) /\ Len(order[s]) <= Len(recency[s])
        /\ Len(order[s]) = IF Len(recency[s]) < ShardCapacity THEN Len(recency[s])
                           ELSE ShardCapacity
        /\ DOMAIN entries[s] = ToSet(order[s])
    BY DEF LruInv, ShardInv, ShardOrder, SuffixOf
  <2>2. IsInjective(order[s]) /\ IsInjective(recency[s])
    <3>1. DOMAIN order[s] = 1..Len(order[s]) /\ DOMAIN recency[s] = 1..Len(recency[s])
      BY <2>1, LenProperties
    <3> QED BY <2>1, <3>1 DEF IsInjective, Distinct
  <2>3. \A k \in DOMAIN entries[s] : hash[k] = s /\ entries[s][k] \in SearchResult
    <3> SUFFICES ASSUME NEW k \in DOMAIN entries[s]
                 PROVE  hash[k] = s /\ entries[s][k] \in SearchResult
      OBVIOUS
    <3>1. hash[k] = s /\ entries[s][k] = k
      BY DEF LruInv, ShardInv, CurrentInv, EntriesAreExact
    <3>2. PICK i \in DOMAIN order[s] : k = order[s][i]
      BY <2>1 DEF ToSet
    <3>3. k \in CacheKey
      BY <2>1, <3>2, ElementOfSeq, LenProperties
    <3> QED BY <3>1, <3>3 DEF SearchResult
  <2>4. order[s] = SubSeq(recency[s], Len(recency[s]) - Len(order[s]) + 1, Len(recency[s]))
    BY <2>1, SuffixIs
  <2> QED BY <2>1, <2>2, <2>3, <2>4
<1>2. TypeOK
  BY <1>1 DEF LruInv, ShardInv, CurrentInv, TypeOK
<1>3. KeepsMostRecent
  BY <1>1 DEF KeepsMostRecent
<1> QED BY <1>2, <1>3

\* The capacity is divided among the shards.
LEMMA ShardsType ==
  ASSUME CacheAssumption, capacity \in Capacities
  PROVE  ShardCount \in Nat \ {0} /\ ShardCapacity \in Nat
<1>1. capacity \in Nat /\ MaxShards \in Nat \ {0}
  BY DEF CacheAssumption
<1>2. ShardCount \in Nat \ {0}
  BY <1>1 DEF ShardCount
<1>3. \A a \in Nat : \A b \in Nat \ {0} : (a + b - 1) \div b \in Nat
  BY Z3
<1> QED BY <1>1, <1>2, <1>3 DEF ShardCapacity, CeilDiv

\* A step that changes one shard keeps the others in order.
LEMMA OneShard ==
  ASSUME ShardInv, NEW s \in 1..ShardCount, NEW held, NEW keys, NEW used,
         ShardOrder(DOMAIN held, keys, used), \A k \in DOMAIN held : hash[k] = s,
         entries'[s] = held, \A t \in 1..ShardCount \ {s} : entries'[t] = entries[t],
         order' = [order EXCEPT ![s] = keys],
         recency' = [recency EXCEPT ![s] = used],
         UNCHANGED <<capacity, hash>>, clearing' \in 0..ShardCount
  PROVE  ShardInv'
<1>1. ShardCount' = ShardCount /\ ShardCapacity' = ShardCapacity
  BY DEF ShardCount, ShardCapacity
<1>2. keys \in Seq(CacheKey) /\ used \in Seq(CacheKey)
  BY DEF ShardOrder
<1>3. /\ order' \in [1..ShardCount -> Seq(CacheKey)]
      /\ recency' \in [1..ShardCount -> Seq(CacheKey)]
  BY <1>2 DEF ShardInv
<1>4. ASSUME NEW t \in 1..ShardCount
      PROVE  /\ ShardOrder(DOMAIN entries'[t], order'[t], recency'[t])
             /\ \A k \in DOMAIN entries'[t] : hash[k] = t
  <2>1. CASE t = s
    <3>1. entries'[t] = held /\ order'[t] = keys /\ recency'[t] = used
      BY <2>1 DEF ShardInv
    <3> QED BY <2>1, <3>1
  <2>2. CASE t # s
    <3>1. entries'[t] = entries[t] /\ order'[t] = order[t] /\ recency'[t] = recency[t]
      BY <2>2 DEF ShardInv
    <3> QED BY <3>1 DEF ShardInv
  <2> QED BY <2>1, <2>2
<1>5. ASSUME NEW t \in 1..ShardCount
      PROVE  ShardOrder(DOMAIN entries[t], order[t], recency[t])'
  <2>1. ShardOrder(DOMAIN entries'[t], order'[t], recency'[t])
    BY <1>4
  <2> QED BY <1>1, <2>1 DEF ShardOrder, CacheKey
<1> QED BY <1>1, <1>3, <1>4, <1>5 DEF ShardInv, CacheKey

\* A hit moves its key to the back of its shard's order.
LEMMA HitKeepsOrder ==
  ASSUME CacheAssumption, LruInv, NEW r \in Readers, Hit(r)
  PROVE  ShardInv'
<1> DEFINE k == KeyOfSearch(r)
           s == hash[k]
<1>1. /\ s \in 1..ShardCount /\ k \in DOMAIN entries[s]
      /\ ShardOrder(DOMAIN entries[s], order[s], recency[s])
      /\ \A i \in DOMAIN entries[s] : hash[i] = s
      /\ DOMAIN entries = 1..ShardCount
  BY KeyOfSearchType DEF Hit, LruInv, ShardInv, CurrentInv
<1>2. /\ order' = [order EXCEPT ![s] = Latest(order[s], k)]
      /\ recency' = [recency EXCEPT ![s] = Latest(recency[s], k)]
      /\ UNCHANGED <<clearing, capacity, hash, entries>>
  BY DEF Hit, Touch
<1> HIDE DEF k, s
<1>3. ShardCapacity \in Nat
  BY ShardsType DEF LruInv, ShardInv
<1>4. ShardOrder(DOMAIN entries[s], Latest(order[s], k), Latest(recency[s], k))
  BY <1>1, <1>3, TouchKeepsOrder
<1>5. entries'[s] = entries[s] /\ \A t \in 1..ShardCount \ {s} : entries'[t] = entries[t]
  BY <1>2
<1>6. ShardInv /\ clearing' \in 0..ShardCount
  BY <1>2 DEF LruInv, ShardInv
<1> QED BY <1>1, <1>2, <1>4, <1>5, <1>6, OneShard

\* An insertion replaces an entry, or adds one and drops at most one.
LEMMA InsertKeepsShards ==
  ASSUME CacheAssumption, LruInv, NEW r \in Readers, Insert(r)
  PROVE  ShardInv'
<1> DEFINE k    == KeyOfSearch(r)
           s    == hash[k]
           kept == DOMAIN entries[s] \cup {k}
           keys == IF k \in DOMAIN entries[s] THEN Touch(order[s], k)
                   ELSE Append(order[s], k)
           n    == Dropped(kept, keys)
           left == kept \ ToSet(SubSeq(keys, 1, n))
           held == [i \in left |-> IF i = k THEN search[r].result ELSE entries[s][i]]
<1>1. /\ k \in CacheKey /\ s \in 1..ShardCount
      /\ ShardOrder(DOMAIN entries[s], order[s], recency[s])
      /\ \A i \in DOMAIN entries[s] : hash[i] = s
      /\ DOMAIN entries = 1..ShardCount
  BY KeyOfSearchType DEF Insert, LruInv, ShardInv, CurrentInv
<1>2. UNCHANGED <<clearing, capacity, hash>>
  BY DEF Insert
<1>3. ShardInv /\ ShardCapacity \in Nat /\ clearing' \in 0..ShardCount
  BY <1>2, ShardsType DEF LruInv, ShardInv
<1>4. CASE ShardCapacity = 0
  <2>1. UNCHANGED <<entries, order, recency>>
    BY <1>4 DEF Insert, shardVars
  <2>2. ShardCount' = ShardCount /\ ShardCapacity' = ShardCapacity
    BY <1>2 DEF ShardCount, ShardCapacity
  <2>3. ASSUME NEW t \in 1..ShardCount
        PROVE  ShardOrder(DOMAIN entries[t], order[t], recency[t])'
    <3>1. ShardOrder(DOMAIN entries'[t], order'[t], recency'[t])
      BY <1>3, <2>1 DEF ShardInv
    <3> QED BY <2>2, <3>1 DEF ShardOrder, CacheKey
  <2> QED BY <1>2, <1>3, <2>1, <2>2, <2>3 DEF ShardInv, CacheKey
<1>5. CASE ShardCapacity # 0
  <2>1. /\ entries'[s] = held
        /\ \A t \in 1..ShardCount \ {s} : entries'[t] = entries[t]
        /\ order' = [order EXCEPT ![s] = SubSeq(keys, n + 1, Len(keys))]
        /\ recency' = [recency EXCEPT ![s] = Latest(recency[s], k)]
    BY <1>1, <1>5 DEF Insert
  <2>2. DOMAIN held = left /\ \A i \in left : hash[i] = s
    BY <1>1
  <2>3. CASE k \notin DOMAIN entries[s]
    <3>1. ShardOrder(left, SubSeq(keys, n + 1, Len(keys)), Latest(recency[s], k))
      <4>1. keys = Append(order[s], k)
        BY <2>3
      <4> HIDE DEF s, k
      <4> QED BY <1>1, <1>3, <1>5, <2>3, <4>1, InsertKeepsOrder
    <3> HIDE DEF s, k, n, left, held, keys
    <3> QED BY <1>1, <1>2, <1>3, <2>1, <2>2, <3>1, OneShard
  <2>4. CASE k \in DOMAIN entries[s]
    <3>1. keys = Latest(order[s], k) /\ kept = DOMAIN entries[s]
      BY <2>4 DEF Touch
    <3> HIDE DEF s, k
    <3>2. ShardOrder(DOMAIN entries[s], Latest(order[s], k), Latest(recency[s], k))
      BY <1>1, <1>3, <2>4, TouchKeepsOrder
    <3>3. /\ keys \in Seq(CacheKey) /\ Distinct(keys) /\ kept = ToSet(keys)
          /\ Len(keys) <= ShardCapacity /\ Len(keys) \in Nat
      <4>1. Latest(order[s], k) \in Seq(CacheKey)
        BY <3>2 DEF ShardOrder
      <4>2. /\ Len(Latest(order[s], k)) \in Nat
            /\ Len(Latest(recency[s], k)) \in Nat
        BY <3>2, LenProperties DEF ShardOrder
      <4>3. Len(Latest(order[s], k)) <= ShardCapacity
        BY <1>3, <3>2, <4>2 DEF ShardOrder
      <4> HIDE DEF keys, kept
      <4> QED BY <3>1, <3>2, <4>1, <4>2, <4>3 DEF ShardOrder
    <3> HIDE DEF keys, kept
    <3>4. n = 0
      <4>1. Len(keys) <= ShardCapacity + 1 /\ ShardCapacity \in Nat \ {0}
        BY <1>3, <1>5, <3>3
      <4> QED BY <3>3, <4>1, DroppedIs
    <3>5. SubSeq(keys, n + 1, Len(keys)) = keys /\ SubSeq(keys, 1, n) = << >>
      <4>1. SubSeq(keys, 1, Len(keys)) = keys
        BY <3>3, SubSeqFull
      <4>2. SubSeq(keys, 1, 0) = << >>
        BY SubSeqEmpty
      <4> HIDE DEF n
      <4> QED BY <3>4, <4>1, <4>2
    <3>6. left = kept
      <4>1. ToSet(<< >>) = {}
        BY DEF ToSet
      <4> HIDE DEF n
      <4> QED BY <3>5, <4>1
    <3>7. ShardOrder(left, SubSeq(keys, n + 1, Len(keys)), Latest(recency[s], k))
      <4> HIDE DEF n, left
      <4> QED BY <3>1, <3>2, <3>5, <3>6
    <3> HIDE DEF n, left, held
    <3> QED BY <1>1, <1>2, <1>3, <2>1, <2>2, <3>7, OneShard
  <2> QED BY <2>3, <2>4, SMTT(30)
<1> QED BY <1>4, <1>5

\* A cleared shard is empty, and so is its order.
LEMMA ClearKeepsOrder ==
  ASSUME CacheAssumption, LruInv, ClearShard
  PROVE  ShardInv'
<1>1. /\ clearing \in 1..ShardCount
      /\ clearing' \in 0..ShardCount
      /\ entries'[clearing] = << >>
      /\ \A t \in 1..ShardCount \ {clearing} : entries'[t] = entries[t]
      /\ order' = [order EXCEPT ![clearing] = << >>]
      /\ recency' = [recency EXCEPT ![clearing] = << >>]
      /\ UNCHANGED <<capacity, hash>>
      /\ ShardInv /\ ShardCapacity \in Nat
  BY ShardsType DEF ClearShard, LruInv, ShardInv, CurrentInv
<1>2. ShardOrder(DOMAIN << >>, << >>, << >>)
  <2>1. << >> \in Seq(CacheKey) /\ Len(<< >>) = 0 /\ DOMAIN << >> = {}
    BY EmptySeq
  <2>2. ToSet(<< >>) = {}
    BY <2>1 DEF ToSet
  <2> QED BY <1>1, <2>1, <2>2 DEF ShardOrder, SuffixOf, Distinct
<1>3. \A k \in DOMAIN << >> : hash[k] = clearing
  OBVIOUS
<1> QED BY <1>1, <1>2, <1>3, OneShard

\* A step that leaves the shards alone.
LEMMA ShardsStay ==
  ASSUME ShardInv, UNCHANGED <<capacity, hash, shardVars>>, clearing' \in 0..ShardCount
  PROVE  ShardInv'
<1>1. ShardCount' = ShardCount /\ ShardCapacity' = ShardCapacity
  BY DEF ShardCount, ShardCapacity
<1>2. UNCHANGED <<entries, order, recency>>
  BY DEF shardVars
<1>3. ASSUME NEW t \in 1..ShardCount
      PROVE  ShardOrder(DOMAIN entries[t], order[t], recency[t])'
  <2>1. ShardOrder(DOMAIN entries'[t], order'[t], recency'[t])
    BY <1>2 DEF ShardInv
  <2> QED BY <1>1, <2>1 DEF ShardOrder, CacheKey
<1> QED BY <1>1, <1>2, <1>3 DEF ShardInv, CacheKey

-----------------------------------------------------------------------------
\* The invariant of the cache: what it holds is exact and in order.
THEOREM LruInductive == Spec => []LruInv
<1> USE CacheAssumption
<1>1. Init => LruInv
  <2> SUFFICES ASSUME Init PROVE LruInv
    OBVIOUS
  <2>1. CurrentInv
    BY InitCurrent
  <2>2. ShardCount \in Nat \ {0} /\ ShardCapacity \in Nat
    BY ShardsType DEF Init
  <2>3. << >> \in Seq(CacheKey) /\ Len(<< >>) = 0 /\ DOMAIN << >> = {}
    BY EmptySeq
  <2>4. ToSet(<< >>) = {}
    BY <2>3 DEF ToSet
  <2>5. ASSUME NEW s \in 1..ShardCount
        PROVE  ShardOrder(DOMAIN entries[s], order[s], recency[s])
    BY <2>2, <2>3, <2>4 DEF Init, ShardOrder, SuffixOf, Distinct
  <2> QED BY <2>1, <2>2, <2>3, <2>5 DEF Init, LruInv, ShardInv
<1>2. LruInv /\ [Next]_vars => LruInv'
  <2> SUFFICES ASSUME LruInv, [Next]_vars PROVE LruInv'
    OBVIOUS
  <2>1. CurrentInv'
    BY CurrentStep DEF LruInv
  <2>2. ShardInv /\ ShardCount \in Nat \ {0}
    BY ShardsType DEF LruInv, ShardInv
  <2>3. CASE PublishCommit \/ PublishCompacted
    BY <2>1, <2>2, <2>3, ShardsStay DEF PublishCommit, PublishCompacted, LruInv
  <2>4. CASE ClearShard
    BY <2>1, <2>4, ClearKeepsOrder DEF LruInv
  <2>5. ASSUME NEW r \in Readers,
               Call(r) \/ TakeSnapshot(r) \/ Miss(r) \/ EvaluateQuery(r) \/ SearchReturns(r)
        PROVE  LruInv'
    <3>1. UNCHANGED <<clearing, capacity, hash, shardVars>>
      BY <2>5 DEF Call, TakeSnapshot, Miss, EvaluateQuery, SearchReturns
    <3> QED BY <2>1, <2>2, <3>1, ShardsStay DEF LruInv, ShardInv
  <2>6. ASSUME NEW r \in Readers, Hit(r) PROVE LruInv'
    BY <2>1, <2>6, HitKeepsOrder DEF LruInv
  <2>7. ASSUME NEW r \in Readers, Insert(r) PROVE LruInv'
    BY <2>1, <2>7, InsertKeepsShards DEF LruInv
  <2>8. CASE UNCHANGED vars
    BY <2>1, <2>2, <2>8, ShardsStay DEF vars, LruInv, ShardInv, shardVars
  <2> QED BY <2>3, <2>4, <2>5, <2>6, <2>7, <2>8 DEF Next
<1> QED BY <1>1, <1>2, PTL DEF Spec

\* Keys stay in the shard they hash to, no key is in an order twice, and
\* every search stays at a point of Database::search.
THEOREM CacheTypeCorrect == Spec => []TypeOK
BY LruInductive, LruInvTypes, PTL

\* QueryCache is a least-recently-used cache, whatever CacheShards::new makes
\* of the capacity and however get, insert and clear interleave: each shard
\* holds exactly the keys used last since it was cleared, as many as fit, in
\* the order of use.  (DroppedIs: the eviction loop makes at most one turn.)
THEOREM CacheIsLru == Spec => []KeepsMostRecent
BY LruInductive, LruInvTypes, PTL

=============================================================================
