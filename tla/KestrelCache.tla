----------------------------- MODULE KestrelCache -----------------------------
(***************************************************************************)
(* Database::search and the query cache of src/src/storage.rs, next to one *)
(* writer that publishes snapshots and clears the cache afterwards.        *)
(*                                                                         *)
(* A search takes the published snapshot, looks its key up, evaluates the  *)
(* query, and inserts the result; a writer may publish and clear between   *)
(* any two of these steps.  Each shard of the cache has a mutex, held for  *)
(* one lookup, one insertion or one clear, and CacheShards::clear goes     *)
(* from shard to shard.  The writer mutex lets one thread at a time        *)
(* publish and clear: the writer below is whichever thread holds it.       *)
(*                                                                         *)
(* A query stands for the query tree with limit, k1 and b.  What a search  *)
(* finds is determined by the generation of its snapshot and the query     *)
(* (KestrelSnapshot shows that compaction changes neither documents nor    *)
(* statistics), so a result is abstracted to these two.                    *)
(***************************************************************************)
EXTENDS Integers, Sequences, FiniteSets, SequencesExt

CONSTANTS
  Readers,       \* threads that search
  Queries,       \* queries, with their options
  Capacities,    \* the values query_cache_capacity may have
  MaxShards,     \* the 16 of CacheShards::new
  MaxGeneration  \* bound: commits

ASSUME CacheAssumption ==
  /\ Capacities \subseteq Nat
  /\ MaxShards \in Nat \ {0}
  /\ MaxGeneration \in Nat

VARIABLES
  generation, \* of the published snapshot
  clearing,   \* the shard that the writer clears next; 0 when it is done
  capacity,   \* the configured capacity
  hash,       \* the shard that each key hashes to
  entries,    \* entries[s]: the results that shard s holds, by key
  order,      \* order[s]: the keys of shard s, least recently used first
  search,     \* search[r]: how far the search of reader r is
  recency     \* ghost: keys used in a shard since its last clear, latest last

shardVars == <<entries, order, recency>>
vars == <<generation, clearing, capacity, hash, entries, order, search, recency>>

-----------------------------------------------------------------------------
(* Keys, results and shards.                                               *)

CacheKey     == [generation : 0..MaxGeneration, query : Queries]
SearchResult == CacheKey

\* Snapshot::search.
Evaluate(g, q) == [generation |-> g, query |-> q]

\* Seeded fault: the generation is not part of the key.
KeyOfQuery(g, q) == [generation |-> 0, query |-> q]

\* The key under which a search of snapshot g looks up query q.
KeyOf(g, q) == [generation |-> g, query |-> q]

CeilDiv(a, b) == (a + b - 1) \div b

\* CacheShards::new.
ShardCount    == IF capacity < 1 THEN 1
                 ELSE IF capacity > MaxShards THEN MaxShards ELSE capacity
ShardCapacity == CeilDiv(capacity, ShardCount)

\* Takes key k from its first place in an order, if it has one, and adds it
\* at the back.
Latest(keys, k) == Append(RemoveFirst(keys, k), k)

\* Seeded fault: a hit leaves the order as it is.
SameOrder(keys, k) == keys

\* Seeded fault: the old place of the key is not looked for.
PushBack(keys, k) == Append(keys, k)

\* QueryCache::get, and insert when it replaces an entry, move the key to the
\* back.
Touch(keys, k) == Latest(keys, k)

Overfull(kept) == Cardinality(kept) > ShardCapacity

\* QueryCache::insert drops keys from the front of the order, one after the
\* other, while there are too many entries.
Dropped(kept, keys) ==
  CHOOSE n \in 0..Len(keys) :
    /\ ~Overfull(kept \ ToSet(SubSeq(keys, 1, n)))
    /\ \A m \in 0..(n - 1) : Overfull(kept \ ToSet(SubSeq(keys, 1, m)))

-----------------------------------------------------------------------------
Idle == [pc |-> "idle"]

Init ==
  /\ generation = 0
  /\ clearing = 0
  /\ capacity \in Capacities
  /\ hash \in [CacheKey -> 1..ShardCount]
  /\ entries = [s \in 1..ShardCount |-> << >>]
  /\ order = [s \in 1..ShardCount |-> <<>>]
  /\ recency = [s \in 1..ShardCount |-> <<>>]
  /\ search = [r \in Readers |-> Idle]

\* Database::search is called; `since` is the generation then, `cache` the
\* option of that name.
Call(r) ==
  /\ search[r] = Idle
  /\ \E q \in Queries, cache \in BOOLEAN :
       search' = [search EXCEPT ![r] =
                    [pc |-> "snapshot", query |-> q, cache |-> cache,
                     since |-> generation]]
  /\ UNCHANGED <<generation, clearing, capacity, hash, shardVars>>

\* The search takes the published snapshot and forms its key.
TakeSnapshot(r) ==
  /\ search[r].pc = "snapshot"
  /\ search' = [search EXCEPT ![r] =
                  [pc |-> IF search[r].cache THEN "lookup" ELSE "evaluate",
                   query |-> search[r].query, cache |-> search[r].cache,
                   since |-> search[r].since, snapshot |-> generation]]
  /\ UNCHANGED <<generation, clearing, capacity, hash, shardVars>>

KeyOfSearch(r) == KeyOf(search[r].snapshot, search[r].query)

\* The search has its result.
Found(r, result, next) ==
  search' = [search EXCEPT ![r] =
               [pc |-> next, query |-> search[r].query, cache |-> search[r].cache,
                since |-> search[r].since, snapshot |-> search[r].snapshot,
                result |-> result]]

\* CacheShards::get finds the key.
Hit(r) ==
  LET k == KeyOfSearch(r)
      s == hash[k]
  IN /\ search[r].pc = "lookup"
     /\ k \in DOMAIN entries[s]
     /\ Found(r, entries[s][k], "done")
     /\ order' = [order EXCEPT ![s] = Touch(order[s], k)]
     /\ recency' = [recency EXCEPT ![s] = Latest(recency[s], k)]
     /\ UNCHANGED <<generation, clearing, capacity, hash, entries>>

\* CacheShards::get does not find it.
Miss(r) ==
  /\ search[r].pc = "lookup"
  /\ KeyOfSearch(r) \notin DOMAIN entries[hash[KeyOfSearch(r)]]
  /\ search' = [search EXCEPT ![r].pc = "evaluate"]
  /\ UNCHANGED <<generation, clearing, capacity, hash, shardVars>>

\* The snapshot is searched, without any lock.
EvaluateQuery(r) ==
  /\ search[r].pc = "evaluate"
  /\ Found(r, Evaluate(search[r].snapshot, search[r].query),
           IF search[r].cache THEN "insert" ELSE "done")
  /\ UNCHANGED <<generation, clearing, capacity, hash, shardVars>>

\* CacheShards::insert.  A shard without capacity takes nothing; only a key
\* that had an entry is looked for in the order.
Insert(r) ==
  LET k    == KeyOfSearch(r)
      s    == hash[k]
      kept == DOMAIN entries[s] \cup {k}
      keys == IF k \in DOMAIN entries[s] THEN Touch(order[s], k)
              ELSE Append(order[s], k)
      n    == Dropped(kept, keys)
      left == kept \ ToSet(SubSeq(keys, 1, n))
  IN /\ search[r].pc = "insert"
     /\ search' = [search EXCEPT ![r].pc = "done"]
     /\ IF ShardCapacity = 0
        THEN UNCHANGED shardVars
        ELSE /\ entries' = [entries EXCEPT ![s] =
                              [i \in left |-> IF i = k THEN search[r].result
                                              ELSE entries[s][i]]]
             /\ order' = [order EXCEPT ![s] = SubSeq(keys, n + 1, Len(keys))]
             /\ recency' = [recency EXCEPT ![s] = Latest(recency[s], k)]
     /\ UNCHANGED <<generation, clearing, capacity, hash>>

\* The search returns its result.
SearchReturns(r) ==
  /\ search[r].pc = "done"
  /\ search' = [search EXCEPT ![r] = Idle]
  /\ UNCHANGED <<generation, clearing, capacity, hash, shardVars>>

-----------------------------------------------------------------------------
\* Database::commit publishes the next generation and starts to clear.
PublishCommit ==
  /\ clearing = 0
  /\ generation < MaxGeneration
  /\ generation' = generation + 1
  /\ clearing' = 1
  /\ UNCHANGED <<capacity, hash, shardVars, search>>

\* Database::optimize publishes the same generation, compacted.
PublishCompacted ==
  /\ clearing = 0
  /\ clearing' = 1
  /\ UNCHANGED <<generation, capacity, hash, shardVars, search>>

\* CacheShards::clear goes on with the next shard.
ClearShard ==
  /\ clearing # 0
  /\ entries' = [entries EXCEPT ![clearing] = << >>]
  /\ order' = [order EXCEPT ![clearing] = <<>>]
  /\ recency' = [recency EXCEPT ![clearing] = <<>>]
  /\ clearing' = IF clearing = ShardCount THEN 0 ELSE clearing + 1
  /\ UNCHANGED <<generation, capacity, hash, search>>

Next ==
  \/ PublishCommit \/ PublishCompacted \/ ClearShard
  \/ \E r \in Readers :
       \/ Call(r) \/ TakeSnapshot(r) \/ Hit(r) \/ Miss(r)
       \/ EvaluateQuery(r) \/ Insert(r) \/ SearchReturns(r)

Spec == Init /\ [][Next]_vars

-----------------------------------------------------------------------------
(* Properties.                                                             *)

\* A search at each point of its way.
Searches ==
  {Idle} \cup
  [pc : {"snapshot"}, query : Queries, cache : BOOLEAN, since : Nat] \cup
  [pc : {"lookup", "evaluate"}, query : Queries, cache : BOOLEAN, since : Nat,
   snapshot : 0..MaxGeneration] \cup
  [pc : {"insert", "done"}, query : Queries, cache : BOOLEAN, since : Nat,
   snapshot : 0..MaxGeneration, result : SearchResult]

\* The type invariant; every shard only ever holds keys that hash to it.
TypeOK ==
  /\ generation \in 0..MaxGeneration
  /\ clearing \in 0..ShardCount
  /\ capacity \in Capacities
  /\ hash \in [CacheKey -> 1..ShardCount]
  /\ DOMAIN entries = 1..ShardCount
  /\ order \in [1..ShardCount -> Seq(CacheKey)]
  /\ recency \in [1..ShardCount -> Seq(CacheKey)]
  /\ \A s \in 1..ShardCount :
       /\ \A k \in DOMAIN entries[s] : hash[k] = s /\ entries[s][k] \in SearchResult
       /\ IsInjective(order[s]) /\ IsInjective(recency[s])
  /\ search \in [Readers -> Searches]

\* A search is atomic: it returns the result of its own query at a generation
\* that was the published one at some moment between call and return, cached
\* or not, however a commit interleaves with lookup, insertion and clear.
ReadsAreCurrent ==
  \A r \in Readers :
    search[r].pc = "done" =>
      /\ search[r].result.query = search[r].query
      /\ search[r].result.generation \in search[r].since..generation

\* Every shard is a least-recently-used cache: it holds exactly the keys that
\* were used last since it was cleared, as many as fit, in the order of use.
\* In particular each key of the order has an entry and the other way round,
\* without which the eviction loop of insert would not end.
KeepsMostRecent ==
  \A s \in 1..ShardCount :
    /\ order[s] = SubSeq(recency[s], Len(recency[s]) - Len(order[s]) + 1, Len(recency[s]))
    /\ Len(order[s]) = IF Len(recency[s]) < ShardCapacity THEN Len(recency[s])
                       ELSE ShardCapacity
    /\ DOMAIN entries[s] = ToSet(order[s])

=============================================================================
