# Kestrel in TLA+

Kestrel (`src/`) is an embedded full-text database in Rust: a directory with a
write-ahead log and checkpoints, immutable in-memory snapshots with posting
lists, typed queries, BM25 top-k search, and a query cache. This directory holds
TLA+ models of it, TLC configurations that check them on small instances, and
proofs that the TLA+ proof system checks for every instance.

    tlc -workers 2 -config StorageCrashes.cfg MCStorage.tla      # one run
    tlapm KestrelStorageProofs.tla                               # the proofs in a module

The modules with proofs are the eight whose names end in `Proofs`.

`PROJECT.json` lists the runs, the lines each definition models (`map`), the
seeded faults that show that each property can fail (`mutants`), the hazards the
properties are for, and the disagreements found between code and documentation.

## 1. The system

| Part | Source | State | Operations |
|---|---|---|---|
| Storage engine | `src/src/storage.rs` | `kestrel.wal`, `segment-*.kst`, the published snapshot, the writer mutex, the log mutex | `open`, `begin`, `Transaction::{upsert, delete, commit, rollback}`, `optimize` |
| Log frames | `storage.rs`: `encode_frame`, `read_wal` | bytes of the log | append, scan, cut off a torn tail |
| Checkpoints | `storage.rs`: `encode_snapshot`, `decode_snapshot`, `load_latest_checkpoint`, `remove_old_checkpoints` | files in the directory | write, rename, load, sweep |
| Query cache | `storage.rs`: `CacheShards`, `QueryCache` | up to 16 shards, each a map and an order | get, insert with eviction, clear |
| Index snapshots | `src/src/index.rs`: `Segment`, `Snapshot` | segments, latest locations, live masks, counters | build, commit, compact |
| Top-k search | `index.rs`: `Snapshot::search`, `WandCursor`, `TopK` | cursors and a heap, for the time of one call | search, exhaustive search |
| Query matching | `index.rs`: `matches_query`, `matches_phrase`, `matches_near`; `src/src/query.rs` | none (the window of `matches_near` for one call) | match one document |
| Tokenizer | `src/src/tokenizer.rs` | none | text to terms and positions |
| Codec | `src/src/codec.rs` | none (buffers of its loops) | integers and checksums to bytes and back |
| Options, errors, command line | `query.rs`, `error.rs`, `main.rs`, `lib.rs` | none | |

How they interact: any number of threads share one `Database`. A commit
tokenizes, builds its segment and encodes its frame without a lock; then, under
the writer mutex, it takes the next generation, appends and syncs the frame,
derives the next snapshot from the published one, publishes it by replacing one
`Arc`, and clears the cache shard by shard. `optimize` does the same with a
compacted snapshot: checkpoint file, rename, log emptied, snapshot replaced,
cache cleared, old checkpoints removed. A search takes no lock but the one of a
cache shard; it keeps the snapshot it took. `open` loads the newest checkpoint
and replays the log.

Where it is hard, and what makes each part correct:

- **Storage engine.** Crashes between any two calls to the operating system,
  calls that fail halfway, several writers. Correct if every published
  generation survives, none is invented or applied twice, transactions are
  atomic and in one order, the directory can always be opened, and no error path
  keeps the mutex.
- **Query cache.** Lookup, evaluation and insertion interleave with a commit's
  publication and shard-by-shard clear. Correct if a cached answer is as current
  as an uncached one, and each shard is an LRU whose eviction loop ends.
- **Index snapshots.** Redundant state (live masks and latest locations;
  counters kept up by increments; postings remapped by compaction) over long
  sequences of legal calls. Correct if the redundant parts agree, if compaction
  and restart change neither documents nor scores, and if what is written is what
  the strict decoder accepts.
- **Search.** Pruning by upper bounds, over several segments, with ties and dead
  documents. Correct if it returns what an exhaustive search returns, and ends.
- **Text and matching.** Two buffers, offsets that saturate, positions of all
  columns on one number line, a window that slides over several columns with counts
  of repeated terms. Correct if the tokens are the runs of the text, and if a query
  finds by positions what it says of the text.
- **Checkpoint files.** Names that repeat, files that an interrupted `optimize`
  left, files that have become unreadable, a directory that lists them in any
  order. Correct if `open` starts from the newest readable one and rejects a
  directory that has only unreadable ones.
- **Codec.** Shifts in a 64-bit buffer, bit widths per block, differences across
  blocks, and readers that must take no byte on trust. Correct if what is written
  reads back, damage is noticed, and whatever a reader accepts is well formed.

## 2. Modules

    KestrelCheckpoints    files, one by one ---- KestrelCheckpointsProofs
        |  implements                                |  uses
        v                                            v
    KestrelStorage ------ StorageRefinement --- KestrelStorageProofs
        |                      |
        |                      +--> TransactionalStore (abstract)
        |  a snapshot is (generation, table)
        v
    KestrelIndex -------- KestrelSnapshot ----> DocumentTable (abstract)
        |    \                 \-- KestrelSnapshotProofs
        |     \-- KestrelIndexProofs  (used by the proofs about snapshots and search)
        +---- KestrelQuery ---- KestrelSearch -- KestrelSearchProofs
        |          \----- KestrelNear ------ KestrelText -- KestrelTextProofs
        +---- KestrelTokenizer --------------/
    KestrelCodec -------- KestrelCodecProofs    sections of bytes
    KestrelCache -------- KestrelCacheProofs

`MCStorage`, `MCCheckpoints`, `MCCache`, `MCSnapshot`, `MCSearch`, `MCText` and
`MCCodec` give instances their texts, queries and symmetry.

**KestrelStorage** — one action for each step of `commit`, `optimize` and `open`
that another thread or a crash can tell apart. `pc[w]` is where thread `w` is in
its call, `writer` the holder of the mutex, `phase` and `cursor` where `open` is.
A snapshot is its generation and the table it stands for. The log is a sequence
of frames, each with its offset, its size and how many of its units the file has,
so that `Verdict` can follow `read_wal` through short frames with other frames
behind them: a frame of which fewer than 16 bytes are left, or that ends at or
behind the end of the file and is damaged, is a torn tail; anything else is
corruption. `durable` and `onDisk` are the log and the directory as of the last
sync; `WalImages` and `DirectoryImages` are what a crash may leave. `Faults` says
which calls to the operating system may fail. `history` is a ghost: all tables
that were ever published.

**TransactionalStore** — what the crate promises: one table. A client writes a
draft, requests that it be carried out, and may forget it; a request is carried out
whole and once, in an order that all agree on, or not at all, and it ends only
when it was carried out or when it is forgotten. Closing keeps the table and loses
the drafts; what was requested may be left over and be carried out, once, when the
store opens again. `StorageRefinement` maps the engine to it: a thread is a
client, its canonical transaction the draft, and what is left over are the whole
frames in the log that nobody published.

**KestrelCheckpoints** — the same engine with its checkpoints as files: a name
(generation and nonce), an extension, a format, contents, and whether
`read_checkpoint` accepts it. `optimize` creates the `.tmp` file, writes it, renames
it and removes the others one at a time; `load_latest_checkpoint` reads the
candidates one at a time in any order. A `.tmp` file may be left by a crash or an
error and be met again when nonce and generation repeat; a directory may start with
a checkpoint of the first format, which is one transaction; while the database is
closed a checkpoint may become unreadable. Everything else is `KestrelStorage`'s
own step, through an instance in which the checkpoints are what the readable files
stand for, and `ImplementsEngine` says that the file steps are its steps too. `Serve`
is a step of its own, because what `open` serves after damage may be older than what
was published, or newer than what the damage had left: `history` then follows it.

**KestrelCodec** — one section of a checkpoint from values to bytes and back, a turn
of a loop each step. The widths of bytes, words, the buffer, blocks and checksum
are constants. The buffer is a sequence of bits; that it never outgrows 64 is part
of the type invariant, which is what makes the shifts of the code safe. CRC32C is
computed as the code does it, by a table of divisions. Sections may be damaged by
a burst, cut, extended, or come from elsewhere.

**KestrelCache** — `Database::search` in five steps (`Call`, `TakeSnapshot`,
`Hit`/`Miss`, `EvaluateQuery`, `Insert`), and the writer in two (publish, then
clear each shard). A shard has entries and an order, which `get` and `insert` keep
up separately, as the code does with its map and its deque; `recency` is a ghost, the
keys that were asked for since the shard was cleared, the last one last. The hash
of keys to shards is arbitrary.

**KestrelIndex** — `Segment::build`, `finish_blocks`, `with_prebuilt_commit`,
`remove_latest`, `compacted`, and the loop in which `open` applies the log, with its
test of the generation (`Replay`), as functions on records that have the fields of
the Rust structs. The rows of one transaction are distinct after
`canonicalize_operations`, so the loops over them are one update.
**KestrelSnapshot** runs them step by step: `commit` appends its frame and publishes,
`optimize` renames the checkpoint, empties the log and publishes what it compacted, and
`pc` is where the call with the mutex is. `Reopen` may come between any two of these
steps, and `OptimizeFails` behind the rename, where the error is returned with the old,
uncompacted snapshot published: commits go on from that one, while `open` would start
from the compacted checkpoint. That writes and syncs of the log may fail in `commit`,
and what power failures leave of it, is in `KestrelStorage`. A segment in a file has
no term lists (`Written`); the reader makes them again out of the postings
(`ReadBack`), and the maps, masks and counters out of the segments
(`DecodeSnapshot`). **DocumentTable** is what all this looks like through
`Database::get`.

**KestrelQuery** — which documents match a query, which terms are scored, which
of its ways `search` takes. **KestrelSearch** — one search, a turn of a loop each
step: blocks of a single list, aligned cursors of a conjunction or phrase, and the
pruned loop with its pivot. **KestrelNear** — the loop of `matches_near`.

**KestrelTokenizer** — `tokenize_fields`, a character at a time; characters are
letters (in two cases), CJK characters or separators. **KestrelText** puts these
together: a text is tokenized and becomes a segment, and a query, made with the
constructors of `Query`, is matched against it. `Means` says what a query says of a
text, without positions.

Names follow the code where they can; `\* Seeded fault` marks a definition that
exists only to show that a property notices the fault.

## 3. Runs

| Run | Instance | Shows |
|---|---|---|
| StorageCrashes | 2 threads, 3 generations, 3 power failures, every call of optimize may fail | `SourceOfTruth`, `NothingPublishedIsLost`, `AlwaysOpens`, `ImplementsStore` |
| StorageProgress | 2 threads, all calls may fail, 1 kill | `LockIsReleased`, `WaitersAdvance`, `OpenEnds` |
| CacheShards | 2 readers, 2 queries, 2 shards, capacities 0, 1, 3 | `ReadsAreCurrent`, `KeepsMostRecent` |
| SnapshotHistory | 3 rows, 3 commits of row sets {1,2}, {2,3}, {3}; blocks and words of 2 | `LiveIsLatest`, `CountersExact`, `SegmentsAreBuilt`, `CheckpointReads`, `RestartIsFaithful`, `ScoresAreStable`, `ImplementsTable` |
| SearchPruned | 5 rows in 2 segments, 8 queries, limits 1 and 2 | `NothingBetterPassed`, `PrunedIsExhaustive`, `Terminates` |
| TextMatches | all texts of 5 and 2 characters, 35 queries | `TokensAreRuns`, `WindowIsCounted`, `AnswerIsNear`, `AnswerIsMeaning`, `Answers` |
| CheckpointFiles | 1 thread, 2 rows, 2 operations, 2 generations, 2 nonces, 1 kill, 1 damaged file | `LoadsNewestReadable`, `CoveredDamageIsHarmless`, `ImplementsEngine`, `ImplementsStoreSteps` |
| CodecRoundTrips | sections of up to 3 values, and any 4 bytes | `RoundTrip`, `WrongLengthIsRejected`, `BurstsAreNoticed`, `DecodedIsWellFormed`, `InBounds` |

Why these bounds are enough to meet the interesting cases:

- `MaxGeneration` of 1 to 3 stands for `u64::MAX` and bounds the log. Two commits
  suffice for a frame behind another; the third lets a checkpoint, a frame that it
  covers and a frame that it does not cover come together.
- A header is two units (the magic; length and checksum), so that a cut can fall
  inside the header, behind it, and inside the payload. Payloads are of one unit,
  or of one and three where a short write must swallow the next frame.
- A killed process leaves the log and the directory as they are; a power failure
  may leave them so too. StorageCrashes thus covers histories of kills only.
- Three crashes let one happen while recovering from another. `MaxFrames` never
  binds in the safety runs; in StorageProgress it keeps the state space small.
- Words of masks and blocks of postings are two long instead of 64 and 128; a
  transaction of two rows fills one, and a compaction of three live rows begins the
  next. `RowSets` bounds the rows of one transaction: two pairs that overlap in one
  row, so that a commit replaces part of a segment, and a single row.
- In SearchPruned a list has up to two blocks, a document of the first segment is
  replaced or deleted by the second, and scores collide, so that the comparison
  with the threshold is decided by rows.
- In TextMatches columns have three positions and texts up to five tokens, so that
  the saturated position occurs twice; `AnswerIsMeaning` speaks of the texts that
  fit, some of which fill a column exactly and go on in the next one. `FieldsFit` also
  leaves out a 64th field that fills its column exactly: its last position is
  `u32::MAX`, behind which `saturating_add` (index.rs:787, 864) stays in place, so that
  a phrase could go on where it is. No instance here has 64 fields.
- In SnapshotHistory nothing bounds the calls of `optimize`: each commit may meet a
  checkpoint that is as old as the published snapshot, older, or compacted from it
  when `optimize` failed, with the log emptied or not.
- In CheckpointFiles two nonces make names repeat after two calls of `optimize`, and
  two rows with two operations let a transaction name both rows or one row twice.
  One thread is enough for the files: they are only touched under the writer mutex,
  and StorageCrashes has two threads. `MaxFiles` keeps `optimize` from creating a
  third file; two are an old checkpoint and a new one, or a checkpoint and a
  leftover. A kill leaves the directory as it is listed, so that the durability of
  entries is left to StorageCrashes.
- In CodecRoundTrips a byte has three bits, a word five and a block two values, so
  that values straddle bytes, blocks end inside a byte, widths go from none to a
  whole word, and a variable-length integer takes up to three groups, the last one
  partial. The checksum has five bits and a primitive polynomial; bursts are all
  those not longer than it.

The cfg of a run turns deadlock checking off where a call simply ends: a search,
a match, and StorageProgress and StorageShortWrite, where a failed `open` is the
end. The symmetry sets are used for invariants and for `ImplementsStore` only; no
definition chooses among their elements.
CheckpointFiles and CodecRoundTrips end when `open` fails or a section is read.

**Fairness.** `KestrelStorage!FairSpec` assumes that `open` runs on (it is one
thread in a loop), and weak fairness of each thread's steps in `commit` and in
`optimize`: a thread that holds the mutex is scheduled, and a thread that waits
gets a mutex that stays free. `std::sync::Mutex` queues nobody, so it is not
assumed that a particular waiter ever gets it, and `WaitersAdvance` says no more.
No thread has to start a call, and crashes are never fair. `KestrelSearch` and
the window of `KestrelText` are loops on one thread: weak fairness of their steps.

## 4. Where code and documentation disagree

Four runs expect a violation; `findings` in `PROJECT.json` quotes both sides.

| Run | Disagreement |
|---|---|
| StorageShortWrite | a failed `write_all` leaves part of a frame; recovery may take it for the torn tail and cut off the acknowledged commit behind it |
| StorageFailedSync | a failed `sync_data` leaves a whole frame; the next commit repeats its generation and the log is rejected |
| SnapshotLongField | saturated positions repeat, and the decoder of checkpoints rejects them |
| SearchNegation | a disjunction with a negation loses hits against the exhaustive search |

The other storage runs assume an environment by their constants. Three of these
assumptions the code does not ensure by itself; to see what happens without them,
change StorageCrashes.cfg:

- `PayloadSizes = {1, 2}`, longer than `MaxWalRecord`: `AlwaysOpens` fails, because
  `encode_frame` (storage.rs:848) accepts 4 GiB and `read_wal` (storage.rs:882)
  only 256 MiB.
- `JournaledDirectory = FALSE`: `SourceOfTruth` fails, because the log is emptied
  and synced before the rename of the checkpoint is durable (storage.rs:229-236).
- `CrashKinds = {"process", "power"}`: `SourceOfTruth` fails, because `open`
  serves commits that it read from the page cache without syncing them
  (storage.rs:117-127); after the power failure that `SourceOfTruth` warns of, so
  does `NothingPublishedIsLost`.

One more divergence needs no run: the doc of `query_cache_capacity`
(storage.rs:37) calls it the number of results retained, but each shard gets its
part rounded up (storage.rs:360), so that 17 configured results make 32 places.

## 5. Proofs

`KestrelStorageProofs` proves `Spec => []TypeOK` under every fault and crash. The
types alone are not inductive: that the replayed table is a table needs that no
document which validation rejects is in the log, so `TypeInv` adds that.

It proves then, under the hypothesis `Benign`, that the engine never loses what it
published (`SourceOfTruth`), that an open database serves exactly the newest
generation (`NothingPublishedIsLost`), and that recovery never meets corruption
(`AlwaysOpens`). `Benign` says that writes and syncs of the log succeed, that no
transaction exceeds the recovery limit, that a rename is durable when it returns,
and that kills and power failures do not alternate; each part is necessary, as
StorageShortWrite, StorageFailedSync and the three changes of StorageCrashes in
section 4 show. The failures of `optimize` are *not* excluded.

None of the three is inductive. The invariant `IInv` adds:

- `Exclusive`: one thread at a time is between taking and dropping the mutex;
- `Chained`: log, and durable log where power may fail, are consecutive
  generations, whole but for the last frame, and each published frame is the
  difference between the tables before and after it;
- `Checkpointed`: a checkpoint is a table that was published;
- `Logged`: both logs restore the newest generation, and they agree on every
  published frame;
- `Serving`: at each point of a commit or optimize, what the log has beyond the
  published generation;
- `Recovering`: the snapshot that `open` has reached is a published one, or the
  one that a single unpublished frame adds to it.

One lemma for each action shows that it keeps `IInv`; `VerdictOfChain` shows that
`read_wal` classifies the frames of a chained log rightly, `CrashImage` that a
crash leaves a chained log. `Inductive` combines them, and the three theorems
follow from it.

Under the same hypothesis the engine implements `TransactionalStore` (`Implements`): an
initial state maps to an initial state, and `StepImplements` maps each step to one of
the store's or to none. It needs, beside `IInv`, that the last sync left no whole
unpublished frame behind that recovery has since cut off (`Covered`): otherwise a power
failure would bring back a request that was already forgotten. That `push` followed by
`canonicalize_operations` is `Put` is the lemma `PushIsPut`.

`KestrelCheckpointsProofs` is about the files. In every environment, with power
failures, failing syncs and damaged files, no two files have one name
(`FilesTypeCorrect`) and `open` starts from the newest readable checkpoint
(`OpenLoadsNewest`); the invariant `FInv` says which file belongs to the running
`optimize` at each of its steps, and what `load_latest_checkpoint` knows of the
files it has read; it rests on the types, on `Exclusive`, and on `Bounded` (no
generation is beyond the last one), which hold in every environment. As long as no
file was damaged, under `Alike` (`Benign`, and that writing a `.tmp` file may fail),
the files implement `KestrelStorage` (`FilesImplementEngine`) and with it
`TransactionalStore` (`FilesImplementStore`); the invariant of
`KestrelStorageProofs` is used for that, with the readable files for its
checkpoints.

The second half of the module is about damage (`DamageIsHarmless`, under `Benign`). Once
the newest checkpoint cannot be read, `open` may skip a generation that neither an older
file nor the log holds, and commit on top of that: `history`, from which `IInv` takes
every table, is then no longer what the log replays. What stays true is said of two
snapshots at a time. The log `Leads` from one to another if there are tables of all
generations between them, each made of the one before by a whole frame; they are `Linked`
if the log leads from one to the other wherever it has a whole frame of every generation
between. The invariant `DInv` says that generations in the log rise, with at most the
last frame damaged; that any two readable checkpoints, the empty directory and what was
published last are linked (`Timeline`), by the file and, where power may fail, by what is
synced of it; and that the snapshot recovery has reached is linked to what it may have
come from and to what it should arrive at (`Reached`). A new frame links the new snapshot
to all others (`LinkedNext`), and what a truncation or a crash takes away only makes
the log cover less (`LinkedWithin`). TLC checked `DInv` on the instance of CheckpointFiles
and on one with two power failures before it was proved.

`KestrelCacheProofs` proves two things for any number of readers, queries, shards and
generations and any capacity. Answers are current, cached or not
(`CachedReadsAreCurrent`): every entry of every shard is the result of its own key,
and every search holds the snapshot it took, neither older than the call nor newer
than what is published (`CurrentInv`, which needs neither order nor size of a shard).
And each shard holds exactly the keys that were used last (`CacheIsLru`):
`ShardOrder` ties the order to the entries, to the capacity and to the history of
accesses, as the end of it.

`KestrelSnapshotProofs` proves of the snapshot, for any documents, rows, sizes of words
and blocks, and any number of steps, that masks and locations agree (`MasksAreRight`),
that every segment is what `Segment::build` would make of its documents
(`SegmentsStayBuilt`), that `open` is faithful wherever the program stops
(`RestartRestores`), and that it is one table to its readers (`SnapshotIsTable`).

Two snapshots stand side by side there: `Restored`, which `open` would make of the
checkpoint and the log, and `Newest`, which is published when the call at hand has ended.
They are not the same, since an `optimize` that fails or stops behind its rename leaves
them with different segments. `RestartIsFaithful` says that they have the same
generation, documents and counters, and are the same once both are compacted. The
invariant `SInv` says of the published snapshot and of `Restored` that every row
(`Located`) and every live bit (`Masked`) is right (`Good`), that `Restored` and `Newest`
show one table, that the log has nothing newer than `Newest` (`AllOld`, by which the
commits behind a new checkpoint are skipped), and that behind the rename the checkpoint
is the published snapshot, compacted. The hardest step is the rename, for which the
decoder must make the same maps, masks and counters out of one segment that `compacted`
makes out of many. Equality up to compaction follows because `compacted` depends on the
table only (`CompactedOfTable`).

It also proves that the counters are exact (`CountersAreExact`) and that
neither compaction nor restart changes a score (`ScoresStay`). Sums over live
documents are turned into sizes of sets of pairs (`Units`), so that no order of
addition matters; `Counted` then says, of the published snapshot and of `Restored`, that
the counters are functions of the table that readers see, which is what compaction and
restart keep.

Last, the strict decoder accepts every checkpoint that
`optimize` writes (`CheckpointsRead`) under the hypothesis `Fits`, that no field has
more tokens than a column has positions. The run SnapshotLongField shows that the
hypothesis is needed.

`KestrelIndexProofs` has what these proofs and those about searching need of
`KestrelIndex`: what `Segment::build`, a commit, a compaction and a replay do to
segments, locations, masks and counters, and sums of sums over finite sets.

`KestrelTextProofs` is about the window of NEAR, for any text, any query and any
column. `WindowsAreCounted` says that counts kept up by additions and subtractions
are those of the window; `WindowsAnswerNear` that one pass over the positions
answers what looking at every two positions of one column would. The invariant
`NearInv` says (in `Sliding`) that no two events that meet the query begin before the
left end of the window or end before the last position that was taken. A position is
taken only when the window lacks a term, so nothing that ends with that position can
have been missed (`TakeSlides`); the left end is given up only when the window has all
terms and is not close, and whatever met the query from there on would reach at least as
far as the window (`GiveUpSlides`). Two events meet a query where two positions do
(`MeetsIsNear`, `NearIsMet`), although the window may hold one position of a column
several times. For the window to be given positions at all, the module has the types of
tokens, terms and segments of a text that was read (`Reading`, `Listing`).

`KestrelSearchProofs` is about the pruned search, for any documents, any history of
commits, any size of blocks, any limit, and any score that grows with the frequency of a
term and falls with the length of the document, which is all that is used of BM25
(`SearchAssumption`). Its first half has the parts: that lists and the metadata of their
blocks are right (`ListIs`), that the bounds of lists and of blocks are at least what
their postings add (`ListBoundIs`, `BlockBoundIs`), what recursive definitions make of a
query (`MatchesKinds`, `ScoringKinds`), and what the heap keeps (`Keeps`: hits of a set
that are all of it, or as many as the limit and better than all others of it). The
second half has the invariant `SearchInv`: the heap keeps the best of what is *behind*
the search (`Behind`), which are the hits of the segments that are done, and of this one
those that `PastHere` tells of each of the three ways. On the pruned way a document is
past as soon as one of the cursors of its terms is past it, even if others still wait
for it, and `LeftHopeless` says that the bounds of those that wait do not reach the
threshold: this is why the loop may take up such a document later, without the cursor
that has left it, and cannot mistake it for a hit. A skipped block (`SkipKeeps`) passes
documents with the term of the block that no other cursor can make count; an advanced
cursor (`AdvanceKeeps`), documents before the pivot, whose cursors together stay below
the threshold. Bounds are below the threshold strictly, so that equal scores are decided
by the heap. `SearchKeepsBest` says that `SearchInv` is an invariant; its proof has one
lemma for each action.

`PrunedFindsTheBest` and `NothingBetterIsPassed` follow for all queries that can only be
matched by a document with one of their scoring terms (`Anchoring`: words, prefixes,
phrases, NEAR, their disjunctions and restrictions to a column, and conjunctions of one
of these with anything), and for queries that have no scoring term (`Unscored`), for which
`search` is exhaustive. The first kind is shown to be what it is by induction over the
height of a query (`Anchored`). Every query of the run SearchPruned is of the one kind or
of the other. A disjunction of a word with a negation is neither, and SearchNegation shows
that the theorem fails for it: that is the bug, not a limit of the proof.

`KestrelCodecProofs` is about the codec, for any widths of bytes, words, buffer and
blocks within `WidthAssumption` and `BlockAssumption`, any values to write and any bytes
to read. It begins with what the provers do not know: powers of two (a power counts the
subsets of a finite set, from which `PowerIs` follows), functions that are recursive on
an interval (`Recursion`), the number that bits make and the bits of a number
(`NumberOfBits`, `BitsOfNumber`, `NumberJoined`), and the groups of `put_var_u32`
(`VarBytesFollow`). The invariant `CodecInv` says that the values left in a block have
their bits in the buffer and in the bytes up to the end of the block (`BlockIsCovered`),
and that the groups of an integer end before the last bit of a word (`GroupsFit`). From
it follow that no shift of the packing loops loses a bit (`CodecTypeCorrect`), that the
unpacking loop stays inside its block (`UnpackingStaysInBounds`), and that whatever is
read has its length and ascends (`DecodedStaysWellFormed`).

For `RoundTrips` and `WrongLengthRejected`, writer and reader are tied together by
*cuts*: a cut is a place between two blocks, or between the groups of two integers, with
the number of integers before it (`Cuts`). `WriterInv` says that what is written is
whole from cut to cut, but for the block at hand, of which bytes and buffer `Hold` the
integers that are packed; `ReaderInv`, that the reader is at a cut and has read what is
before it, or is inside of a block whose other integers are in its buffer and the bytes
behind. The sections are any that agree with what was written as far as both go, which
is why one invariant serves sections that came unchanged, were cut off, or were
extended: only at the last cut are all integers read (`LastCut`), and there the lengths
tell them apart (`AllRead`). `TripInv` puts both together with the steps between; it
quantifies over sets of cuts, so TLC does not evaluate it, but it checks the two
properties that follow from it.

So every safety property of `KestrelStorage`, `KestrelSnapshot`, `KestrelCache`,
`KestrelSearch`, `KestrelNear` and `KestrelCheckpoints` is proved, refinements
included, and of `KestrelCodec` all but one. Only model-checked:

- liveness (`LockIsReleased`, `WaitersAdvance`, `OpenEnds`, `Terminates`, `Answers`),
  which is beyond the proof system;
- `TokensAreRuns` and `AnswerIsMeaning`: what tokens a whole text has, and what a
  recursive reference definition says of it;
- `BurstsAreNoticed`: that a CRC notices every burst as long as itself is a fact about
  divisions of polynomials, which the provers know nothing of.

The assumptions on constants are those the code gives: documents are finite sequences of
terms, and sizes of blocks, words and columns are at least one (`IndexAssumption`); a
query is a finite tree (`HeightAssumption`: each part is lower than the whole) of the
shapes that the constructors of `Query` make (`QueryAssumption`); letters and CJK
characters are not the same, and `to_lowercase` does nothing to a letter twice
(`CharacterAssumption`); terms are finitely many and scores grow as said
(`SearchAssumption`); a byte has two bits at least, a buffer takes a word beside an
unfinished byte, and the length of a block and the width of its values fit a byte
(`WidthAssumption`, `BlockAssumption`); values are words (`InputAssumption`). TLC
evaluates all of them in the runs.

## 6. Not modelled

- UTF-8, the tables of Unicode behind `is_alphanumeric` and `to_lowercase`, and
  fixed-width integers, which are copied as they are.
- Rounding of 32-bit floats: scores and bounds are integers, bounds are rounded up
  to a grid.
- Statistics of a search, which nothing depends on; the checks of `SearchOptions`,
  whose result the models assume.
- Several handles on one directory, which the crate neither prevents nor promises
  anything about, and file systems that leave zeros at the end of a file (see
  `hazards`).
- A gap between a checkpoint and the log, after a fall-back to an older checkpoint:
  `CoveredDamageIsHarmless` speaks of the case where the log covers the rest. Without
  it, `open` replays what it has on top of what it has (storage.rs:123-127).
- Panics and poisoned mutexes; release builds abort on panic.
- Command line and error types.

## 7. Plan

Done: storage engine, checkpoint files, codec, cache, snapshots, search, texts and
matching are modelled and checked; storage, checkpoint files, cache, snapshots, the
pruned search, the window of NEAR and the codec are proved as section 5 says.

Next, in this order:

1. Prove: that the tokenizer finds the runs of a text, and that matching by positions is
   what a query says of it; that the checksum notices bursts.
2. Model: torn tails that read as zeros, as one more kind of crash; several handles.
