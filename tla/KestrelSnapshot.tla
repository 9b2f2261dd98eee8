---------------------------- MODULE KestrelSnapshot ----------------------------
(***************************************************************************)
(* The in-memory snapshot of src/src/index.rs, and how it comes back from  *)
(* a checkpoint and the log: what KestrelStorage abstracts to a generation *)
(* and a table is here a list of immutable segments, a map from rows to    *)
(* their latest location, one live mask for each segment, and the counters *)
(* that BM25 scores are computed from.                                     *)
(*                                                                         *)
(* Every commit builds the next snapshot from the previous one and adds at *)
(* most one segment; optimize rewrites all live documents to one segment.  *)
(*                                                                         *)
(* A commit is in the log before it is published, and a compacted snapshot *)
(* in a checkpoint before the log is emptied and it is published.  The     *)
(* process may stop at any of these points, and optimize may fail behind   *)
(* the rename, with the old snapshot still published: what open restores   *)
(* is then not the published snapshot, but what a compaction or one more   *)
(* commit makes of it.  Writes and syncs of the log succeed here; what     *)
(* becomes of the files where they fail is in KestrelStorage.              *)
(***************************************************************************)
EXTENDS KestrelIndex

CONSTANTS
  MaxGeneration,  \* bound: commits
  RowSets         \* bound: the sets of rows that a transaction may name

ASSUME SnapshotAssumption ==
  /\ MaxGeneration \in Nat
  /\ RowSets \subseteq (SUBSET Rows) \ {{}}
  /\ \A S \in RowSets : IsFiniteSet(S)

VARIABLES
  snapshot,    \* the published snapshot
  checkpoint,  \* the newest checkpoint file
  log,         \* the transactions in kestrel.wal, oldest first
  pc           \* how far the call is that holds the writer mutex, if any does

vars == <<snapshot, checkpoint, log, pc>>

-----------------------------------------------------------------------------
(* Checkpoint files.                                                       *)

\* A segment in the file has documents without their terms, and posting lists.
Written(segment) ==
  [docs |-> [j \in DOMAIN segment.docs |->
     LET d == segment.docs[j] IN [row |-> d.row, doc |-> d.doc, len |-> d.len]],
   terms |-> segment.terms]

EncodeSnapshot(s) ==
  [generation |-> s.generation,
   segments |-> [i \in DOMAIN s.segments |-> Written(s.segments[i])]]

\* The checks of decode_snapshot on one segment of the file.  Positions are
\* written as deltas, which may not be zero.
ValidSegment(segment) ==
  \A t \in DOMAIN segment.terms :
    LET list == segment.terms[t]
        increasing(seq) == \A i, j \in DOMAIN seq : i < j => seq[i] < seq[j]
    IN /\ Len(list.docids) \in 1..Len(segment.docs)
       /\ ToSet(list.docids) \subseteq Numbers(segment.docs)
       /\ increasing(list.docids)
       /\ \A i \in DOMAIN list.freqs :
            /\ list.freqs[i] = Len(list.positions[i]) /\ list.freqs[i] # 0
            /\ increasing(list.positions[i])
       /\ list = FinishBlocks(segment.docs, list.docids, list.freqs, list.positions)

\* No row has two documents in the file.
Decodes(file) ==
  /\ \A i \in DOMAIN file.segments : ValidSegment(file.segments[i])
  /\ LET docs == FlattenSeq([i \in DOMAIN file.segments |-> file.segments[i].docs])
     IN \A i, j \in DOMAIN docs : i # j => docs[i].row # docs[j].row

\* Seeded fault: the documents in posting lists are counted from one.
ReadBackFromOne(segment) ==
  [docs |-> [j \in DOMAIN segment.docs |->
     [row |-> segment.docs[j].row, doc |-> segment.docs[j].doc,
      len |-> segment.docs[j].len,
      terms |-> {t \in DOMAIN segment.terms : j \in ToSet(segment.terms[t].docids)}]],
   terms |-> segment.terms]

\* The terms of a document are read from the posting lists.
ReadBack(segment) ==
  [docs |-> [j \in DOMAIN segment.docs |->
     [row |-> segment.docs[j].row, doc |-> segment.docs[j].doc,
      len |-> segment.docs[j].len,
      terms |-> {t \in DOMAIN segment.terms :
                   j - 1 \in ToSet(segment.terms[t].docids)}]],
   terms |-> segment.terms]

\* decode_snapshot: the maps, masks and counters are made again.
DecodeSnapshot(file) ==
  LET upTo[n \in 0..Len(file.segments)] ==
        IF n = 0 THEN [Default EXCEPT !.generation = file.generation]
        ELSE WithPrebuiltCommit(upTo[n - 1], file.generation,
                                ReadBack(file.segments[n]), {})
  IN upTo[Len(file.segments)]

-----------------------------------------------------------------------------
Init ==
  /\ snapshot = Default
  /\ checkpoint = EncodeSnapshot(Default)
  /\ log = <<>>
  /\ pc = "idle"

\* A transaction, once it is canonical: what becomes of each of its rows.
Transactions == UNION {[S -> Docs \cup {Absent}] : S \in RowSets}

\* The frames of the log.
Commits == [generation : 1..MaxGeneration, operations : Transactions]

\* commit appends its frame to the log and syncs it.
AppendCommit(tx) ==
  /\ pc = "idle"
  /\ snapshot.generation < MaxGeneration
  /\ log' = Append(log, [generation |-> snapshot.generation + 1, operations |-> tx])
  /\ pc' = "publish"
  /\ UNCHANGED <<snapshot, checkpoint>>

\* What is published when the call that holds the mutex has come to its end.
Newest ==
  IF pc = "publish"
  THEN WithCommit(snapshot, snapshot.generation + 1, Last(log).operations)
  ELSE snapshot

\* The next snapshot replaces the published one.
Publish ==
  /\ pc = "publish"
  /\ snapshot' = Newest
  /\ pc' = "idle"
  /\ UNCHANGED <<checkpoint, log>>

\* optimize has written the compacted snapshot and renames the file.
Rename ==
  /\ pc = "idle"
  /\ checkpoint' = EncodeSnapshot(Compacted(snapshot))
  /\ pc' = "truncate"
  /\ UNCHANGED <<snapshot, log>>

\* The log is emptied.
Truncate ==
  /\ pc = "truncate"
  /\ log' = <<>>
  /\ pc' = "truncateSync"
  /\ UNCHANGED <<snapshot, checkpoint>>

\* The log is synced, and what was compacted, of the snapshot that nobody else
\* could replace, is published.
SwapCompacted ==
  /\ pc = "truncateSync"
  /\ snapshot' = Compacted(snapshot)
  /\ pc' = "idle"
  /\ UNCHANGED <<checkpoint, log>>

\* Emptying or syncing the log fails.  optimize returns the error; the snapshot
\* stays as it was published, and commits go on from it.
OptimizeFails ==
  /\ pc \in {"truncate", "truncateSync"}
  /\ pc' = "idle"
  /\ UNCHANGED <<snapshot, checkpoint, log>>

\* Seeded fault: the tombstone of a replayed transaction is skipped.
ReopenWithoutDeletes ==
  /\ snapshot' = Replay(DecodeSnapshot(checkpoint),
       [n \in DOMAIN log |-> [log[n] EXCEPT
          !.operations = Restrict(@, DOMAIN @ \ Deletes(@))]])
  /\ pc' = "idle"
  /\ UNCHANGED <<checkpoint, log>>

\* Database::open, wherever the process stopped: the checkpoint, which reads
\* (see CheckpointReads), then each commit of the log.
Reopen ==
  /\ snapshot' = Replay(DecodeSnapshot(checkpoint), log)
  /\ pc' = "idle"
  /\ UNCHANGED <<checkpoint, log>>

Next ==
  \/ \E tx \in Transactions : AppendCommit(tx)
  \/ Publish
  \/ Rename \/ Truncate \/ SwapCompacted \/ OptimizeFails
  \/ Reopen

Spec == Init /\ [][Next]_vars

-----------------------------------------------------------------------------
(* Properties.                                                             *)

\* The places of a snapshot where a document is.
Places(s) ==
  UNION {{[segment |-> i - 1, docid |-> n] : n \in Numbers(s.segments[i].docs)} :
           i \in DOMAIN s.segments}

LivePlaces(s) ==
  {p \in Places(s) : IsLive(s, p.segment, p.docid)}

\* The type invariant; a mask has the words its segment needs.
TypeOK ==
  /\ snapshot.generation \in 0..MaxGeneration
  /\ DOMAIN snapshot.latest \subseteq Rows
  /\ \A r \in LiveRows(snapshot) : snapshot.latest[r].segment < Len(snapshot.segments)
  /\ Len(snapshot.live_masks) = Len(snapshot.segments)
  /\ \A i \in DOMAIN snapshot.segments :
       Len(snapshot.live_masks[i]) = CeilDiv(Len(snapshot.segments[i].docs), WordBits)
  /\ snapshot.live_docs \in Nat /\ snapshot.total_doc_len \in Nat
  /\ DOMAIN snapshot.term_df \subseteq Terms
  /\ log \in Seq(Commits)
  /\ pc \in {"idle", "publish", "truncate", "truncateSync"}

\* The live masks, which pruned searches look at, and the map of latest
\* locations, which get and exhaustive searches look at, name the same
\* documents: one for each live row, never a replaced or deleted one.
LiveIsLatest ==
  LivePlaces(snapshot) =
    {[segment |-> snapshot.latest[r].segment, docid |-> snapshot.latest[r].docid] :
       r \in LiveRows(snapshot)}

\* The counters of the snapshot, kept up by increments over any sequence of
\* upserts, replacements, deletions, compactions and restarts, are what
\* counting the live documents anew would give; no term is left without one.
CountersExact ==
  LET live == LivePlaces(snapshot)
      having(t) == {p \in live : t \in DocAt(snapshot, p).terms}
  IN /\ snapshot.live_docs = Cardinality(live)
     /\ snapshot.total_doc_len = SumFunction([p \in live |-> DocAt(snapshot, p).len])
     /\ snapshot.term_df =
          [t \in {u \in Terms : having(u) # {}} |-> Cardinality(having(t))]

\* Every segment is one that Segment::build would make of its documents,
\* also when compaction remapped postings and when it came from a file.
SegmentsAreBuilt ==
  \A i \in DOMAIN snapshot.segments :
    snapshot.segments[i] = Build(snapshot.segments[i].docs)

\* The checkpoint that optimize wrote passes every check of decode_snapshot.
CheckpointReads == Decodes(checkpoint)

Statistics(s) == <<View(s), s.live_docs, s.total_doc_len, s.term_df>>

\* Wherever the program stops, open restores what was published, or what the
\* commit in the log is about to publish: the same documents and counters, and
\* up to compaction the same segments, locations and masks, out of a checkpoint
\* that has no locations, masks and counters, and a log that it may overlap.
\* More is not true.  Behind the rename of optimize, and after an optimize that
\* failed there, commits go on from a snapshot that was never compacted, while
\* open starts from the compacted one.
Restored == Replay(DecodeSnapshot(checkpoint), log)
RestartIsFaithful ==
  /\ Restored.generation = Newest.generation
  /\ Statistics(Restored) = Statistics(Newest)
  /\ Compacted(Restored) = Compacted(Newest)

\* Neither compaction nor a restart changes what a search finds or how it
\* scores: same documents, same statistics, as long as no commit happens.
ScoresAreStable ==
  [][snapshot'.generation = snapshot.generation =>
       Statistics(snapshot') = Statistics(snapshot)]_vars

Table == INSTANCE DocumentTable WITH
  table <- View(snapshot), generation <- snapshot.generation

\* Seen through Database::get, the snapshot is one table of documents: this
\* is the table by which KestrelStorage stands for a snapshot.
ImplementsTable == Table!Spec

=============================================================================
