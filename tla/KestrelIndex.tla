----------------------------- MODULE KestrelIndex ------------------------------
(***************************************************************************)
(* Segments and snapshots of src/src/index.rs as pure functions: what      *)
(* Segment::build makes of documents, and what a commit or a compaction    *)
(* makes of a snapshot.  KestrelSnapshot runs them as a state machine,     *)
(* KestrelSearch searches what they make.                                  *)
(*                                                                         *)
(* A document is a sequence of fields, a field a sequence of terms, as the *)
(* tokenizer finds them.  Documents are numbered from 0 in a segment, and  *)
(* segments from 0 in a snapshot, as in the code.  The rows of a           *)
(* transaction are distinct once it is canonical, so that the loops over   *)
(* them are modelled as one update.                                        *)
(***************************************************************************)
EXTENDS Integers, Sequences, FiniteSets, FiniteSetsExt, SequencesExt

CONSTANTS
  Rows,        \* row identifiers, which are integers
  Docs,        \* documents
  Absent,      \* no document; as an operation, Delete
  Terms,       \* terms
  Fields,      \* Fields[d]: the terms of each field of document d
  ColumnSize,  \* MAX_POSITION + 1: positions in a column
  BlockSize,   \* POSTING_BLOCK_SIZE
  WordBits     \* bits in a word of a live mask

ASSUME IndexAssumption ==
  /\ Rows \subseteq Int
  /\ Absent \notin Docs
  /\ Fields \in [Docs -> Seq(Seq(Terms))]
  /\ ColumnSize \in Nat \ {0}
  /\ BlockSize \in Nat \ {0}
  /\ WordBits \in Nat \ {0}

CeilDiv(a, b)   == (a + b - 1) \div b
Smaller(a, b)   == IF a < b THEN a ELSE b
Numbers(seq)    == 0..(Len(seq) - 1)

\* The entries of `new`, and those of `old` for all else: HashMap::insert.
Updated(old, new) ==
  [x \in DOMAIN old \cup DOMAIN new |-> IF x \in DOMAIN new THEN new[x] ELSE old[x]]

\* The elements of a finite set in a strict total order.
SortedBy(before(_, _), S) ==
  [i \in 1..Cardinality(S) |->
     CHOOSE x \in S : Cardinality({y \in S : before(y, x)}) = i - 1]

Ascending(S) == SortedBy(<, S)

-----------------------------------------------------------------------------
(* Documents.                                                              *)

\* tokenize_fields: the n-th token of a column.  Beyond the last position of
\* a column all tokens are at that position.
Position(column, n) == (column - 1) * ColumnSize + Smaller(n - 1, ColumnSize - 1)

\* group_positions: the positions of each term in a document's fields.
GroupedPositions(fields) ==
  [t \in Terms |->
     FlattenSeq([c \in DOMAIN fields |->
       LET at == Ascending({n \in DOMAIN fields[c] : fields[c][n] = t})
       IN [i \in DOMAIN at |-> Position(c, at[i])]])]

Positions == [d \in Docs |-> GroupedPositions(Fields[d])]

\* The length of a document counts all its tokens.
TokenCount(fields) == SumFunction([c \in DOMAIN fields |-> Len(fields[c])])
Length(d)          == TokenCount(Fields[d])
UniqueTerms(d) == {t \in Terms : Positions[d][t] # <<>>}

StoredDocument(row, d) ==
  [row |-> row, doc |-> d, len |-> Length(d), terms |-> UniqueTerms(d)]

-----------------------------------------------------------------------------
(* Posting lists and segments.                                             *)

LengthsOf(docs, docids) == {docs[docids[i] + 1].len : i \in DOMAIN docids}

\* Block k of a posting list.
BlockMeta(docs, docids, freqs, k) ==
  LET start == (k - 1) * BlockSize + 1
      end   == Smaller(k * BlockSize, Len(docids))
  IN [end      |-> end,
      last     |-> docids[end],
      max_tf   |-> Max(ToSet(SubSeq(freqs, start, end))),
      min_len  |-> Min(LengthsOf(docs, SubSeq(docids, start, end)))]

\* finish_blocks, for a list that is not empty: the metadata of the list and
\* of each of its blocks.
FinishBlocks(docs, docids, freqs, positions) ==
  [docids    |-> docids,
   freqs     |-> freqs,
   positions |-> positions,
   max_tf    |-> Max(ToSet(freqs)),
   min_len   |-> Min(LengthsOf(docs, docids)),
   blocks    |-> [k \in 1..CeilDiv(Len(docids), BlockSize) |->
                    BlockMeta(docs, docids, freqs, k)]]

RowsOf(docs)   == {docs[i].row : i \in DOMAIN docs}
AllTerms(docs) == UNION {docs[i].terms : i \in DOMAIN docs}

\* A segment of these documents, where posting[n][t] has the frequency and the
\* positions of term t in document n.
SegmentOf(docs, posting) ==
  [docs  |-> docs,
   terms |-> [t \in AllTerms(docs) |->
      LET docids == Ascending({n \in Numbers(docs) : t \in docs[n + 1].terms})
          found  == [i \in DOMAIN docids |-> posting[docids[i]][t]]
      IN FinishBlocks(docs, docids,
                      [i \in DOMAIN docids |-> found[i].freq],
                      [i \in DOMAIN docids |-> found[i].positions])]]

\* Segment::build: documents get posting lists.
Build(docs) ==
  SegmentOf(docs, [n \in Numbers(docs) |-> [t \in docs[n + 1].terms |->
    LET at == Positions[docs[n + 1].doc][t] IN [freq |-> Len(at), positions |-> at]]])

\* PostingList::find, on a list that is ascending and has the document.
Find(list, n) == CHOOSE i \in DOMAIN list.docids : list.docids[i] = n

-----------------------------------------------------------------------------
(* Live masks: a sequence of words, each the set of its bits that are set. *)

\* Seeded fault: one word more, also after a full one.
FullLiveMaskRoundedUp(n) ==
  [w \in 1..(n \div WordBits + 1) |->
     0..((IF w * WordBits <= n THEN WordBits ELSE n % WordBits) - 1)]

FullLiveMask(n) ==
  [w \in 1..CeilDiv(n, WordBits) |->
     0..((IF w * WordBits <= n THEN WordBits ELSE n % WordBits) - 1)]

ClearBits(mask, docids) ==
  [w \in DOMAIN mask |->
     mask[w] \ {n % WordBits : n \in {m \in docids : m \div WordBits = w - 1}}]

\* Snapshot::is_live.
IsLive(s, segment, docid) ==
  docid % WordBits \in s.live_masks[segment + 1][docid \div WordBits + 1]

-----------------------------------------------------------------------------
(* Snapshots.                                                              *)

Default ==
  [generation |-> 0, segments |-> <<>>, latest |-> << >>, live_masks |-> <<>>,
   term_df |-> << >>, live_docs |-> 0, total_doc_len |-> 0]

Tombstone == [segment |-> 0, docid |-> 0, deleted |-> TRUE]

DocAt(s, location) == s.segments[location.segment + 1].docs[location.docid + 1]

LiveRows(s) == {r \in DOMAIN s.latest : ~s.latest[r].deleted}

\* Database::get.
View(s) ==
  [r \in Rows |-> IF r \in LiveRows(s) THEN DocAt(s, s.latest[r]).doc ELSE Absent]

\* Document frequencies with more[t] documents more, or less, for each term; a
\* term that no live document has is removed.
Reweighed(df, more) ==
  LET sum == [t \in DOMAIN df \cup DOMAIN more |->
                (IF t \in DOMAIN df THEN df[t] ELSE 0) +
                (IF t \in DOMAIN more THEN more[t] ELSE 0)]
  IN Restrict(sum, {t \in DOMAIN sum : sum[t] # 0})

HowMany(docs, t) == Cardinality({i \in DOMAIN docs : t \in docs[i].terms})

\* Seeded fault: a term of removed documents stays in the map without a count.
RemoveButKeepTerms(s, rows) ==
  LET gone == {s.latest[r] : r \in rows \cap LiveRows(s)}
  IN [s EXCEPT
        !.live_masks = [i \in DOMAIN @ |->
           ClearBits(@[i], {l.docid : l \in {m \in gone : m.segment = i - 1}})],
        !.live_docs = @ - Cardinality(gone),
        !.total_doc_len = @ - SumFunction([l \in gone |-> DocAt(s, l).len]),
        !.term_df = [t \in DOMAIN @ |->
           @[t] - Cardinality({l \in gone : t \in DocAt(s, l).terms})]]

\* remove_latest for each of the rows: what they had is no longer live.
RemoveLatest(s, rows) ==
  LET gone == {s.latest[r] : r \in rows \cap LiveRows(s)}
  IN [s EXCEPT
        !.live_masks = [i \in DOMAIN @ |->
           ClearBits(@[i], {l.docid : l \in {m \in gone : m.segment = i - 1}})],
        !.live_docs = @ - Cardinality(gone),
        !.total_doc_len = @ - SumFunction([l \in gone |-> DocAt(s, l).len]),
        !.term_df = Reweighed(@, [t \in DOMAIN @ |->
           -Cardinality({l \in gone : t \in DocAt(s, l).terms})])]

\* The rows of a new segment, at index `index`, become live.
AddDocs(s, docs, index) ==
  [s EXCEPT
     !.live_docs = @ + Len(docs),
     !.total_doc_len = @ + SumFunction([i \in DOMAIN docs |-> docs[i].len]),
     !.term_df = Reweighed(@, [t \in AllTerms(docs) |-> HowMany(docs, t)]),
     !.latest = Updated(@, [r \in RowsOf(docs) |->
        [segment |-> index, deleted |-> FALSE,
         docid |-> CHOOSE n \in Numbers(docs) : docs[n + 1].row = r]])]

\* The segment and its mask are pushed.  One without documents stands for None.
AddSegment(s, segment) ==
  IF segment.docs = <<>> THEN s
  ELSE [AddDocs(s, segment.docs, Len(s.segments)) EXCEPT
          !.live_masks = Append(@, FullLiveMask(Len(segment.docs))),
          !.segments = Append(@, segment)]

\* Seeded fault: only rows that are deleted lose their old document.
ReplaceWithoutRemoval(s, g, segment, deletes) ==
  AddSegment([RemoveLatest(s, deletes) EXCEPT
                !.generation = g,
                !.latest = Updated(@, [r \in deletes |-> Tombstone])], segment)

\* with_prebuilt_commit.
WithPrebuiltCommit(s, g, segment, deletes) ==
  LET rows == deletes \cup RowsOf(segment.docs)
  IN AddSegment([RemoveLatest(s, rows) EXCEPT
                   !.generation = g,
                   !.latest = Updated(@, [r \in deletes |-> Tombstone])], segment)

\* Canonical transactions: an operation for each of some rows.
RowTransactions ==
  UNION {[S -> Docs \cup {Absent}] : S \in {R \in SUBSET Rows : R # {} /\ IsFiniteSet(R)}}

\* canonicalize_operations sorts by row, split_operations separates.
Upserts(tx) ==
  LET rows == Ascending({r \in DOMAIN tx : tx[r] # Absent})
  IN [i \in DOMAIN rows |-> StoredDocument(rows[i], tx[rows[i]])]
Deletes(tx) == {r \in DOMAIN tx : tx[r] = Absent}

\* with_commit.
WithCommit(s, g, tx) == WithPrebuiltCommit(s, g, Build(Upserts(tx)), Deletes(tx))

\* A commit of the log is applied if the snapshot is older.
Applied(s, commit) ==
  IF commit.generation > s.generation
  THEN WithCommit(s, commit.generation, commit.operations)
  ELSE s

\* Each commit of the log in its turn.
Replay(s, commits) ==
  LET after[n \in 0..Len(commits)] ==
        IF n = 0 THEN s ELSE Applied(after[n - 1], commits[n])
  IN after[Len(commits)]

\* Seeded fault: a posting takes the first frequency of its old list.
CompactedFirstFrequency(s) ==
  LET rows == Ascending(LiveRows(s))
      docs == [i \in DOMAIN rows |-> DocAt(s, s.latest[rows[i]])]
      posting == [n \in Numbers(docs) |-> [t \in docs[n + 1].terms |->
        LET l    == s.latest[rows[n + 1]]
            list == s.segments[l.segment + 1].terms[t]
        IN [freq |-> list.freqs[1], positions |-> list.positions[Find(list, l.docid)]]]]
  IN WithPrebuiltCommit(Default, s.generation, SegmentOf(docs, posting), {})

\* Seeded fault: replaced and deleted documents are kept.
CompactedWithOldDocs(s) ==
  WithPrebuiltCommit(Default, s.generation,
    Build(FlattenSeq([i \in DOMAIN s.segments |-> s.segments[i].docs])), {})

\* compacted: the live documents in the order of their rows, with the
\* postings they had.
Compacted(s) ==
  LET rows == Ascending(LiveRows(s))
      docs == [i \in DOMAIN rows |-> DocAt(s, s.latest[rows[i]])]
      posting == [n \in Numbers(docs) |-> [t \in docs[n + 1].terms |->
        LET l    == s.latest[rows[n + 1]]
            list == s.segments[l.segment + 1].terms[t]
            i    == Find(list, l.docid)
        IN [freq |-> list.freqs[i], positions |-> list.positions[i]]]]
  IN WithPrebuiltCommit(Default, s.generation, SegmentOf(docs, posting), {})

=============================================================================
