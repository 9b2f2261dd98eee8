------------------------ MODULE KestrelSnapshotProofs ------------------------
(***************************************************************************)
(* What holds of every snapshot of KestrelSnapshot, for any documents,     *)
(* rows, sizes of words and of blocks, and any number of commits.          *)
(***************************************************************************)
EXTENDS KestrelSnapshot, KestrelIndexProofs

-----------------------------------------------------------------------------
(* Checkpoint files.                                                       *)

\* Nothing is removed from a snapshot without documents.
LEMMA NoneRemoved ==
  ASSUME NEW g, NEW rows
  PROVE  RemoveLatest(Empty(g), rows) = Empty(g)
<1> DEFINE e == Empty(g)
           gone == {e.latest[r] : r \in rows \cap LiveRows(e)}
           masks == [i \in DOMAIN e.live_masks |->
             ClearBits(e.live_masks[i], {l.docid : l \in {m \in gone : m.segment = i - 1}})]
           docs == e.live_docs - Cardinality(gone)
           len == e.total_doc_len - SumFunction([l \in gone |-> DocAt(e, l).len])
           df == Reweighed(e.term_df, [t \in DOMAIN e.term_df |->
             -Cardinality({l \in gone : t \in DocAt(e, l).terms})])
<1>1. e = [generation |-> g, segments |-> <<>>, latest |-> << >>, live_masks |-> <<>>,
           term_df |-> << >>, live_docs |-> 0, total_doc_len |-> 0]
  BY DEF Empty, Default
<1>2. RemoveLatest(e, rows) =
        [e EXCEPT !.live_masks = masks, !.live_docs = docs, !.total_doc_len = len,
                  !.term_df = df]
  BY <1>1 DEF RemoveLatest
<1>3. gone = {}
  BY <1>1 DEF LiveRows
<1>4. masks = <<>>
  BY <1>1
<1>5. docs = 0
  BY <1>1, <1>3, FS_EmptySet
<1>6. len = 0
  <2> DEFINE f == [l \in gone |-> DocAt(e, l).len]
  <2>1. DOMAIN f = {}
    BY <1>3
  <2> HIDE DEF f
  <2>2. SumFunction(f) = 0
    BY <2>1, SumOfNone
  <2> QED BY <1>1, <2>2 DEF f
<1>7. df = << >>
  <2> DEFINE more == [t \in DOMAIN e.term_df |->
                -Cardinality({l \in gone : t \in DocAt(e, l).terms})]
  <2>1. e.term_df = << >> /\ DOMAIN more = {}
    BY <1>1
  <2> HIDE DEF more, e
  <2>2. Reweighed(<< >>, more) = << >>
    BY <2>1 DEF Reweighed, Restrict
  <2> QED BY <2>1, <2>2 DEF more, e
<1> HIDE DEF masks, docs, len, df, gone
<1>8. [e EXCEPT !.live_masks = masks, !.live_docs = docs, !.total_doc_len = len,
                !.term_df = df] = e
  <2>1. /\ e = [x \in DOMAIN e |-> e[x]]
        /\ e.live_masks = <<>> /\ e.live_docs = 0 /\ e.total_doc_len = 0
        /\ e.term_df = << >>
    BY <1>1
  <2> HIDE DEF e
  <2>2. [e EXCEPT !.live_masks = <<>>, !.live_docs = 0, !.total_doc_len = 0,
                  !.term_df = << >>] = e
    BY <2>1
  <2> QED BY <1>4, <1>5, <1>6, <1>7, <2>2, Zenon
<1> QED BY <1>2, <1>8

\* A commit to a snapshot without documents, that deletes nothing.
LEMMA LoadIs ==
  ASSUME NEW h, NEW g, NEW segment
  PROVE  WithPrebuiltCommit(Empty(h), g, segment, {}) = AddSegment(Empty(g), segment)
<1> DEFINE e == Empty(h)
           buried == Updated(<< >>, [r \in {} |-> Tombstone])
           a == [e EXCEPT !.generation = g, !.latest = buried]
<1>1. /\ DOMAIN e = DOMAIN Empty(g) /\ e.latest = << >>
      /\ e = [x \in DOMAIN e |-> e[x]]
      /\ Empty(g) = [x \in DOMAIN Empty(g) |-> Empty(g)[x]]
      /\ DOMAIN e = {"generation", "segments", "latest", "live_masks", "term_df",
                     "live_docs", "total_doc_len"}
      /\ Empty(g).generation = g /\ Empty(g).latest = << >>
      /\ Empty(g).segments = e.segments
      /\ Empty(g).live_masks = e.live_masks /\ Empty(g).term_df = e.term_df
      /\ Empty(g).live_docs = e.live_docs /\ Empty(g).total_doc_len = e.total_doc_len
  BY DEF Empty, Default
<1>2. buried = << >>
  BY DEF Updated
<1>3. WithPrebuiltCommit(e, g, segment, {}) = AddSegment(a, segment)
  <2> DEFINE rows == {} \cup RowsOf(segment.docs)
  <2>1. RemoveLatest(e, rows) = e
    BY NoneRemoved
  <2>2. WithPrebuiltCommit(e, g, segment, {}) =
          AddSegment([RemoveLatest(e, rows) EXCEPT !.generation = g,
                        !.latest = Updated(@, [r \in {} |-> Tombstone])], segment)
    BY DEF WithPrebuiltCommit
  <2> HIDE DEF e, rows
  <2> QED BY <1>1, <2>1, <2>2
<1> HIDE DEF buried, e
<1>4. a = Empty(g)
  <2> DEFINE b == Empty(g)
  <2>1. /\ DOMAIN a = DOMAIN b /\ a = [x \in DOMAIN a |-> a[x]]
        /\ a.generation = b.generation /\ a.latest = b.latest
        /\ a.segments = b.segments /\ a.live_masks = b.live_masks
        /\ a.term_df = b.term_df /\ a.live_docs = b.live_docs
        /\ a.total_doc_len = b.total_doc_len
    BY <1>1, <1>2
  <2>2. b = [x \in DOMAIN b |-> b[x]]
    BY <1>1
  <2>3. DOMAIN b = {"generation", "segments", "latest", "live_masks", "term_df",
                    "live_docs", "total_doc_len"}
    BY <1>1
  <2> HIDE DEF a, b
  <2>4. \A x \in DOMAIN b : a[x] = b[x]
    BY <2>1, <2>3
  <2>5. a = b
    BY <2>1, <2>2, <2>4
  <2> QED BY <2>5 DEF b
<1> HIDE DEF a
<1> QED BY <1>3, <1>4 DEF e

\* The terms of the documents are found again in the posting lists.
LEMMA ReadBackIs ==
  ASSUME NEW docs \in Seq(Stored)
  PROVE  ReadBack(Written(Build(docs))) = Build(docs)
<1> DEFINE lists == Build(docs).terms
           w == Written(Build(docs))
           terms(j) == {t \in DOMAIN lists : j - 1 \in ToSet(lists[t].docids)}
           back == [j \in DOMAIN docs |->
                      [row |-> docs[j].row, doc |-> docs[j].doc, len |-> docs[j].len,
                       terms |-> terms(j)]]
<1>1. Build(docs) = [docs |-> docs, terms |-> lists] /\ DOMAIN lists = AllTerms(docs)
  BY BuildIs
<1>2. ASSUME NEW t \in AllTerms(docs) PROVE lists[t].docids = Docids(docs, t)
  <2> DEFINE ids == Docids(docs, t)
             freqs == [i \in DOMAIN ids |-> Len(PositionsIn(docs, ids[i], t))]
             positions == [i \in DOMAIN ids |-> PositionsIn(docs, ids[i], t)]
  <2>1. lists[t] = FinishBlocks(docs, ids, freqs, positions)
    BY BuildIs
  <2> HIDE DEF ids, freqs, positions, lists
  <2>2. lists[t].docids = ids
    BY <2>1 DEF FinishBlocks
  <2> QED BY <2>2 DEF ids
<1> HIDE DEF lists
<1>3. ASSUME NEW j \in DOMAIN docs PROVE terms(j) = docs[j].terms
  <2>1. j - 1 \in Numbers(docs) /\ (j - 1) + 1 = j
    <3>1. j - 1 \in Numbers(docs) /\ j \in Nat
      BY NumbersOf
    <3> QED BY <3>1
  <2>2. ASSUME NEW t \in docs[j].terms PROVE t \in terms(j)
    <3>1. t \in AllTerms(docs)
      BY DEF AllTerms
    <3>2. j - 1 \in Having(docs, t)
      BY <2>1 DEF Having
    <3>3. \E i \in DOMAIN Docids(docs, t) : Docids(docs, t)[i] = j - 1
      BY <3>2, DocidsAre
    <3>4. j - 1 \in ToSet(lists[t].docids)
      BY <1>2, <3>1, <3>3 DEF ToSet
    <3> QED BY <1>1, <3>1, <3>4
  <2>3. ASSUME NEW t \in terms(j) PROVE t \in docs[j].terms
    <3>1. t \in AllTerms(docs) /\ j - 1 \in ToSet(Docids(docs, t))
      BY <1>1, <1>2
    <3>2. PICK i \in DOMAIN Docids(docs, t) : Docids(docs, t)[i] = j - 1
      BY <3>1 DEF ToSet
    <3>3. j - 1 \in Having(docs, t)
      BY <3>2, DocidsAre
    <3> QED BY <2>1, <3>3 DEF Having
  <2> HIDE DEF terms
  <2> QED BY <2>2, <2>3
<1>4. back = docs
  <2>1. ASSUME NEW j \in DOMAIN docs PROVE back[j] = docs[j]
    <3>1. docs[j] = StoredDocument(docs[j].row, docs[j].doc)
      BY NumbersOf, StoredIs
    <3> DEFINE d == docs[j]
    <3>2. d = [row |-> d.row, doc |-> d.doc, len |-> d.len, terms |-> d.terms]
      BY <3>1 DEF StoredDocument
    <3>3. back[j] = [row |-> d.row, doc |-> d.doc, len |-> d.len, terms |-> terms(j)]
      OBVIOUS
    <3> HIDE DEF terms, back
    <3> QED BY <1>3, <3>2, <3>3
  <2> HIDE DEF terms
  <2>2. docs = [j \in DOMAIN docs |-> docs[j]] /\ DOMAIN back = DOMAIN docs
        /\ back = [j \in DOMAIN back |-> back[j]]
    OBVIOUS
  <2> HIDE DEF back
  <2> QED BY <2>1, <2>2
<1>5. /\ DOMAIN w.docs = DOMAIN docs /\ w.terms = lists
      /\ \A j \in DOMAIN docs : /\ w.docs[j].row = docs[j].row
                                /\ w.docs[j].doc = docs[j].doc
                                /\ w.docs[j].len = docs[j].len
  BY <1>1 DEF Written
<1> HIDE DEF w
<1>6. ReadBack(w) = [docs |-> back, terms |-> lists]
  <2> DEFINE read == [j \in DOMAIN w.docs |->
               [row |-> w.docs[j].row, doc |-> w.docs[j].doc, len |-> w.docs[j].len,
                terms |-> {t \in DOMAIN w.terms : j - 1 \in ToSet(w.terms[t].docids)}]]
  <2>1. ReadBack(w) = [docs |-> read, terms |-> w.terms]
    BY DEF ReadBack
  <2>2. read = back
    BY <1>5
  <2> HIDE DEF read, back
  <2> QED BY <1>5, <2>1, <2>2
<1> HIDE DEF back
<1> QED BY <1>1, <1>4, <1>6 DEF w

\* What a segment adds to a snapshot without documents.
LEMMA FirstSegment ==
  ASSUME NEW g, NEW segment, NEW c, c = AddSegment(Empty(g), segment)
  PROVE  /\ c.generation = g
         /\ segment.docs = <<>> => c = Empty(g) /\ c.segments = <<>>
         /\ segment.docs # <<>> => c.segments = <<segment>>
<1> DEFINE e == Empty(g)
           d == AddDocs(e, segment.docs, Len(e.segments))
<1>1. /\ DOMAIN e = {"generation", "segments", "latest", "live_masks", "term_df",
                     "live_docs", "total_doc_len"}
      /\ e.generation = g /\ e.segments = <<>>
  BY DEF Empty, Default
<1>2. CASE segment.docs = <<>>
  <2>1. c = e
    BY <1>2 DEF AddSegment
  <2> QED BY <1>1, <1>2, <2>1
<1>3. CASE segment.docs # <<>>
  <2>1. c = [d EXCEPT !.live_masks = Append(@, FullLiveMask(Len(segment.docs))),
                      !.segments = Append(@, segment)]
    BY <1>3 DEF AddSegment
  <2> HIDE DEF e
  <2>2. /\ DOMAIN d = DOMAIN e /\ d.segments = e.segments
        /\ d.generation = e.generation
    BY <1>1 DEF AddDocs
  <2> HIDE DEF d
  <2>3. c.generation = g /\ c.segments = Append(<<>>, segment)
    BY <1>1, <2>1, <2>2
  <2> QED BY <1>3, <2>3
<1> QED BY <1>2, <1>3

\* A file without segments, and a file with one.
LEMMA DecodeIs ==
  ASSUME NEW file, NEW g, file.generation = g
  PROVE  /\ file.segments = <<>> => DecodeSnapshot(file) = Empty(g)
         /\ \A x : file.segments = <<x>> =>
              DecodeSnapshot(file) = WithPrebuiltCommit(Empty(g), g, ReadBack(x), {})
<1> DEFINE next(f, n) == WithPrebuiltCommit(f[n - 1], file.generation,
                                            ReadBack(file.segments[n]), {})
           Step(f) == [n \in 0..Len(file.segments) |->
                         IF n = 0 THEN Empty(g) ELSE next(f, n)]
           upTo == CHOOSE f : f = Step(f)
<1>1. DecodeSnapshot(file) = upTo[Len(file.segments)]
  BY DEF DecodeSnapshot, Empty
<1>2. ASSUME file.segments = <<>> PROVE upTo[Len(file.segments)] = Empty(g)
  <2>1. Len(file.segments) = 0 /\ 0..0 = {0}
    BY <1>2
  <2> DEFINE f == [n \in 0..0 |-> Empty(g)]
  <2>2. \A h : Step(h) = f
    BY <2>1
  <2> HIDE DEF Step
  <2>3. upTo = Step(upTo)
    BY <2>2
  <2> HIDE DEF upTo
  <2> QED BY <2>1, <2>2, <2>3
<1>3. ASSUME NEW x, file.segments = <<x>>
      PROVE  upTo[Len(file.segments)] = WithPrebuiltCommit(Empty(g), g, ReadBack(x), {})
  <2> DEFINE one == WithPrebuiltCommit(Empty(g), g, ReadBack(x), {})
             f == [n \in 0..1 |-> IF n = 0 THEN Empty(g) ELSE one]
  <2>1. Len(file.segments) = 1 /\ 0..1 = {0, 1} /\ file.segments[1] = x
    BY <1>3
  <2>2. f[0] = Empty(g) /\ f[1] = one
    OBVIOUS
  <2>3. \A h : h[0] = Empty(g) => next(h, 1) = one
    BY <2>1
  <2> HIDE DEF one, next
  <2>4. ASSUME NEW h, h[0] = Empty(g) PROVE Step(h) = f
    <3>1. next(h, 1) = one
      BY <2>3, <2>4
    <3>2. Step(h) = [n \in 0..1 |-> IF n = 0 THEN Empty(g) ELSE next(h, n)]
      BY <2>1
    <3>3. \A n \in 0..1 : (IF n = 0 THEN Empty(g) ELSE next(h, n)) =
                          (IF n = 0 THEN Empty(g) ELSE one)
      BY <2>1, <3>1
    <3> QED BY <3>2, <3>3
  <2>5. \A h : Step(h)[0] = Empty(g)
    BY <2>1
  <2> HIDE DEF Step, f
  <2>6. f = Step(f)
    BY <2>2, <2>4
  <2>7. upTo = Step(upTo)
    BY <2>6
  <2> HIDE DEF upTo
  <2>8. upTo[0] = Empty(g)
    BY <2>5, <2>7
  <2>9. upTo = f
    BY <2>4, <2>7, <2>8
  <2> QED BY <2>1, <2>2, <2>9 DEF one
<1> QED BY <1>1, <1>2, <1>3

\* A restart after a compaction serves the very snapshot that was published.
LEMMA RestartIs ==
  ASSUME NEW s, Good(s)
  PROVE  DecodeSnapshot(EncodeSnapshot(Compacted(s))) = Compacted(s)
<1> DEFINE g == s.generation
           docs == LiveDocs(s)
           segment == Build(docs)
           c == Compacted(s)
           file == EncodeSnapshot(c)
<1>1. docs \in Seq(Stored) /\ segment.docs = docs
  BY LiveDocsAre, BuildIs
<1>2. c = WithPrebuiltCommit(Empty(0), g, segment, {})
  BY CompactedIs, EmptyGood
<1>3. c = AddSegment(Empty(g), segment)
  BY <1>2, LoadIs
<1>4. /\ file.generation = c.generation /\ DOMAIN file.segments = DOMAIN c.segments
      /\ file.segments = [i \in DOMAIN c.segments |-> Written(c.segments[i])]
  BY DEF EncodeSnapshot
<1>5. ReadBack(Written(segment)) = segment
  BY <1>1, ReadBackIs
<1> HIDE DEF g, docs, segment, c, file
<1>6. CASE docs = <<>>
  <2>1. c.generation = g /\ c = Empty(g) /\ c.segments = <<>>
    BY <1>1, <1>3, <1>6, FirstSegment
  <2>2. file.segments = <<>> /\ file.generation = g
    BY <1>4, <2>1
  <2>3. DecodeSnapshot(file) = Empty(g)
    BY <2>2, DecodeIs
  <2> QED BY <2>1, <2>3 DEF c, file
<1>7. CASE docs # <<>>
  <2>1. c.generation = g /\ c.segments = <<segment>>
    BY <1>1, <1>3, <1>7, FirstSegment
  <2> DEFINE w == Written(segment)
  <2>2. file.segments = <<w>> /\ file.generation = g
    BY <1>4, <2>1
  <2> HIDE DEF w
  <2>3. DecodeSnapshot(file) = WithPrebuiltCommit(Empty(g), g, ReadBack(w), {})
    BY <2>2, DecodeIs
  <2>4. DecodeSnapshot(file) = AddSegment(Empty(g), segment)
    BY <1>5, <2>3, LoadIs DEF w
  <2> QED BY <1>3, <2>4 DEF c, file
<1> QED BY <1>6, <1>7

-----------------------------------------------------------------------------
(* The invariant.                                                          *)

\* The invariant: the published snapshot and the one that a restart would make
\* are good, and show the same table as soon as the commit in the log, if there is
\* one, is published; the log has nothing newer than that.  Behind its rename,
\* optimize has the published snapshot, compacted, in the checkpoint.
SInv ==
  /\ Good(snapshot) /\ Good(Restored)
  /\ snapshot.generation \in 0..MaxGeneration
  /\ log \in Seq(Commits)
  /\ AllOld(log, Len(log), Newest.generation)
  /\ Restored.generation = Newest.generation
  /\ View(Restored) = View(Newest)
  /\ pc \in {"idle", "publish", "truncate", "truncateSync"}
  /\ pc = "publish" => /\ snapshot.generation < MaxGeneration
                       /\ Last(log).operations \in Transactions
  /\ pc \in {"truncate", "truncateSync"} =>
       checkpoint = EncodeSnapshot(Compacted(snapshot))

\* The bounds of an instance leave transactions of finite sets of rows.
LEMMA TransactionsAre == Transactions \subseteq RowTransactions
  BY SnapshotAssumption DEF Transactions, RowTransactions

LEMMA InitSInv == Init => SInv /\ Restored = Default
<1> SUFFICES ASSUME Init PROVE SInv /\ Restored = Default
  OBVIOUS
<1>1. /\ snapshot = Default /\ checkpoint = EncodeSnapshot(Default) /\ log = <<>>
      /\ pc = "idle"
  BY DEF Init
<1>2. Good(Default) /\ Empty(0) = Default
  BY EmptyGood
<1>3. Default.generation = 0 /\ Default.segments = <<>>
  BY DEF Default
<1>4. checkpoint.generation = 0 /\ checkpoint.segments = <<>>
  BY <1>1, <1>3 DEF EncodeSnapshot
<1>5. DecodeSnapshot(checkpoint) = Empty(0)
  BY <1>4, DecodeIs
<1>6. Restored = Default
  <2> DEFINE d == DecodeSnapshot(checkpoint)
  <2>1. Replay(d, <<>>) = d
    BY ReplayNone
  <2> QED BY <1>1, <1>2, <1>5, <2>1 DEF Restored
<1>7. Newest = Default
  BY <1>1 DEF Newest
<1>8. snapshot.generation \in 0..MaxGeneration
  BY <1>1, <1>3, SnapshotAssumption
<1>9. log \in Seq(Commits) /\ AllOld(log, Len(log), Newest.generation)
  BY <1>1 DEF AllOld
<1> QED BY <1>1, <1>2, <1>6, <1>7, <1>8, <1>9 DEF SInv

\* The log covers one commit more.
LEMMA OldGrows ==
  ASSUME NEW X, NEW commits \in Seq(X), NEW commit \in X, NEW g \in Nat,
         NEW h \in Nat, g <= h, commit.generation \in Nat, commit.generation <= h,
         AllOld(commits, Len(commits), g)
  PROVE  AllOld(Append(commits, commit), Len(Append(commits, commit)), h)
<1> DEFINE more == Append(commits, commit)
           k == Len(commits)
<1>1. /\ k \in Nat /\ Len(more) = k + 1 /\ more[k + 1] = commit
      /\ \A n \in 1..k : more[n] = commits[n]
  OBVIOUS
<1>2. \A n \in 1..k : commits[n].generation \in Nat /\ commits[n].generation <= g
  BY DEF AllOld
<1> HIDE DEF more, k
<1> SUFFICES ASSUME NEW n \in 1..(k + 1)
             PROVE  more[n].generation \in Nat /\ more[n].generation <= h
  BY <1>1 DEF AllOld, more, k
<1>3. CASE n = k + 1
  BY <1>1, <1>3
<1>4. CASE n # k + 1
  <2>1. n \in 1..k
    BY <1>1, <1>4
  <2> DEFINE i == commits[n].generation
  <2>2. i \in Nat /\ i <= g /\ more[n].generation = i
    BY <1>1, <1>2, <2>1
  <2> HIDE DEF i
  <2>3. i <= h
    BY <2>2
  <2> QED BY <2>2, <2>3
<1> QED BY <1>3, <1>4

\* What is published next, or is published already.
LEMMA NewestIs ==
  ASSUME SInv
  PROVE  /\ Good(Newest) /\ Newest.generation \in 0..MaxGeneration
         /\ pc # "publish" => Newest = snapshot
         /\ pc = "publish" =>
              /\ Last(log).operations \in RowTransactions
              /\ snapshot.generation + 1 \in Nat
              /\ Newest = WithCommit(snapshot, snapshot.generation + 1,
                                     Last(log).operations)
              /\ Newest.generation = snapshot.generation + 1
              /\ View(Newest) = Changed(View(snapshot), Last(log).operations)
<1> DEFINE g == snapshot.generation + 1
           tx == Last(log).operations
<1>1. Good(snapshot) /\ snapshot.generation \in 0..MaxGeneration
  BY DEF SInv
<1>2. CASE pc # "publish"
  BY <1>1, <1>2 DEF Newest
<1>3. CASE pc = "publish"
  <2>1. snapshot.generation < MaxGeneration /\ tx \in RowTransactions
    BY <1>3, TransactionsAre DEF SInv
  <2>2. g \in Nat /\ g \in 0..MaxGeneration
    BY <1>1, <2>1, SnapshotAssumption
  <2>3. Newest = WithCommit(snapshot, g, tx)
    BY <1>3 DEF Newest
  <2> HIDE DEF g, tx
  <2>4. Good(Newest) /\ Newest.generation = g /\ View(Newest) = Changed(View(snapshot), tx)
    BY <1>1, <2>1, <2>2, <2>3, TransactionGood
  <2> QED BY <1>3, <2>1, <2>2, <2>3, <2>4 DEF g, tx
<1> QED BY <1>2, <1>3

\* The frame is in the log: a restart would apply it, and Publish will.
LEMMA AppendSInv ==
  ASSUME SInv, NEW tx \in Transactions, AppendCommit(tx)
  PROVE  /\ SInv' /\ snapshot' = snapshot
         /\ snapshot.generation + 1 \in Nat
         /\ Restored' = WithCommit(Restored, snapshot.generation + 1, tx)
<1> DEFINE g == snapshot.generation + 1
           commit == [generation |-> g, operations |-> tx]
<1>1. /\ Good(snapshot) /\ Good(Restored) /\ snapshot.generation \in 0..MaxGeneration
      /\ log \in Seq(Commits) /\ pc = "idle" /\ Newest = snapshot
      /\ AllOld(log, Len(log), snapshot.generation)
      /\ Restored.generation = snapshot.generation /\ View(Restored) = View(snapshot)
  BY NewestIs DEF SInv, AppendCommit
<1>2. /\ snapshot.generation < MaxGeneration /\ snapshot' = snapshot
      /\ log' = Append(log, commit) /\ checkpoint' = checkpoint /\ pc' = "publish"
  BY DEF AppendCommit
<1>3. g \in Nat /\ g \in 1..MaxGeneration /\ g \in 0..MaxGeneration
      /\ g > snapshot.generation /\ snapshot.generation <= g
      /\ snapshot.generation \in Nat
  BY <1>1, <1>2, SnapshotAssumption
<1>4. /\ commit \in Commits /\ commit.generation = g /\ commit.operations = tx
      /\ log' \in Seq(Commits) /\ Last(log') = commit
  <2>1. commit \in Commits
    BY <1>3 DEF Commits
  <2> HIDE DEF commit
  <2>2. Append(log, commit) \in Seq(Commits) /\ Last(Append(log, commit)) = commit
    BY <1>1, <2>1 DEF Last
  <2> QED BY <1>2, <2>1, <2>2 DEF commit
<1>5. Restored' = WithCommit(Restored, g, tx)
  <2> DEFINE d == DecodeSnapshot(checkpoint)
  <2> HIDE DEF commit, g
  <2>1. Replay(d, Append(log, commit)) = Applied(Replay(d, log), commit)
    BY <1>1, <1>4, ReplayOne
  <2>2. Replay(d, log) = Restored
    BY DEF Restored
  <2>3. Restored' = Replay(d, Append(log, commit))
    BY <1>2 DEF Restored
  <2> HIDE DEF d
  <2>4. Applied(Restored, commit) = WithCommit(Restored, g, tx)
    BY <1>1, <1>3, <1>4 DEF Applied
  <2> QED BY <2>1, <2>2, <2>3, <2>4
<1>6. Newest' = WithCommit(snapshot, g, tx)
  BY <1>2, <1>4 DEF Newest
<1> HIDE DEF commit, g
<1>7. /\ Good(Newest') /\ Newest'.generation = g
      /\ View(Newest') = Changed(View(snapshot), tx)
  BY <1>1, <1>3, <1>6, TransactionGood, TransactionsAre
<1>8. /\ Good(Restored') /\ Restored'.generation = g
      /\ View(Restored') = Changed(View(Restored), tx)
  BY <1>1, <1>3, <1>5, TransactionGood, TransactionsAre
<1>9. AllOld(log', Len(log'), g)
  <2>1. g <= g
    BY <1>3
  <2>2. AllOld(Append(log, commit), Len(Append(log, commit)), g)
    BY <1>1, <1>3, <1>4, <2>1, OldGrows
  <2> QED BY <1>2, <2>2
<1>10. SInv'
  BY <1>1, <1>2, <1>4, <1>7, <1>8, <1>9 DEF SInv
<1> QED BY <1>2, <1>3, <1>5, <1>10 DEF g

\* Publish comes to Newest, and changes nothing that a restart reads.
LEMMA PublishSInv ==
  ASSUME SInv, Publish
  PROVE  SInv' /\ Restored' = Restored /\ snapshot' = Newest
<1>1. /\ snapshot' = Newest /\ pc' = "idle" /\ checkpoint' = checkpoint /\ log' = log
  BY DEF Publish
<1>2. Restored' = Restored /\ Newest' = Newest
  BY <1>1 DEF Restored, Newest
<1>3. Good(Newest) /\ Newest.generation \in 0..MaxGeneration
  BY NewestIs
<1> QED BY <1>1, <1>2, <1>3 DEF SInv

\* A compacted snapshot in a checkpoint, and a log that has nothing newer.
LEMMA CompactedSInv ==
  ASSUME Good(snapshot), NEW l, l \in Seq(Commits), AllOld(l, Len(l), snapshot.generation)
  PROVE  LET c == Compacted(snapshot)
         IN /\ Good(c) /\ View(c) = View(snapshot)
            /\ c.generation = snapshot.generation
            /\ Replay(DecodeSnapshot(EncodeSnapshot(c)), l) = c
<1> DEFINE c == Compacted(snapshot)
<1>1. Good(c) /\ View(c) = View(snapshot) /\ c.generation = snapshot.generation
  BY CompactedGood
<1>2. DecodeSnapshot(EncodeSnapshot(c)) = c
  BY RestartIs
<1> HIDE DEF c
<1>3. AllOld(l, Len(l), c.generation) /\ c.generation \in Nat
  BY <1>1 DEF Good
<1>4. Replay(c, l) = c
  BY <1>3, ReplayOld
<1> QED BY <1>1, <1>2, <1>4 DEF c

\* Renaming the checkpoint and emptying the log.
LEMMA RotateSInv ==
  ASSUME SInv, Rename \/ Truncate
  PROVE  SInv' /\ Restored' = Compacted(snapshot) /\ snapshot' = snapshot
<1> DEFINE c == Compacted(snapshot)
<1>1. /\ Good(snapshot) /\ snapshot.generation \in 0..MaxGeneration
      /\ log \in Seq(Commits) /\ Newest = snapshot
      /\ AllOld(log, Len(log), snapshot.generation)
  BY NewestIs DEF SInv, Rename, Truncate
<1>2. /\ snapshot' = snapshot /\ log' \in {log, <<>>}
      /\ pc' \in {"truncate", "truncateSync"}
  BY DEF Rename, Truncate
<1>3. log' \in Seq(Commits) /\ AllOld(log', Len(log'), snapshot.generation)
  <2>1. <<>> \in Seq(Commits) /\ AllOld(<<>>, Len(<<>>), snapshot.generation)
    BY DEF AllOld
  <2> QED BY <1>1, <1>2, <2>1
<1>4. checkpoint' = EncodeSnapshot(c)
  BY DEF SInv, Rename, Truncate
<1>5. /\ Good(c) /\ View(c) = View(snapshot) /\ c.generation = snapshot.generation
      /\ Replay(DecodeSnapshot(EncodeSnapshot(c)), log') = c
  BY <1>1, <1>3, CompactedSInv
<1> HIDE DEF c
<1>6. Restored' = c
  BY <1>4, <1>5 DEF Restored
<1>7. Newest' = snapshot
  BY <1>2 DEF Newest
<1>8. checkpoint' = EncodeSnapshot(Compacted(snapshot'))
  BY <1>2, <1>4 DEF c
<1>9. SInv'
  BY <1>1, <1>2, <1>3, <1>5, <1>6, <1>7, <1>8 DEF SInv
<1> QED BY <1>2, <1>6, <1>9 DEF c

\* The ends of optimize: the compacted snapshot is published, or an error is
\* returned and the old one stays.
LEMMA OptimizeEndsSInv ==
  ASSUME SInv, SwapCompacted \/ OptimizeFails
  PROVE  /\ SInv' /\ Restored' = Restored
         /\ snapshot' = snapshot \/ snapshot' = Compacted(snapshot)
         /\ View(snapshot') = View(snapshot)
         /\ snapshot'.generation = snapshot.generation
<1>1. Good(snapshot) /\ Newest = snapshot
  BY NewestIs DEF SInv, SwapCompacted, OptimizeFails
<1>2. /\ snapshot' = snapshot \/ snapshot' = Compacted(snapshot)
      /\ pc' = "idle" /\ checkpoint' = checkpoint /\ log' = log
  BY DEF SwapCompacted, OptimizeFails
<1>3. Restored' = Restored /\ Newest' = snapshot'
  BY <1>2 DEF Restored, Newest
<1>4. /\ Good(snapshot') /\ View(snapshot') = View(snapshot)
      /\ snapshot'.generation = snapshot.generation
  BY <1>1, <1>2, CompactedGood
<1>5. SInv'
  BY <1>1, <1>2, <1>3, <1>4 DEF SInv
<1> QED BY <1>2, <1>3, <1>4, <1>5

\* A restart makes what SInv says it would.
LEMMA ReopenSInv ==
  ASSUME SInv, Reopen
  PROVE  SInv' /\ Restored' = Restored /\ snapshot' = Restored
<1>1. /\ snapshot' = Restored /\ checkpoint' = checkpoint /\ log' = log /\ pc' = "idle"
  BY DEF Reopen, Restored
<1>2. Restored' = Restored /\ Newest' = Restored
  BY <1>1 DEF Restored, Newest
<1>3. Newest.generation \in 0..MaxGeneration
  BY NewestIs
<1> QED BY <1>1, <1>2, <1>3 DEF SInv

LEMMA SInvStep == SInv /\ [Next]_vars => SInv'
<1> SUFFICES ASSUME SInv, [Next]_vars PROVE SInv'
  OBVIOUS
<1>1. CASE \E tx \in Transactions : AppendCommit(tx)
  BY <1>1, AppendSInv
<1>2. CASE Publish
  BY <1>2, PublishSInv
<1>3. CASE Rename \/ Truncate
  BY <1>3, RotateSInv
<1>4. CASE SwapCompacted \/ OptimizeFails
  BY <1>4, OptimizeEndsSInv
<1>5. CASE Reopen
  BY <1>5, ReopenSInv
<1>6. CASE UNCHANGED vars
  BY <1>6 DEF vars, SInv, Restored, Newest
<1> QED BY <1>1, <1>2, <1>3, <1>4, <1>5, <1>6 DEF Next

\* At every step of commit and optimize, and after an optimize that failed behind
\* its rename, the published snapshot and the one that a restart would make are
\* well formed and show one table, once the commit in the log is published.
THEOREM SnapshotInductive == Spec => []SInv
<1>1. Init => SInv
  BY InitSInv
<1> QED BY <1>1, SInvStep, PTL DEF Spec

\* A segment that compaction put together from postings of older segments, or
\* that came from a file, is what Segment::build makes of its documents.
THEOREM SegmentsStayBuilt == Spec => []SegmentsAreBuilt
<1>1. ASSUME SInv PROVE SegmentsAreBuilt
  <2>1. snapshot.segments \in Seq(Segments)
    BY <1>1 DEF SInv, Good
  <2> DEFINE segments == snapshot.segments
  <2> SUFFICES \A i \in DOMAIN segments : segments[i] = Build(segments[i].docs)
    BY DEF SegmentsAreBuilt
  <2> HIDE DEF segments
  <2>2. \A i \in DOMAIN segments : segments[i] \in Segments
    BY <2>1 DEF segments
  <2> QED BY <2>2, SegmentIs
<1> QED BY <1>1, SnapshotInductive, PTL

\* The live masks, which pruned searches look at, and the map of locations,
\* which get and exhaustive searches look at, name the same documents after any
\* commits, compactions and restarts.
THEOREM MasksAreRight == Spec => []LiveIsLatest
<1>1. ASSUME SInv PROVE LiveIsLatest
  <2> DEFINE s == snapshot
             At(i, n) == [segment |-> i, docid |-> n]
             latest == {At(s.latest[r].segment, s.latest[r].docid) : r \in LiveRows(s)}
  <2>1. Located(s) /\ Masked(s) /\ s.segments \in Seq(Segments)
    BY <1>1 DEF SInv, Good
  <2>2. ASSUME NEW p \in LivePlaces(s) PROVE p \in latest
    <3>1. PICK k \in DOMAIN s.segments : \E n \in Numbers(s.segments[k].docs) :
            p = At(k - 1, n)
      BY DEF LivePlaces, Places
    <3>2. PICK n \in Numbers(s.segments[k].docs) : p = At(k - 1, n)
      BY <3>1
    <3> DEFINE i == k - 1
    <3>3. i \in Numbers(s.segments) /\ i + 1 = k
      BY <2>1, NumbersOf
    <3>4. p.segment = i /\ p.docid = n
      BY <3>2
    <3>5. IsLive(s, i, n)
      BY <3>4 DEF LivePlaces
    <3> HIDE DEF i
    <3>6. IsLatest(s, i, n)
      BY <2>1, <3>2, <3>3, <3>5 DEF Masked
    <3> QED BY <3>2, <3>3, <3>6, Zenon DEF IsLatest, i
  <2>3. ASSUME NEW r \in LiveRows(s)
        PROVE  At(s.latest[r].segment, s.latest[r].docid) \in LivePlaces(s)
    <3> DEFINE i == s.latest[r].segment
               n == s.latest[r].docid
    <3>1. /\ i \in Numbers(s.segments) /\ n \in Numbers(s.segments[i + 1].docs)
          /\ s.segments[i + 1].docs[n + 1].row = r
      BY <2>1 DEF Located, DocAt
    <3>2. IsLatest(s, i, n)
      BY <3>1 DEF IsLatest
    <3>3. IsLive(s, i, n)
      BY <2>1, <3>1, <3>2 DEF Masked
    <3>4. i + 1 \in DOMAIN s.segments /\ (i + 1) - 1 = i
      <4>1. i + 1 \in DOMAIN s.segments /\ i \in Nat
        BY <2>1, <3>1, NumbersOf
      <4> QED BY <4>1
    <3> HIDE DEF i, n
    <3>5. At(i, n) \in Places(s)
      BY <3>1, <3>4 DEF Places
    <3>6. At(i, n).segment = i /\ At(i, n).docid = n
      OBVIOUS
    <3>7. At(i, n) \in LivePlaces(s)
      <4> HIDE DEF At
      <4> QED BY <3>3, <3>5, <3>6 DEF LivePlaces
    <3> QED BY <3>7, SMTT(30) DEF i, n
  <2>4. LivePlaces(s) \subseteq latest /\ latest \subseteq LivePlaces(s)
    BY <2>2, <2>3
  <2> QED BY <2>4 DEF LiveIsLatest
<1> QED BY <1>1, SnapshotInductive, PTL

-----------------------------------------------------------------------------
(* Refinement.                                                             *)

\* The step shows what transaction tx does to the table.
Shown(tx) ==
  /\ View(snapshot') = Changed(View(snapshot), tx)
  /\ snapshot'.generation = snapshot.generation + 1

LEMMA ShownCommits ==
  ASSUME NEW tx \in RowTransactions, Shown(tx)
  PROVE  Table!Next
<1> DEFINE S == DOMAIN tx
<1>1. S \in (SUBSET Rows) \ {{}} /\ tx \in [S -> Docs \cup {Absent}]
  BY UpsertsAre
<1>2. Table!Commit(S)
  BY <1>1 DEF Shown, Table!Commit, Changed
<1> QED BY <1>1, <1>2 DEF Table!Next

\* Every step of the snapshot is a step of one table of documents: a commit
\* replaces and removes the rows it names, at once; a compaction and a restart
\* are no steps at all.  This is what Database::get shows to a program.
THEOREM SnapshotIsTable == Spec => ImplementsTable
<1>1. Init => Table!Init
  <2> SUFFICES ASSUME Init PROVE Table!Init
    OBVIOUS
  <2>1. View(snapshot) = [r \in Rows |-> Absent] /\ snapshot.generation = 0
    BY EmptyGood DEF Init, Default
  <2> QED BY <2>1 DEF Table!Init
<1>2. SInv /\ [Next]_vars => [Table!Next]_(Table!tableVars)
  <2> SUFFICES ASSUME SInv, [Next]_vars PROVE [Table!Next]_(Table!tableVars)
    OBVIOUS
  <2>1. ASSUME snapshot' = Newest, pc = "publish" PROVE Table!Next
    <3> DEFINE tx == Last(log).operations
    <3>1. /\ tx \in RowTransactions
          /\ View(snapshot') = Changed(View(snapshot), tx)
          /\ snapshot'.generation = snapshot.generation + 1
      BY <2>1, NewestIs
    <3> HIDE DEF tx
    <3>2. Shown(tx)
      BY <3>1 DEF Shown
    <3> QED BY <3>1, <3>2, ShownCommits
  <2>2. ASSUME Reopen, pc = "publish" PROVE Table!Next
    <3> DEFINE tx == Last(log).operations
    <3>1. /\ tx \in RowTransactions
          /\ View(snapshot') = Changed(View(snapshot), tx)
          /\ snapshot'.generation = snapshot.generation + 1
      BY <2>2, NewestIs, ReopenSInv DEF SInv
    <3> HIDE DEF tx
    <3>2. Shown(tx)
      BY <3>1 DEF Shown
    <3> QED BY <3>1, <3>2, ShownCommits
  <2>3. ASSUME Reopen, pc # "publish" PROVE UNCHANGED Table!tableVars
    BY <2>3, NewestIs, ReopenSInv DEF SInv, Table!tableVars
  <2>4. ASSUME SwapCompacted \/ OptimizeFails PROVE UNCHANGED Table!tableVars
    BY <2>4, OptimizeEndsSInv DEF Table!tableVars
  <2>5. ASSUME snapshot' = snapshot PROVE UNCHANGED Table!tableVars
    BY <2>5 DEF Table!tableVars
  <2>6. Publish => snapshot' = Newest /\ pc = "publish"
    BY DEF Publish
  <2>7. (\E tx \in Transactions : AppendCommit(tx)) \/ Rename \/ Truncate \/ UNCHANGED vars
          => snapshot' = snapshot
    BY DEF AppendCommit, Rename, Truncate, vars
  <2> QED BY <2>1, <2>2, <2>3, <2>4, <2>5, <2>6, <2>7 DEF Next
<1> QED BY <1>1, <1>2, SnapshotInductive, PTL DEF Spec, ImplementsTable, Table!Spec

\* The invariant: the counters are those of the table, also after a restart.
CInv == SInv /\ Counted(snapshot) /\ Counted(Restored)

LEMMA NewestCounted ==
  ASSUME CInv
  PROVE  Counted(Newest)
<1>1. SInv /\ Good(snapshot) /\ Counted(snapshot)
  BY DEF CInv, SInv
<1>2. CASE pc = "publish"
  BY <1>1, <1>2, NewestIs, TransactionCounted
<1>3. CASE pc # "publish"
  BY <1>1, <1>3, NewestIs
<1> QED BY <1>2, <1>3

LEMMA CInvStep == CInv /\ [Next]_vars => CInv'
<1> SUFFICES ASSUME CInv, [Next]_vars PROVE CInv'
  OBVIOUS
<1>1. /\ SInv /\ SInv' /\ Good(snapshot) /\ Good(Restored)
      /\ Counted(snapshot) /\ Counted(Restored)
  BY SInvStep DEF CInv, SInv
<1>2. ASSUME NEW tx \in Transactions, AppendCommit(tx)
      PROVE  Counted(snapshot') /\ Counted(Restored')
  <2>1. /\ snapshot' = snapshot /\ snapshot.generation + 1 \in Nat
        /\ Restored' = WithCommit(Restored, snapshot.generation + 1, tx)
    BY <1>1, <1>2, AppendSInv
  <2>2. Counted(Restored')
    BY <1>1, <2>1, TransactionCounted, TransactionsAre
  <2> QED BY <1>1, <2>1, <2>2
<1>3. ASSUME Publish PROVE Counted(snapshot') /\ Counted(Restored')
  BY <1>1, <1>3, PublishSInv, NewestCounted
<1>4. ASSUME Rename \/ Truncate PROVE Counted(snapshot') /\ Counted(Restored')
  BY <1>1, <1>4, RotateSInv, CompactedCounted
<1>5. ASSUME SwapCompacted \/ OptimizeFails PROVE Counted(snapshot') /\ Counted(Restored')
  BY <1>1, <1>5, OptimizeEndsSInv, CompactedCounted
<1>6. ASSUME Reopen PROVE Counted(snapshot') /\ Counted(Restored')
  BY <1>1, <1>6, ReopenSInv
<1>7. ASSUME UNCHANGED vars PROVE Counted(snapshot') /\ Counted(Restored')
  <2>1. snapshot' = snapshot /\ Restored' = Restored
    BY <1>7 DEF vars, Restored
  <2> QED BY <1>1, <2>1
<1>8. Counted(snapshot') /\ Counted(Restored')
  BY <1>2, <1>3, <1>4, <1>5, <1>6, <1>7 DEF Next
<1> QED BY <1>1, <1>8 DEF CInv

LEMMA AlwaysCounted == Spec => []CInv
<1>1. Init => CInv
  BY InitSInv, NoneCounted DEF Init, CInv
<1> QED BY <1>1, CInvStep, PTL DEF Spec

\* The documents that are compacted, as the table has them.
LEMMA TableDocs ==
  ASSUME NEW s, Good(s)
  PROVE  LET rows == Ascending(LiveRows(s))
         IN LiveDocs(s) = [i \in DOMAIN rows |-> StoredDocument(rows[i], View(s)[rows[i]])]
<1> DEFINE rows == Ascending(LiveRows(s))
           docs == LiveDocs(s)
           same == [i \in DOMAIN rows |-> StoredDocument(rows[i], View(s)[rows[i]])]
<1>1. /\ docs \in Seq(Stored) /\ DOMAIN docs = DOMAIN rows
      /\ \A i \in DOMAIN docs : /\ rows[i] \in LiveRows(s)
                                /\ docs[i] = DocAt(s, s.latest[rows[i]])
                                /\ docs[i].row = rows[i]
  BY LiveDocsAre
<1>2. \A r \in LiveRows(s) : r \in Rows
  BY PresentIs
<1> HIDE DEF rows, docs
<1>3. ASSUME NEW i \in DOMAIN docs
      PROVE  docs[i] = StoredDocument(rows[i], View(s)[rows[i]])
  <2>1. docs[i] = StoredDocument(docs[i].row, docs[i].doc)
    BY <1>1, StoredIs
  <2>2. View(s)[rows[i]] = docs[i].doc
    BY <1>1, <1>2 DEF View
  <2> QED BY <1>1, <2>1, <2>2
<1>4. docs = [i \in DOMAIN docs |-> docs[i]]
  BY <1>1
<1>5. docs = same
  BY <1>1, <1>3, <1>4
<1> QED BY <1>5 DEF rows, docs

\* A compacted snapshot is made of the table alone.
LEMMA CompactedOfTable ==
  ASSUME NEW a, NEW b, Good(a), Good(b), View(a) = View(b), a.generation = b.generation
  PROVE  Compacted(a) = Compacted(b)
<1>1. LiveRows(a) = LiveRows(b)
  BY PresentIs
<1> DEFINE rows == Ascending(LiveRows(a))
<1>2. LiveDocs(a) = [i \in DOMAIN rows |-> StoredDocument(rows[i], View(a)[rows[i]])]
  BY TableDocs
<1>3. LiveDocs(b) = [i \in DOMAIN rows |-> StoredDocument(rows[i], View(b)[rows[i]])]
  BY <1>1, TableDocs
<1>4. LiveDocs(a) = LiveDocs(b)
  BY <1>2, <1>3
<1> HIDE DEF rows
<1> QED BY <1>4, CompactedIs

\* Wherever the program stops, database.open restores the documents and counters
\* that were published, or that the commit in the log is about to publish, and, up
\* to compaction, the same segments, locations and masks: before and after each
\* step of optimize, after an optimize that failed behind the rename, and when
\* commits have gone on from there.
THEOREM RestartRestores == Spec => []RestartIsFaithful
<1>1. ASSUME CInv PROVE RestartIsFaithful
  <2>1. /\ Good(Restored) /\ Good(Newest) /\ Counted(Restored) /\ Counted(Newest)
        /\ Restored.generation = Newest.generation /\ View(Restored) = View(Newest)
    BY <1>1, NewestIs, NewestCounted DEF CInv, SInv
  <2>2. Statistics(Restored) = Statistics(Newest)
    BY <2>1 DEF Counted, Statistics
  <2>3. Compacted(Restored) = Compacted(Newest)
    BY <2>1, CompactedOfTable
  <2> QED BY <2>1, <2>2, <2>3 DEF RestartIsFaithful
<1> QED BY <1>1, AlwaysCounted, PTL

-----------------------------------------------------------------------------
(* What is proved of them.                                                 *)

\* The location of a live row, as a place.
Place(s, r) == [segment |-> s.latest[r].segment, docid |-> s.latest[r].docid]

LEMMA PlacesByRow ==
  ASSUME NEW s, Good(s)
  PROVE  /\ [r \in LiveRows(s) |-> Place(s, r)] \in
              Bijection(LiveRows(s), {Place(s, r) : r \in LiveRows(s)})
         /\ \A r \in LiveRows(s) : DocAt(s, Place(s, r)) = DocAt(s, s.latest[r])
<1> DEFINE L == LiveRows(s)
           b == [r \in L |-> Place(s, r)]
           live == {Place(s, r) : r \in L}
<1>1. \A r \in L : DocAt(s, Place(s, r)) = DocAt(s, s.latest[r])
  BY DEF DocAt, Place
<1>2. \A r \in L : DocAt(s, b[r]).row = r
  BY <1>1, PresentIs
<1>3. \A x, y \in L : b[x] = b[y] => x = y
  BY <1>2
<1>4. b \in [L -> live] /\ \A y \in live : \E x \in L : b[x] = y
  OBVIOUS
<1> HIDE DEF b, live, L
<1>5. b \in Bijection(L, live)
  BY <1>3, <1>4 DEF Bijection, Injection, Surjection, IsInjective
<1> QED BY <1>1, <1>5 DEF b, live, L

\* The counters that scores are computed from are what counting the live
\* documents anew would give, after any commits, compactions and restarts, and
\* no term is left in the map that no live document has.
THEOREM CountersAreExact == Spec => []CountersExact
<1>1. ASSUME CInv, LiveIsLatest PROVE CountersExact
  <2> DEFINE s == snapshot
             v == View(s)
             L == LiveRows(s)
             live == LivePlaces(s)
             having(t) == {p \in live : t \in DocAt(s, p).terms}
             b == [r \in L |-> Place(s, r)]
  <2>1. Good(s) /\ Counted(s)
    BY <1>1 DEF CInv, SInv
  <2>2. /\ Present(v) = L /\ IsFiniteSet(L)
        /\ \A r \in L : /\ v[r] \in Docs
                        /\ DocAt(s, s.latest[r]).len = Length(v[r])
                        /\ DocAt(s, s.latest[r]).terms = UniqueTerms(v[r])
    BY <2>1, PresentIs
  <2>3. /\ s.live_docs = Cardinality(L)
        /\ s.total_doc_len = SumFunction(LensOf(v, L))
        /\ s.term_df = Freqs(v, L)
    BY <2>1, <2>2 DEF Counted
  <2>4. live = {Place(s, r) : r \in L}
    BY <1>1 DEF LiveIsLatest, Place
  <2>5. /\ b \in Bijection(L, live)
        /\ \A r \in L : DocAt(s, b[r]) = DocAt(s, s.latest[r])
    BY <2>1, <2>4, PlacesByRow
  <2> HIDE DEF b, live, L, v
  <2>6. \A p \in live : \E r \in L : b[r] = p
    BY <2>5 DEF Bijection, Surjection
  <2>7. \A r \in L : b[r] \in live
    BY <2>5 DEF Bijection, Injection
  <2>8. s.live_docs = Cardinality(live)
    BY <2>2, <2>3, <2>5, FS_Bijection DEF ExistsBijection
  <2>9. s.total_doc_len = SumFunction([p \in live |-> DocAt(s, p).len])
    <3> DEFINE f == LensOf(v, L)
               g == [p \in live |-> DocAt(s, p).len]
    <3>1. f \in [L -> Nat] /\ \A r \in L : f[r] = DocAt(s, s.latest[r]).len
      BY <2>2, LengthIs DEF LensOf
    <3>2. \A r \in L : g[b[r]] = f[r]
      BY <2>5, <2>7, <3>1
    <3>3. g = [p \in live |-> g[p]]
      OBVIOUS
    <3> HIDE DEF f, g
    <3>4. g \in [live -> Nat]
      <4>1. ASSUME NEW p \in live PROVE g[p] \in Nat
        <5>1. PICK r \in L : b[r] = p
          BY <2>6
        <5> QED BY <3>1, <3>2, <5>1
      <4> QED BY <3>3, <4>1
    <3>5. SumFunction(f) = SumFunction(g)
      BY <2>2, <2>5, <3>1, <3>2, <3>4, SumMapped
    <3> QED BY <2>3, <3>5 DEF f, g
  <2>10. ASSUME NEW t
         PROVE  /\ RowsWith(v, L, t) # {} <=> having(t) # {}
                /\ Cardinality(RowsWith(v, L, t)) = Cardinality(having(t))
    <3> DEFINE V == RowsWith(v, L, t)
               W == having(t)
    <3>1. V \in SUBSET L /\ W \in SUBSET live
      BY DEF RowsWith
    <3>2. \A r \in L : r \in V <=> b[r] \in W
      BY <2>2, <2>5, <2>7 DEF RowsWith
    <3> HIDE DEF V, W
    <3>3. Cardinality(W) = Cardinality(V)
      BY <2>2, <2>5, <3>1, <3>2, SameSize
    <3>4. V # {} <=> W # {}
      BY <2>6, <2>7, <3>1, <3>2
    <3> QED BY <3>3, <3>4 DEF V, W
  <2>11. s.term_df = [t \in {u \in Terms : having(u) # {}} |-> Cardinality(having(t))]
    <3> HIDE DEF having
    <3>1. {u \in Terms : RowsWith(v, L, u) # {}} = {u \in Terms : having(u) # {}}
      BY <2>10
    <3> QED BY <2>3, <2>10, <3>1 DEF Freqs
  <2> QED BY <2>8, <2>9, <2>11 DEF CountersExact, live
<1> QED BY <1>1, AlwaysCounted, MasksAreRight, PTL

\* A snapshot has a mask for each segment with a word for each of its documents,
\* and its counters are natural numbers, although they are kept up by additions
\* and subtractions.
THEOREM SnapshotTypeCorrect == Spec => []TypeOK
<1>1. ASSUME CInv PROVE TypeOK
  <2> DEFINE s == snapshot
             v == View(s)
             R == Present(v)
  <2>1. /\ Good(s) /\ Counted(s) /\ s.generation \in 0..MaxGeneration
        /\ log \in Seq(Commits) /\ pc \in {"idle", "publish", "truncate", "truncateSync"}
    BY <1>1 DEF CInv, SInv
  <2>2. Located(s) /\ Masked(s) /\ s.segments \in Seq(Segments)
    BY <2>1 DEF Good
  <2>3. /\ IsFiniteSet(R) /\ \A r \in R : v[r] \in Docs
    BY <2>1, PresentIs
  <2>4. s.live_docs \in Nat
    BY <2>1, <2>3, FS_CardinalityType DEF Counted
  <2>5. s.total_doc_len \in Nat
    <3> DEFINE f == LensOf(v, R)
    <3>1. f \in [R -> Nat]
      BY <2>3, LengthIs DEF LensOf
    <3> HIDE DEF f
    <3>2. SumFunction(f) \in Nat
      BY <2>3, <3>1, SumIs
    <3> QED BY <2>1, <3>2 DEF Counted, f
  <2>6. DOMAIN s.term_df \in SUBSET Terms
    BY <2>1 DEF Counted, Freqs
  <2>7. ASSUME NEW r \in LiveRows(s) PROVE s.latest[r].segment < Len(s.segments)
    <3> DEFINE i == s.latest[r].segment
    <3>1. i \in Numbers(s.segments) /\ Len(s.segments) \in Nat
      BY <2>2 DEF Located
    <3> HIDE DEF i
    <3>2. i < Len(s.segments)
      BY <3>1 DEF Numbers
    <3> QED BY <3>2 DEF i
  <2>8. ASSUME NEW i \in DOMAIN s.segments
        PROVE  Len(s.live_masks[i]) = CeilDiv(Len(s.segments[i].docs), WordBits)
    <3>1. i - 1 \in Numbers(s.segments) /\ (i - 1) + 1 = i
      <4>1. i \in Nat
        BY <2>2
      <4>2. i - 1 \in Numbers(s.segments)
        BY <2>2, NumbersOf
      <4> QED BY <4>1, <4>2
    <3> DEFINE k == i - 1
    <3>2. k \in Numbers(s.segments) /\ k + 1 = i
      BY <3>1
    <3> HIDE DEF k
    <3>3. Len(s.live_masks[k + 1]) = CeilDiv(Len(s.segments[k + 1].docs), WordBits)
      BY <2>2, <3>2 DEF Masked
    <3> QED BY <3>2, <3>3
  <2>9. DOMAIN s.latest \in SUBSET Rows /\ Len(s.live_masks) = Len(s.segments)
    BY <2>2 DEF Located, Masked
  <2> QED BY <2>1, <2>4, <2>5, <2>6, <2>7, <2>8, <2>9 DEF TypeOK
<1> QED BY <1>1, AlwaysCounted, PTL

\* As long as no commit happens, neither a compaction nor a restart changes what
\* a search finds or any number that its scores are computed from.
THEOREM ScoresStay == Spec => ScoresAreStable
<1>1. ASSUME CInv, [Next]_vars
      PROVE  [snapshot'.generation = snapshot.generation =>
                Statistics(snapshot') = Statistics(snapshot)]_vars
  <2>1. Counted(snapshot) /\ Counted(snapshot') /\ SInv /\ snapshot.generation \in Nat
    BY <1>1, CInvStep DEF CInv, SInv, Good
  <2>2. ASSUME pc = "publish", snapshot' = Newest \/ snapshot' = Restored
        PROVE  snapshot'.generation # snapshot.generation
    <3>1. snapshot'.generation = snapshot.generation + 1
      BY <2>1, <2>2, NewestIs DEF SInv
    <3> QED BY <2>1, <3>1
  <2>3. ASSUME View(snapshot') = View(snapshot)
        PROVE  Statistics(snapshot') = Statistics(snapshot)
    BY <2>1, <2>3 DEF Counted, Statistics
  <2>4. CASE Publish
    BY <2>2, <2>4 DEF Publish
  <2>5. CASE Reopen
    <3>1. snapshot' = Restored /\ View(Restored) = View(Newest)
      BY <2>1, <2>5, ReopenSInv DEF SInv
    <3>2. pc # "publish" => View(snapshot') = View(snapshot)
      BY <2>1, <3>1, NewestIs
    <3> QED BY <2>2, <2>3, <3>1, <3>2
  <2>6. CASE SwapCompacted \/ OptimizeFails
    BY <2>1, <2>3, <2>6, OptimizeEndsSInv
  <2>7. CASE (\E tx \in Transactions : AppendCommit(tx)) \/ Rename \/ Truncate
               \/ UNCHANGED vars
    <3>1. snapshot' = snapshot
      BY <2>7 DEF AppendCommit, Rename, Truncate, vars
    <3> QED BY <3>1
  <2> QED BY <1>1, <2>4, <2>5, <2>6, <2>7 DEF Next
<1> QED BY <1>1, AlwaysCounted, PTL DEF Spec, ScoresAreStable

-----------------------------------------------------------------------------
(* The checks of the decoder.                                              *)

\* No more documents have a term than there are documents.
LEMMA DocidsFit ==
  ASSUME NEW X, NEW docs \in Seq(X), NEW t \in AllTerms(docs)
  PROVE  Len(Docids(docs, t)) \in 1..Len(docs)
<1> DEFINE S == Having(docs, t)
           N == Numbers(docs)
<1>1. S \in SUBSET N /\ N \in SUBSET Int /\ IsFiniteSet(N) /\ Len(docs) \in Nat
  BY NumbersOf DEF Having
<1>2. S # {}
  <2>1. PICK i \in DOMAIN docs : t \in docs[i].terms
    BY DEF AllTerms
  <2>2. i - 1 \in Numbers(docs) /\ i \in Nat
    BY NumbersOf
  <2>3. docs[(i - 1) + 1] = docs[i]
    BY <2>2
  <2>4. i - 1 \in S
    BY <2>1, <2>2, <2>3 DEF Having
  <2> QED BY <2>4
<1>3. Cardinality(N) = Len(docs)
  <2> DEFINE k == Len(docs)
  <2>1. N = 0..(k - 1) /\ k \in Nat
    BY <1>1 DEF Numbers
  <2> HIDE DEF k, N
  <2>2. Cardinality(0..(k - 1)) = k
    BY <2>1, FS_Interval, SMTT(30)
  <2> QED BY <2>1, <2>2 DEF k
<1>4. Docids(docs, t) = Ascending(S)
  BY DEF Docids
<1> HIDE DEF S, N
<1>5. S \in SUBSET Int /\ IsFiniteSet(S) /\ Cardinality(S) <= Cardinality(N)
  BY <1>1, FS_Subset
<1>6. Cardinality(S) \in Nat /\ Cardinality(S) # 0
  BY <1>2, <1>5, FS_EmptySet, FS_CardinalityType
<1>7. Len(Ascending(S)) = Cardinality(S)
  BY <1>5, AscendingLists
<1> QED BY <1>1, <1>3, <1>4, <1>5, <1>6, <1>7

\* The metadata of a list needs no more of a document than its length.
LEMMA SameMetadata ==
  ASSUME NEW docs, NEW file, NEW docids \in Seq(Nat), NEW freqs, NEW positions,
         \A i \in DOMAIN docids : file[docids[i] + 1].len = docs[docids[i] + 1].len
  PROVE  FinishBlocks(file, docids, freqs, positions) =
           FinishBlocks(docs, docids, freqs, positions)
<1> DEFINE blocks(d) == [k \in 1..CeilDiv(Len(docids), BlockSize) |->
                           BlockMeta(d, docids, freqs, k)]
<1>1. LengthsOf(file, docids) = LengthsOf(docs, docids)
  BY DEF LengthsOf
<1>2. ASSUME NEW k \in Nat \ {0}
      PROVE  BlockMeta(file, docids, freqs, k) = BlockMeta(docs, docids, freqs, k)
  <2> DEFINE start == (k - 1) * BlockSize + 1
             end == Smaller(k * BlockSize, Len(docids))
             part == SubSeq(docids, start, end)
  <2>1. /\ start \in Nat \ {0} /\ end \in Nat /\ end <= Len(docids)
    <3>1. k - 1 \in Nat /\ BlockSize \in Nat /\ Len(docids) \in Nat
      BY IndexAssumption
    <3> DEFINE before == (k - 1) * BlockSize
               through == k * BlockSize
    <3>2. before \in Nat /\ through \in Nat
      BY <3>1
    <3> HIDE DEF before, through
    <3>3. before + 1 \in Nat \ {0}
      BY <3>2
    <3>4. LET e == Smaller(through, Len(docids)) IN e \in Nat /\ e <= Len(docids)
      BY <3>1, <3>2 DEF Smaller
    <3> QED BY <3>3, <3>4 DEF before, through
  <2>2. \A i \in DOMAIN part : \E j \in DOMAIN docids : part[i] = docids[j]
    <3> HIDE DEF start, end
    <3>1. DOMAIN part = 1..(end - start + 1)
      BY <2>1
    <3>2. ASSUME NEW i \in DOMAIN part
          PROVE  i + start - 1 \in DOMAIN docids /\ part[i] = docids[i + start - 1]
      BY <2>1, <3>1, SMTT(30)
    <3> QED BY <3>2
  <2> HIDE DEF start, end, part
  <2>3. LengthsOf(file, part) = LengthsOf(docs, part)
    BY <2>2 DEF LengthsOf
  <2> QED BY <2>3, Zenon DEF BlockMeta, start, end, part
<1>3. blocks(file) = blocks(docs)
  <2>1. \A k \in 1..CeilDiv(Len(docids), BlockSize) : k \in Nat \ {0}
    OBVIOUS
  <2> QED BY <1>2, <2>1
<1> QED BY <1>1, <1>3, Zenon DEF FinishBlocks

\* What Segment::build made passes the checks of one segment.
LEMMA BuiltIsValid ==
  ASSUME Fits, NEW docs \in Seq(Stored)
  PROVE  ValidSegment(Written(Build(docs)))
<1> DEFINE lists == Build(docs).terms
           w == Written(Build(docs))
<1>1. Build(docs).docs = docs /\ DOMAIN lists = AllTerms(docs)
  BY BuildIs
<1>2. /\ w.terms = lists /\ Len(w.docs) = Len(docs) /\ Numbers(w.docs) = Numbers(docs)
      /\ \A j \in DOMAIN docs : w.docs[j].len = docs[j].len
  <2> DEFINE file == [j \in DOMAIN docs |->
               [row |-> docs[j].row, doc |-> docs[j].doc, len |-> docs[j].len]]
  <2>1. w = [docs |-> file, terms |-> lists]
    BY <1>1 DEF Written
  <2>2. Len(file) = Len(docs)
    OBVIOUS
  <2>3. \A j \in DOMAIN docs : file[j].len = docs[j].len
    OBVIOUS
  <2> HIDE DEF w, file, lists
  <2> QED BY <2>1, <2>2, <2>3 DEF Numbers
<1> HIDE DEF w
<1> SUFFICES ASSUME NEW t \in AllTerms(docs)
             PROVE  LET list == w.terms[t]
                        increasing(seq) == \A i, j \in DOMAIN seq : i < j => seq[i] < seq[j]
                    IN /\ Len(list.docids) \in 1..Len(w.docs)
                       /\ ToSet(list.docids) \subseteq Numbers(w.docs)
                       /\ increasing(list.docids)
                       /\ \A i \in DOMAIN list.freqs :
                            /\ list.freqs[i] = Len(list.positions[i]) /\ list.freqs[i] # 0
                            /\ increasing(list.positions[i])
                       /\ list = FinishBlocks(w.docs, list.docids, list.freqs,
                                              list.positions)
  BY <1>1, <1>2, Zenon DEF ValidSegment, w
<1> DEFINE ids == Docids(docs, t)
           freqs == [i \in DOMAIN ids |-> Len(PositionsIn(docs, ids[i], t))]
           positions == [i \in DOMAIN ids |-> PositionsIn(docs, ids[i], t)]
           list == FinishBlocks(docs, ids, freqs, positions)
<1>3. lists[t] = list
  BY BuildIs
<1>4. list.docids = ids /\ list.freqs = freqs /\ list.positions = positions
  BY DEF FinishBlocks
<1>5. Len(ids) \in 1..Len(docs)
  BY DocidsFit
<1>6. /\ ids \in Seq(Nat) /\ \A i \in DOMAIN ids : ids[i] \in Having(docs, t)
      /\ Increasing(ids)
  BY DocidsAre DEF Increasing
<1> HIDE DEF ids, list, lists
<1>7. ToSet(ids) \in SUBSET Numbers(docs)
  BY <1>6 DEF ToSet, Having
<1>8. ASSUME NEW i \in DOMAIN ids
      PROVE  /\ positions[i] \in Seq(Int) /\ positions[i] # <<>>
             /\ Increasing(positions[i]) /\ freqs[i] = Len(positions[i])
  <2> DEFINE x == docs[ids[i] + 1]
  <2>1. ids[i] \in Numbers(docs) /\ t \in x.terms
    BY <1>6 DEF Having
  <2>2. x \in Stored
    BY <2>1, NumbersOf
  <2>3. positions[i] = Positions[x.doc][t] /\ freqs[i] = Len(positions[i])
    BY DEF PositionsIn
  <2> HIDE DEF x, positions, freqs
  <2>4. x.doc \in Docs /\ t \in UniqueTerms(x.doc)
    BY <2>1, <2>2, StoredIs
  <2>5. t \in Terms /\ Positions[x.doc][t] # <<>>
    BY <2>4 DEF UniqueTerms
  <2> QED BY <2>3, <2>4, <2>5, PositionsSorted
<1>9. DOMAIN freqs = DOMAIN ids
  OBVIOUS
<1>10. FinishBlocks(w.docs, ids, freqs, positions) = list
  <2>1. \A i \in DOMAIN ids : ids[i] + 1 \in DOMAIN docs
    BY <1>6, NumbersOf DEF Having
  <2> DEFINE file == w.docs
  <2>2. \A i \in DOMAIN ids : file[ids[i] + 1].len = docs[ids[i] + 1].len
    BY <1>2, <2>1
  <2> HIDE DEF file, freqs, positions
  <2>3. FinishBlocks(file, ids, freqs, positions) =
          FinishBlocks(docs, ids, freqs, positions)
    BY <1>6, <2>2, SameMetadata
  <2> QED BY <2>3 DEF list, file
<1> HIDE DEF freqs, positions
<1>11. /\ Len(ids) \in 1..Len(w.docs) /\ ToSet(ids) \subseteq Numbers(w.docs)
  BY <1>2, <1>5, <1>7
<1>12. \A i \in DOMAIN freqs :
         freqs[i] = Len(positions[i]) /\ freqs[i] # 0 /\ Increasing(positions[i])
  BY <1>8, <1>9
<1> QED BY <1>2, <1>3, <1>4, <1>6, <1>10, <1>11, <1>12, ZenonT(60) DEF Increasing

\* The checks of a file, of its documents put together.
LEMMA DecodesIf ==
  ASSUME NEW file, \A i \in DOMAIN file.segments : ValidSegment(file.segments[i]),
         NEW docs, \A i, j \in DOMAIN docs : i # j => docs[i].row # docs[j].row,
         FlattenSeq([i \in DOMAIN file.segments |-> file.segments[i].docs]) = docs
  PROVE  Decodes(file)
BY Zenon DEF Decodes

\* A file without segments, and a file of documents that have a row each.
LEMMA CompactedDecodes ==
  ASSUME Fits, NEW s, Good(s)
  PROVE  Decodes(EncodeSnapshot(Compacted(s)))
<1> DEFINE docs == LiveDocs(s)
           segment == Build(docs)
           c == Compacted(s)
           file == EncodeSnapshot(c)
           g == s.generation
<1>1. docs \in Seq(Stored) /\ Distinct(docs) /\ segment.docs = docs
  BY LiveDocsAre, BuildIs
<1>2. c = AddSegment(Empty(g), segment)
  <2>1. c = WithPrebuiltCommit(Empty(0), g, segment, {})
    BY CompactedIs, EmptyGood
  <2> QED BY <2>1, LoadIs
<1>3. file.segments = [i \in DOMAIN c.segments |-> Written(c.segments[i])]
  BY DEF EncodeSnapshot
<1>4. ValidSegment(Written(segment))
  BY <1>1, BuiltIsValid
<1> HIDE DEF docs, segment, c, file, g
<1>5. CASE docs = <<>>
  <2>1. c.segments = <<>>
    BY <1>1, <1>2, <1>5, FirstSegment
  <2>2. file.segments = <<>>
    BY <1>3, <2>1
  <2>3. [i \in DOMAIN file.segments |-> file.segments[i].docs] = <<>>
    BY <2>2
  <2>4. FlattenSeq(<<>>) = <<>>
    BY DEF FlattenSeq
  <2> DEFINE none == <<>>
  <2>5. \A i \in DOMAIN file.segments : ValidSegment(file.segments[i])
    BY <2>2
  <2>6. \A i, j \in DOMAIN none : i # j => none[i].row # none[j].row
    OBVIOUS
  <2>7. FlattenSeq([i \in DOMAIN file.segments |-> file.segments[i].docs]) = none
    BY <2>3, <2>4
  <2> HIDE DEF none
  <2>8. Decodes(file)
    BY <2>5, <2>6, <2>7, DecodesIf
  <2> QED BY <2>8 DEF file, c
<1>6. CASE docs # <<>>
  <2> DEFINE w == Written(segment)
  <2>1. c.segments = <<segment>>
    BY <1>1, <1>2, <1>6, FirstSegment
  <2>2. w.docs = [j \in DOMAIN docs |->
                    [row |-> docs[j].row, doc |-> docs[j].doc, len |-> docs[j].len]]
    BY <1>1 DEF Written
  <2>3. file.segments = <<w>>
    BY <1>3, <2>1
  <2> HIDE DEF w
  <2>4. [i \in DOMAIN file.segments |-> file.segments[i].docs] = <<w.docs>>
    BY <2>3
  <2>5. FlattenSeq(<<w.docs>>) = w.docs
    BY FlattenOne
  <2>6. \A i, j \in DOMAIN w.docs : i # j => w.docs[i].row # w.docs[j].row
    BY <1>1, <2>2 DEF Distinct
  <2>7. \A i \in DOMAIN file.segments : ValidSegment(file.segments[i])
    BY <1>4, <2>3 DEF w
  <2>8. FlattenSeq([i \in DOMAIN file.segments |-> file.segments[i].docs]) = w.docs
    BY <2>4, <2>5
  <2>9. Decodes(file)
    BY <2>6, <2>7, <2>8, DecodesIf
  <2> QED BY <2>9 DEF file, c
<1> QED BY <1>5, <1>6 DEF file, c

LEMMA EmptyDecodes == Decodes(EncodeSnapshot(Default))
<1> DEFINE file == EncodeSnapshot(Default)
           none == <<>>
<1>1. file.segments = <<>>
  BY SMTT(30) DEF EncodeSnapshot, Default
<1> HIDE DEF file
<1>2. FlattenSeq([i \in DOMAIN file.segments |-> file.segments[i].docs]) = none
  <2>1. [i \in DOMAIN file.segments |-> file.segments[i].docs] = <<>>
    BY <1>1
  <2> QED BY <2>1 DEF FlattenSeq
<1>3. \A i, j \in DOMAIN none : i # j => none[i].row # none[j].row
  OBVIOUS
<1>4. \A i \in DOMAIN file.segments : ValidSegment(file.segments[i])
  BY <1>1
<1> HIDE DEF none
<1> QED BY <1>2, <1>3, <1>4, DecodesIf DEF file

\* What optimize writes, open reads: as long as no field has more tokens than a
\* column has positions, decode_snapshot accepts the checkpoint that was written
\* from any snapshot that commits, compactions and restarts lead to.  That no
\* field is too long is needed: where the last position of a column repeats,
\* decode_snapshot rejects the file.
THEOREM CheckpointsRead ==
  ASSUME Fits
  PROVE  Spec => []CheckpointReads
<1>1. Init => CheckpointReads
  BY EmptyDecodes DEF Init, CheckpointReads
<1>2. SInv /\ CheckpointReads /\ [Next]_vars => CheckpointReads'
  <2> SUFFICES ASSUME SInv, CheckpointReads, [Next]_vars PROVE CheckpointReads'
    OBVIOUS
  <2>1. Good(snapshot)
    BY DEF SInv
  <2>2. CASE checkpoint' = checkpoint
    BY <2>2 DEF CheckpointReads
  <2>3. CASE checkpoint' = EncodeSnapshot(Compacted(snapshot))
    BY <2>1, <2>3, CompactedDecodes DEF CheckpointReads
  <2> QED BY <2>2, <2>3 DEF Next, vars, AppendCommit, Publish, Rename, Truncate,
                              SwapCompacted, OptimizeFails, Reopen
<1> QED BY <1>1, <1>2, SnapshotInductive, PTL DEF Spec

=============================================================================
