----------------------------- MODULE KestrelSearch -----------------------------
(***************************************************************************)
(* Snapshot::search of src/src/index.rs: the top-k search of one query in  *)
(* one snapshot, with its four ways through the posting lists.             *)
(*                                                                         *)
(* A search goes from segment to segment with one heap of the best hits.   *)
(* In a segment it has one cursor for each list, and skips what cannot     *)
(* reach the heap: it bounds a block by the best frequency and the         *)
(* shortest document in it, and a list likewise.                           *)
(*                                                                         *)
(* Bm25 stands for the score of one term in one document and is integral,  *)
(* so that sums are exact; only that it grows with the frequency and falls *)
(* with the length matters.  Quantize stands for the 65535 steps in which  *)
(* bounds are kept: it never rounds down.                                  *)
(***************************************************************************)
EXTENDS KestrelQuery

CONSTANTS
  Bm25(_, _, _),  \* of a term, its frequency and the document's length
  Grid,           \* bounds are multiples of it
  Histories,      \* the commits of the snapshots to search, oldest first
  Searched,       \* the queries that are searched for
  Limits          \* the numbers of hits asked for

Frequencies == {Len(Positions[d][t]) : d \in Docs, t \in Terms} \ {0}
Lengths     == {Length(d) : d \in Docs}

ASSUME SearchAssumption ==
  /\ Grid \in Nat \ {0}
  /\ IsFiniteSet(Terms)
  /\ Histories \subseteq Seq(RowTransactions)
  /\ Searched \subseteq Queries
  /\ Limits \subseteq Nat \ {0}
  /\ \A t \in Terms, f, g \in Frequencies, l, m \in Lengths :
       /\ Bm25(t, f, l) \in Nat \ {0}
       /\ f <= g /\ m <= l => Bm25(t, f, l) <= Bm25(t, g, m)

VARIABLES
  snapshot,  \* the snapshot
  query,     \* the query
  limit,     \* how many hits are asked for
  heap,      \* the best hits so far
  pc,        \* which of its ways the search is on
  segment,   \* the number of the segment it is in
  cursors,   \* its cursors there: terms and indices, in the order of the vector
  block      \* the block that single_list_segment looks at next

inputs == <<snapshot, query, limit>>
vars == <<snapshot, query, limit, heap, pc, segment, cursors, block>>

-----------------------------------------------------------------------------
(* Scores, hits and the heap.                                              *)

Here     == snapshot.segments[segment + 1]
List(t)  == Here.terms[t]
Scoring  == ScoringTerms(snapshot, query)

\* Seeded fault: bounds are rounded down.
QuantizeDown(score) == (score \div Grid) * Grid

\* quantize_upper and dequantize_upper.
Quantize(score) == CeilDiv(score, Grid) * Grid

ListBound(t)     == Quantize(Bm25(t, List(t).max_tf, List(t).min_len))
BlockBound(t, k) == Quantize(Bm25(t, List(t).blocks[k].max_tf, List(t).blocks[k].min_len))

\* The score of document n of segment i: the sum over the terms that it has.
Score(i, n, terms) ==
  LET s == snapshot.segments[i + 1]
      having == {t \in terms \cap DOMAIN s.terms : n \in ToSet(s.terms[t].docids)}
  IN SumFunction([t \in having |->
       Bm25(t, s.terms[t].freqs[Find(s.terms[t], n)], s.docs[n + 1].len)])

RankedDoc(i, n, terms) ==
  [segment |-> i, docid |-> n, row |-> snapshot.segments[i + 1].docs[n + 1].row,
   score |-> Score(i, n, terms)]

\* The order of RankedDoc: higher scores first, then smaller rows.  Rows of
\* live documents are distinct.
Better(a, b) == a.score > b.score \/ (a.score = b.score /\ a.row < b.row)

Worst(hits) == CHOOSE h \in hits : \A g \in hits \ {h} : Better(g, h)

IsFull    == Cardinality(heap) = limit
Threshold == IF IsFull THEN Worst(heap).score ELSE 0

\* Seeded fault: one hit too many is kept.
PushAnyway(hits, hit) ==
  IF Cardinality(hits) <= limit THEN hits \cup {hit}
  ELSE IF Better(hit, Worst(hits)) THEN (hits \ {Worst(hits)}) \cup {hit}
  ELSE hits

\* TopK::push.
Push(hits, hit) ==
  IF Cardinality(hits) # limit THEN hits \cup {hit}
  ELSE IF Better(hit, Worst(hits)) THEN (hits \ {Worst(hits)}) \cup {hit}
  ELSE hits

PushAll(hits, more) == FoldSet(LAMBDA hit, h : Push(h, hit), hits, more)

\* Seeded fault: a bound that equals the threshold is no reason to look.
HopelessOrEqual(bound) == IsFull /\ bound <= Threshold

\* Nothing with this bound gets into the heap.
Hopeless(bound) == IsFull /\ bound < Threshold

-----------------------------------------------------------------------------
(* Cursors.                                                                *)

Exhausted(c) == c.index > Len(List(c.term).docids)
DocId(c)     == List(c.term).docids[c.index]
BlockOf(c)   == CeilDiv(c.index, BlockSize)

\* sort_cursors, and restore_cursor_order when only the first cursor has
\* moved: without exhausted cursors, by document and ordinal.
Sorted(cs) ==
  SortedBy(LAMBDA c, d : \/ DocId(c) < DocId(d)
                         \/ DocId(c) = DocId(d) /\ Ordinal[c.term] < Ordinal[d.term],
           {c \in ToSet(cs) : ~Exhausted(c)})

\* Seeded fault: the cursor goes to the start of its block.
StayInBlock(c) == [c EXCEPT !.index = (BlockOf(c) - 1) * BlockSize + 1]

\* skip_block.
SkipBlock(c) == [c EXCEPT !.index = List(c.term).blocks[BlockOf(c)].end + 1]

\* advance_to.
AdvanceTo(c, n) ==
  [c EXCEPT !.index =
     Min({i \in c.index..Len(List(c.term).docids) : List(c.term).docids[i] >= n}
           \cup {Len(List(c.term).docids) + 1})]

Next1(c) == [c EXCEPT !.index = @ + 1]

\* The sum of the list bounds of the cursors from i to j.
Bounds(i, j) == SumFunction([k \in i..j |-> ListBound(cursors[k].term)])

-----------------------------------------------------------------------------
\* search is called.  Without a term to look for it takes every document.
Init ==
  /\ \E history \in Histories :
       snapshot = Replay(Default, [n \in DOMAIN history |->
                    [generation |-> n, operations |-> history[n]]])
  /\ query \in Searched
  /\ limit \in Limits
  /\ heap = {}
  /\ pc = IF Scoring = {} THEN "all" ELSE "segment"
  /\ segment = 0
  /\ cursors = <<>>
  /\ block = 1

\* consider, for every document in the map of latest locations; this is also
\* the whole of search_exhaustive.
Considered(l) ==
  /\ IsLive(snapshot, l.segment, l.docid)
  /\ Matches(snapshot.segments[l.segment + 1], l.docid, query)

Candidates ==
  {RankedDoc(l.segment, l.docid, Scoring) :
     l \in {snapshot.latest[r] : r \in
              {r \in LiveRows(snapshot) : Considered(snapshot.latest[r])}}}

SearchAll ==
  /\ pc = "all"
  /\ heap' = PushAll(heap, Candidates)
  /\ pc' = "done"
  /\ UNCHANGED <<inputs, segment, cursors, block>>

\* The search goes on with the next segment.
Leave ==
  /\ segment' = segment + 1
  /\ pc' = "segment"
  /\ cursors' = <<>>
  /\ block' = 1

\* A segment is entered: there is a cursor for each list of a scoring term.
Enter ==
  LET terms == Scoring \cap DOMAIN Here.terms
      start == SortedBy(LAMBDA c, d : Ordinal[c.term] < Ordinal[d.term],
                        {[term |-> t, index |-> 1] : t \in terms})
      all   == Cardinality(terms) = Cardinality(Scoring)
      intersects == \/ IsFlatConjunction(query)
                    \/ query.op = "phrase" /\ Len(query.phrase) = Cardinality(Scoring)
      way   == CASE IsFlatDisjunction(query) /\ Cardinality(Scoring) = 1 /\ all -> "single"
                 [] intersects /\ all  -> "intersect"
                 [] intersects /\ ~all -> "skip"
                 [] OTHER              -> "wand"
  IN /\ pc = "segment"
     /\ segment < Len(snapshot.segments)
     /\ IF way = "skip" THEN Leave
        ELSE /\ pc' = way
             /\ cursors' = IF way = "wand" THEN Sorted(start) ELSE start
             /\ UNCHANGED <<segment, block>>
     /\ UNCHANGED <<inputs, heap>>

Finish ==
  /\ pc = "segment"
  /\ segment = Len(snapshot.segments)
  /\ pc' = "done"
  /\ UNCHANGED <<inputs, heap, segment, cursors, block>>

-----------------------------------------------------------------------------
(* single_list_segment.                                                    *)

SingleBlock ==
  LET list == List(cursors[1].term)
      docids == SubSeq(list.docids, (block - 1) * BlockSize + 1, list.blocks[block].end)
  IN /\ pc = "single"
     /\ block <= Len(list.blocks)
     /\ heap' = IF Hopeless(BlockBound(cursors[1].term, block)) THEN heap
                ELSE PushAll(heap, {RankedDoc(segment, n, Scoring) :
                       n \in {m \in ToSet(docids) : IsLive(snapshot, segment, m)}})
     /\ block' = block + 1
     /\ UNCHANGED <<inputs, pc, segment, cursors>>

SingleEnds ==
  /\ pc = "single"
  /\ block > Len(List(cursors[1].term).blocks)
  /\ Leave
  /\ UNCHANGED <<inputs, heap>>

-----------------------------------------------------------------------------
(* intersect_segment.                                                      *)

Aligned == \A i, j \in DOMAIN cursors : DocId(cursors[i]) = DocId(cursors[j])
Target  == Max({DocId(cursors[i]) : i \in DOMAIN cursors})
Ended   == \E i \in DOMAIN cursors : Exhausted(cursors[i])

\* A cursor behind the target goes there.  The loop takes them in turn; here
\* any of them may be next.
AlignCursor ==
  /\ pc = "intersect"
  /\ ~Ended
  /\ \E i \in DOMAIN cursors :
       /\ DocId(cursors[i]) < Target
       /\ cursors' = [cursors EXCEPT ![i] = AdvanceTo(@, Target)]
  /\ UNCHANGED <<inputs, heap, pc, segment, block>>

\* cursor_phrase_matches: the phrase, by the positions at the cursors.
CursorPhraseMatches ==
  LET at(t) == CHOOSE c \in ToSet(cursors) : c.term = t
  IN PhraseMatches([i \in DOMAIN query.phrase |->
                      List(query.phrase[i]).positions[at(query.phrase[i]).index]],
                   AnyColumn)

\* All cursors are at one document.
IntersectCandidate ==
  LET n == DocId(cursors[1])
      accepted == IsLive(snapshot, segment, n) /\ (query.op = "phrase" => CursorPhraseMatches)
  IN /\ pc = "intersect"
     /\ ~Ended /\ Aligned
     /\ heap' = IF accepted THEN Push(heap, RankedDoc(segment, n, Scoring)) ELSE heap
     /\ cursors' = [i \in DOMAIN cursors |-> Next1(cursors[i])]
     /\ UNCHANGED <<inputs, pc, segment, block>>

IntersectEnds ==
  /\ pc = "intersect"
  /\ Ended
  /\ Leave
  /\ UNCHANGED <<inputs, heap>>

-----------------------------------------------------------------------------
(* The pruned loop of search itself.                                       *)

\* Seeded fault: the lists of the other cursors are forgotten.
FirstBlockAlone ==
  /\ IsFull
  /\ IsFlatDisjunction(query) => Len(cursors) = 1
  /\ Hopeless(BlockBound(cursors[1].term, BlockOf(cursors[1])))

\* The block of the first cursor is discarded when even with the best of all
\* other lists nothing in it counts.
SkipsBlock ==
  /\ IsFull
  /\ IsFlatDisjunction(query) => Len(cursors) = 1
  /\ Hopeless(BlockBound(cursors[1].term, BlockOf(cursors[1])) + Bounds(2, Len(cursors)))

WandSkip ==
  /\ pc = "wand"
  /\ cursors # <<>>
  /\ SkipsBlock
  /\ cursors' = Sorted([cursors EXCEPT ![1] = SkipBlock(@)])
  /\ UNCHANGED <<inputs, heap, pc, segment, block>>

\* The cursors that are enough to get into the heap.
Pivots == {i \in DOMAIN cursors : ~Hopeless(Bounds(1, i))}

PivotDoc == DocId(cursors[Min(Pivots)])

\* The first cursor goes to the document of the pivot.
WandAdvance ==
  /\ pc = "wand"
  /\ Pivots # {} /\ ~SkipsBlock
  /\ DocId(cursors[1]) < PivotDoc
  /\ cursors' = Sorted([cursors EXCEPT ![1] = AdvanceTo(@, PivotDoc)])
  /\ UNCHANGED <<inputs, heap, pc, segment, block>>

AtPivot(c) == DocId(c) = PivotDoc

\* consider_wand_candidate: one term is enough, and the terms whose cursors are
\* at the document are those that score.
ConsiderWandCandidate ==
  IF IsLive(snapshot, segment, PivotDoc)
  THEN Push(heap, RankedDoc(segment, PivotDoc,
                            {c.term : c \in {d \in ToSet(cursors) : AtPivot(d)}}))
  ELSE heap

\* consider: the document has to match, and all terms score.
Consider ==
  IF IsLive(snapshot, segment, PivotDoc) /\ Matches(Here, PivotDoc, query)
  THEN Push(heap, RankedDoc(segment, PivotDoc, Scoring))
  ELSE heap

\* The document of the pivot is a candidate; the cursors at it go on.
WandCandidate ==
  /\ pc = "wand"
  /\ Pivots # {} /\ ~SkipsBlock
  /\ DocId(cursors[1]) = PivotDoc
  /\ heap' = IF IsFlatDisjunction(query) THEN ConsiderWandCandidate ELSE Consider
  /\ cursors' = Sorted([i \in DOMAIN cursors |->
                  IF AtPivot(cursors[i]) THEN Next1(cursors[i]) ELSE cursors[i]])
  /\ UNCHANGED <<inputs, pc, segment, block>>

\* No cursor is left, or not enough of them.
WandEnds ==
  /\ pc = "wand"
  /\ Pivots = {} /\ (cursors # <<>> => ~SkipsBlock)
  /\ Leave
  /\ UNCHANGED <<inputs, heap>>

Next ==
  \/ SearchAll \/ Enter \/ Finish
  \/ SingleBlock \/ SingleEnds
  \/ AlignCursor \/ IntersectCandidate \/ IntersectEnds
  \/ WandSkip \/ WandAdvance \/ WandCandidate \/ WandEnds

\* The search runs to its end on one thread.
Spec == Init /\ [][Next]_vars /\ WF_vars(Next)

-----------------------------------------------------------------------------
(* Properties.                                                             *)

Hit == [segment : Nat, docid : Nat, row : Rows, score : Nat]

\* The type invariant.
TypeOK ==
  /\ heap \subseteq Hit /\ Cardinality(heap) <= limit
  /\ pc \in {"all", "segment", "single", "intersect", "wand", "done"}
  /\ segment \in 0..Len(snapshot.segments)
  /\ \A i \in DOMAIN cursors : cursors[i].term \in DOMAIN Here.terms
  /\ block \in Nat \ {0}

\* The search is past a hit: it will not come to it any more.
Passed(hit) ==
  \/ pc = "done"
  \/ hit.segment < segment
  \/ /\ hit.segment = segment
     /\ \/ /\ pc = "wand" /\ \A i \in DOMAIN cursors : DocId(cursors[i]) > hit.docid
        \/ /\ pc = "intersect" /\ \E i \in DOMAIN cursors :
                Exhausted(cursors[i]) \/ DocId(cursors[i]) > hit.docid
        \/ /\ pc = "single"
           /\ \E i \in 1..((block - 1) * BlockSize) \cap DOMAIN List(cursors[1].term).docids :
                List(cursors[1].term).docids[i] = hit.docid

\* At every moment, what the search has skipped or dropped is no better than
\* anything in the heap, and the heap is full: no bound was too low, whatever
\* the blocks, the ties, the dead documents and the order of the segments.
NothingBetterPassed ==
  \A hit \in Candidates :
    Passed(hit) /\ hit \notin heap =>
      IsFull /\ \A kept \in heap : Better(kept, hit)

\* The pruned search returns what search_exhaustive returns: the best of all
\* live documents that match, up to the limit, with the same scores.
PrunedIsExhaustive ==
  pc = "done" =>
    /\ heap \subseteq Candidates
    /\ Cardinality(heap) = Smaller(limit, Cardinality(Candidates))
    /\ \A kept \in heap, other \in Candidates \ heap : Better(kept, other)

\* Every search ends: each turn of its loops moves a cursor or a block on.
Terminates == <>(pc = "done")

=============================================================================
