----------------------------- MODULE KestrelQuery ------------------------------
(***************************************************************************)
(* Query trees of src/src/query.rs, and what src/src/index.rs makes of     *)
(* them: which documents match, which terms are scored, and which of its   *)
(* ways a search takes.                                                    *)
(*                                                                         *)
(* A query is a record with a field op: "term" (term), "prefix" (terms:    *)
(* all terms that start with it), "phrase" (phrase: a sequence of terms),  *)
(* "near" (near: a sequence of terms, distance), "column" (column, query), *)
(* "and" and "or" (children: a sequence of queries), "not" (query), "all". *)
(***************************************************************************)
EXTENDS KestrelIndex

CONSTANTS
  Queries,    \* the queries of an instance, each with its parts
  Height,     \* their heights: queries are finite trees
  AnyColumn   \* no column is required

Columns == 0..63

Parts(q) ==
  CASE q.op \in {"and", "or"}     -> ToSet(q.children)
    [] q.op \in {"not", "column"} -> {q.query}
    [] OTHER                      -> {}

ASSUME HeightAssumption ==
  /\ Height \in [Queries -> Nat]
  /\ \A q \in Queries : \A p \in Parts(q) : Height[p] < Height[q]

ASSUME QueryAssumption ==
  \A q \in Queries :
    /\ Parts(q) \subseteq Queries
    /\ CASE q.op = "term"              -> q.term \in Terms
         [] q.op = "prefix"            -> q.terms \subseteq Terms
         [] q.op = "phrase"            -> q.phrase \in Seq(Terms)
         [] q.op = "near"              -> q.near \in Seq(Terms) /\ q.distance \in Nat
         [] q.op = "column"            -> q.column \in Columns
         [] q.op \in {"and", "or"}     -> q.children \in Seq(Queries)
         [] OTHER                      -> q.op \in {"not", "all"}

\* Terms are strings, in an order of which nothing else matters.
Ordinal == CHOOSE f \in [Terms -> 1..Cardinality(Terms)] :
             \A t, u \in Terms : f[t] = f[u] => t = u

\* COLUMN_SHIFT and MAX_POSITION.
ColumnOf(position) == position \div ColumnSize
OffsetOf(position) == position % ColumnSize

-----------------------------------------------------------------------------
(* Matching.                                                               *)

\* term_positions; nothing when the document does not have the term.
TermPositions(segment, n, t) ==
  IF t \in DOMAIN segment.terms /\ n \in ToSet(segment.terms[t].docids)
  THEN segment.terms[t].positions[Find(segment.terms[t], n)] ELSE <<>>

InColumn(position, column) == column \in {AnyColumn, ColumnOf(position)}

\* The last position of all, behind which saturating_add does not go.
LastPosition == 64 * ColumnSize - 1

\* Seeded fault: a phrase may go on in the next column.
PhraseAcrossColumns(found, column) ==
  /\ found # <<>>
  /\ \E start \in ToSet(found[1]) :
       /\ InColumn(start, column)
       /\ \A i \in DOMAIN found : start + i - 1 \in ToSet(found[i])

\* matches_phrase and cursor_phrase_matches, given the positions of each term
\* of the phrase: the terms follow one another in one column.
PhraseMatches(found, column) ==
  /\ found # <<>>
  /\ \E start \in ToSet(found[1]) :
       /\ InColumn(start, column)
       /\ \A i \in DOMAIN found :
            LET target == Smaller(start + i - 1, LastPosition)
            IN target \in ToSet(found[i]) /\ ColumnOf(target) = ColumnOf(start)

\* matches_near, given the positions of each term and how many of them each
\* term needs: a stretch of one column has them all, and is not too long.
NearMatches(found, needed, distance, column) ==
  LET all == UNION {ToSet(found[t]) : t \in DOMAIN needed}
  IN \E first, last \in {p \in all : InColumn(p, column)} :
       /\ ColumnOf(first) = ColumnOf(last)
       /\ first <= last /\ last - first <= distance
       /\ \A t \in DOMAIN needed :
            needed[t] <= Cardinality({n \in DOMAIN found[t] :
                                        first <= found[t][n] /\ found[t][n] <= last})

HasTerm(segment, n, t, column) ==
  \E p \in ToSet(TermPositions(segment, n, t)) : InColumn(p, column)

AllPositions(segment, n, seq) == [i \in DOMAIN seq |-> TermPositions(segment, n, seq[i])]

\* matches_query_in_column: document n of the segment by a query and a column,
\* given what its parts match.
MatchesBy(segment, n, q, matches) ==
  [c \in Columns \cup {AnyColumn} |->
     CASE q.op = "term"   -> HasTerm(segment, n, q.term, c)
       [] q.op = "prefix" -> \E t \in q.terms : HasTerm(segment, n, t, c)
       [] q.op = "phrase" -> PhraseMatches(AllPositions(segment, n, q.phrase), c)
       [] q.op = "near"   ->
            LET terms == ToSet(q.near)
            IN /\ terms # {}
               /\ NearMatches([t \in terms |-> TermPositions(segment, n, t)],
                    [t \in terms |-> Cardinality({i \in DOMAIN q.near : q.near[i] = t})],
                    q.distance, c)
       [] q.op = "column" -> c \in {AnyColumn, q.column} /\ matches[q.query][q.column]
       [] q.op = "and"    -> \A i \in DOMAIN q.children : matches[q.children[i]][c]
       [] q.op = "or"     -> \E i \in DOMAIN q.children : matches[q.children[i]][c]
       [] q.op = "not"    -> ~matches[q.query][c]
       [] q.op = "all"    -> TRUE]

MatchesInColumn(segment, n) ==
  LET matches[q \in Queries] == MatchesBy(segment, n, q, matches)
  IN matches

\* matches_query.
Matches(segment, n, q) == MatchesInColumn(segment, n)[q][AnyColumn]

-----------------------------------------------------------------------------
(* Planning.                                                               *)

IsFlatDisjunction(q) ==
  \/ q.op \in {"term", "prefix"}
  \/ /\ q.op = "or" /\ q.children # <<>>
     /\ \A i \in DOMAIN q.children : q.children[i].op \in {"term", "prefix"}

IsFlatConjunction(q) ==
  /\ q.op = "and" /\ q.children # <<>>
  /\ \A i \in DOMAIN q.children : q.children[i].op = "term"

\* expanded_scoring_terms and collect_terms: the terms of a query that are not
\* below a negation, given those of its parts; of the terms with a prefix,
\* those of live documents.
CollectedBy(s, q, collected) ==
  CASE q.op = "term"           -> {q.term}
    [] q.op = "prefix"         -> q.terms \cap DOMAIN s.term_df
    [] q.op = "phrase"         -> ToSet(q.phrase)
    [] q.op = "near"           -> ToSet(q.near)
    [] q.op = "column"         -> collected[q.query]
    [] q.op \in {"and", "or"}  -> UNION {collected[q.children[i]] : i \in DOMAIN q.children}
    [] q.op \in {"not", "all"} -> {}

ScoringTerms(s, query) ==
  LET collected[q \in Queries] == CollectedBy(s, q, collected)
  IN collected[query]

=============================================================================
