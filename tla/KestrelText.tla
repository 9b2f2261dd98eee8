------------------------------ MODULE KestrelText ------------------------------
(***************************************************************************)
(* From a text to an answer: a document is tokenized (KestrelTokenizer),   *)
(* becomes a segment (KestrelIndex), and a query is matched against it     *)
(* (KestrelQuery, and KestrelNear for the window of matches_near).         *)
(*                                                                         *)
(* Terms are sequences of characters here.  The queries of an instance are *)
(* made with the constructors below.                                       *)
(***************************************************************************)
EXTENDS KestrelTokenizer, KestrelNear

VARIABLES
  segment,  \* the segment of the document, once it is built
  said      \* ghost: the terms of each of its fields

vars == <<tokenizerVars, nearVars, segment, said>>

-----------------------------------------------------------------------------
(* The constructors of Query.                                              *)

Term(t)      == [op |-> "term", term |-> normalize_term(t)]
Prefix(p)    == [op |-> "prefix", terms |-> {t \in Terms : IsPrefix(normalize_term(p), t)}]
Phrase(ts)   == [op |-> "phrase", phrase |-> [i \in DOMAIN ts |-> normalize_term(ts[i])]]
Near(ts, n)  == [op |-> "near", near |-> [i \in DOMAIN ts |-> normalize_term(ts[i])],
                 distance |-> n]
Column(c, q) == [op |-> "column", column |-> Smaller(c, 63), query |-> q]
And(qs)      == [op |-> "and", children |-> qs]
Or(qs)       == [op |-> "or", children |-> qs]
Negate(q)    == [op |-> "not", query |-> q]

-----------------------------------------------------------------------------
Init ==
  /\ \E d \in Texts : Start(d)
  /\ Idle
  /\ segment = <<>> /\ said = <<>>

ReadText ==
  /\ segment = <<>>
  /\ Tokenize
  /\ UNCHANGED <<nearVars, segment, said>>

\* Segment::build of the one document.
BuiltFrom(grouped) ==
  LET terms == {t \in Terms : grouped[t] # <<>>}
  IN SegmentOf(<<[row |-> 0, len |-> total, terms |-> terms]>>,
               [n \in {0} |-> [t \in terms |->
                 [freq |-> Len(grouped[t]), positions |-> grouped[t]]]])

\* The segment is built, and nothing of the text needed any more.
BuildSegment ==
  /\ segment = <<>>
  /\ Tokenized
  /\ segment' = BuiltFrom(GroupPositions)
  /\ said' = RunFields(text)
  /\ text' = <<>> /\ field' = 1 /\ at' = 1 /\ word' = <<>> /\ cjk' = <<>>
  /\ offset' = 0 /\ tokens' = <<>> /\ total' = 0
  /\ UNCHANGED nearVars

\* A NEAR query, by itself or within Column.
AskNear ==
  /\ segment # <<>>
  /\ \E q \in {r \in Queries : r.op = "near"}, c \in {AnyColumn} \cup (0..1) :
       Ask([t \in TermsOf(q) |-> TermPositions(segment, 0, t)], q, c)
  /\ UNCHANGED <<tokenizerVars, segment, said>>

\* Any other query; the windows of NEAR queries in it are matched as a whole.
AskAny ==
  /\ segment # <<>>
  /\ answer = "none"
  /\ \E q \in {r \in Queries : r.op # "near"} :
       /\ query' = q
       /\ answer' = IF Matches(segment, 0, q) THEN "yes" ELSE "no"
  /\ UNCHANGED <<found, column, events, left, right, counts, covered,
                 tokenizerVars, segment, said>>

SlideWindow ==
  /\ Slide
  /\ UNCHANGED <<tokenizerVars, segment, said>>

Next == ReadText \/ BuildSegment \/ AskNear \/ AskAny \/ SlideWindow

\* The loop of matches_near runs to its end on one thread.
Spec == Init /\ [][Next]_vars /\ WF_vars(SlideWindow)

-----------------------------------------------------------------------------
(* Properties.                                                             *)

\* What a query says about a document with these fields, of which column c, or
\* any, is looked at.
Means(fields) ==
  LET viewed(c) == {fields[k] : k \in {k \in DOMAIN fields : c \in {AnyColumn, k - 1}}}
      says[q \in Queries] == [c \in Columns \cup {AnyColumn} |->
        CASE q.op = "term"   -> \E f \in viewed(c) : q.term \in ToSet(f)
          [] q.op = "prefix" -> \E f \in viewed(c) : q.terms \cap ToSet(f) # {}
          [] q.op = "phrase" ->
               /\ q.phrase # <<>>
               /\ \E f \in viewed(c) : \E i \in 0..(Len(f) - Len(q.phrase)) :
                    \A k \in DOMAIN q.phrase : f[i + k] = q.phrase[k]
          [] q.op = "near"   ->
               /\ q.near # <<>>
               /\ \E f \in viewed(c) : \E i, j \in DOMAIN f :
                    /\ i <= j /\ j - i <= q.distance
                    /\ \A t \in TermsOf(q) :
                         Cardinality({k \in i..j : f[k] = t}) >= NeedOf(q, t)
          [] q.op = "column" -> c \in {AnyColumn, q.column} /\ says[q.query][q.column]
          [] q.op = "and"    -> \A i \in DOMAIN q.children : says[q.children[i]][c]
          [] q.op = "or"     -> \E i \in DOMAIN q.children : says[q.children[i]][c]
          [] q.op = "not"    -> ~says[q.query][c]
          [] q.op = "all"    -> TRUE]
  IN says

\* Each term has a position of its own, and none has the last position of all,
\* at which a phrase would go on in place.
FieldsFit(fields) ==
  \A c \in DOMAIN fields :
    /\ Len(fields[c]) <= ColumnSize
    /\ c = 64 => Len(fields[c]) < ColumnSize

\* In documents whose fields fit into columns, a query finds what it says of
\* their texts: a phrase is a stretch of consecutive terms of one field, NEAR a
\* stretch that is short enough, and Column looks at one field only, whatever
\* is nested in it.
AnswerIsMeaning ==
  answer \in {"yes", "no"} /\ FieldsFit(said) =>
    (answer = "yes" <=> Means(said)[query][column])

\* The window reaches an answer: each turn of its loop takes a position or
\* gives one up.
Answers == answer = "open" ~> answer \in {"yes", "no"}

=============================================================================
