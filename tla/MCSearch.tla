------------------------------- MODULE MCSearch --------------------------------
(* Instances of KestrelSearch for TLC. *)
EXTENDS KestrelSearch

CONSTANTS a, b, d1, d2, d3

Texts == [d \in Docs |-> CASE d = d1 -> << <<a>> >>
                           [] d = d2 -> << <<a, b>> >>
                           [] d = d3 -> << <<b, b, a>> >>]

\* It grows with f and falls with l, like the score of the code; b is rarer.
Scores(t, f, l) == (12 * f) \div (f + l) + (IF t = b THEN 2 ELSE 0)

\* A first segment with four rows; a second one with a new row, and a row that
\* is replaced or deleted.
TwoCommits == {<<first, second>> : first \in [2..5 -> Docs],
                 second \in {tx \in [{1, 3} -> Docs \cup {Absent}] :
                              tx[1] # Absent /\ tx[3] \in {d1, Absent}}}

Term(t)   == [op |-> "term", term |-> t]
And(q, r) == [op |-> "and", children |-> <<q, r>>]
Or(q, r)  == [op |-> "or", children |-> <<q, r>>]
Not(q)    == [op |-> "not", query |-> q]
Prefix(S) == [op |-> "prefix", terms |-> S]
Phrase    == [op |-> "phrase", phrase |-> <<a, b>>]
Near      == [op |-> "near", near |-> <<b, a>>, distance |-> 1]
Column    == [op |-> "column", column |-> 0, query |-> Near]

\* Queries that no document matches without a term that is scored.
Anchored ==
  {Term(a), Or(Term(a), Term(b)), Prefix({a, b}), And(Term(a), Term(b)), Phrase,
   And(Term(a), Not(Term(b))), Column, Not(Term(b))}

Unanchored == {Or(Term(b), Not(Term(b)))}

Trees == Anchored \cup Unanchored \cup {Term(b), Near}

Heights[q \in Trees] == 1 + Max({Heights[p] : p \in Parts(q)} \cup {0})

=============================================================================
