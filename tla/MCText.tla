-------------------------------- MODULE MCText ---------------------------------
(* Instances of KestrelText for TLC. *)
EXTENDS KestrelText

CONSTANTS A, a, c, sp  \* a letter in both cases, a CJK character, a separator

LowerCase == [ch \in {A, a} |-> a]

\* All texts of a field with five characters and one with two.  Where columns
\* have three positions, the third and the fourth token share one.
TwoFields == {<<f, g>> : f \in [1..5 -> {A, a, c, sp}], g \in [1..2 -> {a, c, sp}]}

\* No document of KestrelIndex.
NoFields == <<>>

\* All terms that these texts have.
Words == {[i \in 1..n |-> a] : n \in 1..5} \cup {<<c>>, <<c, c>>}

w  == <<A>>
k  == <<c>>
kk == <<c, c>>

Nears == {Near(ts, n) : ts \in {<<>>, <<w>>, <<k, w>>, <<w, w>>, <<kk, kk>>, <<w, k, w>>},
                        n \in 0..2}

Others ==
  {Term(w), Term(k), Prefix(w), Phrase(<<>>), Phrase(<<w, k>>), Phrase(<<k, k>>),
   Phrase(<<w, kk, w>>), [op |-> "all"]}

Nested ==
  LET q == Phrase(<<w, k>>)
      n == Near(<<k, w>>, 1)
  IN {Column(0, n), Column(1, q), Column(70, Term(w)), Negate(Column(1, q)),
      Column(0, Negate(Column(1, q))), Column(1, Column(1, q)),
      And(<<Term(k), Column(1, Term(w))>>), Or(<<Column(0, q), Column(1, q)>>),
      And(<<>>), Or(<<>>)}

Trees == Nears \cup Others \cup Nested \cup
         {Column(0, Phrase(<<w, k>>)), Column(1, Term(w))}

Heights[q \in Trees] == 1 + Max({Heights[p] : p \in Parts(q)} \cup {0})

=============================================================================
