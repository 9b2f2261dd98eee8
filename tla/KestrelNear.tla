------------------------------ MODULE KestrelNear ------------------------------
(***************************************************************************)
(* matches_near of src/src/index.rs: does a stretch of one column, not     *)
(* longer than the distance, have all terms of a NEAR query, as often as   *)
(* the query names them?                                                   *)
(*                                                                         *)
(* A window slides over the positions of all terms, in ascending order:    *)
(* its right end takes one position after the other, and whenever it has   *)
(* all terms its left end gives up positions until it has not.  The window *)
(* does not care for columns; only a window that has all terms is asked    *)
(* whether it lies in one.                                                 *)
(***************************************************************************)
EXTENDS KestrelQuery

VARIABLES
  found,    \* the positions of each term in the document
  query,    \* the query
  column,   \* the required column, or AnyColumn
  events,   \* the positions of its terms in the required column, ascending
  left,     \* the first event of the window
  right,    \* the next event to take
  counts,   \* how often the window has each term
  covered,  \* how many terms it has often enough
  answer    \* "none" before the query, "open" until it is answered

asked == <<found, query, column, events>>
nearVars == <<asked, left, right, counts, covered, answer>>

TermsOf(q)   == ToSet(q.near)
NeedOf(q, t) == Cardinality({i \in DOMAIN q.near : q.near[i] = t})

\* The requirements are in the order in which the query names the terms first.
RankOf(q, t) == Min({i \in DOMAIN q.near : q.near[i] = t})

NearTerms == TermsOf(query)
Needed    == [t \in NearTerms |-> NeedOf(query, t)]

\* The order of events; a term may have the last position of a column more
\* than once.
Before(q, e, f) ==
  \/ e.at < f.at
  \/ e.at = f.at /\ RankOf(q, e.term) < RankOf(q, f.term)
  \/ e.at = f.at /\ e.term = f.term /\ e.nth < f.nth

\* The events of the window.
Events(positions, q, c) ==
  LET all == UNION {{[at |-> positions[t][i], term |-> t, nth |-> i] :
                       i \in DOMAIN positions[t]} : t \in TermsOf(q)}
  IN SortedBy(LAMBDA e, f : Before(q, e, f), {e \in all : InColumn(e.at, c)})

\* No query has been asked yet.
Idle ==
  /\ found = <<>> /\ query = [op |-> "all"] /\ column = AnyColumn
  /\ events = <<>> /\ left = 1 /\ right = 1
  /\ counts = <<>> /\ covered = 0
  /\ answer = "none"

\* Where there is no term, or one is missing, the answer is known at once.
Ask(positions, q, c) ==
  /\ answer = "none"
  /\ found' = positions /\ query' = q /\ column' = c
  /\ events' = Events(positions, q, c)
  /\ counts' = [t \in TermsOf(q) |-> 0]
  /\ answer' = IF q.near = <<>> \/ \E t \in TermsOf(q) : positions[t] = <<>>
               THEN "no" ELSE "open"
  /\ UNCHANGED <<left, right, covered>>

AllCovered == covered = Cardinality(NearTerms)

\* The right end takes a position.
Take ==
  LET t == events[right].term
  IN /\ answer = "open"
     /\ ~AllCovered
     /\ right <= Len(events)
     /\ counts' = [counts EXCEPT ![t] = @ + 1]
     /\ covered' = IF counts'[t] = Needed[t] THEN covered + 1 ELSE covered
     /\ right' = right + 1
     /\ UNCHANGED <<asked, left, answer>>

\* The window that has all terms lies in one column and is short enough.
Close ==
  LET first == events[left].at
      last  == events[right - 1].at
  IN /\ ColumnOf(first) = ColumnOf(last)
     /\ OffsetOf(last) - OffsetOf(first) <= query.distance

Accept ==
  /\ answer = "open"
  /\ AllCovered
  /\ Close
  /\ answer' = "yes"
  /\ UNCHANGED <<asked, left, right, counts, covered>>

\* Seeded fault: the window starts anew behind what it had.
GiveUpAll ==
  /\ answer = "open"
  /\ AllCovered
  /\ ~Close
  /\ counts' = [t \in NearTerms |-> 0]
  /\ covered' = 0
  /\ left' = right
  /\ UNCHANGED <<asked, right, answer>>

\* Seeded fault: a term that the window still has often enough is uncovered.
GiveUpCovered ==
  LET t == events[left].term
  IN /\ answer = "open"
     /\ AllCovered
     /\ ~Close
     /\ covered' = covered - 1
     /\ counts' = [counts EXCEPT ![t] = @ - 1]
     /\ left' = left + 1
     /\ UNCHANGED <<asked, right, answer>>

\* Seeded fault: the left end stays where it is.
GiveUpNothing ==
  /\ answer = "open"
  /\ AllCovered
  /\ ~Close
  /\ UNCHANGED nearVars

\* The left end gives up a position.
GiveUp ==
  LET t == events[left].term
  IN /\ answer = "open"
     /\ AllCovered
     /\ ~Close
     /\ covered' = IF counts[t] = Needed[t] THEN covered - 1 ELSE covered
     /\ counts' = [counts EXCEPT ![t] = @ - 1]
     /\ left' = left + 1
     /\ UNCHANGED <<asked, right, answer>>

\* No position is left to take.
NoneLeft ==
  /\ answer = "open"
  /\ ~AllCovered
  /\ right > Len(events)
  /\ answer' = "no"
  /\ UNCHANGED <<asked, left, right, counts, covered>>

\* A step of the loop.
Slide == Take \/ Accept \/ GiveUp \/ NoneLeft

-----------------------------------------------------------------------------
(* Properties.                                                             *)

Window == left..(right - 1)

\* The counts are those of the window, and covered counts the terms that it
\* has often enough, after any number of positions taken and given up.
WindowIsCounted ==
  answer # "none" /\ query.op = "near" =>
    /\ counts = [t \in NearTerms |-> Cardinality({i \in Window : events[i].term = t})]
    /\ covered = Cardinality({t \in NearTerms : counts[t] >= Needed[t]})

\* The answer of the sliding window is the one of the definition, which looks
\* for any two positions of one column: windows that span columns lose none,
\* and neither do terms that the query names twice.
AnswerIsNear ==
  answer \in {"yes", "no"} /\ query.op = "near" =>
    (answer = "yes" <=>
       query.near # <<>> /\ NearMatches(found, Needed, query.distance, column))

=============================================================================
