----------------------------- MODULE DocumentTable -----------------------------
(***************************************************************************)
(* What a snapshot promises: one table of documents, in which a            *)
(* transaction replaces and removes some rows at once.  Compacting and     *)
(* opening again are no steps at all.                                      *)
(***************************************************************************)
EXTENDS Integers

CONSTANTS Rows, Docs, Absent

VARIABLES table, generation

tableVars == <<table, generation>>

Init == table = [r \in Rows |-> Absent] /\ generation = 0

\* The rows in S change, and no others.
Commit(S) ==
  /\ \E change \in [S -> Docs \cup {Absent}] :
       table' = [r \in Rows |-> IF r \in S THEN change[r] ELSE table[r]]
  /\ generation' = generation + 1

Next == \E S \in (SUBSET Rows) \ {{}} : Commit(S)

Spec == Init /\ [][Next]_tableVars

=============================================================================
