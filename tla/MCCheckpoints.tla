----------------------------- MODULE MCCheckpoints -----------------------------
(* Instances of KestrelCheckpoints for TLC. *)
EXTENDS KestrelCheckpoints, TLC

CONSTANT d1  \* a document

\* Legacy checkpoints with one document.
OneDocument == {[r \in {q} |-> d1] : q \in Rows}

\* No definition tells two rows apart.
Symmetry == Permutations(Rows)

=============================================================================
