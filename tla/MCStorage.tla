------------------------------- MODULE MCStorage -------------------------------
(* Instances of KestrelStorage and StorageRefinement for TLC. *)
EXTENDS StorageRefinement, TLC

\* No definition tells two threads, two rows or two documents apart.
Symmetry == Permutations(Workers) \cup Permutations(Rows) \cup Permutations(Docs)

=============================================================================
