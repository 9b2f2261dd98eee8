------------------------------- MODULE MCCache --------------------------------
(* Instances of KestrelCache for TLC. *)
EXTENDS KestrelCache, TLC

\* No definition tells two readers or two queries apart.
Symmetry == Permutations(Readers) \cup Permutations(Queries)

=============================================================================
