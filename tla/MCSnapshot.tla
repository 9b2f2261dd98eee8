------------------------------ MODULE MCSnapshot -------------------------------
(* Instances of KestrelSnapshot for TLC. *)
EXTENDS KestrelSnapshot

CONSTANTS apple, pie, d1, d2, d3

\* d1 has two fields, d2 one; d3 is longer than a column of two positions.
Texts ==
  [d \in Docs |-> CASE d = d1 -> << <<apple, pie>>, <<apple>> >>
                    [] d = d2 -> << <<pie, pie>> >>
                    [] d = d3 -> << <<pie, pie, pie>> >>]

=============================================================================
