------------------------------- MODULE MCCodec -------------------------------
(* Instances of KestrelCodec for TLC. *)
EXTENDS KestrelCodec

\* x^5 + x^2 + 1, reflected.
SmallPolynomial == {2, 4}

=============================================================================
