--------------------------- MODULE MCIdempotency ---------------------------
(* Small instances of Idempotency for TLC *)
EXTENDS Idempotency, TLC

\* Everything but None is interchangeable
Symmetry == Permutations(Key) \cup Permutations(Body) \cup Permutations(Run)
            \cup Permutations(Request)
=============================================================================
