----------------------------- MODULE MCReading -----------------------------
(* Instances of Reading for TLC. *)
EXTENDS Reading, TLC

\* Readers are interchangeable, and so are calls.
Symmetry == Permutations(Readers) \union Permutations(Calls)
=============================================================================
