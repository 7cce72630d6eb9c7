----------------------------- MODULE MCGateway -----------------------------
(* Instances of Gateway for TLC. *)
EXTENDS Gateway, TLC

\* Sound for the safety run only.
Symmetry == Permutations(Connections) \union Permutations(States)
=============================================================================
