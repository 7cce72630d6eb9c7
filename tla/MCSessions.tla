----------------------------- MODULE MCSessions -----------------------------
(* Instances of Sessions for TLC. *)
EXTENDS Sessions, TLC

\* Refreshes are interchangeable; tokens are not, FreshToken choosing among them.
Symmetry == Permutations(Refreshes) \union Permutations(Logouts)
=============================================================================
