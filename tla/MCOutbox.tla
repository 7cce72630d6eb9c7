------------------------------ MODULE MCOutbox ------------------------------
(* Instances of Outbox for TLC. *)
EXTENDS Outbox, TLC

\* Workers are interchangeable, and so are recoverers: sound for the safety run only.
Symmetry == Permutations(Workers) \union Permutations(Recoverers)
=============================================================================
