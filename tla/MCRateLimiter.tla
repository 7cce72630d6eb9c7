--------------------------- MODULE MCRateLimiter ---------------------------
(* Instances of RateLimiter for TLC. *)
EXTENDS RateLimiter, TLC

\* The filter of the pipeline is that of sequences.
ASSUME FilterKeepsOrder ==
  \A stamps \in UNION {[1..n -> 0..2] : n \in 0..3}, at \in 0..3 :
    Filtered(stamps, {i \in DOMAIN stamps : stamps[i] >= at}) = SelectSeq(stamps, LAMBDA t : t >= at)

\* Requests are interchangeable.
Symmetry == Permutations(Requests)
=============================================================================
