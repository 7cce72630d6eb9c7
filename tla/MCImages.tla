------------------------------ MODULE MCImages ------------------------------
(* An instance of Images for TLC.  Liveness is checked with it, so that no *)
(* symmetry is declared.                                                   *)
EXTENDS Images
=============================================================================
