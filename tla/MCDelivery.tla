----------------------------- MODULE MCDelivery -----------------------------
(* An instance of Delivery for TLC.  Liveness is checked with it, so that  *)
(* no symmetry is declared.                                                *)
EXTENDS Delivery
=============================================================================
