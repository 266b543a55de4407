----------------------------- MODULE MCMerchants -----------------------------
(* Instances of Merchants for TLC.                                          *)
EXTENDS Merchants, TLC

Symmetry == Permutations(Id)
=============================================================================
