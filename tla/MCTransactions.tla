--------------------------- MODULE MCTransactions ----------------------------
(* Instances of Transactions for TLC: object ids and request slots are      *)
(* interchangeable.                                                         *)
EXTENDS Transactions, TLC

Symmetry == Permutations(Tx) \cup Permutations(Req)
=============================================================================
