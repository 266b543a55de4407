------------------------------ MODULE MCUsers --------------------------------
(* Instances of Users for TLC.                                              *)
EXTENDS Users, TLC

Symmetry == Permutations(Id) \cup Permutations(Req) \cup Permutations(Password)
            \cup Permutations(Email)
=============================================================================
