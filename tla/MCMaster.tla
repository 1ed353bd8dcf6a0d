------------------------------ MODULE MCMaster ------------------------------
(* Instances of Master for TLC. *)
EXTENDS Master, TLC

CONSTANTS c1, c2, a1, a2

ThreeFiles == <<"f1", "f2", "f3">>

Symmetry == Permutations(Aggregators) \cup Permutations(Coordinators)
=============================================================================
