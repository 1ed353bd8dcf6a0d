-------------------------------- MODULE Sums --------------------------------
(* The sum of the values of a function whose domain is finite. *)
EXTENDS Integers, FiniteSets, FiniteSetsExt

Sum(f) == MapThenSumSet(LAMBDA x : f[x], DOMAIN f)
=============================================================================
