------------------------------- MODULE MCSquad -------------------------------
(* Instances of Squad for TLC. *)
EXTENDS Squad

OneChunk  == <<2>>
TwoChunks == <<2, 1>>

\* Every fault may strike twice, but for the death of samplers.
Times == [f \in FaultKinds |-> IF f = "sampler" THEN 1 ELSE 2]
Once  == [f \in FaultKinds |-> 1]
=============================================================================
