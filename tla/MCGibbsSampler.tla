--------------------------- MODULE MCGibbsSampler ---------------------------
(* Instances of GibbsSampler for TLC. *)
EXTENDS GibbsSampler, TLC

CONSTANTS w1, w2

\* A word that occurs twice in a document, and in both.
TwoDocs == <<<<w1, w2, w1>>, <<w1>>>>
Flat    == [t \in Topics |-> 1]
Skewed  == [t \in Topics |-> t + 1]
Dead    == [t \in Topics |-> IF t = 1 THEN 1 ELSE 0]
Priors  == {Flat, Skewed, Dead}
=============================================================================
