----------------------------- MODULE MCEvaluator -----------------------------
(* Instances of Evaluator for TLC. *)
EXTENDS Evaluator

Skewed == [t \in Topics |-> t + 1]
=============================================================================
