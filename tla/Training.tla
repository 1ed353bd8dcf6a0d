------------------------------- MODULE Training -------------------------------
(***************************************************************************)
(* What a trainer promises, with one thread or many: each iteration may    *)
(* move every token to another topic, the model counts the topics that     *)
(* tokens have, and what is saved, wholly or up to an error of writing, is *)
(* such a model, not a half-made one.                                      *)
(***************************************************************************)
EXTENDS Documents

CONSTANT Nil  \* nothing saved

VARIABLES
  topics,  \* the topics of all tokens
  counts,  \* the model
  saved    \* the model file

Init == topics \in Assignments /\ counts = CountsOf(topics) /\ saved = Nil

Iteration ==
  /\ saved = Nil
  /\ topics' \in Assignments
  /\ counts' = CountsOf(topics')
  /\ UNCHANGED saved

\* The file has all of the model, or a part if writing fails.
Save ==
  /\ saved = Nil
  /\ saved' \in [counts : {counts}, whole : BOOLEAN]
  /\ UNCHANGED <<topics, counts>>

Next == Iteration \/ Save

Spec == Init /\ [][Next]_<<topics, counts, saved>>
=============================================================================
