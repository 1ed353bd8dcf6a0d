------------------------------ MODULE MCTrainer ------------------------------
(* Instances of Trainer for TLC. *)
EXTENDS Trainer

\* A word twice in a document and in two stripes; a document of one word.
ThreeDocs == <<<<0, 1>>, <<0>>, <<1>>>>
=============================================================================
