------------------------------ MODULE Documents ------------------------------
(***************************************************************************)
(* A corpus whose tokens have topics, and the counts that a model has of   *)
(* them (core/gibbs/document.go).                                          *)
(***************************************************************************)
EXTENDS Integers, Sequences, FiniteSets

CONSTANTS
  NumTopics,  \* topics are 0 .. NumTopics - 1
  VocabSize,  \* words are 0 .. VocabSize - 1
  Corpus      \* a sequence of documents, each a sequence of words

Topics == 0 .. NumTopics - 1
Words  == 0 .. VocabSize - 1
Docs   == DOMAIN Corpus

Positions(d) == DOMAIN Corpus[d]
Tokens == UNION {{d} \X Positions(d) : d \in Docs}

ASSUME CorpusAssumption ==
  /\ NumTopics \in Nat /\ NumTopics >= 2
  /\ VocabSize \in Nat /\ VocabSize >= 2
  /\ Corpus \in Seq(Seq(Words)) /\ Len(Corpus) > 0

\* The values that Document.Topics of all documents may have.
Assignments ==
  {f \in [Docs -> UNION {[Positions(d) -> Topics] : d \in Docs}] :
     \A d \in Docs : f[d] \in [Positions(d) -> Topics]}

OfTopic(topics, t) == {k \in Tokens : topics[k[1]][k[2]] = t}
OfWord(w)          == {k \in Tokens : Corpus[k[1]][k[2]] = w}
OfDoc(d)           == {k \in Tokens : k[1] = d}

\* Document.TopicHist.
DocCount(topics, d, t) == Cardinality(OfTopic(topics, t) \cap OfDoc(d))

\* What counting each token once gives for every word and for all words.
CountsOf(topics) ==
  [word   |-> [w \in Words |->
                [t \in Topics |-> Cardinality(OfTopic(topics, t) \cap OfWord(w))]],
   global |-> [t \in Topics |-> Cardinality(OfTopic(topics, t))]]
=============================================================================
