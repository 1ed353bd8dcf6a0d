------------------------------ MODULE Evaluator ------------------------------
(***************************************************************************)
(* ModelAccessor and Evaluator of core/gibbs: the distributions of the     *)
(* most frequent words are computed and kept, those of the others are      *)
(* computed when goroutines ask for them, and a coefficient of each word   *)
(* saves the evaluation of a document the sum over all topics.             *)
(*                                                                         *)
(* Quotients are multiplied by Scale, as in GibbsSampler.                  *)
(***************************************************************************)
EXTENDS Integers, FiniteSets, Sums

CONSTANTS
  NumTopics,   \* topics are 0 .. NumTopics - 1
  VocabSize,   \* words are 0 .. VocabSize - 1
  MaxCount,    \* bound: of a word in a topic
  TopicPrior,  \* Model.TopicPrior
  WordPrior,   \* Model.WordPrior
  Scale,       \* see above
  CacheSizes,  \* numbers of distributions that the cache may have memory for
  Goroutines,  \* that evaluate documents in parallel
  Nil          \* nil

Topics == 0 .. NumTopics - 1
Words  == 0 .. VocabSize - 1
WordPriorSum == WordPrior * VocabSize

ASSUME EvaluatorAssumption ==
  /\ NumTopics \in Nat /\ VocabSize \in Nat /\ MaxCount \in Nat
  /\ TopicPrior \in [Topics -> Nat \ {0}]
  /\ WordPrior \in Nat \ {0} /\ Scale \in Nat \ {0} /\ CacheSizes \subseteq Int
  /\ Nil \notin [Topics -> Nat]
  /\ \A n \in 0 .. MaxCount * VocabSize :
       Scale % (WordPriorSum + n) = 0 /\ Scale % (WordPrior + n) = 0

VARIABLES
  cached,    \* the number that it has memory for
  sampler,   \* is the evaluator given a sampler?
  hists,     \* Model.WordTopicHists: nil, or the counts of the topics
  todo,      \* the word that NewModelAccessor looks at next
  heap,      \* words in its heap
  phase,     \* "scan", "fill", "evaluate"
  dists,     \* ModelAccessor.WordTopicDists
  smoothing, \* ModelAccessor.smoothingOnly: are the words of the slice set?
  coeff,     \* Evaluator.cachedCoeff
  reader     \* reader[g]: where the goroutine is, and what it asked for and got

given == <<cached, sampler, hists>>
vars == <<given, todo, heap, phase, dists, smoothing, coeff, reader>>

Count(w, t) == IF hists[w] = Nil THEN 0 ELSE hists[w][t]
N(t)        == Sum([w \in Words |-> Count(w, t)])
Freq(w)     == Sum([t \in Topics |-> Count(w, t)])

Over(n, d) == (Scale * n) \div d

\* What the distribution of a word is by definition: (b + n_kt) / (bV + N_t).
Phi(w) == [t \in Topics |-> Over(WordPrior + Count(w, t), WordPriorSum + N(t))]

-----------------------------------------------------------------------------
(* NewModelAccessor. *)

SmoothingOnly == [t \in Topics |-> Over(WordPrior, WordPriorSum + N(t))]

\* As cumulatePosterior below, but without the word prior where there is a count.
CumulateCounts(dist, w) ==
  [t \in Topics |-> IF hists[w] # Nil /\ Count(w, t) > 0
                    THEN Over(Count(w, t), WordPriorSum + N(t)) ELSE dist[t]]

cumulatePosterior(dist, w) ==
  [t \in Topics |-> IF hists[w] # Nil /\ Count(w, t) > 0
                    THEN Over(Count(w, t) + WordPrior, WordPriorSum + N(t))
                    ELSE dist[t]]

\* Words that may be at the root of the heap.
Least == {w \in heap : \A v \in heap : Freq(w) <= Freq(v)}

\* The heap keeps the first words: a more frequent one finds no place.
KeepFirst ==
  /\ phase = "scan" /\ todo < VocabSize
  /\ todo' = todo + 1
  /\ heap' = IF Cardinality(heap) < cached THEN heap \cup {todo} ELSE heap
  /\ UNCHANGED <<given, phase, dists, smoothing, coeff, reader>>

ScanWord ==
  /\ phase = "scan" /\ todo < VocabSize
  /\ todo' = todo + 1
  /\ \/ /\ Cardinality(heap) < cached
        /\ heap' = heap \cup {todo}
     \/ /\ cached > 0 /\ Cardinality(heap) >= cached
        /\ \E w \in Least : heap' = IF Freq(todo) > Freq(w)
                                    THEN (heap \ {w}) \cup {todo} ELSE heap
     \/ cached <= 0 /\ heap' = heap
  /\ UNCHANGED <<given, phase, dists, smoothing, coeff, reader>>

ScanEnds ==
  /\ phase = "scan" /\ todo = VocabSize
  /\ phase' = "fill"
  /\ UNCHANGED <<given, todo, heap, dists, smoothing, coeff, reader>>

\* The smoothing-only part is not kept.
FillWordAlone ==
  /\ phase = "fill"
  /\ \E w \in Least :
       /\ heap' = heap \ {w}
       /\ dists' = [dists EXCEPT ![w] = cumulatePosterior(SmoothingOnly, w)]
  /\ UNCHANGED <<given, todo, phase, smoothing, coeff, reader>>

\* The words are popped, least frequent first.
FillWord ==
  /\ phase = "fill"
  /\ \E w \in Least :
       /\ heap' = heap \ {w}
       /\ dists' = [dists EXCEPT ![w] = cumulatePosterior(SmoothingOnly, w)]
  /\ smoothing' = [len |-> TRUE, array |-> TRUE]
  /\ UNCHANGED <<given, todo, phase, coeff, reader>>

-----------------------------------------------------------------------------
(* NewEvaluator. *)

\* Sampler.smoothingOnlyBucketSize of a new sampler of the model.
SmoothingOnlyBucketSize ==
  Sum([t \in Topics |-> Over(TopicPrior[t] * WordPrior, WordPriorSum + N(t))])

WordTopicDist(w) ==
  IF dists[w] # Nil THEN dists[w] ELSE cumulatePosterior(SmoothingOnly, w)

\* The sum over the distribution, without the topic prior.
SumOfDist(w) == Sum(WordTopicDist(w))

\* calculateEvaluationCoeff for a word that occurs, without a sampler ...
CoeffOfDist(w) ==
  LET d == WordTopicDist(w) IN Sum([t \in Topics |-> d[t] * TopicPrior[t]])

\* ... and with one.
CoeffOfSampler(w) ==
  SmoothingOnlyBucketSize +
  Sum([t \in Topics |-> Over(TopicPrior[t] * Count(w, t), WordPrior + N(t))])

NewEvaluator ==
  /\ phase = "fill" /\ heap = {}
  /\ phase' = "evaluate"
  /\ coeff' = [w \in Words |-> IF hists[w] = Nil THEN 0
                               ELSE IF sampler THEN CoeffOfSampler(w)
                               ELSE CoeffOfDist(w)]
  /\ IF ~ sampler /\ \E w \in Words : hists[w] # Nil /\ dists[w] = Nil
     THEN smoothing' = [len |-> TRUE, array |-> TRUE]
     ELSE UNCHANGED smoothing
  /\ UNCHANGED <<given, todo, heap, dists, reader>>

-----------------------------------------------------------------------------
(* Evaluator.Perplexity: goroutine g gets the distribution of a word.  The  *)
(* assignment of a slice in buildSmoothingOnly writes its length and its    *)
(* array one after the other, and no lock is held.                          *)

Get(g, w) ==
  /\ phase = "evaluate" /\ reader[g].pc \in {"idle", "got"}
  /\ reader' = [reader EXCEPT ![g] =
                  IF dists[w] # Nil THEN [pc |-> "got", word |-> w, dist |-> dists[w]]
                  ELSE [pc |-> "check", word |-> w, dist |-> Nil]]
  /\ UNCHANGED <<given, todo, heap, phase, dists, smoothing, coeff>>

\* Is the smoothing-only part there?
CheckSmoothing(g) ==
  /\ reader[g].pc = "check"
  /\ reader' = [reader EXCEPT ![g].pc = IF smoothing.len THEN "copy" ELSE "store"]
  /\ UNCHANGED <<given, todo, heap, phase, dists, smoothing, coeff>>

StoreSmoothing(g) ==
  /\ reader[g].pc \in {"store", "storeLen", "storeArray"}
  /\ \/ /\ reader[g].pc # "storeLen"
        /\ smoothing' = [smoothing EXCEPT !.array = TRUE]
        /\ reader' = [reader EXCEPT ![g].pc = IF @ = "store" THEN "storeLen" ELSE "copy"]
     \/ /\ reader[g].pc # "storeArray"
        /\ smoothing' = [smoothing EXCEPT !.len = TRUE]
        /\ reader' = [reader EXCEPT ![g].pc = IF @ = "store" THEN "storeArray" ELSE "copy"]
  /\ UNCHANGED <<given, todo, heap, phase, dists, coeff>>

\* copy() reads from the array, or from nowhere.
CopySmoothing(g) ==
  /\ reader[g].pc = "copy"
  /\ reader' = [reader EXCEPT ![g] =
       IF smoothing.array
       THEN [pc |-> "got", word |-> @.word,
             dist |-> cumulatePosterior(SmoothingOnly, @.word)]
       ELSE [@ EXCEPT !.pc = "crashed"]]
  /\ UNCHANGED <<given, todo, heap, phase, dists, smoothing, coeff>>

Init ==
  /\ cached \in CacheSizes
  /\ sampler \in BOOLEAN
  /\ hists \in [Words -> {Nil} \cup [Topics -> 0 .. MaxCount]]
  /\ todo = 0
  /\ heap = {}
  /\ phase = "scan"
  /\ dists = [w \in Words |-> Nil]
  /\ smoothing = [len |-> FALSE, array |-> FALSE]
  /\ coeff = [w \in Words |-> 0]
  /\ reader = [g \in Goroutines |-> [pc |-> "idle", word |-> 0, dist |-> Nil]]

Next ==
  \/ ScanWord \/ ScanEnds \/ FillWord \/ NewEvaluator
  \/ \E g \in Goroutines :
       \/ \E w \in Words : Get(g, w)
       \/ CheckSmoothing(g) \/ StoreSmoothing(g) \/ CopySmoothing(g)

Spec == Init /\ [][Next]_vars

-----------------------------------------------------------------------------
(* Properties. *)

\* The cache gets the distributions of the most frequent words, as many as it
\* has memory for (model_accessor.go 35-36 and 56).
CachesMostFrequent ==
  LET kept == {w \in Words : dists[w] # Nil}
  IN  phase = "evaluate" =>
        /\ Cardinality(kept) = IF cached <= 0 THEN 0
                               ELSE IF cached < VocabSize THEN cached ELSE VocabSize
        /\ \A w \in kept, v \in Words \ kept : Freq(w) >= Freq(v)

\* cached or not, a word has the distribution that the model defines.
DistsArePosteriors ==
  /\ \A w \in Words : dists[w] # Nil => dists[w] = Phi(w)
  /\ \A g \in Goroutines : reader[g].pc = "got" => reader[g].dist = Phi(reader[g].word)

\* The sum of phi_kt a_k, the o(t) of evaluator.go 23-32.
Exact(w) == LET p == Phi(w) IN Sum([t \in Topics |-> p[t] * TopicPrior[t]])

\* Without a sampler the coefficient of a word that occurs is o(t), cached or not.
CoefficientIsExact ==
  phase = "evaluate" /\ ~ sampler =>
    \A w \in Words : hists[w] # Nil => coeff[w] = Exact(w)

\* With a sampler, whose buckets save a part of the sum, it is o(t) as well: the
\* derivation of evaluator.go 34-57.
SamplerSavesTheSum ==
  phase = "evaluate" /\ sampler =>
    \A w \in Words : hists[w] # Nil => coeff[w] = Exact(w)

\* Goroutines calculate the log-likelihood in parallel (multithread.go 132): with
\* at least one word in the cache none of them reads through a slice that is half
\* assigned.  Without, they do.
NoReaderCrashes ==
  cached > 0 => \A g \in Goroutines : reader[g].pc # "crashed"
=============================================================================
