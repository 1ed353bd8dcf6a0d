---------------------------- MODULE GibbsSampler ----------------------------
(***************************************************************************)
(* One Sampler of core/gibbs/sampler.go over a corpus, as the trainers in  *)
(* cmd/singlethread and cmd/multithread run it: SparseLDA, which keeps the *)
(* factors of three buckets and the coefficients of the third cached, and  *)
(* updates a few of them at each step instead of computing them anew.      *)
(*                                                                         *)
(* The caches hold numbers: a quotient is multiplied by Scale, a common    *)
(* multiple of the denominators that occur, so that it is a whole number   *)
(* and sums are exact.  What rounding does to float64 is not modelled.     *)
(***************************************************************************)
EXTENDS Integers, Sequences, FiniteSets, Sums

CONSTANTS
  NumTopics,    \* topics are 0 .. NumTopics - 1
  Words,        \* the vocabulary
  Corpus,       \* a sequence of documents, each a sequence of words
  WordPrior,    \* Model.WordPrior
  TopicPriors,  \* the topic priors the optimizer may arrive at, with zeros too
  InitPrior,    \* and that of the initial model
  Scale         \* see above

Topics == 0 .. NumTopics - 1
Docs   == DOMAIN Corpus
WordPriorSum == WordPrior * Cardinality(Words)

Positions(d) == DOMAIN Corpus[d]
Tokens == UNION {{d} \X Positions(d) : d \in Docs}

ASSUME SamplerAssumption ==
  /\ NumTopics \in Nat /\ NumTopics >= 2
  /\ IsFiniteSet(Words) /\ Cardinality(Words) >= 2
  /\ Corpus \in Seq(Seq(Words))
  /\ WordPrior \in Nat \ {0} /\ Scale \in Nat \ {0}
  /\ InitPrior \in TopicPriors
  /\ TopicPriors \subseteq [Topics -> Nat]
  /\ \A n \in 0 .. Cardinality(Tokens) : Scale % (WordPriorSum + n) = 0

VARIABLES
  topics,    \* Document.Topics of every document
  docHist,   \* Document.TopicHist of every document
  wordHist,  \* Model.WordTopicHists
  global,    \* Model.GlobalTopicHist
  prior,     \* Model.TopicPrior
  diff,      \* Sampler.diff: is there one, and its histograms
  cache,     \* the buckets and the coefficients of the Sampler
  at,        \* where Sample is: phase, document, position
  base       \* history: the model when SetDiff was called

vars == <<topics, docHist, wordHist, global, prior, diff, cache, at, base>>

Zero == [t \in Topics |-> 0]

\* The numerator n over WordPriorSum + N_t, with N the global histogram g.
Over(n, g, t) == (Scale * n) \div (WordPriorSum + g[t])

-----------------------------------------------------------------------------
(* The caches, computed anew. *)

SmoothingOnly(g, p) == [t \in Topics |-> Over(p[t] * WordPrior, g, t)]
DocumentTopic(g, h) == [t \in Topics |-> Over(WordPrior * h[t], g, t)]
Coefficients(g, p, h) == [t \in Topics |-> Over(p[t] + h[t], g, t)]

buildSmoothingOnlyBucket(c, g, p) ==
  LET f == SmoothingOnly(g, p) IN [c EXCEPT !.smoothing = f, !.smoothingSize = Sum(f)]

buildDocumentTopicBucket(c, g, h) ==
  LET f == DocumentTopic(g, h) IN [c EXCEPT !.document = f, !.documentSize = Sum(f)]

buildTopicWordBucket(c, hist) ==
  LET f == [t \in Topics |-> c.coefficients[t] * hist[t]]
  IN  [c EXCEPT !.word = f, !.wordSize = Sum(f)]

cacheCoefficients(c, g, p) == [c EXCEPT !.coefficients = Coefficients(g, p, Zero)]

\* updateCoefficients and resetCoefficients visit the topics of a document.
updateCoefficients(c, g, p, h) ==
  [c EXCEPT !.coefficients = [t \in Topics |->
     IF h[t] > 0 THEN Over(p[t] + h[t], g, t) ELSE @[t]]]

resetCoefficients(c, g, p, h) ==
  [c EXCEPT !.coefficients = [t \in Topics |->
     IF h[t] > 0 THEN Over(p[t], g, t) ELSE @[t]]]

\* As Refresh below, but the size keeps the old share of the topic.
RefreshTwice(c, g, p, h, t) ==
  LET s == Over(p[t] * WordPrior, g, t)
      d == Over(h[t] * WordPrior, g, t)
  IN  [c EXCEPT !.smoothing[t] = s, !.smoothingSize = @ + s,
                !.document[t] = d, !.documentSize = @ - c.document[t] + d,
                !.coefficients[t] = Over(p[t] + h[t], g, t)]

\* The second half of neglectOrConsiderWord: what depends on topic t.
Refresh(c, g, p, h, t) ==
  LET s == Over(p[t] * WordPrior, g, t)
      d == Over(h[t] * WordPrior, g, t)
  IN  [c EXCEPT !.smoothing[t] = s, !.smoothingSize = @ - c.smoothing[t] + s,
                !.document[t] = d, !.documentSize = @ - c.document[t] + d,
                !.coefficients[t] = Over(p[t] + h[t], g, t)]

-----------------------------------------------------------------------------
\* Sampler.SetDiff with an empty model or with nil, between two documents.
SetDiff(on) ==
  /\ at.phase = "idle"
  /\ diff' = [on |-> on, word |-> [w \in Words |-> Zero], global |-> Zero]
  /\ base' = [word |-> wordHist, global |-> global]
  /\ UNCHANGED <<topics, docHist, wordHist, global, prior, cache, at>>

\* The trainer optimizes the topic prior, then calls Sampler.AfterOptimization.
AfterOptimization(p) ==
  /\ at.phase = "idle" /\ p # prior
  /\ prior' = p
  /\ cache' = cacheCoefficients(buildSmoothingOnlyBucket(cache, global, p), global, p)
  /\ UNCHANGED <<topics, docHist, wordHist, global, diff, at, base>>

BeginDocument(d) ==
  /\ at.phase = "idle"
  /\ at' = [phase |-> "next", doc |-> d, pos |-> 1]
  /\ cache' = updateCoefficients(
                buildDocumentTopicBucket(cache, global, docHist[d]),
                global, prior, docHist[d])
  /\ UNCHANGED <<topics, docHist, wordHist, global, prior, diff, base>>

\* The diff records the topics that words get, not those that they lose.
MoveCountsUp(d, w, t, n) ==
  /\ wordHist' = [wordHist EXCEPT ![w][t] = @ + n]
  /\ global' = [global EXCEPT ![t] = @ + n]
  /\ docHist' = [docHist EXCEPT ![d][t] = @ + n]
  /\ diff' = IF diff.on /\ n > 0
             THEN [diff EXCEPT !.word[w][t] = @ + n, !.global[t] = @ + n]
             ELSE diff

\* The first half of neglectOrConsiderWord: n is -1 to neglect, 1 to consider.
MoveCounts(d, w, t, n) ==
  /\ wordHist' = [wordHist EXCEPT ![w][t] = @ + n]
  /\ global' = [global EXCEPT ![t] = @ + n]
  /\ docHist' = [docHist EXCEPT ![d][t] = @ + n]
  /\ diff' = IF diff.on THEN [diff EXCEPT !.word[w][t] = @ + n, !.global[t] = @ + n]
             ELSE diff

neglectOrConsiderWord(d, w, t, n) ==
  /\ MoveCounts(d, w, t, n)
  /\ cache' = Refresh(cache, global', prior, docHist'[d], t)

\* One turn of the loop of Sample, up to the draw.
Neglect ==
  /\ at.phase = "next" /\ at.pos <= Len(Corpus[at.doc])
  /\ LET w == Corpus[at.doc][at.pos]
         t == topics[at.doc][at.pos]
     IN  /\ MoveCounts(at.doc, w, t, -1)
         /\ cache' = buildTopicWordBucket(
              Refresh(cache, global', prior, docHist'[at.doc], t), wordHist'[w])
  /\ at' = [at EXCEPT !.phase = "draw"]
  /\ UNCHANGED <<topics, prior, base>>

\* sampleNewTopic draws in one of the buckets, in proportion to its factors.  A
\* draw of zero, or of the sum of the first two, ends with the first topic that is
\* looked at: any of the word, or topic 0 of all, be its factor zero or not.
Drawn(c, hist) ==
  {t \in Topics :
     \/ c.word[t] > 0 \/ c.document[t] > 0 \/ c.smoothing[t] > 0
     \/ c.wordSize > 0 /\ hist[t] > 0
     \/ t = 0 /\ (c.smoothingSize > 0 \/ c.wordSize + c.documentSize = 0)}

\* The rest of the turn, with the new topic counted but not assigned.
ConsiderOnly(t) ==
  /\ at.phase = "draw"
  /\ t \in Drawn(cache, wordHist[Corpus[at.doc][at.pos]])
  /\ neglectOrConsiderWord(at.doc, Corpus[at.doc][at.pos], t, 1)
  /\ at' = [at EXCEPT !.phase = "next", !.pos = @ + 1]
  /\ UNCHANGED <<topics, prior, base>>

\* The rest of the turn.
Consider(t) ==
  /\ at.phase = "draw"
  /\ t \in Drawn(cache, wordHist[Corpus[at.doc][at.pos]])
  /\ topics' = [topics EXCEPT ![at.doc][at.pos] = t]
  /\ neglectOrConsiderWord(at.doc, Corpus[at.doc][at.pos], t, 1)
  /\ at' = [at EXCEPT !.phase = "next", !.pos = @ + 1]
  /\ UNCHANGED <<prior, base>>

EndDocument ==
  /\ at.phase = "next" /\ at.pos > Len(Corpus[at.doc])
  /\ cache' = resetCoefficients(cache, global, prior, docHist[at.doc])
  /\ at' = [at EXCEPT !.phase = "idle", !.pos = 1]
  /\ UNCHANGED <<topics, docHist, wordHist, global, prior, diff, base>>

-----------------------------------------------------------------------------
(* The counts of a corpus with topics assigned to its tokens.  skip is the   *)
(* token that is neglected, or a pair that is no token.                      *)
Assigned(skip, S) == Cardinality({k \in Tokens : k # skip /\ k \in S})

OfTopic(t) == {k \in Tokens : topics[k[1]][k[2]] = t}
OfWord(w)  == {k \in Tokens : Corpus[k[1]][k[2]] = w}
OfDoc(d)   == {k \in Tokens : k[1] = d}

\* InitializeDocument draws topics, ApplyToModel counts them.
InitializeDocuments ==
  /\ topics \in {f \in [Docs -> UNION {[Positions(d) -> Topics] : d \in Docs}] :
                   \A d \in Docs : f[d] \in [Positions(d) -> Topics]}
  /\ docHist = [d \in Docs |-> [t \in Topics |->
                  Assigned(<<0, 0>>, OfTopic(t) \cap OfDoc(d))]]

ApplyToModel ==
  /\ wordHist = [w \in Words |-> [t \in Topics |->
                   Assigned(<<0, 0>>, OfTopic(t) \cap OfWord(w))]]
  /\ global = [t \in Topics |-> Assigned(<<0, 0>>, OfTopic(t))]

EmptyCache == [smoothing |-> Zero, smoothingSize |-> 0, document |-> Zero,
               documentSize |-> 0, word |-> Zero, wordSize |-> 0,
               coefficients |-> Zero]

NewSampler(g, p) ==
  cacheCoefficients(buildSmoothingOnlyBucket(EmptyCache, g, p), g, p)

Init ==
  /\ InitializeDocuments
  /\ ApplyToModel
  /\ prior = InitPrior
  /\ diff = [on |-> FALSE, word |-> [w \in Words |-> Zero], global |-> Zero]
  /\ cache = NewSampler(global, prior)
  /\ at = [phase |-> "idle", doc |-> 1, pos |-> 1]
  /\ base = [word |-> wordHist, global |-> global]

Sample ==
  \/ \E d \in Docs : BeginDocument(d)
  \/ Neglect
  \/ \E t \in Topics : Consider(t)
  \/ EndDocument

Next ==
  \/ Sample
  \/ \E on \in BOOLEAN : SetDiff(on)
  \/ \E p \in TopicPriors : AfterOptimization(p)

Spec == Init /\ [][Next]_vars

-----------------------------------------------------------------------------
(* Properties. *)

Neglected == IF at.phase = "draw" THEN <<at.doc, at.pos>> ELSE <<0, 0>>

\* The model and the documents count the topics assigned to the tokens, save
\* that of the token being resampled: no count is lost, doubled or negative,
\* however documents are revisited.
CountsMatchTopics ==
  /\ \A t \in Topics, w \in Words :
       wordHist[w][t] = Assigned(Neglected, OfTopic(t) \cap OfWord(w))
  /\ \A t \in Topics, d \in Docs :
       docHist[d][t] = Assigned(Neglected, OfTopic(t) \cap OfDoc(d))
  /\ \A t \in Topics : global[t] = Assigned(Neglected, OfTopic(t))

\* The buckets that a topic is drawn from are those that the model and the
\* document as they are now define: no factor and no size is stale (sampler.go
\* 13-22, equations 7 to 9 of the paper).  Between documents the coefficients are
\* "reset to smoothing-only part" (102-106), although resetCoefficients visits only
\* the topics that the document has at its end.
DrawsFromTheModel ==
  LET h == docHist[at.doc]
      w == Corpus[at.doc][at.pos]
      f == [t \in Topics |-> Coefficients(global, prior, h)[t] * wordHist[w][t]]
  IN  /\ at.phase = "idle" => cache.coefficients = Coefficients(global, prior, Zero)
      /\ at.phase = "draw" =>
           /\ cache.smoothing = SmoothingOnly(global, prior)
           /\ cache.smoothingSize = Sum(SmoothingOnly(global, prior))
           /\ cache.document = DocumentTopic(global, h)
           /\ cache.documentSize = Sum(DocumentTopic(global, h))
           /\ cache.word = f /\ cache.wordSize = Sum(f)

\* The diff is what Gibbs sampling did to the model since SetDiff (sampler.go
\* 49-50), in the middle of a document too.
DiffIsTheUpdate ==
  diff.on =>
    /\ \A w \in Words, t \in Topics : wordHist[w][t] = base.word[w][t] + diff.word[w][t]
    /\ \A t \in Topics : global[t] = base.global[t] + diff.global[t]
=============================================================================
