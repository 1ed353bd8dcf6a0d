------------------------------- MODULE Trainer -------------------------------
(***************************************************************************)
(* The main loop of cmd/multithread and of cmd/singlethread.  Threads      *)
(* sample stripes of the corpus, each on a clone of the model, and record  *)
(* what they changed in a diff; the diffs are accumulated one after the    *)
(* other.  The single thread samples on the model itself.                  *)
(*                                                                         *)
(* How a topic is drawn is the matter of GibbsSampler; here a token may    *)
(* get any topic with a factor above zero.  A topic prior is a float64:    *)
(* zero, positive, or not a number.                                        *)
(***************************************************************************)
EXTENDS Documents, Sharder, Sums

CONSTANTS
  Nil,         \* nil: no histogram, no model, nothing saved
  Programs,    \* which of "multithread", "singlethread"
  FlagShards,  \* flags of the programs: -shards
  GibbsIter,   \* -gibbs_iter
  OptimStart,  \* -optim_start
  EvalLag,     \* -eval_lag
  Shape,       \* -shape: is it above zero?
  BorderDraws  \* may a draw fall exactly on the border of two buckets?

ASSUME TrainerAssumption ==
  /\ FlagShards \in Nat \ {0} /\ GibbsIter \in Nat /\ OptimStart \in Nat
  /\ EvalLag \in Nat \ {0} /\ Shape \in BOOLEAN
  /\ BorderDraws \in BOOLEAN
  /\ Programs \subseteq {"multithread", "singlethread"}
  /\ \A S \in SUBSET Topics : Nil \notin [S -> Int]

VARIABLES
  program,  \* which program this is
  topics,   \* Document.Topics of all documents
  model,    \* the model
  thread,   \* the goroutines of parallel.For, or the loop over the corpus
  merge,    \* the diff that is being accumulated, and the words left of it
  stats,    \* the Optimizer
  tally,    \* documents and words that the log-likelihood has been taken of
  main,     \* where the main loop is: phase and iteration
  signals,  \* channels sigs and exit, and what the goroutine between them holds
  saved,    \* the model file
  base      \* history: topics and counts when the iteration began

vars == <<program, topics, model, thread, merge, stats, tally, main, signals, saved, base>>

\* shards, which is not more than there are documents.
Shards == IF FlagShards > Len(Corpus) THEN Len(Corpus) ELSE FlagShards

Stride  == IF program = "multithread" THEN Shards ELSE 1
Threads == 0 .. Shards - 1
Running == 0 .. Stride - 1

-----------------------------------------------------------------------------
(* Models.  A Sparse is a map: its entries are the domain of a function.     *)

At(h, t) == IF t \in DOMAIN h THEN h[t] ELSE 0

\* Sparse.Inc leaves an entry where the sum is zero, Sparse.Dec does not.
SparseInc(h, t) == [u \in DOMAIN h \cup {t} |-> At(h, u) + (IF u = t THEN 1 ELSE 0)]

SparseDec(h, t) ==
  [u \in IF At(h, t) = 1 THEN DOMAIN h \ {t} ELSE DOMAIN h \cup {t} |->
     At(h, u) - (IF u = t THEN 1 ELSE 0)]

WordTopicHist(m, w) == IF m.word[w] = Nil THEN <<>> ELSE m.word[w]

\* The counts of the model m, a function of all topics for each word.
Counts(m) == [word   |-> [w \in Words |-> [t \in Topics |-> At(WordTopicHist(m, w), t)]],
              global |-> m.global]

Initially == [t \in Topics |-> "positive"]

NewModel == [word   |-> [w \in Words |-> Nil],
             global |-> [t \in Topics |-> 0],
             prior  |-> [values |-> Initially, version |-> 0]]

\* InitializeModel: ApplyToModel for each document.
ModelOf(ts) ==
  LET c == CountsOf(ts)
  IN  [NewModel EXCEPT
         !.word = [w \in Words |->
           LET occurring == {t \in Topics : c.word[w][t] > 0}
           IN  IF occurring = {} THEN Nil ELSE [t \in occurring |-> c.word[w][t]]],
         !.global = c.global]

\* Model.Clone without the topic prior.
CloneCounts(m) == [m EXCEPT !.prior = [values |-> Initially, version |-> 0]]

Clone(m) == m

\* neglectOrConsiderWord, the model and the diff.
Neglect(m, w, t) == [m EXCEPT !.word[w] = SparseDec(WordTopicHist(m, w), t),
                              !.global[t] = @ - 1]

Consider(m, w, t) == [m EXCEPT !.word[w] = SparseInc(WordTopicHist(m, w), t),
                               !.global[t] = @ + 1]

\* As AddWord below, but an entry whose sum is zero stays.
AddWordKeeping(d, h) ==
  [t \in DOMAIN d \cup {u \in DOMAIN h : h[u] # 0} |-> At(d, t) + At(h, t)]

\* Accumulate for one word: histogram h is added to d by Inc and Dec.
AddWord(d, h) ==
  [t \in {u \in DOMAIN d \cup DOMAIN h :
            /\ u \notin DOMAIN d => h[u] # 0
            /\ At(h, u) < 0 => At(d, u) + h[u] # 0} |-> At(d, t) + At(h, t)]

\* As AccumulateWord below, but not the global histogram.
AccumulateWordOnly(m, w, h) == [m EXCEPT !.word[w] = IF @ = Nil THEN h ELSE AddWord(@, h)]

AccumulateWord(m, w, h) ==
  [m EXCEPT !.word[w] = IF @ = Nil THEN h ELSE AddWord(@, h),
            !.global  = [t \in Topics |-> @[t] + At(h, t)]]

-----------------------------------------------------------------------------
(* The Optimizer: how many documents have a topic how often, and how many   *)
(* have which length.                                                       *)

Lengths == 0 .. Max({Len(Corpus[d]) : d \in Docs})

NewOptimizer == [topicDocs |-> [t \in Topics |-> [n \in Lengths |-> 0]],
                 docLens   |-> [n \in Lengths |-> 0]]

CollectDocumentStatistics(s, d, ts) ==
  [topicDocs |-> [t \in Topics |-> [n \in Lengths |->
     s.topicDocs[t][n] + (IF n > 0 /\ DocCount(ts, d, t) = n THEN 1 ELSE 0)]],
   docLens   |-> [s.docLens EXCEPT ![Len(Corpus[d])] = @ + 1]]

\* Over the whole corpus, document after document.
CollectAll(ts) ==
  LET collected[n \in 0 .. Len(Corpus)] ==
        IF n = 0 THEN NewOptimizer
        ELSE CollectDocumentStatistics(collected[n - 1], n, ts)
  IN  collected[Len(Corpus)]

\* A prior is multiplied by a sum over the documents with the topic, whose
\* terms are divided by the prior; then the shape is added.
OptimizedPrior(value, docs) ==
  IF value = "nan" \/ (value = "zero" /\ \E n \in Lengths : docs[n] > 0) THEN "nan"
  ELSE IF Shape \/ (value = "positive" /\ \E n \in Lengths : docs[n] > 0)
       THEN "positive" ELSE "zero"

OptimizeTopicPriors(p, s) ==
  [values  |-> [t \in Topics |-> OptimizedPrior(p.values[t], s.topicDocs[t])],
   version |-> p.version + 1]

-----------------------------------------------------------------------------
(* Signals: signal.Notify drops what does not fit into sigs; a goroutine      *)
(* takes from sigs and waits until there is place in exit.                    *)

Interrupt == ~ signals.sigs /\ signals' = [signals EXCEPT !.sigs = TRUE]

TakeSignal ==
  /\ signals.sigs /\ ~ signals.held
  /\ signals' = [signals EXCEPT !.sigs = FALSE, !.held = TRUE]

ForwardSignal ==
  /\ signals.held /\ ~ signals.exit
  /\ signals' = [signals EXCEPT !.held = FALSE, !.exit = TRUE]

Signal ==
  /\ main.phase # "end"
  /\ Interrupt \/ TakeSignal \/ ForwardSignal
  /\ UNCHANGED <<program, topics, model, thread, merge, stats, tally, main, saved, base>>

-----------------------------------------------------------------------------
(* The head of the main loop. *)

Idle == [pc |-> "idle", doc |-> 0, pos |-> 1, model |-> Nil, diff |-> Nil,
         prior |-> [values |-> Initially, version |-> 0]]

BeginIteration ==
  /\ main.phase = "head" /\ main.iter < GibbsIter /\ ~ signals.exit
  /\ main' = [main EXCEPT !.phase = "sample"]
  /\ base' = [topics |-> topics, counts |-> Counts(model)]
  /\ stats' = NewOptimizer
  /\ tally' = [docs |-> 0, words |-> 0]
  /\ thread' = [i \in Threads |->
       IF i \notin Running THEN thread[i]
       ELSE IF program = "multithread" THEN [Idle EXCEPT !.pc = "start", !.diff = NewModel]
       ELSE [thread[i] EXCEPT !.pc = "sample", !.doc = 1]]
  /\ UNCHANGED <<program, topics, model, merge, signals, saved>>

BreakOff ==
  /\ main.phase = "head" /\ main.iter < GibbsIter /\ signals.exit
  /\ main' = [main EXCEPT !.phase = "save"]
  /\ signals' = [signals EXCEPT !.exit = FALSE]
  /\ UNCHANGED <<program, topics, model, thread, merge, stats, tally, saved, base>>

LastIteration ==
  /\ main.phase = "head" /\ main.iter >= GibbsIter
  /\ main' = [main EXCEPT !.phase = "save"]
  /\ UNCHANGED <<program, topics, model, thread, merge, stats, tally, signals, saved, base>>

-----------------------------------------------------------------------------
(* Parallel Gibbs sampling. *)

StartThread(i) ==
  /\ thread[i].pc = "start"
  /\ LET m == Clone(model)
     IN  thread' = [thread EXCEPT ![i].pc = "sample", ![i].doc = i + 1,
                                  ![i].model = m, ![i].prior = m.prior]
  /\ UNCHANGED <<program, topics, model, merge, stats, tally, main, signals, saved, base>>

\* Topics with a factor above zero in one of the buckets, for the token at
\* position p of document d.  The search of the last bucket begins with topic 0,
\* and takes it if the draw is the sum of the other buckets, whatever its factor.
Drawn(prior, d, p) ==
  {t \in Topics : \/ prior.values[t] = "positive"
                  \/ \E q \in Positions(d) \ {p} : topics[d][q] = t
                  \/ BorderDraws /\ t = 0}

\* One turn of the loop of Sampler.Sample.
SampleToken(i) ==
  LET d == thread[i].doc
      p == thread[i].pos
      w == Corpus[d][p]
      moved(m, t) == Consider(Neglect(m, w, topics[d][p]), w, t)
  IN  /\ thread[i].pc = "sample" /\ d <= Len(Corpus) /\ p <= Len(Corpus[d])
      /\ \E t \in Drawn(thread[i].prior, d, p) :
           /\ topics' = [topics EXCEPT ![d][p] = t]
           /\ IF program = "multithread"
              THEN /\ thread' = [thread EXCEPT ![i].pos = p + 1,
                        ![i].model = moved(@, t), ![i].diff = moved(@, t)]
                   /\ UNCHANGED model
              ELSE /\ model' = moved(model, t)
                   /\ thread' = [thread EXCEPT ![i].pos = p + 1]
      /\ UNCHANGED <<program, merge, stats, tally, main, signals, saved, base>>

\* As NextDoc below, but the loop stays at the document.
SameDoc(d) == d

\* As NextDoc below, but a document is left out.
SkipDoc(d) == d + Stride + 1

NextDoc(d) == d + Stride

EndDocument(i) ==
  LET d == thread[i].doc
  IN  /\ thread[i].pc = "sample" /\ d <= Len(Corpus) /\ thread[i].pos > Len(Corpus[d])
      /\ thread' = [thread EXCEPT ![i].doc = NextDoc(d), ![i].pos = 1]
      /\ stats' = IF program = "singlethread" /\ main.iter > OptimStart
                  THEN CollectDocumentStatistics(stats, d, topics) ELSE stats
      /\ UNCHANGED <<program, topics, model, merge, tally, main, signals, saved, base>>

EndThread(i) ==
  /\ thread[i].pc = "sample" /\ thread[i].doc > Len(Corpus)
  /\ thread' = [thread EXCEPT ![i].pc = "done"]
  /\ UNCHANGED <<program, topics, model, merge, stats, tally, main, signals, saved, base>>

Thread(i) == StartThread(i) \/ SampleToken(i) \/ EndDocument(i) \/ EndThread(i)

-----------------------------------------------------------------------------
(* Aggregation, in the main goroutine. *)

\* The words in the map that ShardModel makes of a diff.
Sharded(i) ==
  ShardModel({w \in Words : thread[i].diff.word[w] # Nil}, VocabSize, 1)[0]

JoinThreads ==
  /\ main.phase = "sample" /\ \A i \in Running : thread[i].pc = "done"
  /\ IF program = "multithread"
     THEN /\ merge' = [diff |-> 0, todo |-> Sharded(0)]
          /\ main' = [main EXCEPT !.phase = "accumulate"]
     ELSE /\ main' = [main EXCEPT !.phase = "optimize"]
          /\ UNCHANGED merge
  /\ UNCHANGED <<program, topics, model, thread, stats, tally, signals, saved, base>>

\* Model.Accumulate visits the words in any order.
Accumulate ==
  /\ main.phase = "accumulate"
  /\ \E w \in merge.todo :
       /\ model' = AccumulateWord(model, w, thread[merge.diff].diff.word[w])
       /\ merge' = [merge EXCEPT !.todo = @ \ {w}]
  /\ UNCHANGED <<program, topics, thread, stats, tally, main, signals, saved, base>>

NextDiff ==
  /\ main.phase = "accumulate" /\ merge.todo = {}
  /\ IF merge.diff + 1 < Shards
     THEN /\ merge' = [diff |-> merge.diff + 1, todo |-> Sharded(merge.diff + 1)]
          /\ UNCHANGED main
     ELSE /\ main' = [main EXCEPT !.phase = "optimize"]
          /\ merge' = [diff |-> 0, todo |-> {}]
  /\ UNCHANGED <<program, topics, model, thread, stats, tally, signals, saved, base>>

-----------------------------------------------------------------------------
(* After sampling. *)

\* As Optimize below, but the sampler of the single thread is not told.
OptimizeOnly ==
  /\ main.phase = "optimize"
  /\ main' = [main EXCEPT !.phase = "evaluate"]
  /\ IF main.iter > OptimStart
     THEN /\ stats' = IF program = "multithread" THEN CollectAll(topics) ELSE stats
          /\ model' = [model EXCEPT !.prior = OptimizeTopicPriors(@, stats')]
     ELSE UNCHANGED <<stats, model>>
  /\ thread' = [i \in Threads |->
       IF program = "multithread" THEN Idle ELSE [thread[i] EXCEPT !.pc = "idle"]]
  /\ base' = Nil
  /\ UNCHANGED <<program, topics, merge, tally, signals, saved>>

\* Hyperparameter optimization; the single thread keeps its sampler, and calls
\* its AfterOptimization.
Optimize ==
  /\ main.phase = "optimize"
  /\ main' = [main EXCEPT !.phase = "evaluate"]
  /\ IF main.iter > OptimStart
     THEN /\ stats' = IF program = "multithread" THEN CollectAll(topics) ELSE stats
          /\ model' = [model EXCEPT !.prior = OptimizeTopicPriors(@, stats')]
     ELSE UNCHANGED <<stats, model>>
  /\ thread' = [i \in Threads |->
       IF program = "multithread" THEN Idle
       ELSE [thread[i] EXCEPT !.pc = "idle", !.prior = model'.prior]]
  /\ base' = Nil
  /\ UNCHANGED <<program, topics, merge, tally, signals, saved>>

\* The documents of goroutine i, and their words.
Stripe(i) == {d \in Docs : d > i /\ (d - 1 - i) % Stride = 0}
WordsOf(S) == Sum([d \in S |-> Len(Corpus[d])])

\* Goroutine i has the log-likelihood of its stripe, and adds it under muxAdd.
Evaluate(i) ==
  /\ main.phase = "evaluate" /\ main.iter % EvalLag = 0
  /\ thread[i].pc = "idle"
  /\ thread' = [thread EXCEPT ![i].pc = "evaluated"]
  /\ tally' = [docs  |-> tally.docs + Cardinality(Stripe(i)),
               words |-> tally.words + WordsOf(Stripe(i))]
  /\ UNCHANGED <<program, topics, model, merge, stats, main, signals, saved, base>>

EndIteration ==
  /\ main.phase = "evaluate"
  /\ main.iter % EvalLag = 0 => \A i \in Running : thread[i].pc = "evaluated"
  /\ main' = [phase |-> "head", iter |-> main.iter + 1]
  /\ thread' = [i \in Threads |-> [thread[i] EXCEPT !.pc = "idle"]]
  /\ UNCHANGED <<program, topics, model, merge, stats, tally, signals, saved, base>>

\* SaveModel saves nothing without a file name, or if it cannot create the file,
\* and leaves what was written so far when Encode fails.
SaveModel ==
  /\ main.phase = "save"
  /\ saved' \in {Nil} \cup [counts : {Counts(model)}, whole : BOOLEAN]
  /\ main' = [main EXCEPT !.phase = "end"]
  /\ UNCHANGED <<program, topics, model, thread, merge, stats, tally, signals, base>>

Ended == main.phase = "end" /\ UNCHANGED vars

-----------------------------------------------------------------------------
Init ==
  /\ program \in Programs
  /\ topics \in Assignments
  /\ model = ModelOf(topics)
  /\ thread = [i \in Threads |-> Idle]
  /\ merge = [diff |-> 0, todo |-> {}]
  /\ stats = NewOptimizer
  /\ tally = [docs |-> 0, words |-> 0]
  /\ main = [phase |-> "head", iter |-> 0]
  /\ signals = [sigs |-> FALSE, held |-> FALSE, exit |-> FALSE]
  /\ saved = Nil
  /\ base = Nil

Main ==
  \/ BeginIteration \/ BreakOff \/ LastIteration
  \/ JoinThreads \/ Accumulate \/ NextDiff
  \/ Optimize \/ EndIteration \/ SaveModel

Next ==
  \/ Main
  \/ \E i \in Running : Thread(i) \/ Evaluate(i)
  \/ Signal
  \/ Ended

\* The goroutines run; signals may come or not, and be passed on late.
Fairness == /\ WF_vars(Main)
            /\ \A i \in Threads : WF_vars(i \in Running /\ (Thread(i) \/ Evaluate(i)))

Spec == Init /\ [][Next]_vars /\ Fairness

-----------------------------------------------------------------------------
(* Properties. *)

\* Between two diffs, and between two words of a diff, every entry of the model
\* is positive, although diffs have negative entries and entries of zero: a word
\* that the model has no histogram of would get those of the diff itself
\* (model.go 128-130), and an entry of zero ends GetTopWords (model.go 93).
EntriesArePositive ==
  \A w \in Words : model.word[w] # Nil =>
    \A t \in DOMAIN model.word[w] : model.word[w][t] > 0

\* Samplers draw with the topic prior that the model has, though it is cached
\* by the one sampler of the single thread and cloned for the others.
PriorsAreCurrent ==
  \A i \in Running : thread[i].pc = "sample" => thread[i].prior = model.prior

\* Each token counts once, though stripes and phases divide the work: for the
\* optimizer under the topic that the model counts it for, whether documents are
\* collected as they are sampled or all at the end, and for the perplexity.
TokensCountOnce ==
  /\ main.phase = "evaluate" /\ main.iter > OptimStart =>
       /\ \A t \in Topics :
            Sum([n \in Lengths |-> n * stats.topicDocs[t][n]]) = model.global[t]
       /\ Sum([n \in Lengths |-> stats.docLens[n]]) = Len(Corpus)
  /\ main.phase = "head" /\ main.iter > 0 /\ (main.iter - 1) % EvalLag = 0 =>
       tally = [docs |-> Len(Corpus), words |-> Cardinality(Tokens)]

\* A topic whose prior has become zero, as it does without documents when the
\* shape is zero, the default, never gets a token again, which would make the
\* prior infinity times zero.
DeadTopicsStayDead ==
  [][\A t \in Topics :
       /\ model'.prior.values[t] # "nan"
       /\ model.prior.values[t] = "zero" =>
            /\ model'.prior.values[t] = "zero"
            /\ model.global[t] = 0 /\ model'.global[t] = 0]_vars

\* The model is that of Training: it follows the topics from one iteration to the
\* next, and an interrupt saves a whole iteration.
Iterating == main.phase \in {"sample", "accumulate", "optimize"}

Promise == INSTANCE Training
             WITH topics <- IF Iterating THEN base.topics ELSE topics,
                  counts <- IF Iterating THEN base.counts ELSE Counts(model)
IsTraining == Promise!Spec

\* The program ends, interrupted or not.
Terminates == <>(main.phase = "end")
=============================================================================
