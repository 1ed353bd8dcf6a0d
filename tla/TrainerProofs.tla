----------------------------- MODULE TrainerProofs -----------------------------
(***************************************************************************)
(* For every corpus, any number of goroutines and iterations:              *)
(*                                                                         *)
(* Samplers draw with the topic prior of the model (IInv).  The single     *)
(* thread's sampler has the prior at all times, since only Optimize        *)
(* changes that of the model; a goroutine has it from its Clone on, since  *)
(* no Optimize comes between StartThread and EndThread.                    *)
(*                                                                         *)
(* The model has positive entries, and is the model of whole iterations    *)
(* (TInv).  It counts a mixture of topics, Hybrid: those of the tokens     *)
(* whose diffs are merged, and for all others the topics that they had     *)
(* when the iteration began.  A diff has the difference between the two    *)
(* for the tokens of its stripe, so that adding one word of it moves these *)
(* tokens from one side of the mixture to the other.                       *)
(*                                                                         *)
(* Each token counts once.  The optimizer has the statistics of the first  *)
(* documents, as many as are sampled, or of all (StatsOK), and the tally   *)
(* is that of the stripes that are evaluated (TallyOK); the rest is that   *)
(* the documents divided by how often they have a topic, or by which       *)
(* stripe they are in, have the tokens of the corpus.                      *)
(*                                                                         *)
(* Dead topics stay dead.  A prior is zero only if no token has the topic, *)
(* now or when the iteration began (PriorOK): a topic is drawn because of  *)
(* its prior or because of another token with it, and the optimizer lets a *)
(* prior become zero only if no document has the topic.  A draw on the     *)
(* border of the last bucket gives topic 0 anyway, and is excluded.        *)
(***************************************************************************)
EXTENDS Trainer, SumProofs, TLAPS

\* What the updates of records need: fields that are there.
HasFields ==
  /\ program \in {"multithread", "singlethread"}
  /\ DOMAIN thread = Threads
  /\ \A i \in Threads : {"pc", "doc", "pos", "model", "prior"} \subseteq DOMAIN thread[i]
  /\ {"word", "global", "prior"} \subseteq DOMAIN model

\* The cache of the single thread, and the priors of clones at work.
PriorsCached ==
  \A i \in Running :
    program = "singlethread" \/ thread[i].pc = "sample" => thread[i].prior = model.prior

IInv == HasFields /\ PriorsCached

LEMMA RunningAreThreads == HasFields => Running \subseteq Threads
<1>1. Shards \in Nat /\ Shards >= 1
  <2>1. Len(Corpus) \in Nat /\ Len(Corpus) >= 1 /\ FlagShards \in Nat /\ FlagShards >= 1
    BY CorpusAssumption, TrainerAssumption
  <2> QED  BY <2>1 DEF Shards
<1> QED  BY <1>1 DEF HasFields, Running, Threads, Stride

LEMMA ClonePrior == \A m : Clone(m) = m
BY DEF Clone

\* The program does not change, nor which goroutines it runs.
LEMMA SameRunning == ASSUME program' = program PROVE Running' = Running
BY DEF Running, Stride

\* Updates of counts leave the prior alone.
LEMMA CountsOnly ==
  ASSUME NEW m, {"word", "global", "prior"} \subseteq DOMAIN m, NEW w, NEW t, NEW h
  PROVE  /\ LET c == Consider(Neglect(m, w, t), w, h)
            IN  {"word", "global", "prior"} \subseteq DOMAIN c /\ c.prior = m.prior
         /\ LET c == AccumulateWord(m, w, h)
            IN  {"word", "global", "prior"} \subseteq DOMAIN c /\ c.prior = m.prior
<1>1. \A t2 : LET c == Neglect(m, w, t2)
              IN  {"word", "global", "prior"} \subseteq DOMAIN c /\ c.prior = m.prior
  BY DEF Neglect
<1>2. ASSUME NEW n, {"word", "global", "prior"} \subseteq DOMAIN n, NEW u
      PROVE  LET c == Consider(n, w, u)
             IN  {"word", "global", "prior"} \subseteq DOMAIN c /\ c.prior = n.prior
  BY <1>2 DEF Consider
<1>3. LET c == AccumulateWord(m, w, h)
      IN  {"word", "global", "prior"} \subseteq DOMAIN c /\ c.prior = m.prior
  BY DEF AccumulateWord
<1> HIDE DEF Neglect, Consider, AccumulateWord
<1> QED  BY <1>1, <1>2, <1>3
-----------------------------------------------------------------------------
(* Each action preserves the invariant. *)

\* A step that leaves the priors, and which goroutines sample, as they are.
LEMMA SamePriors ==
  ASSUME IInv, HasFields', program' = program, model'.prior = model.prior,
         \A i \in Threads : /\ thread'[i].prior = thread[i].prior
                            /\ thread'[i].pc = "sample" => thread[i].pc = "sample"
  PROVE  IInv'
<1>1. Running' = Running /\ Running \subseteq Threads
  BY SameRunning, RunningAreThreads DEF IInv
<1> QED  BY <1>1 DEF IInv, PriorsCached

LEMMA StartThreadIInv == ASSUME IInv, NEW i \in Running, StartThread(i) PROVE IInv'
<1>1. i \in Threads /\ Running' = Running /\ Running \subseteq Threads
  BY SameRunning, RunningAreThreads DEF IInv, StartThread
<1> DEFINE new == [thread[i] EXCEPT !.pc = "sample", !.doc = i + 1,
                                     !.model = model, !.prior = model.prior]
<1>2. thread' = [thread EXCEPT ![i] = new]
  BY ClonePrior DEF StartThread
<1>3. {"pc", "doc", "pos", "model", "prior"} \subseteq DOMAIN new /\ new.prior = model.prior
  BY <1>1 DEF IInv, HasFields
<1> HIDE DEF new
<1>4. DOMAIN thread' = Threads /\ \A j \in Threads : thread'[j] = IF j = i THEN new ELSE thread[j]
  BY <1>1, <1>2 DEF IInv, HasFields
<1>5. HasFields'
  BY <1>3, <1>4 DEF IInv, HasFields, StartThread, Threads, Shards
<1>6. PriorsCached'
  BY <1>1, <1>3, <1>4 DEF IInv, PriorsCached, StartThread
<1> QED  BY <1>5, <1>6 DEF IInv

LEMMA SampleTokenIInv == ASSUME IInv, NEW i \in Running, SampleToken(i) PROVE IInv'
<1>1. i \in Threads
  BY RunningAreThreads DEF IInv
<1> DEFINE d == thread[i].doc
           p == thread[i].pos
           w == Corpus[d][p]
           moved(m, t) == Consider(Neglect(m, w, topics[d][p]), w, t)
<1>2. PICK t \in Drawn(thread[i].prior, d, p) :
        IF program = "multithread"
        THEN /\ thread' = [thread EXCEPT ![i].pos = p + 1,
                  ![i].model = moved(@, t), ![i].diff = moved(@, t)]
             /\ UNCHANGED model
        ELSE /\ model' = moved(model, t)
             /\ thread' = [thread EXCEPT ![i].pos = p + 1]
  BY DEF SampleToken
<1>3. program' = program
  BY DEF SampleToken
<1>4. {"word", "global", "prior"} \subseteq DOMAIN model' /\ model'.prior = model.prior
  <2>1. {"word", "global", "prior"} \subseteq DOMAIN moved(model, t)
        /\ moved(model, t).prior = model.prior
    BY CountsOnly DEF IInv, HasFields
  <2> QED  BY <1>2, <2>1 DEF IInv, HasFields
<1> HIDE DEF moved
<1>5. /\ DOMAIN thread' = Threads
      /\ \A j \in Threads : /\ DOMAIN thread'[j] = DOMAIN thread[j]
                            /\ thread'[j].prior = thread[j].prior
                            /\ thread'[j].pc = thread[j].pc
  BY <1>1, <1>2 DEF IInv, HasFields
<1>6. HasFields'
  BY <1>3, <1>4, <1>5 DEF IInv, HasFields, Threads, Shards
<1> QED  BY <1>3, <1>4, <1>5, <1>6, SamePriors

LEMMA ThreadIInv == ASSUME IInv, NEW i \in Running, Thread(i) \/ Evaluate(i) PROVE IInv'
<1>1. i \in Threads
  BY RunningAreThreads DEF IInv
<1>2. CASE EndDocument(i) \/ EndThread(i) \/ Evaluate(i)
  <2>1. program' = program /\ model' = model
    BY <1>2 DEF EndDocument, EndThread, Evaluate
  <2>2. \/ thread' = [thread EXCEPT ![i].doc = NextDoc(thread[i].doc), ![i].pos = 1]
        \/ thread' = [thread EXCEPT ![i].pc = "done"]
        \/ thread' = [thread EXCEPT ![i].pc = "evaluated"]
    BY <1>2 DEF EndDocument, EndThread, Evaluate
  <2>3. /\ DOMAIN thread' = Threads
        /\ \A j \in Threads : /\ DOMAIN thread'[j] = DOMAIN thread[j]
                              /\ thread'[j].prior = thread[j].prior
                              /\ thread'[j].pc = "sample" => thread[j].pc = "sample"
    <3>1. DOMAIN thread = Threads
      BY DEF IInv, HasFields
    <3>2. CASE thread' = [thread EXCEPT ![i].doc = NextDoc(thread[i].doc), ![i].pos = 1]
      <4> DEFINE new == [thread[i] EXCEPT !.doc = NextDoc(thread[i].doc), !.pos = 1]
      <4>1. DOMAIN new = DOMAIN thread[i] /\ new.prior = thread[i].prior /\ new.pc = thread[i].pc
        BY <1>1 DEF IInv, HasFields
      <4>2. thread' = [thread EXCEPT ![i] = new]
        BY <3>2, <1>1, <3>1
      <4> HIDE DEF new
      <4> QED  BY <1>1, <3>1, <4>1, <4>2
    <3>3. CASE \/ thread' = [thread EXCEPT ![i].pc = "done"]
               \/ thread' = [thread EXCEPT ![i].pc = "evaluated"]
      <4>1. PICK c \in {"done", "evaluated"} : thread' = [thread EXCEPT ![i].pc = c]
        BY <3>3
      <4> DEFINE new == [thread[i] EXCEPT !.pc = c]
      <4>0. {"pc", "prior"} \subseteq DOMAIN thread[i] /\ c # "sample"
        BY <1>1 DEF IInv, HasFields
      <4>2. DOMAIN new = DOMAIN thread[i] /\ new.prior = thread[i].prior /\ new.pc # "sample"
        BY <4>0
      <4>3. thread' = [thread EXCEPT ![i] = new]
        BY <4>1
      <4> HIDE DEF new
      <4> QED  BY <1>1, <3>1, <4>2, <4>3
    <3> QED  BY <2>2, <3>2, <3>3
  <2>4. HasFields'
    <3>1. Threads' = Threads
      BY DEF Threads, Shards
    <3> QED  BY <2>1, <2>3, <3>1 DEF IInv, HasFields
  <2> QED  BY <2>1, <2>3, <2>4, SamePriors
<1> QED  BY <1>2, StartThreadIInv, SampleTokenIInv DEF Thread

LEMMA AccumulateIInv == ASSUME IInv, Accumulate PROVE IInv'
<1>1. PICK w : model' = AccumulateWord(model, w, thread[merge.diff].diff.word[w])
  BY DEF Accumulate
<1>2. {"word", "global", "prior"} \subseteq DOMAIN model' /\ model'.prior = model.prior
  BY <1>1, CountsOnly DEF IInv, HasFields
<1>3. UNCHANGED <<program, thread>>
  BY DEF Accumulate
<1>4. HasFields'
  BY <1>2, <1>3 DEF IInv, HasFields, Threads, Shards
<1> QED  BY <1>2, <1>3, <1>4, SamePriors

\* Goroutines have yet to clone; the single thread's sampler is kept.
LEMMA BeginIterationIInv == ASSUME IInv, BeginIteration PROVE IInv'
<1>1. UNCHANGED <<program, model>> /\ Running' = Running /\ Running \subseteq Threads
  BY SameRunning, RunningAreThreads DEF IInv, BeginIteration
<1>2. thread' = [i \in Threads |->
        IF i \notin Running THEN thread[i]
        ELSE IF program = "multithread" THEN [Idle EXCEPT !.pc = "start", !.diff = NewModel]
        ELSE [thread[i] EXCEPT !.pc = "sample", !.doc = 1]]
  BY DEF BeginIteration
<1>3. {"pc", "doc", "pos", "model", "prior"} \subseteq DOMAIN [Idle EXCEPT !.pc = "start", !.diff = NewModel]
      /\ [Idle EXCEPT !.pc = "start", !.diff = NewModel].pc = "start"
  BY DEF Idle
<1>4. ASSUME NEW i \in Threads
      PROVE  LET s == [thread[i] EXCEPT !.pc = "sample", !.doc = 1]
             IN  DOMAIN s = DOMAIN thread[i] /\ s.prior = thread[i].prior
  BY DEF IInv, HasFields
<1>5. HasFields'
  BY <1>1, <1>2, <1>3, <1>4 DEF IInv, HasFields, Threads, Shards
<1>6. CASE program = "multithread"
  <2>1. \A i \in Running : thread'[i].pc = "start"
    BY <1>1, <1>2, <1>3, <1>6
  <2> QED  BY <1>1, <1>5, <1>6, <2>1 DEF IInv, PriorsCached
<1>7. CASE program = "singlethread"
  <2>1. \A i \in Running : thread'[i].prior = thread[i].prior
    BY <1>1, <1>2, <1>4, <1>7
  <2> QED  BY <1>1, <1>5, <1>7, <2>1 DEF IInv, PriorsCached
<1> QED  BY <1>6, <1>7 DEF IInv, HasFields

\* The one action that changes the prior of the model.
LEMMA OptimizeIInv == ASSUME IInv, Optimize PROVE IInv'
<1>1. program' = program /\ Running' = Running /\ Running \subseteq Threads
  BY SameRunning, RunningAreThreads DEF IInv, Optimize
<1>2. thread' = [i \in Threads |->
        IF program = "multithread" THEN Idle
        ELSE [thread[i] EXCEPT !.pc = "idle", !.prior = model'.prior]]
  BY DEF Optimize
<1>3. {"word", "global", "prior"} \subseteq DOMAIN model'
  BY DEF Optimize, IInv, HasFields
<1>4. {"pc", "doc", "pos", "model", "prior"} \subseteq DOMAIN Idle /\ Idle.pc = "idle"
  BY DEF Idle
<1>5. ASSUME NEW i \in Threads
      PROVE  LET s == [thread[i] EXCEPT !.pc = "idle", !.prior = model'.prior]
             IN  DOMAIN s = DOMAIN thread[i] /\ s.prior = model'.prior
  BY DEF IInv, HasFields
<1>6. HasFields'
  BY <1>1, <1>2, <1>3, <1>4, <1>5 DEF IInv, HasFields, Threads, Shards
<1>7. CASE program = "multithread"
  <2>1. \A i \in Running : thread'[i].pc = "idle"
    BY <1>1, <1>2, <1>4, <1>7
  <2> QED  BY <1>1, <1>6, <1>7, <2>1 DEF IInv, PriorsCached
<1>8. CASE program = "singlethread"
  <2>1. \A i \in Running : thread'[i].prior = model'.prior
    BY <1>1, <1>2, <1>5, <1>8
  <2> QED  BY <1>1, <1>6, <2>1 DEF IInv, PriorsCached
<1> QED  BY <1>7, <1>8 DEF IInv, HasFields

LEMMA EndIterationIInv == ASSUME IInv, EndIteration PROVE IInv'
<1>1. /\ UNCHANGED <<program, model>>
      /\ thread' = [i \in Threads |-> [thread[i] EXCEPT !.pc = "idle"]]
  BY DEF EndIteration
<1>2. ASSUME NEW i \in Threads
      PROVE  LET s == [thread[i] EXCEPT !.pc = "idle"]
             IN  DOMAIN s = DOMAIN thread[i] /\ s.prior = thread[i].prior /\ s.pc = "idle"
  BY DEF IInv, HasFields
<1>3. /\ DOMAIN thread' = Threads
      /\ \A i \in Threads : /\ DOMAIN thread'[i] = DOMAIN thread[i]
                            /\ thread'[i].prior = thread[i].prior /\ thread'[i].pc = "idle"
  BY <1>1, <1>2
<1>4. HasFields'
  BY <1>1, <1>3 DEF IInv, HasFields, Threads, Shards
<1> QED  BY <1>1, <1>3, <1>4, SamePriors

LEMMA OtherIInv ==
  ASSUME IInv, UNCHANGED <<program, model, thread>>
  PROVE  IInv'
<1>1. HasFields'
  BY DEF IInv, HasFields, Threads, Shards
<1> QED  BY <1>1, SamePriors

LEMMA NextIInv == ASSUME IInv, [Next]_vars PROVE IInv'
<1>1. CASE Main
  <2>1. CASE BreakOff \/ LastIteration \/ JoinThreads \/ NextDiff \/ SaveModel
    BY <2>1, OtherIInv DEF BreakOff, LastIteration, JoinThreads, NextDiff, SaveModel
  <2> QED  BY <1>1, <2>1, BeginIterationIInv, AccumulateIInv, OptimizeIInv, EndIterationIInv DEF Main
<1>2. CASE \E i \in Running : Thread(i) \/ Evaluate(i)
  BY <1>2, ThreadIInv
<1>3. CASE Signal
  BY <1>3, OtherIInv DEF Signal
<1>4. CASE Ended \/ UNCHANGED vars
  BY <1>4, OtherIInv DEF Ended, vars
<1> QED  BY <1>1, <1>2, <1>3, <1>4 DEF Next
LEMMA InitIInv == Init => IInv
<1> SUFFICES ASSUME Init PROVE IInv
  OBVIOUS
<1>1. /\ program \in {"multithread", "singlethread"}
      /\ thread = [i \in Threads |-> Idle] /\ model = ModelOf(topics)
  BY TrainerAssumption DEF Init
<1>2. /\ {"pc", "doc", "pos", "model", "prior"} \subseteq DOMAIN Idle
      /\ Idle.prior = [values |-> Initially, version |-> 0]
  BY DEF Idle
<1>3. /\ {"word", "global", "prior"} \subseteq DOMAIN NewModel
      /\ NewModel.prior = [values |-> Initially, version |-> 0]
  BY DEF NewModel
<1>4. {"word", "global", "prior"} \subseteq DOMAIN model /\ model.prior = NewModel.prior
  BY <1>1, <1>3 DEF ModelOf
<1>5. HasFields
  BY <1>1, <1>2, <1>4 DEF HasFields
<1>6. \A i \in Running : thread[i].prior = model.prior
  BY <1>1, <1>2, <1>3, <1>4, <1>5, RunningAreThreads
<1> QED  BY <1>5, <1>6 DEF IInv, PriorsCached

-----------------------------------------------------------------------------
\* Whoever samples has the prior that the model has.
THEOREM PriorsStayCurrent == Spec => []PriorsAreCurrent
<1>1. IInv => PriorsAreCurrent
  BY DEF IInv, PriorsCached, PriorsAreCurrent
<1>2. IInv /\ [Next]_vars => IInv'
  BY NextIInv
<1> QED  BY InitIInv, <1>1, <1>2, PTL DEF Spec

-----------------------------------------------------------------------------
HowMany(f, K, t) == Cardinality({k \in K : f[k[1]][k[2]] = t})

\* Goroutine i has the tokens of its stripe.
Mine(i) == {k \in Tokens : (k[1] - 1) % Stride = i}

\* The tokens that the model counts with their present topics; for the others
\* it has what they had when the iteration began.
Merged ==
  IF program = "multithread" /\ main.phase = "sample" THEN {}
  ELSE IF main.phase = "accumulate"
  THEN {k \in Tokens : \/ (k[1] - 1) % Stride < merge.diff
                       \/ /\ (k[1] - 1) % Stride = merge.diff
                          /\ Corpus[k[1]][k[2]] \notin merge.todo}
  ELSE Tokens

\* The topics that the model counts.
Hybrid == [d \in Docs |-> [p \in Positions(d) |->
             IF <<d, p>> \in Merged THEN topics[d][p] ELSE base.topics[d][p]]]

Fields == {"pc", "doc", "pos", "model", "diff", "prior"}

ThreadOK(i) ==
  /\ DOMAIN thread[i] = Fields
  /\ thread[i].pc \in {"idle", "start", "sample", "done", "evaluated"}
  /\ thread[i].doc \in Nat /\ thread[i].pos \in Nat \ {0}
  /\ i \in Running =>
       /\ main.phase # "sample" => thread[i].pc \notin {"start", "sample"}
       /\ main.phase = "accumulate" => thread[i].pc = "done"
       /\ thread[i].pc = "sample" =>
            thread[i].doc >= 1 /\ (thread[i].doc - 1) % Stride = i

ThreadsOK == DOMAIN thread = Threads /\ \A i \in Threads : ThreadOK(i)

IsSparse(h) == DOMAIN h \subseteq Topics /\ h \in [DOMAIN h -> Int]

IsModel(m) ==
  /\ DOMAIN m = {"word", "global", "prior"}
  /\ m.word = [w \in Words |-> m.word[w]]
  /\ \A w \in Words : m.word[w] = Nil \/ IsSparse(m.word[w])

\* The model: a histogram for every word that there is.
ModelOK ==
  /\ IsModel(model) /\ model.global \in [Topics -> Int]
  /\ EntriesArePositive
  /\ \A w \in Words : model.word[w] = Nil => OfWord(w) = {}

\* The diff of a goroutine: by how much its tokens differ, and nothing but for words
\* that it has sampled.
DiffOK(i) ==
  LET d == thread[i].diff
  IN  /\ IsModel(d)
      /\ \A w \in Words :
           /\ \A t \in Topics :
                At(WordTopicHist(d, w), t)
                  = HowMany(topics, OfWord(w) \cap Mine(i), t)
                      - HowMany(base.topics, OfWord(w) \cap Mine(i), t)
           /\ d.word[w] = Nil =>
                \A k \in OfWord(w) \cap Mine(i) : topics[k[1]][k[2]] = base.topics[k[1]][k[2]]
           /\ d.word[w] # Nil => OfWord(w) \cap Mine(i) # {}

Phases == {"head", "sample", "accumulate", "optimize", "evaluate", "save", "end"}

MainOK ==
  /\ program \in {"multithread", "singlethread"}
  /\ main \in [phase : Phases, iter : Nat]
  /\ topics \in Assignments
  /\ Iterating => /\ base.topics \in Assignments /\ base.counts = CountsOf(base.topics)
  /\ main.phase # "end" => saved = Nil
  /\ main.phase = "accumulate" =>
       /\ program = "multithread" /\ merge.diff \in Running
       /\ merge.todo \subseteq {w \in Words : thread[merge.diff].diff.word[w] # Nil}

DiffsOK ==
  program = "multithread" /\ main.phase \in {"sample", "accumulate"} =>
    \A i \in Running : DiffOK(i)

ModelCounts == Counts(model) = CountsOf(Hybrid)

TInv == MainOK /\ ThreadsOK /\ ModelOK /\ DiffsOK /\ ModelCounts

-----------------------------------------------------------------------------
(* Tokens and how many of them have a topic. *)

LEMMA CorpusIsTyped ==
  ASSUME NEW d \in Docs
  PROVE  /\ Docs = 1 .. Len(Corpus) /\ Positions(d) = 1 .. Len(Corpus[d])
         /\ Len(Corpus[d]) \in Nat
         /\ \A p \in Positions(d) : Corpus[d][p] \in Words
<1>1. Corpus \in Seq(Seq(Words))
  BY CorpusAssumption
<1>2. Corpus[d] \in Seq(Words)
  BY <1>1 DEF Docs
<1> QED  BY <1>1, <1>2 DEF Docs, Positions

LEMMA TokensAreFinite == IsFiniteSet(Tokens) /\ IsFiniteSet(Docs)
<1> DEFINE Of(d) == {d} \X Positions(d)
           R == {Of(d) : d \in Docs}
           g == [d \in Docs |-> Of(d)]
<1>1. Docs = 1 .. Len(Corpus) /\ Len(Corpus) \in Int /\ 1 \in Int
  BY CorpusAssumption DEF Docs
<1>2. IsFiniteSet(Docs)
  BY <1>1, FS_Interval
<1>3. g \in Surjection(Docs, R)
  BY DEF Surjection
<1>4. \A T \in R : IsFiniteSet(T)
  <2> SUFFICES ASSUME NEW d \in Docs PROVE IsFiniteSet({d} \X Positions(d))
    OBVIOUS
  <2>1. Positions(d) = 1 .. Len(Corpus[d]) /\ Len(Corpus[d]) \in Int /\ 1 \in Int
    BY CorpusIsTyped
  <2>2. IsFiniteSet(Positions(d))
    BY <2>1, FS_Interval
  <2> QED  BY <2>2, FS_Product, FS_Singleton
<1> HIDE DEF R, g
<1>5. IsFiniteSet(R)
  BY <1>2, <1>3, FS_Surjection
<1>6. IsFiniteSet(UNION R)
  BY <1>4, <1>5, FS_UNION
<1> QED  BY <1>2, <1>6 DEF R, Tokens

LEMMA Token ==
  ASSUME NEW k \in Tokens
  PROVE  /\ k[1] \in Docs /\ k[2] \in Positions(k[1]) /\ k = <<k[1], k[2]>>
         /\ Corpus[k[1]][k[2]] \in Words /\ k[1] \in Nat \ {0} /\ k[2] \in Nat \ {0}
<1>1. k[1] \in Docs /\ k[2] \in Positions(k[1]) /\ k = <<k[1], k[2]>>
  BY DEF Tokens
<1> QED  BY <1>1, CorpusIsTyped

LEMMA APair ==
  ASSUME NEW d \in Docs, NEW p \in Positions(d)
  PROVE  <<d, p>> \in Tokens
BY DEF Tokens

LEMMA AssignmentIs ==
  ASSUME NEW f
  PROVE  f \in Assignments <=>
           /\ f = [d \in Docs |-> f[d]]
           /\ \A d \in Docs : f[d] \in [Positions(d) -> Topics]
BY DEF Assignments

LEMMA TopicOf == ASSUME NEW f \in Assignments, NEW k \in Tokens PROVE f[k[1]][k[2]] \in Topics
BY AssignmentIs, Token

LEMMA HowManyType ==
  ASSUME NEW f, NEW K \in SUBSET Tokens, NEW t
  PROVE  /\ IsFiniteSet({k \in K : f[k[1]][k[2]] = t}) /\ HowMany(f, K, t) \in Nat
         /\ HowMany(f, K, t) = 0 <=> \A k \in K : f[k[1]][k[2]] # t
<1>1. IsFiniteSet({k \in K : f[k[1]][k[2]] = t})
  BY TokensAreFinite, FS_Subset
<1> QED  BY <1>1, FS_CardinalityType, FS_EmptySet DEF HowMany

LEMMA HowManySame ==
  ASSUME NEW f, NEW g, NEW K \in SUBSET Tokens, \A k \in K : f[k[1]][k[2]] = g[k[1]][k[2]], NEW t
  PROVE  HowMany(f, K, t) = HowMany(g, K, t)
<1>1. {k \in K : f[k[1]][k[2]] = t} = {k \in K : g[k[1]][k[2]] = t}
  OBVIOUS
<1> QED  BY <1>1 DEF HowMany

LEMMA HowManyWithin ==
  ASSUME NEW f, NEW K \in SUBSET Tokens, NEW M \in SUBSET K, NEW t
  PROVE  HowMany(f, K, t) = HowMany(f, M, t) + HowMany(f, K \ M, t)
<1> DEFINE A == {k \in K : f[k[1]][k[2]] = t}
           B == {k \in M : f[k[1]][k[2]] = t}
           D == {k \in K \ M : f[k[1]][k[2]] = t}
<1>1. IsFiniteSet(B) /\ IsFiniteSet(D)
  BY TokensAreFinite, FS_Subset
<1>2. B \cap D = {} /\ A = B \cup D
  OBVIOUS
<1> HIDE DEF A, B, D
<1>3. Cardinality(A) = Cardinality(B) + Cardinality(D) - Cardinality(B \cap D)
  BY <1>1, <1>2, FS_Union
<1>4. Cardinality(A) = Cardinality(B) + Cardinality(D)
  <2>1. Cardinality(B) \in Nat /\ Cardinality(D) \in Nat /\ Cardinality(B \cap D) = 0
    BY <1>1, <1>2, FS_EmptySet, FS_CardinalityType
  <2> QED  BY <1>3, <2>1
<1> QED  BY <1>4 DEF A, B, D, HowMany

\* The token at position p of document d gets topic x.
Moved(f, d, p, x) == [f EXCEPT ![d][p] = x]

LEMMA OneMoves ==
  ASSUME NEW f \in Assignments, NEW d \in Docs, NEW p \in Positions(d), NEW x \in Topics
  PROVE  /\ Moved(f, d, p, x) \in Assignments
         /\ \A k \in Tokens :
              Moved(f, d, p, x)[k[1]][k[2]] = IF k = <<d, p>> THEN x ELSE f[k[1]][k[2]]
<1> DEFINE g == Moved(f, d, p, x)
           r == [f[d] EXCEPT ![p] = x]
<1>1. f = [e \in Docs |-> f[e]] /\ \A e \in Docs : f[e] \in [Positions(e) -> Topics]
  BY AssignmentIs
<1>2. r \in [Positions(d) -> Topics] /\ r[p] = x /\ \A q \in Positions(d) \ {p} : r[q] = f[d][q]
  BY <1>1
<1>3. g = [f EXCEPT ![d] = r]
  BY DEF Moved
<1> HIDE DEF g, r
<1>4. g = [e \in Docs |-> g[e]] /\ g[d] = r /\ \A e \in Docs \ {d} : g[e] = f[e]
  BY <1>1, <1>3
<1>5. g \in Assignments
  BY <1>1, <1>2, <1>4, AssignmentIs
<1>6. ASSUME NEW k \in Tokens PROVE g[k[1]][k[2]] = IF k = <<d, p>> THEN x ELSE f[k[1]][k[2]]
  <2>1. k[1] \in Docs /\ k[2] \in Positions(k[1]) /\ k = <<k[1], k[2]>>
    BY Token
  <2> QED  BY <1>2, <1>4, <2>1
<1> QED  BY <1>5, <1>6 DEF g

LEMMA OneMoreToken ==
  ASSUME NEW f, NEW K \in SUBSET Tokens, NEW k \in Tokens, k \notin K, NEW t
  PROVE  HowMany(f, K \cup {k}, t) = HowMany(f, K, t) + (IF f[k[1]][k[2]] = t THEN 1 ELSE 0)
<1> DEFINE A == {j \in K : f[j[1]][j[2]] = t}
           B == {j \in K \cup {k} : f[j[1]][j[2]] = t}
<1>1. IsFiniteSet(A) /\ Cardinality(A) \in Nat
  <2>1. IsFiniteSet(A)
    BY TokensAreFinite, FS_Subset
  <2> QED  BY <2>1, FS_CardinalityType
<1>2. B = (IF f[k[1]][k[2]] = t THEN A \cup {k} ELSE A) /\ k \notin A
  OBVIOUS
<1> HIDE DEF A, B
<1>3. Cardinality(B) = Cardinality(A) + (IF f[k[1]][k[2]] = t THEN 1 ELSE 0)
  <2>1. Cardinality(A \cup {k}) = Cardinality(A) + 1
    BY <1>1, <1>2, FS_AddElement
  <2> QED  BY <1>1, <1>2, <2>1
<1> QED  BY <1>3 DEF A, B, HowMany

LEMMA CountMoves ==
  ASSUME NEW f \in Assignments, NEW d \in Docs, NEW p \in Positions(d), NEW x \in Topics,
         NEW K \in SUBSET Tokens, NEW t
  PROVE  HowMany(Moved(f, d, p, x), K, t) =
           IF <<d, p>> \in K
           THEN HowMany(f, K, t) - (IF f[d][p] = t THEN 1 ELSE 0) + (IF x = t THEN 1 ELSE 0)
           ELSE HowMany(f, K, t)
<1> DEFINE g == Moved(f, d, p, x)
           k == <<d, p>>
           L == K \ {k}
<1>1. k \in Tokens
  BY APair
<1>2. \A j \in Tokens : g[j[1]][j[2]] = IF j = k THEN x ELSE f[j[1]][j[2]]
  BY OneMoves
<1>3. g[k[1]][k[2]] = x /\ f[k[1]][k[2]] = f[d][p]
  BY <1>1, <1>2
<1> HIDE DEF g
<1>4. L \in SUBSET Tokens /\ HowMany(g, L, t) = HowMany(f, L, t) /\ HowMany(f, L, t) \in Nat
  <2>1. L \in SUBSET Tokens /\ \A j \in L : g[j[1]][j[2]] = f[j[1]][j[2]]
    BY <1>2
  <2> HIDE DEF L, k
  <2>2. HowMany(g, L, t) = HowMany(f, L, t)
    BY <2>1, HowManySame
  <2>3. HowMany(f, L, t) \in Nat
    BY <2>1, HowManyType
  <2> QED  BY <2>1, <2>2, <2>3
<1>5. CASE k \in K
  <2> HIDE DEF k, L
  <2>1. /\ HowMany(f, L \cup {k}, t) = HowMany(f, L, t) + (IF f[k[1]][k[2]] = t THEN 1 ELSE 0)
        /\ HowMany(g, L \cup {k}, t) = HowMany(g, L, t) + (IF g[k[1]][k[2]] = t THEN 1 ELSE 0)
    <3>1. k \notin L
      BY DEF L
    <3> QED  BY <1>1, <1>4, <3>1, OneMoreToken
  <2>2. L \cup {k} = K
    BY <1>5 DEF L
  <2>3. HowMany(g, K, t) = HowMany(f, K, t) - (IF f[d][p] = t THEN 1 ELSE 0) + (IF x = t THEN 1 ELSE 0)
    <3>1. /\ HowMany(f, K, t) = HowMany(f, L, t) + (IF f[d][p] = t THEN 1 ELSE 0)
          /\ HowMany(g, K, t) = HowMany(f, L, t) + (IF x = t THEN 1 ELSE 0)
      BY <1>3, <1>4, <2>1, <2>2
    <3> QED  BY <1>4, <3>1
  <2> QED  BY <1>5, <2>3 DEF k, g
<1>6. CASE k \notin K
  <2>1. HowMany(g, K, t) = HowMany(f, K, t)
    BY <1>2, <1>6, HowManySame
  <2> QED  BY <1>6, <2>1 DEF g
<1> QED  BY <1>5, <1>6

LEMMA OfWordIs ==
  ASSUME NEW w
  PROVE  /\ OfWord(w) \in SUBSET Tokens
         /\ \A k \in Tokens : k \in OfWord(w) <=> Corpus[k[1]][k[2]] = w
BY DEF OfWord

\* The counts of a model are those of an assignment.
LEMMA CountsAre ==
  ASSUME NEW m, NEW f
  PROVE  Counts(m) = CountsOf(f) <=>
           /\ m.global = [t \in Topics |-> HowMany(f, Tokens, t)]
           /\ \A w \in Words, t \in Topics : At(WordTopicHist(m, w), t) = HowMany(f, OfWord(w), t)
<1>1. ASSUME NEW t PROVE OfTopic(f, t) = {k \in Tokens : f[k[1]][k[2]] = t}
                         /\ Cardinality(OfTopic(f, t)) = HowMany(f, Tokens, t)
  BY DEF OfTopic, HowMany
<1>2. ASSUME NEW t, NEW w PROVE Cardinality(OfTopic(f, t) \cap OfWord(w)) = HowMany(f, OfWord(w), t)
  <2>1. OfTopic(f, t) \cap OfWord(w) = {k \in OfWord(w) : f[k[1]][k[2]] = t}
    BY <1>1, OfWordIs
  <2> QED  BY <2>1 DEF HowMany
<1>3. CountsOf(f) = [word |-> [w \in Words |-> [t \in Topics |-> HowMany(f, OfWord(w), t)]],
                     global |-> [t \in Topics |-> HowMany(f, Tokens, t)]]
  BY <1>1, <1>2 DEF CountsOf
<1> DEFINE a == [w \in Words |-> [t \in Topics |-> At(WordTopicHist(m, w), t)]]
           b == [w \in Words |-> [t \in Topics |-> HowMany(f, OfWord(w), t)]]
           g == [t \in Topics |-> HowMany(f, Tokens, t)]
<1>4. Counts(m) = [word |-> a, global |-> m.global] /\ CountsOf(f) = [word |-> b, global |-> g]
  BY <1>3 DEF Counts
<1>5. a = b <=> \A w \in Words, t \in Topics : At(WordTopicHist(m, w), t) = HowMany(f, OfWord(w), t)
  <2>1. ASSUME a = b, NEW w \in Words, NEW t \in Topics PROVE a[w][t] = b[w][t]
    BY <2>1
  <2>2. ASSUME \A w \in Words, t \in Topics : At(WordTopicHist(m, w), t) = HowMany(f, OfWord(w), t)
        PROVE  a = b
    BY <2>2
  <2> QED  BY <2>1, <2>2
<1> HIDE DEF a, b, g
<1>6. Counts(m) = CountsOf(f) <=> a = b /\ m.global = g
  BY <1>4
<1> QED  BY <1>5, <1>6 DEF g

-----------------------------------------------------------------------------
(* Sparse histograms and models. *)

Bit(b) == IF b THEN 1 ELSE 0

Positive(h) == \A t \in DOMAIN h : h[t] > 0

LEMMA SparseIs ==
  /\ IsSparse(<<>>) /\ \A t : At(<<>>, t) = 0
  /\ \A h : IsSparse(h) => h # Nil /\ \A t : At(h, t) \in Int
<1>1. DOMAIN <<>> = {} /\ <<>> \in [{} -> Int]
  OBVIOUS
<1>2. ASSUME NEW h, IsSparse(h) PROVE h # Nil /\ \A t : At(h, t) \in Int
  <2>1. DOMAIN h \in SUBSET Topics /\ h \in [DOMAIN h -> Int]
    BY <1>2 DEF IsSparse
  <2>2. \A S \in SUBSET Topics : Nil \notin [S -> Int]
    BY TrainerAssumption
  <2> QED  BY <2>1, <2>2 DEF At
<1> QED  BY <1>1, <1>2 DEF IsSparse, At

LEMMA SparseIncIs ==
  ASSUME NEW h, IsSparse(h), NEW t \in Topics
  PROVE  /\ IsSparse(SparseInc(h, t))
         /\ \A u : At(SparseInc(h, t), u) = At(h, u) + Bit(u = t)
         /\ Positive(h) => Positive(SparseInc(h, t))
<1>1. DOMAIN h \subseteq Topics /\ h \in [DOMAIN h -> Int]
  BY DEF IsSparse
<1>2. \A u : At(h, u) \in Int
  BY SparseIs
<1> QED  BY <1>1, <1>2 DEF SparseInc, IsSparse, At, Bit, Positive

LEMMA SparseDecIs ==
  ASSUME NEW h, IsSparse(h), NEW t \in Topics
  PROVE  /\ IsSparse(SparseDec(h, t))
         /\ \A u : At(SparseDec(h, t), u) = At(h, u) - Bit(u = t)
         /\ Positive(h) /\ At(h, t) > 0 => Positive(SparseDec(h, t))
<1>1. DOMAIN h \subseteq Topics /\ h \in [DOMAIN h -> Int]
  BY DEF IsSparse
<1>2. \A u : At(h, u) \in Int
  BY SparseIs
<1>3. CASE At(h, t) = 1
  BY <1>1, <1>2, <1>3 DEF SparseDec, IsSparse, At, Bit, Positive
<1>4. CASE At(h, t) # 1
  BY <1>1, <1>2, <1>4 DEF SparseDec, IsSparse, At, Bit, Positive
<1> QED  BY <1>3, <1>4

\* A sum has positive entries when the counts are not negative, whatever the signs
\* of the histogram that is added.
LEMMA AddWordIs ==
  ASSUME NEW d, IsSparse(d), NEW h, IsSparse(h)
  PROVE  /\ IsSparse(AddWord(d, h))
         /\ \A u : At(AddWord(d, h), u) = At(d, u) + At(h, u)
         /\ Positive(d) /\ (\A u \in Topics : At(d, u) + At(h, u) >= 0) => Positive(AddWord(d, h))
<1>1. /\ DOMAIN d \subseteq Topics /\ d \in [DOMAIN d -> Int]
      /\ DOMAIN h \subseteq Topics /\ h \in [DOMAIN h -> Int]
  BY DEF IsSparse
<1>2. \A u : At(d, u) \in Int /\ At(h, u) \in Int
  BY SparseIs
<1> DEFINE s == AddWord(d, h)
<1>3. /\ \A u : u \in DOMAIN s <=> /\ u \in DOMAIN d \cup DOMAIN h
                                   /\ u \notin DOMAIN d => h[u] # 0
                                   /\ At(h, u) < 0 => At(d, u) + h[u] # 0
      /\ s = [u \in DOMAIN s |-> At(d, u) + At(h, u)]
  BY DEF AddWord
<1> HIDE DEF s
<1>4. IsSparse(s)
  BY <1>1, <1>2, <1>3 DEF IsSparse
<1>5. ASSUME NEW u PROVE At(s, u) = At(d, u) + At(h, u)
  <2>1. CASE u \in DOMAIN s
    BY <1>3, <2>1 DEF At
  <2>2. CASE u \notin DOMAIN s
    <3>1. u \notin DOMAIN d /\ u \notin DOMAIN h => At(d, u) = 0 /\ At(h, u) = 0
      BY DEF At
    <3>2. u \notin DOMAIN d /\ u \in DOMAIN h /\ h[u] = 0 => At(d, u) = 0 /\ At(h, u) = 0
      BY DEF At
    <3>3. At(h, u) < 0 /\ At(d, u) + h[u] = 0 => At(h, u) = h[u]
      BY DEF At
    <3>4. At(d, u) + At(h, u) = 0
      BY <1>2, <1>3, <2>2, <3>1, <3>2, <3>3
    <3> QED  BY <2>2, <3>4 DEF At
  <2> QED  BY <2>1, <2>2
<1>6. ASSUME Positive(d), \A u \in Topics : At(d, u) + At(h, u) >= 0, NEW u \in DOMAIN s
      PROVE  s[u] > 0
  <2>1. u \in Topics /\ s[u] = At(d, u) + At(h, u) /\ s[u] >= 0
    BY <1>1, <1>3, <1>6
  <2>2. s[u] # 0
    <3>1. CASE u \notin DOMAIN d
      BY <1>2, <1>3, <2>1, <3>1 DEF At
    <3>2. CASE u \in DOMAIN d
      <4>1. At(d, u) > 0
        BY <1>6, <3>2 DEF At, Positive
      <4>2. At(h, u) < 0 => At(h, u) = h[u]
        BY DEF At
      <4> QED  BY <1>2, <1>3, <2>1, <4>1, <4>2
    <3> QED  BY <3>1, <3>2
  <2> QED  BY <1>2, <2>1, <2>2
<1> QED  BY <1>4, <1>5, <1>6 DEF s, Positive

LEMMA WordHistIs ==
  ASSUME NEW m, IsModel(m), NEW w \in Words
  PROVE  /\ IsSparse(WordTopicHist(m, w))
         /\ m.word[w] # Nil => WordTopicHist(m, w) = m.word[w]
         /\ m.word[w] = Nil => WordTopicHist(m, w) = <<>>
BY SparseIs DEF IsModel, WordTopicHist

\* Another histogram for one word, and other totals.
WithWord(m, w, h, g) == [m EXCEPT !.word = [@ EXCEPT ![w] = h], !.global = g]

LEMMA OneWordChanged ==
  ASSUME NEW m, IsModel(m), NEW w \in Words, NEW h, IsSparse(h), NEW g
  PROVE  LET n == WithWord(m, w, h, g)
         IN  /\ IsModel(n) /\ n.word[w] = h /\ WordTopicHist(n, w) = h
             /\ \A v \in Words \ {w} :
                  n.word[v] = m.word[v] /\ WordTopicHist(n, v) = WordTopicHist(m, v)
             /\ n.global = g /\ n.prior = m.prior
<1> DEFINE n == WithWord(m, w, h, g)
           r == [m.word EXCEPT ![w] = h]
<1>1. DOMAIN m = {"word", "global", "prior"} /\ m.word = [v \in Words |-> m.word[v]]
  BY DEF IsModel
<1>2. r = [v \in Words |-> r[v]] /\ r[w] = h /\ \A v \in Words \ {w} : r[v] = m.word[v]
  BY <1>1
<1>3. n = [m EXCEPT !.word = r, !.global = g]
  BY <1>1 DEF WithWord
<1> HIDE DEF r, n
<1>4. DOMAIN n = {"word", "global", "prior"} /\ n.word = r /\ n.global = g /\ n.prior = m.prior
  BY <1>1, <1>3
<1>5. h # Nil
  BY SparseIs
<1>6. IsModel(n)
  BY <1>1, <1>2, <1>4 DEF IsModel
<1>7. WordTopicHist(n, w) = h
  BY <1>2, <1>4, <1>5 DEF WordTopicHist
<1>8. \A v \in Words \ {w} : WordTopicHist(n, v) = WordTopicHist(m, v)
  BY <1>2, <1>4 DEF WordTopicHist
<1> QED  BY <1>2, <1>4, <1>6, <1>7, <1>8 DEF n

\* What a move of a token from topic t to x does to a model, or to a diff, whose totals
\* are of no interest.
MovedIn(m, n, w, t, x) ==
  /\ IsModel(n) /\ n.word[w] # Nil /\ n.prior = m.prior
  /\ \A u \in Topics :
       At(WordTopicHist(n, w), u) = At(WordTopicHist(m, w), u) - Bit(u = t) + Bit(u = x)
  /\ \A v \in Words \ {w} :
       n.word[v] = m.word[v] /\ WordTopicHist(n, v) = WordTopicHist(m, v)

LEMMA ModelMoves ==
  ASSUME NEW m, IsModel(m), NEW w \in Words, NEW t \in Topics, NEW x \in Topics
  PROVE  LET n == Consider(Neglect(m, w, t), w, x)
         IN  /\ MovedIn(m, n, w, t, x)
             /\ Positive(WordTopicHist(m, w)) /\ At(WordTopicHist(m, w), t) > 0 =>
                  Positive(n.word[w])
             /\ m.global \in [Topics -> Int] =>
                  n.global = [u \in Topics |-> m.global[u] - Bit(u = t) + Bit(u = x)]
<1> DEFINE h == WordTopicHist(m, w)
           h1 == SparseDec(h, t)
           g1 == [m.global EXCEPT ![t] = @ - 1]
           n1 == Neglect(m, w, t)
           h2 == SparseInc(h1, x)
           g2 == [g1 EXCEPT ![x] = @ + 1]
           n == Consider(n1, w, x)
<1>1. IsSparse(h)
  BY WordHistIs
<1>2. /\ IsSparse(h1) /\ \A u : At(h1, u) = At(h, u) - Bit(u = t)
      /\ Positive(h) /\ At(h, t) > 0 => Positive(h1)
  <2> HIDE DEF h
  <2> QED  BY <1>1, SparseDecIs
<1>3. n1 = WithWord(m, w, h1, g1)
  BY DEF Neglect, IsModel, WithWord
<1> HIDE DEF h, h1, g1, n1
<1>4. /\ IsModel(n1) /\ n1.word[w] = h1 /\ WordTopicHist(n1, w) = h1
      /\ \A v \in Words \ {w} : n1.word[v] = m.word[v] /\ WordTopicHist(n1, v) = WordTopicHist(m, v)
      /\ n1.global = g1 /\ n1.prior = m.prior
  BY <1>2, <1>3, OneWordChanged
<1>5. /\ IsSparse(h2) /\ \A u : At(h2, u) = At(h1, u) + Bit(u = x)
      /\ Positive(h1) => Positive(h2)
  BY <1>2, SparseIncIs
<1>6. n = WithWord(n1, w, h2, g2)
  BY <1>4 DEF Consider, IsModel, WithWord
<1> HIDE DEF h2, g2, n
<1>7. /\ IsModel(n) /\ n.word[w] = h2 /\ WordTopicHist(n, w) = h2
      /\ \A v \in Words \ {w} : n.word[v] = n1.word[v] /\ WordTopicHist(n, v) = WordTopicHist(n1, v)
      /\ n.global = g2 /\ n.prior = n1.prior
  BY <1>4, <1>5, <1>6, OneWordChanged
<1>8. h2 # Nil /\ \A u : At(h, u) \in Int
  BY <1>1, <1>5, SparseIs
<1>9. \A u \in Topics : At(WordTopicHist(n, w), u) = At(h, u) - Bit(u = t) + Bit(u = x)
  BY <1>2, <1>5, <1>7
<1>10. ASSUME m.global \in [Topics -> Int]
       PROVE  n.global = [u \in Topics |-> m.global[u] - Bit(u = t) + Bit(u = x)]
  <2>1. g1 = [u \in Topics |-> m.global[u] - Bit(u = t)]
    BY <1>10 DEF g1, Bit
  <2>2. g2 = [u \in Topics |-> m.global[u] - Bit(u = t) + Bit(u = x)]
    <3>1. g2 = [g1 EXCEPT ![x] = @ + 1]
      BY DEF g2
    <3> QED  BY <1>10, <2>1, <3>1 DEF Bit
  <2> QED  BY <1>7, <2>2
<1>11. IsModel(n) /\ n.word[w] # Nil /\ n.prior = m.prior
  BY <1>4, <1>7, <1>8
<1>12. \A v \in Words \ {w} : n.word[v] = m.word[v] /\ WordTopicHist(n, v) = WordTopicHist(m, v)
  BY <1>4, <1>7
<1>13. Positive(h) /\ At(h, t) > 0 => Positive(n.word[w])
  BY <1>2, <1>5, <1>7
<1>14. MovedIn(m, n, w, t, x)
  BY <1>9, <1>11, <1>12 DEF h, MovedIn
<1> QED  BY <1>10, <1>13, <1>14 DEF n, n1, h

LEMMA ModelAccumulates ==
  ASSUME NEW m, IsModel(m), NEW w \in Words, m.word[w] # Nil, m.global \in [Topics -> Int],
         NEW h, IsSparse(h)
  PROVE  LET n == AccumulateWord(m, w, h)
         IN  /\ IsModel(n) /\ n.word[w] # Nil /\ n.prior = m.prior
             /\ \A u \in Topics : At(WordTopicHist(n, w), u) = At(m.word[w], u) + At(h, u)
             /\ \A v \in Words \ {w} :
                  n.word[v] = m.word[v] /\ WordTopicHist(n, v) = WordTopicHist(m, v)
             /\ Positive(m.word[w]) /\ (\A u \in Topics : At(m.word[w], u) + At(h, u) >= 0) =>
                  Positive(n.word[w])
             /\ n.global = [u \in Topics |-> m.global[u] + At(h, u)]
<1> DEFINE d == m.word[w]
           s == AddWord(d, h)
           g == [u \in Topics |-> m.global[u] + At(h, u)]
           n == AccumulateWord(m, w, h)
<1>1. IsSparse(d)
  BY DEF IsModel
<1>2. n = WithWord(m, w, s, g)
  BY DEF AccumulateWord, IsModel, WithWord
<1> HIDE DEF d, g, n
<1>3. /\ IsSparse(s) /\ \A u : At(s, u) = At(d, u) + At(h, u)
      /\ Positive(d) /\ (\A u \in Topics : At(d, u) + At(h, u) >= 0) => Positive(s)
  BY <1>1, AddWordIs
<1> HIDE DEF s
<1>4. /\ IsModel(n) /\ n.word[w] = s /\ WordTopicHist(n, w) = s
      /\ \A v \in Words \ {w} : n.word[v] = m.word[v] /\ WordTopicHist(n, v) = WordTopicHist(m, v)
      /\ n.global = g /\ n.prior = m.prior
  BY <1>2, <1>3, OneWordChanged
<1>5. s # Nil
  BY <1>3, SparseIs
<1>6. \A u \in Topics : At(WordTopicHist(n, w), u) = At(d, u) + At(h, u)
  BY <1>3, <1>4
<1> QED  BY <1>3, <1>4, <1>5, <1>6 DEF n, d, g

-----------------------------------------------------------------------------
(* Stripes. *)

LEMMA Remainder ==
  ASSUME NEW a \in Nat, NEW n \in Nat \ {0}
  PROVE  /\ a % n \in 0 .. n - 1 /\ (a < n => a % n = a)
         /\ (a + n) % n = a % n
<1> DEFINE q == a \div n  r == a % n  q2 == (a + n) \div n  r2 == (a + n) % n
<1>1. q \in Nat /\ r \in 0 .. n - 1 /\ a = n * q + r
  BY SMT
<1>2. q2 \in Nat /\ r2 \in 0 .. n - 1 /\ a + n = n * q2 + r2
  <2>1. a + n \in Nat
    OBVIOUS
  <2> QED  BY <2>1, SMT
<1> HIDE DEF q, r, q2, r2
<1>3. a < n => r = a
  <2>1. ASSUME q # 0 PROVE n * q >= n
    <3>1. q - 1 \in Nat
      BY <1>1, <2>1
    <3>2. n * (q - 1) >= 0
      BY <3>1, SMT
    <3>3. n * (q - 1) = n * q - n
      BY <1>1, SMT
    <3>4. n * q \in Int
      BY <1>1, SMT
    <3> QED  BY <3>2, <3>3, <3>4
  <2>2. q = 0 => n * q = 0
    BY SMT
  <2>3. n * q \in Int
    BY <1>1, SMT
  <2> QED  BY <1>1, <2>1, <2>2, <2>3
<1>4. r2 = r
  <2> DEFINE e == q2 - q - 1
  <2>1. n * e = r - r2 /\ e \in Int
    <3>1. n * e = n * q2 - n * q - n
      BY <1>1, <1>2, SMT
    <3>2. n * q2 \in Int /\ n * q \in Int
      BY <1>1, <1>2, SMT
    <3> QED  BY <1>1, <1>2, <3>1, <3>2
  <2> HIDE DEF e
  <2>2. ASSUME e >= 1 PROVE FALSE
    <3>1. n * (e - 1) >= 0
      BY <2>1, <2>2, SMT
    <3>2. n * (e - 1) = n * e - n
      BY <2>1, SMT
    <3>3. n * e \in Int
      BY <2>1, SMT
    <3> QED  BY <1>1, <1>2, <2>1, <3>1, <3>2, <3>3
  <2>3. ASSUME e <= 0 - 1 PROVE FALSE
    <3>1. n * (0 - e - 1) >= 0
      BY <2>1, <2>3, SMT
    <3>2. n * (0 - e - 1) = 0 - (n * e) - n
      BY <2>1, SMT
    <3>3. n * e \in Int
      BY <2>1, SMT
    <3> QED  BY <1>1, <1>2, <2>1, <3>1, <3>2, <3>3
  <2>4. e = 0
    BY <2>1, <2>2, <2>3
  <2>5. n * e = 0
    BY <2>4, SMT
  <2> QED  BY <1>1, <1>2, <2>1, <2>5
<1> QED  BY <1>1, <1>3, <1>4 DEF r, r2

LEMMA StrideIs ==
  program \in {"multithread", "singlethread"} =>
    /\ Stride \in Nat \ {0} /\ Shards \in Nat \ {0} /\ Running = 0 .. Stride - 1
    /\ Threads = 0 .. Shards - 1 /\ Running \subseteq Threads
    /\ program = "multithread" => Stride = Shards
    /\ program = "singlethread" => Stride = 1
<1>1. Shards \in Nat \ {0}
  <2>1. Len(Corpus) \in Nat /\ Len(Corpus) >= 1 /\ FlagShards \in Nat /\ FlagShards >= 1
    BY CorpusAssumption, TrainerAssumption
  <2> QED  BY <2>1 DEF Shards
<1> QED  BY <1>1 DEF Running, Threads, Stride

\* Each token is in one stripe.
LEMMA MineIs ==
  ASSUME program \in {"multithread", "singlethread"}
  PROVE  /\ \A i : Mine(i) \in SUBSET Tokens
         /\ \A k \in Tokens : (k[1] - 1) % Stride \in Running
         /\ \A i : \A k \in Tokens : k \in Mine(i) <=> (k[1] - 1) % Stride = i
<1>1. ASSUME NEW k \in Tokens PROVE (k[1] - 1) % Stride \in Running
  <2>1. k[1] - 1 \in Nat
    BY Token
  <2>2. Stride \in Nat \ {0} /\ Running = 0 .. Stride - 1
    BY StrideIs
  <2> QED  BY <2>1, <2>2, Remainder
<1> QED  BY <1>1 DEF Mine

\* A diff is not divided any further (multithread.go 119).
LEMMA ShardedIs ==
  ASSUME NEW i
  PROVE  Sharded(i) = {w \in Words : thread[i].diff.word[w] # Nil}
<1> DEFINE present == {w \in Words : thread[i].diff.word[w] # Nil}
<1>1. VocabSize \in Nat /\ VocabSize >= 2
  BY CorpusAssumption
<1>2. Buckets(VocabSize, 1) = 1
  BY <1>1 DEF Buckets
<1>3. VocabSize \div 1 = VocabSize /\ VocabSize % 1 = 0
  BY <1>1, SMT
<1>4. BucketSize(VocabSize, 1) = VocabSize /\ ExtendedBuckets(VocabSize, 1) = 0
  BY <1>2, <1>3 DEF BucketSize, ExtendedBuckets
<1>5. First(VocabSize, 1, 0) = 0
  BY <1>1, <1>4 DEF First
<1>6. Bucket(VocabSize, 1, 0) = Words
  BY <1>1, <1>2, <1>4, <1>5 DEF Bucket, Words
<1> HIDE DEF present
<1>7. ShardModel(present, VocabSize, 1) = [j \in 0 .. 0 |-> present \cap Bucket(VocabSize, 1, j)]
  BY DEF ShardModel
<1>8. ShardModel(present, VocabSize, 1)[0] = present \cap Words
  BY <1>6, <1>7
<1> QED  BY <1>8 DEF Sharded, present

\* What does not change with the program, which is always the same one.
LEMMA Steady ==
  ASSUME program' = program
  PROVE  /\ Stride' = Stride /\ Running' = Running /\ Threads' = Threads
         /\ \A i : Mine(i)' = Mine(i)
BY DEF Stride, Running, Threads, Mine, Shards

-----------------------------------------------------------------------------
(* What the model counts. *)

HybridFacts ==
  /\ Iterating \/ Merged = Tokens => Hybrid \in Assignments
  /\ Merged \subseteq Tokens
  /\ \A k \in Tokens : Hybrid[k[1]][k[2]] =
       IF k \in Merged THEN topics[k[1]][k[2]] ELSE base.topics[k[1]][k[2]]
  /\ Merged = Tokens => Hybrid = topics
  /\ Merged = {} /\ Iterating => Hybrid = base.topics

LEMMA HybridIs == MainOK => HybridFacts
<1> SUFFICES ASSUME MainOK PROVE HybridFacts
  OBVIOUS
<1>1. Merged \subseteq Tokens
  BY DEF Merged
<1>2. topics \in Assignments /\ (Iterating => base.topics \in Assignments)
  BY DEF MainOK
<1>3. topics = [d \in Docs |-> topics[d]] /\ \A d \in Docs : topics[d] \in [Positions(d) -> Topics]
  BY <1>2, AssignmentIs
<1>4. Iterating => /\ base.topics = [d \in Docs |-> base.topics[d]]
                   /\ \A d \in Docs : base.topics[d] \in [Positions(d) -> Topics]
  BY <1>2, AssignmentIs
<1>5. ASSUME NEW k \in Tokens
      PROVE  Hybrid[k[1]][k[2]] =
               IF k \in Merged THEN topics[k[1]][k[2]] ELSE base.topics[k[1]][k[2]]
  <2>1. k[1] \in Docs /\ k[2] \in Positions(k[1]) /\ k = <<k[1], k[2]>>
    BY Token
  <2> QED  BY <2>1 DEF Hybrid
<1>6. Merged = Tokens => Hybrid = topics
  <2> SUFFICES ASSUME Merged = Tokens PROVE Hybrid = topics
    OBVIOUS
  <2>1. \A d \in Docs : [p \in Positions(d) |-> IF <<d, p>> \in Merged THEN topics[d][p]
                                                ELSE base.topics[d][p]] = topics[d]
    BY <1>3, APair
  <2> QED  BY <1>3, <2>1 DEF Hybrid
<1>7. Merged = {} /\ Iterating => Hybrid = base.topics
  <2> SUFFICES ASSUME Merged = {}, Iterating PROVE Hybrid = base.topics
    OBVIOUS
  <2>1. \A d \in Docs : [p \in Positions(d) |-> IF <<d, p>> \in Merged THEN topics[d][p]
                                                ELSE base.topics[d][p]] = base.topics[d]
    BY <1>4
  <2> QED  BY <1>4, <2>1 DEF Hybrid
<1>8. Iterating => Hybrid \in Assignments
  <2> SUFFICES ASSUME Iterating PROVE Hybrid \in Assignments
    OBVIOUS
  <2>1. \A d \in Docs : Hybrid[d] \in [Positions(d) -> Topics]
    BY <1>3, <1>4 DEF Hybrid
  <2>2. Hybrid = [d \in Docs |-> Hybrid[d]]
    BY DEF Hybrid
  <2> QED  BY <2>1, <2>2, AssignmentIs
<1> QED  BY <1>1, <1>2, <1>5, <1>6, <1>7, <1>8 DEF HybridFacts

LEMMA HybridNext == MainOK' => HybridFacts'
BY HybridIs, PTL

-----------------------------------------------------------------------------
(* Each action preserves the invariant. *)

LEMMA DiffKept ==
  ASSUME NEW i, DiffOK(i), thread'[i].diff = thread[i].diff,
         UNCHANGED <<program, topics, base>>
  PROVE  DiffOK(i)'
<1>1. Mine(i)' = Mine(i)
  BY Steady
<1> QED  BY <1>1 DEF DiffOK, IsModel, IsSparse

LEMMA ModelKept == ASSUME ModelOK, model'.word = model.word, model'.global = model.global,
                          DOMAIN model' = DOMAIN model
                   PROVE  ModelOK' /\ Counts(model') = Counts(model)
<1>1. Counts(model') = Counts(model)
  BY DEF Counts, WordTopicHist, At
<1> QED  BY <1>1 DEF ModelOK, IsModel, IsSparse, EntriesArePositive

\* A step that is of no interest here.
LEMMA NothingChanges ==
  ASSUME TInv, UNCHANGED <<program, topics, model, thread, merge, main, saved, base>>
  PROVE  TInv'
<1>1. Stride' = Stride /\ Running' = Running /\ Threads' = Threads /\ \A i : Mine(i)' = Mine(i)
  BY Steady
<1>2. Merged' = Merged /\ Iterating' = Iterating
  BY <1>1 DEF Merged, Iterating
<1>3. Hybrid' = Hybrid
  BY <1>2 DEF Hybrid
<1>4. ModelOK' /\ ModelCounts'
  BY <1>3, ModelKept DEF TInv, ModelCounts
<1>5. DiffsOK'
  BY <1>1, DiffKept DEF TInv, DiffsOK
<1>6. ThreadsOK'
  BY <1>1 DEF TInv, ThreadsOK, ThreadOK
<1>7. MainOK'
  BY <1>1, <1>2 DEF TInv, MainOK
<1> QED  BY <1>4, <1>5, <1>6, <1>7 DEF TInv

\* A goroutine gets ahead, or has done its part.
LEMMA OneThread ==
  ASSUME TInv, UNCHANGED <<program, topics, model, merge, main, saved, base>>,
         NEW i \in Threads, DOMAIN thread' = Threads,
         \A j \in Threads \ {i} : thread'[j] = thread[j],
         ThreadOK(i)', thread'[i].diff = thread[i].diff
  PROVE  TInv'
<1>1. Stride' = Stride /\ Running' = Running /\ Threads' = Threads /\ \A j : Mine(j)' = Mine(j)
      /\ Running \subseteq Threads
  BY Steady, StrideIs DEF TInv, MainOK
<1>2. Merged' = Merged /\ Iterating' = Iterating
  BY <1>1 DEF Merged, Iterating
<1>3. Hybrid' = Hybrid
  BY <1>2 DEF Hybrid
<1>4. ModelOK' /\ ModelCounts'
  BY <1>3, ModelKept DEF TInv, ModelCounts
<1>5. \A j \in Threads : thread'[j].diff = thread[j].diff
  OBVIOUS
<1>6. DiffsOK'
  BY <1>1, <1>5, DiffKept DEF TInv, DiffsOK
<1>7. ASSUME NEW j \in Threads, j # i PROVE ThreadOK(j)'
  BY <1>1, <1>7 DEF TInv, ThreadsOK, ThreadOK
<1>8. ThreadsOK'
  BY <1>1, <1>7 DEF ThreadsOK
<1>9. MainOK'
  <2>1. main.phase = "accumulate" => merge.diff \in Threads
    BY <1>1 DEF TInv, MainOK
  <2> QED  BY <1>1, <1>2, <1>5, <2>1 DEF TInv, MainOK
<1> QED  BY <1>4, <1>6, <1>8, <1>9 DEF TInv

\* Outside of sampling and aggregation, diffs are of no interest.
LEMMA MainGetsAhead ==
  ASSUME TInv, UNCHANGED <<program, topics>>,
         model'.word = model.word, model'.global = model.global, DOMAIN model' = DOMAIN model,
         ThreadsOK', main.phase \notin {"sample", "accumulate"} \/ program = "singlethread",
         main.phase # "accumulate",
         main' \in [phase : Phases \ {"sample", "accumulate"}, iter : Nat],
         Iterating' => Iterating /\ base' = base,
         main'.phase # "end" => saved' = Nil
  PROVE  TInv'
<1>1. Stride' = Stride /\ Running' = Running /\ Threads' = Threads /\ \A j : Mine(j)' = Mine(j)
  BY Steady
<1>2. Merged = Tokens /\ Merged' = Tokens
  BY DEF Merged, TInv, MainOK
<1>3. MainOK'
  BY DEF TInv, MainOK, Iterating
<1>4. Hybrid = topics /\ Hybrid' = topics
  <2>1. Hybrid = topics
    BY <1>2, HybridIs DEF TInv, HybridFacts
  <2>2. Hybrid' = topics'
    BY <1>2, <1>3, HybridNext DEF HybridFacts
  <2> QED  BY <2>1, <2>2
<1>5. ModelOK' /\ ModelCounts'
  BY <1>4, ModelKept DEF TInv, ModelCounts
<1>6. DiffsOK'
  BY DEF DiffsOK
<1> QED  BY <1>3, <1>5, <1>6 DEF TInv

LEMMA ThreadsStep ==
  ASSUME TInv, NEW i \in Running, StartThread(i) \/ EndDocument(i) \/ EndThread(i) \/ Evaluate(i)
  PROVE  TInv'
<1>0. i \in Threads /\ DOMAIN thread = Threads /\ ThreadOK(i) /\ DOMAIN thread[i] = Fields
      /\ i \in Nat /\ i < Stride /\ Stride \in Nat \ {0}
  BY StrideIs DEF TInv, ThreadsOK, ThreadOK, MainOK
<1>1. UNCHANGED <<program, topics, model, merge, main, saved, base>>
  BY DEF StartThread, EndDocument, EndThread, Evaluate
<1>2. Stride' = Stride /\ Running' = Running
  BY <1>1, Steady
<1> DEFINE started == [thread[i] EXCEPT !.pc = "sample", !.doc = i + 1,
                                        !.model = model, !.prior = model.prior]
           next == [thread[i] EXCEPT !.doc = thread[i].doc + Stride, !.pos = 1]
           done(c) == [thread[i] EXCEPT !.pc = c]
<1>3. PICK new :
        /\ thread' = [thread EXCEPT ![i] = new]
        /\ \/ new = started /\ thread[i].pc = "start"
           \/ new = next /\ thread[i].pc = "sample"
           \/ new = done("done") /\ main.phase = "sample"
           \/ new = done("evaluated") /\ main.phase = "evaluate"
  <2>1. CASE StartThread(i)
    BY <1>0, <2>1, ClonePrior DEF StartThread
  <2>2. CASE EndDocument(i)
    BY <1>0, <2>2 DEF EndDocument, NextDoc
  <2>3. CASE EndThread(i)
    <3>1. thread' = [thread EXCEPT ![i] = done("done")]
      BY <1>0, <2>3 DEF EndThread
    <3>2. main.phase = "sample"
      BY <1>0, <2>3 DEF EndThread, ThreadOK
    <3> QED  BY <3>1, <3>2
  <2>4. CASE Evaluate(i)
    BY <1>0, <2>4 DEF Evaluate
  <2> QED  BY <2>1, <2>2, <2>3, <2>4
<1>4. /\ DOMAIN thread' = Threads /\ thread'[i] = new
      /\ \A j \in Threads \ {i} : thread'[j] = thread[j]
  BY <1>0, <1>3
<1>5. ThreadOK(i)' /\ new.diff = thread[i].diff
  <2>1. CASE new = started /\ thread[i].pc = "start"
    <3>1. /\ DOMAIN new = Fields /\ new.pc = "sample" /\ new.doc = i + 1
          /\ new.pos = thread[i].pos /\ new.diff = thread[i].diff
      BY <1>0, <2>1 DEF Fields
    <3>2. main.phase = "sample"
      BY <1>0, <2>1 DEF ThreadOK
    <3>3. (new.doc - 1) % Stride = i /\ new.doc >= 1
      <4>1. new.doc - 1 = i /\ new.doc \in Nat
        BY <1>0, <3>1
      <4> QED  BY <1>0, <4>1, Remainder
    <3> QED  BY <1>0, <1>1, <1>2, <1>4, <3>1, <3>2, <3>3 DEF ThreadOK
  <2>2. CASE new = next /\ thread[i].pc = "sample"
    <3>1. /\ DOMAIN new = Fields /\ new.pc = thread[i].pc /\ new.doc = thread[i].doc + Stride
          /\ new.pos = 1 /\ new.diff = thread[i].diff
      BY <1>0, <2>2 DEF Fields
    <3>2. thread[i].doc \in Nat /\ thread[i].doc >= 1 /\ (thread[i].doc - 1) % Stride = i
      BY <1>0, <2>2 DEF ThreadOK
    <3>3. (new.doc - 1) % Stride = i /\ new.doc >= 1
      <4>1. new.doc - 1 = (thread[i].doc - 1) + Stride /\ thread[i].doc - 1 \in Nat
        BY <1>0, <3>1, <3>2
      <4>2. ((thread[i].doc - 1) + Stride) % Stride = (thread[i].doc - 1) % Stride
        BY <1>0, <4>1, Remainder
      <4> QED  BY <1>0, <3>1, <3>2, <4>1, <4>2
    <3> QED  BY <1>0, <1>1, <1>2, <1>4, <3>1, <3>2, <3>3 DEF ThreadOK
  <2>3. CASE \/ new = done("done") /\ main.phase = "sample"
             \/ new = done("evaluated") /\ main.phase = "evaluate"
    <3>1. /\ DOMAIN new = Fields /\ new.pc \in {"done", "evaluated"} /\ new.doc = thread[i].doc
          /\ new.pos = thread[i].pos /\ new.diff = thread[i].diff
      BY <1>0, <2>3 DEF Fields
    <3> QED  BY <1>0, <1>1, <1>2, <1>4, <2>3, <3>1 DEF ThreadOK
  <2> QED  BY <1>3, <2>1, <2>2, <2>3
<1> QED  BY <1>0, <1>1, <1>4, <1>5, OneThread

LEMMA DrawnAreTopics ==
  ASSUME topics \in Assignments, NEW v, NEW d, NEW p
  PROVE  Drawn(v, d, p) \subseteq Topics
BY DEF Drawn

\* A goroutine moves a token of its stripe, in its diff; the model waits.
LEMMA SampleInParallel ==
  ASSUME TInv, NEW i \in Running, SampleToken(i), program = "multithread"
  PROVE  TInv'
<1> DEFINE d == thread[i].doc
           p == thread[i].pos
           w == Corpus[d][p]
           k == <<d, p>>
           old == topics[d][p]
           moved(m, t) == Consider(Neglect(m, w, old), w, t)
<1>1. /\ i \in Threads /\ DOMAIN thread = Threads /\ ThreadOK(i) /\ DOMAIN thread[i] = Fields
      /\ topics \in Assignments /\ Stride \in Nat \ {0}
  BY StrideIs DEF TInv, ThreadsOK, ThreadOK, MainOK
<1>2. thread[i].pc = "sample" /\ d <= Len(Corpus) /\ p <= Len(Corpus[d])
      /\ UNCHANGED <<program, model, merge, stats, tally, main, signals, saved, base>>
  BY DEF SampleToken
<1>3. main.phase = "sample" /\ d \in Nat /\ d >= 1 /\ (d - 1) % Stride = i /\ p \in Nat \ {0}
  BY <1>1, <1>2 DEF ThreadOK
<1>4. d \in Docs /\ p \in Positions(d) /\ w \in Words /\ k \in Tokens
  <2>1. d \in Docs
    BY <1>2, <1>3, CorpusAssumption DEF Docs
  <2>2. p \in Positions(d)
    BY <1>2, <1>3, <2>1, CorpusIsTyped
  <2> QED  BY <2>1, <2>2, CorpusIsTyped, APair
<1>5. PICK t \in Topics :
        /\ topics' = Moved(topics, d, p, t)
        /\ thread' = [thread EXCEPT ![i].pos = p + 1,
                        ![i].model = moved(@, t), ![i].diff = moved(@, t)]
  BY <1>1, DrawnAreTopics DEF SampleToken, Moved
<1>6. topics' \in Assignments /\ old \in Topics
      /\ \A j \in Tokens : topics'[j[1]][j[2]] = IF j = k THEN t ELSE topics[j[1]][j[2]]
  <2>1. old \in Topics
    BY <1>1, <1>4, AssignmentIs
  <2> QED  BY <1>1, <1>4, <1>5, <2>1, OneMoves
<1>7. \A K \in SUBSET Tokens, u \in Topics :
        HowMany(topics', K, u) = IF k \in K THEN HowMany(topics, K, u) - Bit(u = old) + Bit(u = t)
                                 ELSE HowMany(topics, K, u)
  <2> SUFFICES ASSUME NEW K \in SUBSET Tokens, NEW u \in Topics
               PROVE  HowMany(topics', K, u) =
                        IF k \in K THEN HowMany(topics, K, u) - Bit(u = old) + Bit(u = t)
                        ELSE HowMany(topics, K, u)
    OBVIOUS
  <2>1. HowMany(Moved(topics, d, p, t), K, u) =
          IF <<d, p>> \in K
          THEN HowMany(topics, K, u) - (IF topics[d][p] = u THEN 1 ELSE 0) + (IF t = u THEN 1 ELSE 0)
          ELSE HowMany(topics, K, u)
    BY <1>1, <1>4, CountMoves
  <2> QED  BY <1>5, <2>1 DEF Bit
<1>8. DiffOK(i) /\ \A j \in Running : DiffOK(j)
  BY <1>3 DEF TInv, DiffsOK
<1> DEFINE new == [thread[i] EXCEPT !.pos = p + 1,
                       !.model = moved(@, t), !.diff = moved(@, t)]
           diff == moved(thread[i].diff, t)
<1>9. thread' = [thread EXCEPT ![i] = new]
  BY <1>1, <1>5
<1>10. DOMAIN new = Fields /\ new.pc = "sample" /\ new.doc = d /\ new.pos = p + 1 /\ new.diff = diff
  BY <1>1, <1>2 DEF Fields
<1>11. /\ IsModel(diff) /\ diff.word[w] # Nil
       /\ \A u \in Topics : At(WordTopicHist(diff, w), u)
                              = At(WordTopicHist(thread[i].diff, w), u) - Bit(u = old) + Bit(u = t)
       /\ \A v \in Words \ {w} : /\ diff.word[v] = thread[i].diff.word[v]
                                 /\ WordTopicHist(diff, v) = WordTopicHist(thread[i].diff, v)
  <2> DEFINE m == thread[i].diff
             n == Consider(Neglect(m, w, old), w, t)
  <2>1. IsModel(m)
    BY <1>8 DEF DiffOK
  <2>2. diff = n /\ w \in Words /\ old \in Topics /\ t \in Topics
    BY <1>4, <1>5, <1>6
  <2> HIDE DEF new, diff, moved, w, old, m, k, d, p
  <2>3. /\ IsModel(n) /\ n.word[w] # Nil
        /\ \A u \in Topics : At(WordTopicHist(n, w), u)
                               = At(WordTopicHist(m, w), u) - Bit(u = old) + Bit(u = t)
        /\ \A v \in Words \ {w} : /\ n.word[v] = m.word[v]
                                  /\ WordTopicHist(n, v) = WordTopicHist(m, v)
    <3>1. MovedIn(m, n, w, old, t)
      BY <2>1, <2>2, ModelMoves
    <3> QED  BY <3>1 DEF MovedIn
  <2> HIDE DEF n
  <2> QED  BY <2>2, <2>3 DEF m
<1> HIDE DEF new, diff, moved
<1>12. DOMAIN thread' = Threads /\ thread'[i] = new /\ \A j \in Threads \ {i} : thread'[j] = thread[j]
  BY <1>1, <1>9
<1>13. Stride' = Stride /\ Running' = Running /\ Threads' = Threads /\ \A j : Mine(j)' = Mine(j)
       /\ Running \subseteq Threads
  BY <1>2, Steady, StrideIs DEF TInv, MainOK
<1>14. ThreadsOK'
  <2>1. ThreadOK(i)'
    <3>1. thread'[i].pos \in Nat \ {0}
      BY <1>3, <1>10, <1>12
    <3> QED  BY <1>2, <1>3, <1>10, <1>12, <1>13, <3>1 DEF ThreadOK
  <2>2. ASSUME NEW j \in Threads \ {i} PROVE ThreadOK(j)'
    BY <1>2, <1>12, <1>13 DEF TInv, ThreadsOK, ThreadOK
  <2> QED  BY <1>12, <1>13, <2>1, <2>2 DEF ThreadsOK
<1>15. MainOK'
  BY <1>2, <1>3, <1>6 DEF TInv, MainOK, Iterating
<1>16. Hybrid = base.topics /\ Hybrid' = base.topics
  <2>1. Merged = {} /\ Merged' = {} /\ Iterating /\ Iterating'
    BY <1>2, <1>3 DEF Merged, Iterating
  <2> QED  BY <1>2, <1>15, <2>1, HybridIs, HybridNext DEF TInv, HybridFacts
<1>17. ModelOK' /\ ModelCounts'
  BY <1>2, <1>16, ModelKept DEF TInv, ModelCounts
<1>18. k \in Mine(i) /\ k \in OfWord(w) /\ \A j : Mine(j) \in SUBSET Tokens
       /\ \A l \in Running \ {i} : k \notin Mine(l)
  <2>1. k[1] = d /\ k[2] = p
    OBVIOUS
  <2> HIDE DEF k
  <2> QED  BY <1>3, <1>4, <2>1, MineIs, OfWordIs DEF TInv, MainOK
<1>19. DiffsOK'
  <2> HIDE DEF k, w, d, p
  <2>1. DiffOK(i)'
    <3>1. thread'[i].diff = diff
      BY <1>10, <1>12
    <3>2. ASSUME NEW v \in Words, NEW u \in Topics
          PROVE  At(WordTopicHist(diff, v), u)
                   = HowMany(topics', OfWord(v) \cap Mine(i), u)
                       - HowMany(base.topics, OfWord(v) \cap Mine(i), u)
      <4> DEFINE K == OfWord(v) \cap Mine(i)
      <4>1. K \in SUBSET Tokens /\ (k \in K <=> v = w)
        BY <1>4, <1>18, OfWordIs
      <4>2. At(WordTopicHist(thread[i].diff, v), u)
              = HowMany(topics, K, u) - HowMany(base.topics, K, u)
        BY <1>8 DEF DiffOK
      <4>3. HowMany(topics, K, u) \in Nat /\ HowMany(base.topics, K, u) \in Nat
        BY <4>1, HowManyType
      <4>4. HowMany(topics', K, u) = IF k \in K THEN HowMany(topics, K, u) - Bit(u = old) + Bit(u = t)
                                     ELSE HowMany(topics, K, u)
        BY <1>7, <4>1
      <4> HIDE DEF K
      <4>5. CASE v = w
        BY <1>11, <4>1, <4>2, <4>3, <4>4, <4>5 DEF K, Bit
      <4>6. CASE v # w
        BY <1>11, <4>1, <4>2, <4>3, <4>4, <4>6 DEF K
      <4> QED  BY <4>5, <4>6
    <3>3. ASSUME NEW v \in Words, diff.word[v] = Nil, NEW j \in OfWord(v) \cap Mine(i)
          PROVE  topics'[j[1]][j[2]] = base.topics[j[1]][j[2]]
      <4>1. v # w /\ thread[i].diff.word[v] = Nil
        BY <1>11, <3>3
      <4>2. j \in Tokens /\ j # k
        BY <1>4, <1>18, <4>1, OfWordIs
      <4>3. topics[j[1]][j[2]] = base.topics[j[1]][j[2]]
        BY <1>8, <4>1 DEF DiffOK
      <4> QED  BY <1>6, <4>2, <4>3
    <3>4. ASSUME NEW v \in Words, diff.word[v] # Nil PROVE OfWord(v) \cap Mine(i) # {}
      <4>1. CASE v = w
        BY <1>18, <4>1
      <4>2. CASE v # w
        BY <1>8, <1>11, <3>4, <4>2 DEF DiffOK
      <4> QED  BY <4>1, <4>2
    <3> QED  BY <1>2, <1>11, <1>13, <3>1, <3>2, <3>3, <3>4 DEF DiffOK
  <2>2. ASSUME NEW j \in Running, j # i PROVE DiffOK(j)'
    <3>1. thread'[j].diff = thread[j].diff
      BY <1>12, <1>13, <2>2
    <3>2. ASSUME NEW v \in Words, NEW u \in Topics
          PROVE  HowMany(topics', OfWord(v) \cap Mine(j), u) = HowMany(topics, OfWord(v) \cap Mine(j), u)
      <4>1. OfWord(v) \cap Mine(j) \in SUBSET Tokens /\ k \notin OfWord(v) \cap Mine(j)
        BY <1>18, <2>2
      <4> QED  BY <1>7, <4>1
    <3>3. \A l \in Mine(j) : topics'[l[1]][l[2]] = topics[l[1]][l[2]]
      BY <1>6, <1>18, <2>2
    <3> QED  BY <1>2, <1>8, <1>13, <3>1, <3>2, <3>3 DEF DiffOK
  <2> QED  BY <1>13, <2>1, <2>2 DEF DiffsOK
<1> QED  BY <1>14, <1>15, <1>17, <1>19 DEF TInv

\* The single thread moves a token in the model itself, whose entries stay positive
\* since the token that is taken away has been counted.
LEMMA SampleInPlace ==
  ASSUME TInv, NEW i \in Running, SampleToken(i), program = "singlethread"
  PROVE  TInv'
<1> DEFINE d == thread[i].doc
           p == thread[i].pos
           w == Corpus[d][p]
           k == <<d, p>>
           old == topics[d][p]
           moved(t) == Consider(Neglect(model, w, old), w, t)
<1>1. /\ i \in Threads /\ DOMAIN thread = Threads /\ ThreadOK(i) /\ DOMAIN thread[i] = Fields
      /\ topics \in Assignments /\ Stride \in Nat \ {0}
  BY StrideIs DEF TInv, ThreadsOK, ThreadOK, MainOK
<1>2. thread[i].pc = "sample" /\ d <= Len(Corpus) /\ p <= Len(Corpus[d])
      /\ UNCHANGED <<program, merge, stats, tally, main, signals, saved, base>>
  BY DEF SampleToken
<1>3. main.phase = "sample" /\ d \in Nat /\ d >= 1 /\ (d - 1) % Stride = i /\ p \in Nat \ {0}
  BY <1>1, <1>2 DEF ThreadOK
<1>4. d \in Docs /\ p \in Positions(d) /\ w \in Words /\ k \in Tokens
  <2>1. d \in Docs
    BY <1>2, <1>3, CorpusAssumption DEF Docs
  <2>2. p \in Positions(d)
    BY <1>2, <1>3, <2>1, CorpusIsTyped
  <2> QED  BY <2>1, <2>2, CorpusIsTyped, APair
<1>5. PICK t \in Topics :
        /\ topics' = Moved(topics, d, p, t)
        /\ model' = moved(t)
        /\ thread' = [thread EXCEPT ![i].pos = p + 1]
  BY <1>1, DrawnAreTopics DEF SampleToken, Moved
<1>6. topics' \in Assignments /\ old \in Topics
      /\ \A j \in Tokens : topics'[j[1]][j[2]] = IF j = k THEN t ELSE topics[j[1]][j[2]]
  <2>1. old \in Topics
    BY <1>1, <1>4, AssignmentIs
  <2> QED  BY <1>1, <1>4, <1>5, <2>1, OneMoves
<1>7. \A K \in SUBSET Tokens, u \in Topics :
        HowMany(topics', K, u) = IF k \in K THEN HowMany(topics, K, u) - Bit(u = old) + Bit(u = t)
                                 ELSE HowMany(topics, K, u)
  <2> SUFFICES ASSUME NEW K \in SUBSET Tokens, NEW u \in Topics
               PROVE  HowMany(topics', K, u) =
                        IF k \in K THEN HowMany(topics, K, u) - Bit(u = old) + Bit(u = t)
                        ELSE HowMany(topics, K, u)
    OBVIOUS
  <2>1. HowMany(Moved(topics, d, p, t), K, u) =
          IF <<d, p>> \in K
          THEN HowMany(topics, K, u) - (IF topics[d][p] = u THEN 1 ELSE 0) + (IF t = u THEN 1 ELSE 0)
          ELSE HowMany(topics, K, u)
    BY <1>1, <1>4, <1>5, CountMoves
  <2> QED  BY <1>5, <2>1 DEF Bit
<1> DEFINE new == [thread[i] EXCEPT !.pos = p + 1]
<1>8. thread' = [thread EXCEPT ![i] = new]
  BY <1>1, <1>5
<1>9. DOMAIN new = Fields /\ new.pc = "sample" /\ new.doc = d /\ new.pos = p + 1
  BY <1>1, <1>2 DEF Fields
<1> HIDE DEF new
<1>10. Stride' = Stride /\ Running' = Running /\ Threads' = Threads /\ \A j : Mine(j)' = Mine(j)
       /\ Running \subseteq Threads
  BY <1>2, Steady, StrideIs DEF TInv, MainOK
<1>11. ThreadsOK'
  <2>1. DOMAIN thread' = Threads /\ thread'[i] = new /\ \A j \in Threads \ {i} : thread'[j] = thread[j]
    BY <1>1, <1>8
  <2>2. ThreadOK(i)'
    <3>1. thread'[i].pos \in Nat \ {0}
      BY <1>3, <1>9, <2>1
    <3> QED  BY <1>2, <1>3, <1>9, <1>10, <2>1, <3>1 DEF ThreadOK
  <2>3. ASSUME NEW j \in Threads \ {i} PROVE ThreadOK(j)'
    BY <1>2, <1>10, <2>1 DEF TInv, ThreadsOK, ThreadOK
  <2> QED  BY <1>10, <2>1, <2>2, <2>3 DEF ThreadsOK
<1>12. MainOK'
  BY <1>2, <1>3, <1>6 DEF TInv, MainOK, Iterating
<1>13. Hybrid = topics /\ Hybrid' = topics'
  <2>1. Merged = Tokens /\ Merged' = Tokens
    BY <1>2, <1>3 DEF Merged
  <2> QED  BY <1>12, <2>1, HybridIs, HybridNext DEF TInv, HybridFacts
<1>14. /\ IsModel(model) /\ model.global \in [Topics -> Int]
       /\ model.global = [u \in Topics |-> HowMany(topics, Tokens, u)]
       /\ \A v \in Words, u \in Topics :
            At(WordTopicHist(model, v), u) = HowMany(topics, OfWord(v), u)
       /\ \A v \in Words : model.word[v] = Nil => OfWord(v) = {}
       /\ \A v \in Words : model.word[v] # Nil => Positive(model.word[v])
  <2>1. Counts(model) = CountsOf(topics)
    BY <1>13 DEF TInv, ModelCounts
  <2> QED  BY <2>1, CountsAre DEF TInv, ModelOK, EntriesArePositive, Positive
<1>15. k \in OfWord(w) /\ topics[k[1]][k[2]] = old
  <2>1. k[1] = d /\ k[2] = p
    OBVIOUS
  <2> HIDE DEF k
  <2> QED  BY <1>4, <2>1, OfWordIs
<1>16. model.word[w] # Nil /\ WordTopicHist(model, w) = model.word[w]
       /\ At(WordTopicHist(model, w), old) > 0
  <2>1. model.word[w] # Nil
    BY <1>4, <1>14, <1>15
  <2>2. HowMany(topics, OfWord(w), old) \in Nat /\ HowMany(topics, OfWord(w), old) # 0
    <3> HIDE DEF w, old, k
    <3>1. OfWord(w) \in SUBSET Tokens
      BY OfWordIs
    <3> QED  BY <1>15, <3>1, HowManyType
  <2> QED  BY <1>4, <1>6, <1>14, <2>1, <2>2, WordHistIs
<1>17. /\ IsModel(model') /\ model'.word[w] # Nil
       /\ \A u \in Topics : At(WordTopicHist(model', w), u)
                              = At(WordTopicHist(model, w), u) - Bit(u = old) + Bit(u = t)
       /\ \A v \in Words \ {w} : /\ model'.word[v] = model.word[v]
                                 /\ WordTopicHist(model', v) = WordTopicHist(model, v)
       /\ Positive(model'.word[w])
       /\ model'.global = [u \in Topics |-> model.global[u] - Bit(u = old) + Bit(u = t)]
  <2> DEFINE m == model
             n == Consider(Neglect(m, w, old), w, t)
  <2>1. IsModel(m) /\ m.global \in [Topics -> Int]
        /\ Positive(WordTopicHist(m, w)) /\ At(WordTopicHist(m, w), old) > 0
    BY <1>4, <1>14, <1>16
  <2>2. model' = n /\ w \in Words /\ old \in Topics /\ t \in Topics
    BY <1>4, <1>5, <1>6
  <2> HIDE DEF w, old, m
  <2>3. /\ IsModel(n) /\ n.word[w] # Nil
        /\ \A u \in Topics : At(WordTopicHist(n, w), u)
                               = At(WordTopicHist(m, w), u) - Bit(u = old) + Bit(u = t)
        /\ \A v \in Words \ {w} : /\ n.word[v] = m.word[v]
                                  /\ WordTopicHist(n, v) = WordTopicHist(m, v)
        /\ Positive(n.word[w])
        /\ n.global = [u \in Topics |-> m.global[u] - Bit(u = old) + Bit(u = t)]
    BY <2>1, <2>2, ModelMoves DEF MovedIn
  <2> HIDE DEF n
  <2> QED  BY <2>2, <2>3 DEF m
<1> HIDE DEF moved, w, old, k, d, p
<1>18. ModelOK'
  <2>1. model'.global \in [Topics -> Int]
    BY <1>14, <1>17 DEF Bit
  <2>2. \A v \in Words : model'.word[v] # Nil => Positive(model'.word[v])
    BY <1>14, <1>17
  <2>3. EntriesArePositive'
    BY <2>2 DEF EntriesArePositive, Positive
  <2>4. \A v \in Words : model'.word[v] = Nil => OfWord(v) = {}
    BY <1>14, <1>17
  <2> QED  BY <1>17, <2>1, <2>3, <2>4 DEF ModelOK
<1>19. ModelCounts'
  <2>1. ASSUME NEW v \in Words, NEW u \in Topics
        PROVE  At(WordTopicHist(model', v), u) = HowMany(topics', OfWord(v), u)
    <3>1. OfWord(v) \in SUBSET Tokens /\ (k \in OfWord(v) <=> v = w)
      BY <1>4, <1>15, OfWordIs
    <3>2. At(WordTopicHist(model, v), u) = HowMany(topics, OfWord(v), u)
      BY <1>14
    <3> QED  BY <1>7, <1>17, <3>1, <3>2
  <2>2. model'.global = [u \in Topics |-> HowMany(topics', Tokens, u)]
    <3>1. \A u \in Topics : HowMany(topics', Tokens, u) = model.global[u] - Bit(u = old) + Bit(u = t)
      BY <1>4, <1>7, <1>14
    <3> QED  BY <1>17, <3>1
  <2>3. Counts(model') = CountsOf(topics')
    BY <2>1, <2>2, CountsAre
  <2> QED  BY <1>13, <2>3 DEF ModelCounts
<1>20. DiffsOK'
  BY <1>2 DEF DiffsOK
<1> QED  BY <1>11, <1>12, <1>18, <1>19, <1>20 DEF TInv

\* Models count the same when tokens have the same topics.
LEMMA SameCounts ==
  ASSUME NEW m, NEW f, NEW g, Counts(m) = CountsOf(f),
         \A k \in Tokens : f[k[1]][k[2]] = g[k[1]][k[2]]
  PROVE  Counts(m) = CountsOf(g)
<1>1. \A K \in SUBSET Tokens : \A t : HowMany(f, K, t) = HowMany(g, K, t)
  BY HowManySame
<1>2. \A w : OfWord(w) \in SUBSET Tokens
  BY OfWordIs
<1>3. /\ m.global = [t \in Topics |-> HowMany(f, Tokens, t)]
      /\ \A w \in Words, t \in Topics : At(WordTopicHist(m, w), t) = HowMany(f, OfWord(w), t)
  BY CountsAre
<1>4. /\ m.global = [t \in Topics |-> HowMany(g, Tokens, t)]
      /\ \A w \in Words, t \in Topics : At(WordTopicHist(m, w), t) = HowMany(g, OfWord(w), t)
  BY <1>1, <1>2, <1>3
<1> QED  BY <1>4, CountsAre

\* The topics of the tokens are put down, and diffs are empty.
LEMMA BeginIterationTInv == ASSUME TInv, BeginIteration PROVE TInv'
<1>1. /\ main.phase = "head" /\ UNCHANGED <<program, topics, model, merge, signals, saved>>
      /\ main' = [main EXCEPT !.phase = "sample"]
      /\ base' = [topics |-> topics, counts |-> Counts(model)]
      /\ thread' = [i \in Threads |->
           IF i \notin Running THEN thread[i]
           ELSE IF program = "multithread" THEN [Idle EXCEPT !.pc = "start", !.diff = NewModel]
           ELSE [thread[i] EXCEPT !.pc = "sample", !.doc = 1]]
  BY DEF BeginIteration
<1>2. /\ Stride' = Stride /\ Running' = Running /\ Threads' = Threads /\ \A j : Mine(j)' = Mine(j)
      /\ Running \subseteq Threads /\ Stride \in Nat \ {0} /\ Running = 0 .. Stride - 1
      /\ program = "singlethread" => Stride = 1
      /\ program \in {"multithread", "singlethread"}
  BY <1>1, Steady, StrideIs DEF TInv, MainOK
<1>3. main'.phase = "sample" /\ main' \in [phase : Phases, iter : Nat] /\ Iterating'
  BY <1>1 DEF TInv, MainOK, Iterating, Phases
<1>4. Merged = Tokens /\ Hybrid = topics
  <2>1. Merged = Tokens
    BY <1>1 DEF Merged
  <2> QED  BY <2>1, HybridIs DEF TInv, HybridFacts
<1>5. Counts(model) = CountsOf(topics)
  BY <1>4 DEF TInv, ModelCounts
<1>6. base'.topics = topics /\ base'.counts = CountsOf(topics)
  BY <1>1, <1>5
<1>7. MainOK'
  <2>1. saved' = Nil
    BY <1>1 DEF TInv, MainOK
  <2> QED  BY <1>1, <1>2, <1>3, <1>6, <2>1 DEF TInv, MainOK
<1>8. Hybrid' = topics
  <2>1. CASE program = "multithread"
    <3>1. Merged' = {}
      BY <1>1, <1>3, <2>1 DEF Merged
    <3> QED  BY <1>3, <1>6, <1>7, <3>1, HybridNext DEF HybridFacts
  <2>2. CASE program = "singlethread"
    <3>1. Merged' = Tokens
      BY <1>1, <1>3, <2>2 DEF Merged
    <3> QED  BY <1>1, <1>7, <3>1, HybridNext DEF HybridFacts
  <2> QED  BY <1>2, <2>1, <2>2
<1>9. ModelOK' /\ ModelCounts'
  BY <1>1, <1>5, <1>8, ModelKept DEF TInv, ModelCounts
<1> DEFINE empty == [Idle EXCEPT !.pc = "start", !.diff = NewModel]
<1>10. /\ DOMAIN empty = Fields /\ empty.pc = "start" /\ empty.doc = 0 /\ empty.pos = 1
       /\ empty.diff = NewModel
  BY DEF Idle, Fields
<1> HIDE DEF empty
<1>11. ThreadsOK'
  <2>1. DOMAIN thread' = Threads
    BY <1>1
  <2>2. ASSUME NEW i \in Threads PROVE ThreadOK(i)'
    <3>0. ThreadOK(i)
      BY DEF TInv, ThreadsOK
    <3>1. CASE i \notin Running
      <4>1. thread'[i] = thread[i]
        BY <1>1, <3>1
      <4> QED  BY <1>2, <3>0, <3>1, <4>1 DEF ThreadOK
    <3>2. CASE i \in Running /\ program = "multithread"
      <4>1. thread'[i] = empty
        BY <1>1, <3>2 DEF empty
      <4> QED  BY <1>2, <1>3, <1>10, <4>1 DEF ThreadOK
    <3>3. CASE i \in Running /\ program = "singlethread"
      <4> DEFINE new == [thread[i] EXCEPT !.pc = "sample", !.doc = 1]
      <4>1. thread'[i] = new
        BY <1>1, <3>3
      <4>2. DOMAIN new = Fields /\ new.pc = "sample" /\ new.doc = 1 /\ new.pos = thread[i].pos
        BY <3>0 DEF ThreadOK, Fields
      <4>3. i = 0 /\ 0 % Stride = 0
        BY <1>2, <3>3, Remainder
      <4> HIDE DEF new
      <4>4. (new.doc - 1) % Stride = i
        BY <4>2, <4>3
      <4>5. thread[i].pos \in Nat \ {0}
        BY <3>0 DEF ThreadOK
      <4> QED  BY <1>2, <1>3, <4>1, <4>2, <4>4, <4>5 DEF ThreadOK
    <3> QED  BY <1>2, <3>1, <3>2, <3>3
  <2> QED  BY <1>2, <2>1, <2>2 DEF ThreadsOK
<1>12. DiffsOK'
  <2>1. /\ IsModel(NewModel) /\ \A w \in Words : NewModel.word[w] = Nil
        /\ \A w \in Words, t \in Topics : At(WordTopicHist(NewModel, w), t) = 0
    BY SparseIs DEF NewModel, IsModel, WordTopicHist
  <2> SUFFICES ASSUME program = "multithread", NEW i \in Running PROVE DiffOK(i)'
    BY <1>1, <1>2 DEF DiffsOK
  <2>2. thread'[i].diff = NewModel
    BY <1>1, <1>2, <1>10 DEF empty
  <2>3. ASSUME NEW w \in Words, NEW t \in Topics
        PROVE  HowMany(topics', OfWord(w) \cap Mine(i), t)
                 - HowMany(base'.topics, OfWord(w) \cap Mine(i), t) = 0
    <3>1. OfWord(w) \cap Mine(i) \in SUBSET Tokens
      BY OfWordIs
    <3>2. HowMany(topics, OfWord(w) \cap Mine(i), t) \in Nat
      BY <3>1, HowManyType
    <3> QED  BY <1>1, <1>6, <3>2
  <2> QED  BY <1>1, <1>2, <1>6, <2>1, <2>2, <2>3 DEF DiffOK
<1> QED  BY <1>7, <1>9, <1>11, <1>12 DEF TInv

\* Tokens that have kept their topic may be taken for merged.
LEMMA MergingGoesOn ==
  ASSUME TInv, program = "multithread", Iterating, UNCHANGED <<program, topics, model, thread, base>>,
         MainOK', ThreadsOK', Merged \subseteq Merged',
         \A k \in Merged' \ Merged : topics[k[1]][k[2]] = base.topics[k[1]][k[2]],
         Iterating', main'.phase \in {"sample", "accumulate"} => main.phase \in {"sample", "accumulate"}
  PROVE  TInv'
<1>1. Running' = Running
  BY Steady
<1>2. DiffsOK'
  BY <1>1, DiffKept DEF TInv, DiffsOK
<1>3. ASSUME NEW k \in Tokens PROVE Hybrid[k[1]][k[2]] = Hybrid'[k[1]][k[2]]
  <2>1. Hybrid[k[1]][k[2]] = IF k \in Merged THEN topics[k[1]][k[2]] ELSE base.topics[k[1]][k[2]]
    BY HybridIs DEF TInv, HybridFacts
  <2>2. Hybrid'[k[1]][k[2]] = IF k \in Merged' THEN topics[k[1]][k[2]] ELSE base.topics[k[1]][k[2]]
    BY HybridNext DEF HybridFacts
  <2> QED  BY <2>1, <2>2
<1>4. Counts(model) = CountsOf(Hybrid')
  BY <1>3, SameCounts DEF TInv, ModelCounts
<1>5. ModelOK' /\ ModelCounts'
  BY <1>4, ModelKept DEF TInv, ModelCounts
<1> QED  BY <1>2, <1>5 DEF TInv

\* Tokens of a stripe whose word is not in the diff have their old topics.
LEMMA NotInDiff ==
  ASSUME TInv, program = "multithread", main.phase \in {"sample", "accumulate"}, NEW i \in Running,
         NEW k \in Mine(i), Corpus[k[1]][k[2]] \notin Sharded(i)
  PROVE  topics[k[1]][k[2]] = base.topics[k[1]][k[2]]
<1> DEFINE w == Corpus[k[1]][k[2]]
<1>1. k \in Tokens
  BY MineIs DEF TInv, MainOK
<1>2. w \in Words /\ k \in OfWord(w)
  BY <1>1, Token, OfWordIs
<1>3. thread[i].diff.word[w] = Nil
  BY <1>2, ShardedIs
<1>4. DiffOK(i)
  BY DEF TInv, DiffsOK
<1> HIDE DEF w
<1> QED  BY <1>2, <1>3, <1>4 DEF DiffOK

LEMMA JoinThreadsTInv == ASSUME TInv, JoinThreads PROVE TInv'
<1>1. /\ main.phase = "sample" /\ \A i \in Running : thread[i].pc = "done"
      /\ UNCHANGED <<program, topics, model, thread, stats, tally, signals, saved, base>>
      /\ program \in {"multithread", "singlethread"} /\ Iterating
  BY DEF JoinThreads, TInv, MainOK, Iterating
<1>2. Stride' = Stride /\ Running' = Running /\ Threads' = Threads /\ Running \subseteq Threads
      /\ Stride \in Nat \ {0} /\ Running = 0 .. Stride - 1
  BY <1>1, Steady, StrideIs
<1>3. CASE program = "multithread"
  <2>1. /\ merge' = [diff |-> 0, todo |-> Sharded(0)]
        /\ main' = [main EXCEPT !.phase = "accumulate"]
    BY <1>3 DEF JoinThreads
  <2>2. main'.phase = "accumulate" /\ main' \in [phase : Phases, iter : Nat] /\ Iterating'
    BY <2>1 DEF TInv, MainOK, Phases, Iterating
  <2>3. ThreadsOK'
    BY <1>1, <1>2, <2>2 DEF TInv, ThreadsOK, ThreadOK
  <2>4. merge'.diff = 0 /\ merge'.todo = Sharded(0) /\ 0 \in Running
    BY <1>2, <2>1
  <2>5. MainOK'
    BY <1>1, <1>2, <1>3, <2>2, <2>4, ShardedIs DEF TInv, MainOK
  <2>6. Merged = {}
    BY <1>1, <1>3 DEF Merged
  <2>7. ASSUME NEW k \in Merged' PROVE topics[k[1]][k[2]] = base.topics[k[1]][k[2]]
    <3>1. /\ k \in Tokens
          /\ \/ (k[1] - 1) % Stride < 0
             \/ (k[1] - 1) % Stride = 0 /\ Corpus[k[1]][k[2]] \notin Sharded(0)
      BY <1>1, <1>2, <1>3, <2>2, <2>4, <2>7 DEF Merged
    <3>2. (k[1] - 1) % Stride \in Running
      BY <1>1, <3>1, MineIs
    <3>3. k \in Mine(0) /\ Corpus[k[1]][k[2]] \notin Sharded(0)
      BY <1>1, <1>2, <3>1, <3>2, MineIs
    <3> QED  BY <1>1, <1>3, <2>4, <3>3, NotInDiff
  <2> QED  BY <1>1, <1>3, <2>2, <2>3, <2>5, <2>6, <2>7, MergingGoesOn
<1>4. CASE program = "singlethread"
  <2>1. main' = [main EXCEPT !.phase = "optimize"]
    BY <1>4 DEF JoinThreads
  <2>2. main'.phase = "optimize" /\ main' \in [phase : Phases \ {"sample", "accumulate"}, iter : Nat]
    BY <2>1 DEF TInv, MainOK, Phases
  <2>3. ThreadsOK'
    BY <1>1, <1>2, <2>2 DEF TInv, ThreadsOK, ThreadOK
  <2>4. saved' = Nil
    BY <1>1 DEF TInv, MainOK
  <2> QED  BY <1>1, <1>4, <2>2, <2>3, <2>4, MainGetsAhead
<1> QED  BY <1>1, <1>3, <1>4

LEMMA NextDiffTInv == ASSUME TInv, NextDiff PROVE TInv'
<1>1. /\ main.phase = "accumulate" /\ merge.todo = {} /\ program = "multithread" /\ Iterating
      /\ UNCHANGED <<program, topics, model, thread, stats, tally, signals, saved, base>>
  BY DEF NextDiff, TInv, MainOK, Iterating
<1>2. /\ Stride' = Stride /\ Running' = Running /\ Threads' = Threads /\ Running \subseteq Threads
      /\ Stride \in Nat \ {0} /\ Running = 0 .. Stride - 1 /\ Stride = Shards
      /\ \A k \in Tokens : (k[1] - 1) % Stride \in Running
  BY <1>1, Steady, StrideIs, MineIs
<1>3. merge.diff \in Running
  BY <1>1 DEF TInv, MainOK
<1>4. Merged = {k \in Tokens : (k[1] - 1) % Stride <= merge.diff}
  BY <1>1, <1>2, <1>3 DEF Merged
<1>5. CASE merge.diff + 1 < Shards
  <2> DEFINE i == merge.diff + 1
  <2>1. merge' = [diff |-> i, todo |-> Sharded(i)] /\ main' = main
    BY <1>5 DEF NextDiff
  <2>2. Iterating' /\ main'.phase = "accumulate"
    BY <1>1, <2>1 DEF Iterating
  <2>3. ThreadsOK'
    BY <1>1, <1>2, <2>1 DEF TInv, ThreadsOK, ThreadOK
  <2>4. i \in Running
    BY <1>2, <1>3, <1>5
  <2> HIDE DEF i
  <2>5. MainOK'
    BY <1>1, <1>2, <2>1, <2>2, <2>4, ShardedIs DEF TInv, MainOK
  <2>6. Merged' = {k \in Tokens : \/ (k[1] - 1) % Stride < i
                                  \/ (k[1] - 1) % Stride = i /\ Corpus[k[1]][k[2]] \notin Sharded(i)}
    BY <1>1, <1>2, <2>1, <2>2 DEF Merged
  <2>7. Merged \subseteq Merged'
    <3>1. \A k \in Tokens : (k[1] - 1) % Stride <= merge.diff => (k[1] - 1) % Stride < i
      BY <1>2, <1>3 DEF i
    <3> QED  BY <1>4, <2>6, <3>1
  <2>8. ASSUME NEW k \in Merged' \ Merged PROVE topics[k[1]][k[2]] = base.topics[k[1]][k[2]]
    <3>1. k \in Tokens /\ (k[1] - 1) % Stride = i /\ Corpus[k[1]][k[2]] \notin Sharded(i)
      <4>1. k \in Tokens /\ ~ ((k[1] - 1) % Stride <= merge.diff)
        BY <1>4, <2>6, <2>8
      <4>2. ~ ((k[1] - 1) % Stride < i)
        BY <1>2, <1>3, <4>1 DEF i
      <4> QED  BY <2>6, <2>8, <4>1, <4>2
    <3>2. k \in Mine(i)
      BY <1>1, <3>1, MineIs
    <3> QED  BY <1>1, <2>4, <3>1, <3>2, NotInDiff
  <2> QED  BY <1>1, <2>2, <2>3, <2>5, <2>7, <2>8, MergingGoesOn
<1>6. CASE ~ (merge.diff + 1 < Shards)
  <2>1. main' = [main EXCEPT !.phase = "optimize"]
    BY <1>6 DEF NextDiff
  <2>2. main'.phase = "optimize" /\ main' \in [phase : Phases, iter : Nat] /\ Iterating'
    BY <2>1 DEF TInv, MainOK, Phases, Iterating
  <2>3. ThreadsOK'
    BY <1>1, <1>2, <2>2 DEF TInv, ThreadsOK, ThreadOK
  <2>4. MainOK'
    BY <1>1, <2>2 DEF TInv, MainOK, Iterating
  <2>5. Merged = Tokens /\ Merged' = Tokens
    <3>1. \A k \in Tokens : (k[1] - 1) % Stride <= merge.diff
      BY <1>2, <1>3, <1>6
    <3> QED  BY <1>4, <2>2, <3>1 DEF Merged
  <2> QED  BY <1>1, <2>2, <2>3, <2>4, <2>5, MergingGoesOn
<1> QED  BY <1>5, <1>6

\* The histogram of a word in a diff comes to the model, and with it the topics that
\* the tokens of the word have in that stripe.
LEMMA AccumulateTInv == ASSUME TInv, Accumulate PROVE TInv'
<1>1. PICK w \in merge.todo :
        /\ model' = AccumulateWord(model, w, thread[merge.diff].diff.word[w])
        /\ merge' = [merge EXCEPT !.todo = @ \ {w}]
  BY DEF Accumulate
<1> DEFINE i == merge.diff
           h == thread[i].diff.word[w]
           K == OfWord(w) \cap Mine(i)
<1>2. /\ main.phase = "accumulate" /\ program = "multithread" /\ Iterating /\ i \in Running
      /\ UNCHANGED <<program, topics, thread, stats, tally, main, signals, saved, base>>
      /\ w \in Words /\ h # Nil
  BY DEF Accumulate, TInv, MainOK, Iterating
<1>3. /\ Stride' = Stride /\ Running' = Running /\ Threads' = Threads
      /\ Running \subseteq Threads
  BY <1>2, Steady, StrideIs
<1>4. DiffOK(i)
  BY <1>2 DEF TInv, DiffsOK
<1>5. /\ IsSparse(h) /\ K # {}
      /\ \A u \in Topics : At(h, u) = HowMany(topics, K, u) - HowMany(base.topics, K, u)
  <2>1. WordTopicHist(thread[i].diff, w) = h
    BY <1>2 DEF WordTopicHist
  <2> QED  BY <1>2, <1>4, <2>1 DEF DiffOK, IsModel
<1> HIDE DEF h
<1>6. model.word[w] # Nil
  BY <1>2, <1>5 DEF TInv, ModelOK
<1>7. /\ IsModel(model) /\ model.global \in [Topics -> Int]
      /\ \A v \in Words : model.word[v] # Nil => Positive(model.word[v])
      /\ \A v \in Words : model.word[v] = Nil => OfWord(v) = {}
  BY DEF TInv, ModelOK, EntriesArePositive, Positive
<1>8. /\ model.global = [u \in Topics |-> HowMany(Hybrid, Tokens, u)]
      /\ \A v \in Words, u \in Topics :
           At(WordTopicHist(model, v), u) = HowMany(Hybrid, OfWord(v), u)
  BY CountsAre DEF TInv, ModelCounts
<1>9. model' = AccumulateWord(model, w, h)
  BY <1>1 DEF h
<1>10. K \in SUBSET Tokens
       /\ \A k \in Tokens : k \in K <=> (k[1] - 1) % Stride = i /\ Corpus[k[1]][k[2]] = w
  BY <1>2, MineIs, OfWordIs
<1> HIDE DEF K
<1>11. MainOK'
  <2>1. merge'.diff = merge.diff /\ merge'.todo \subseteq merge.todo
    <3>1. merge.todo = merge.todo /\ merge' = [merge EXCEPT !.todo = merge.todo \ {w}]
      BY <1>1
    <3> QED  BY <3>1
  <2> QED  BY <1>2, <1>3, <2>1 DEF TInv, MainOK, Iterating
<1>12. Merged' = Merged \cup K /\ Merged \cap K = {} /\ Merged \subseteq Tokens
  <2>1. merge'.diff = i /\ merge'.todo = merge.todo \ {w} /\ w \in merge.todo
    BY <1>1
  <2>2. Merged' = {k \in Tokens : \/ (k[1] - 1) % Stride < i
                                  \/ (k[1] - 1) % Stride = i /\ Corpus[k[1]][k[2]] \notin merge.todo \ {w}}
    BY <1>2, <1>3, <2>1 DEF Merged
  <2>3. Merged = {k \in Tokens : \/ (k[1] - 1) % Stride < i
                                 \/ (k[1] - 1) % Stride = i /\ Corpus[k[1]][k[2]] \notin merge.todo}
    BY <1>2 DEF Merged
  <2>4. i \in Int /\ \A k \in Tokens : (k[1] - 1) % Stride \in Int
    BY <1>2, MineIs, StrideIs DEF TInv, MainOK
  <2>5. Merged \cap K = {} /\ Merged \subseteq Tokens
    BY <1>10, <2>1, <2>3, <2>4
  <2> HIDE DEF i
  <2>6. Merged' = Merged \cup K
    BY <1>10, <2>1, <2>2, <2>3, <2>4
  <2> QED  BY <2>5, <2>6
<1>13. \A k \in Tokens :
         /\ k \in K => Hybrid'[k[1]][k[2]] = topics[k[1]][k[2]] /\ Hybrid[k[1]][k[2]] = base.topics[k[1]][k[2]]
         /\ k \notin K => Hybrid'[k[1]][k[2]] = Hybrid[k[1]][k[2]]
  <2> SUFFICES ASSUME NEW k \in Tokens
               PROVE  /\ k \in K => /\ Hybrid'[k[1]][k[2]] = topics[k[1]][k[2]]
                                     /\ Hybrid[k[1]][k[2]] = base.topics[k[1]][k[2]]
                      /\ k \notin K => Hybrid'[k[1]][k[2]] = Hybrid[k[1]][k[2]]
    OBVIOUS
  <2>1. Hybrid[k[1]][k[2]] = IF k \in Merged THEN topics[k[1]][k[2]] ELSE base.topics[k[1]][k[2]]
    BY HybridIs DEF TInv, HybridFacts
  <2>2. Hybrid'[k[1]][k[2]] = IF k \in Merged' THEN topics[k[1]][k[2]] ELSE base.topics[k[1]][k[2]]
    BY <1>2, <1>11, HybridNext DEF HybridFacts
  <2> QED  BY <1>12, <2>1, <2>2
<1>14. ASSUME NEW S \in SUBSET Tokens, NEW u \in Topics
       PROVE  /\ HowMany(Hybrid', S, u) \in Nat /\ HowMany(Hybrid, S, u) \in Nat
              /\ K \subseteq S => HowMany(Hybrid', S, u) = HowMany(Hybrid, S, u) + At(h, u)
              /\ K \cap S = {} => HowMany(Hybrid', S, u) = HowMany(Hybrid, S, u)
  <2>1. HowMany(Hybrid', S, u) \in Nat /\ HowMany(Hybrid, S, u) \in Nat
    BY HowManyType
  <2>2. ASSUME K \cap S = {} PROVE HowMany(Hybrid', S, u) = HowMany(Hybrid, S, u)
    <3>1. \A k \in S : Hybrid'[k[1]][k[2]] = Hybrid[k[1]][k[2]]
      BY <1>13, <2>2
    <3> QED  BY <3>1, HowManySame
  <2>3. ASSUME K \subseteq S PROVE HowMany(Hybrid', S, u) = HowMany(Hybrid, S, u) + At(h, u)
    <3>0. S \cap K = K /\ S \ K \in SUBSET Tokens
      BY <2>3
    <3>1. /\ HowMany(Hybrid', S, u) = HowMany(Hybrid', K, u) + HowMany(Hybrid', S \ K, u)
          /\ HowMany(Hybrid, S, u) = HowMany(Hybrid, K, u) + HowMany(Hybrid, S \ K, u)
      BY <2>3, HowManyWithin
    <3>2. HowMany(Hybrid', S \ K, u) = HowMany(Hybrid, S \ K, u)
      <4>1. \A k \in S \ K : Hybrid'[k[1]][k[2]] = Hybrid[k[1]][k[2]]
        BY <1>13
      <4> QED  BY <3>0, <4>1, HowManySame
    <3>3. HowMany(Hybrid', K, u) = HowMany(topics, K, u)
      <4>1. \A k \in K : Hybrid'[k[1]][k[2]] = topics[k[1]][k[2]]
        BY <1>10, <1>13
      <4> QED  BY <1>10, <4>1, HowManySame
    <3>4. HowMany(Hybrid, K, u) = HowMany(base.topics, K, u)
      <4>1. \A k \in K : Hybrid[k[1]][k[2]] = base.topics[k[1]][k[2]]
        BY <1>10, <1>13
      <4> QED  BY <1>10, <4>1, HowManySame
    <3>5. /\ HowMany(topics, K, u) \in Nat /\ HowMany(base.topics, K, u) \in Nat
          /\ HowMany(Hybrid, S \ K, u) \in Nat
      BY <1>10, <3>0, HowManyType
    <3> QED  BY <1>5, <3>1, <3>2, <3>3, <3>4, <3>5
  <2> QED  BY <2>1, <2>2, <2>3
<1>15. WordTopicHist(model, w) = model.word[w]
  BY <1>2, <1>6, <1>7, WordHistIs
<1>16. \A u \in Topics : At(model.word[w], u) + At(h, u) >= 0
  <2> SUFFICES ASSUME NEW u \in Topics PROVE At(model.word[w], u) + At(h, u) >= 0
    OBVIOUS
  <2>1. At(model.word[w], u) = HowMany(Hybrid, OfWord(w), u)
    BY <1>2, <1>8, <1>15
  <2>2. K \subseteq OfWord(w) /\ OfWord(w) \in SUBSET Tokens
    BY OfWordIs DEF K
  <2> QED  BY <1>14, <2>1, <2>2
<1>17. LET n == AccumulateWord(model, w, h)
       IN  /\ IsModel(n) /\ n.word[w] # Nil /\ n.prior = model.prior
           /\ \A u \in Topics : At(WordTopicHist(n, w), u) = At(model.word[w], u) + At(h, u)
           /\ \A v \in Words \ {w} :
                n.word[v] = model.word[v] /\ WordTopicHist(n, v) = WordTopicHist(model, v)
           /\ Positive(n.word[w])
           /\ n.global = [u \in Topics |-> model.global[u] + At(h, u)]
  BY <1>2, <1>5, <1>6, <1>7, <1>16, ModelAccumulates
<1>18. /\ IsModel(model') /\ model'.word[w] # Nil /\ Positive(model'.word[w])
       /\ \A u \in Topics : At(WordTopicHist(model', w), u) = At(model.word[w], u) + At(h, u)
       /\ \A v \in Words \ {w} :
            model'.word[v] = model.word[v] /\ WordTopicHist(model', v) = WordTopicHist(model, v)
       /\ model'.global = [u \in Topics |-> model.global[u] + At(h, u)]
  BY <1>9, <1>17
<1>19. \A u \in Topics : At(h, u) \in Int
  BY <1>5, SparseIs
<1>20. ModelOK'
  <2>1. model'.global \in [Topics -> Int]
    BY <1>7, <1>18, <1>19
  <2>2. \A v \in Words : model'.word[v] # Nil => Positive(model'.word[v])
    BY <1>7, <1>18
  <2>3. EntriesArePositive'
    BY <2>2 DEF EntriesArePositive, Positive
  <2>4. \A v \in Words : model'.word[v] = Nil => OfWord(v) = {}
    BY <1>7, <1>18
  <2> QED  BY <1>18, <2>1, <2>3, <2>4 DEF ModelOK
<1>21. ModelCounts'
  <2>1. ASSUME NEW v \in Words, NEW u \in Topics
        PROVE  At(WordTopicHist(model', v), u) = HowMany(Hybrid', OfWord(v), u)
    <3>1. OfWord(v) \in SUBSET Tokens
      BY OfWordIs
    <3>2. At(WordTopicHist(model, v), u) = HowMany(Hybrid, OfWord(v), u)
      BY <1>8
    <3>3. CASE v = w
      <4>1. K \subseteq OfWord(v)
        BY <3>3 DEF K
      <4> QED  BY <1>14, <1>15, <1>18, <3>1, <3>2, <3>3, <4>1
    <3>4. CASE v # w
      <4>1. K \cap OfWord(v) = {}
        BY <1>10, <3>1, <3>4, OfWordIs
      <4> QED  BY <1>14, <1>18, <3>1, <3>2, <3>4, <4>1
    <3> QED  BY <3>3, <3>4
  <2>2. model'.global = [u \in Topics |-> HowMany(Hybrid', Tokens, u)]
    <3>1. \A u \in Topics : HowMany(Hybrid', Tokens, u) = model.global[u] + At(h, u)
      BY <1>8, <1>10, <1>14
    <3> QED  BY <1>18, <3>1
  <2>3. Counts(model') = CountsOf(Hybrid')
    BY <2>1, <2>2, CountsAre
  <2> QED  BY <2>3 DEF ModelCounts
<1>22. DiffsOK'
  <2>1. \A j \in Running : DiffOK(j)'
    BY <1>2, DiffKept DEF TInv, DiffsOK
  <2> QED  BY <1>3, <2>1 DEF DiffsOK
<1>23. ThreadsOK'
  BY <1>2, <1>3 DEF TInv, ThreadsOK, ThreadOK
<1> QED  BY <1>11, <1>20, <1>21, <1>22, <1>23 DEF TInv

\* The topics and counts are those of before; only the prior may be another one.
LEMMA MainTInv ==
  ASSUME TInv, Optimize \/ EndIteration \/ BreakOff \/ LastIteration \/ SaveModel
  PROVE  TInv'
<1>1. /\ UNCHANGED <<program, topics>>
      /\ main' \in [phase : Phases \ {"sample", "accumulate"}, iter : Nat]
      /\ main.phase \notin {"sample", "accumulate"} /\ ~ Iterating'
      /\ main'.phase # "end" => saved' = Nil
  <2>1. main \in [phase : Phases, iter : Nat] /\ (main.phase # "end" => saved = Nil)
    BY DEF TInv, MainOK
  <2>2. CASE Optimize
    <3>1. main' = [main EXCEPT !.phase = "evaluate"] /\ main.phase = "optimize"
          /\ UNCHANGED <<program, topics, saved>>
      BY <2>2 DEF Optimize
    <3> QED  BY <2>1, <3>1 DEF Iterating, Phases
  <2>3. CASE EndIteration
    <3>1. main' = [phase |-> "head", iter |-> main.iter + 1] /\ main.phase = "evaluate"
          /\ UNCHANGED <<program, topics, saved>>
      BY <2>3 DEF EndIteration
    <3> QED  BY <2>1, <3>1 DEF Iterating, Phases
  <2>4. CASE BreakOff \/ LastIteration
    <3>1. main' = [main EXCEPT !.phase = "save"] /\ main.phase = "head"
          /\ UNCHANGED <<program, topics, saved>>
      BY <2>4 DEF BreakOff, LastIteration
    <3> QED  BY <2>1, <3>1 DEF Iterating, Phases
  <2>5. CASE SaveModel
    <3>1. main' = [main EXCEPT !.phase = "end"] /\ main.phase = "save"
          /\ UNCHANGED <<program, topics>>
      BY <2>5 DEF SaveModel
    <3> QED  BY <2>1, <3>1 DEF Iterating, Phases
  <2> QED  BY <2>2, <2>3, <2>4, <2>5
<1>2. Stride' = Stride /\ Running' = Running /\ Threads' = Threads /\ Running \subseteq Threads
      /\ program \in {"multithread", "singlethread"}
  BY <1>1, Steady, StrideIs DEF TInv, MainOK
<1>3. model'.word = model.word /\ model'.global = model.global /\ DOMAIN model' = DOMAIN model
  <2>1. CASE model' = model
    BY <2>1
  <2>2. CASE model' # model
    <3>1. PICK v : model' = [model EXCEPT !.prior = v]
      BY <2>2 DEF Optimize, EndIteration, BreakOff, LastIteration, SaveModel
    <3>2. DOMAIN model = {"word", "global", "prior"}
      BY DEF TInv, ModelOK, IsModel
    <3> QED  BY <3>1, <3>2
  <2> QED  BY <2>1, <2>2
<1>4. ThreadsOK'
  <2>1. main'.phase \notin {"sample", "accumulate"}
    BY <1>1
  <2>2. DOMAIN thread = Threads /\ \A i \in Threads : ThreadOK(i)
    BY DEF TInv, ThreadsOK
  <2>3. CASE Optimize \/ EndIteration
    <3>1. PICK v : \/ thread' = [i \in Threads |->
                         IF program = "multithread" THEN Idle
                         ELSE [thread[i] EXCEPT !.pc = "idle", !.prior = v]]
                   \/ thread' = [i \in Threads |-> [thread[i] EXCEPT !.pc = "idle"]]
      BY <2>3 DEF Optimize, EndIteration
    <3>2. /\ DOMAIN Idle = Fields /\ Idle.pc = "idle" /\ Idle.doc = 0 /\ Idle.pos = 1
      BY DEF Idle, Fields
    <3>3. ASSUME NEW i \in Threads PROVE ThreadOK(i)'
      <4>0. DOMAIN thread[i] = Fields /\ thread[i].doc \in Nat /\ thread[i].pos \in Nat \ {0}
        BY <2>2 DEF ThreadOK
      <4> DEFINE a == [thread[i] EXCEPT !.pc = "idle", !.prior = v]
                 b == [thread[i] EXCEPT !.pc = "idle"]
      <4>1. /\ DOMAIN a = Fields /\ a.pc = "idle" /\ a.doc = thread[i].doc /\ a.pos = thread[i].pos
            /\ DOMAIN b = Fields /\ b.pc = "idle" /\ b.doc = thread[i].doc /\ b.pos = thread[i].pos
        BY <4>0 DEF Fields
      <4>2. thread'[i] \in {Idle, a, b}
        BY <3>1
      <4> HIDE DEF a, b
      <4>3. /\ DOMAIN thread'[i] = Fields /\ thread'[i].pc = "idle"
            /\ thread'[i].doc \in Nat /\ thread'[i].pos \in Nat \ {0}
        BY <3>2, <4>0, <4>1, <4>2
      <4> QED  BY <2>1, <4>3 DEF ThreadOK
    <3> QED  BY <1>2, <3>1, <3>3 DEF ThreadsOK
  <2>4. CASE BreakOff \/ LastIteration \/ SaveModel
    <3>1. thread' = thread /\ main.phase \in {"head", "save"}
      BY <2>4 DEF BreakOff, LastIteration, SaveModel
    <3> QED  BY <1>2, <2>1, <2>2, <3>1 DEF ThreadsOK, ThreadOK
  <2> QED  BY <2>3, <2>4
<1> QED  BY <1>1, <1>3, <1>4, MainGetsAhead

LEMMA NextTInv == ASSUME TInv, [Next]_vars PROVE TInv'
<1>1. CASE Main
  BY <1>1, BeginIterationTInv, JoinThreadsTInv, AccumulateTInv, NextDiffTInv, MainTInv DEF Main
<1>2. CASE \E i \in Running : Thread(i) \/ Evaluate(i)
  <2>1. PICK i \in Running : Thread(i) \/ Evaluate(i)
    BY <1>2
  <2>2. CASE SampleToken(i)
    <3>1. program \in {"multithread", "singlethread"}
      BY DEF TInv, MainOK
    <3> QED  BY <2>2, <3>1, SampleInParallel, SampleInPlace
  <2> QED  BY <2>1, <2>2, ThreadsStep DEF Thread
<1>3. CASE Signal
  BY <1>3, NothingChanges DEF Signal
<1>4. CASE Ended \/ UNCHANGED vars
  BY <1>4, NothingChanges DEF Ended, vars
<1> QED  BY <1>1, <1>2, <1>3, <1>4 DEF Next

LEMMA ModelOfIs ==
  ASSUME NEW f \in Assignments
  PROVE  /\ IsModel(ModelOf(f)) /\ ModelOf(f).global \in [Topics -> Int]
         /\ \A w \in Words : ModelOf(f).word[w] # Nil => Positive(ModelOf(f).word[w])
         /\ \A w \in Words : ModelOf(f).word[w] = Nil => OfWord(w) = {}
         /\ Counts(ModelOf(f)) = CountsOf(f)
<1> DEFINE c == CountsOf(f)
           occurring(w) == {t \in Topics : c.word[w][t] > 0}
           wd == [w \in Words |-> IF occurring(w) = {} THEN Nil
                                  ELSE [t \in occurring(w) |-> c.word[w][t]]]
           m == ModelOf(f)
<1>1. m = [NewModel EXCEPT !.word = wd, !.global = c.global]
  BY DEF ModelOf
<1>2. \A w \in Words, t \in Topics : c.word[w][t] = HowMany(f, OfWord(w), t)
  <2> SUFFICES ASSUME NEW w \in Words, NEW t \in Topics PROVE c.word[w][t] = HowMany(f, OfWord(w), t)
    OBVIOUS
  <2>1. OfTopic(f, t) \cap OfWord(w) = {k \in OfWord(w) : f[k[1]][k[2]] = t}
    BY OfWordIs DEF OfTopic
  <2> QED  BY <2>1 DEF HowMany, CountsOf
<1>3. c.global = [t \in Topics |-> HowMany(f, Tokens, t)]
  BY DEF CountsOf, OfTopic, HowMany
<1>4. \A w \in Words, t \in Topics :
        /\ HowMany(f, OfWord(w), t) \in Nat
        /\ HowMany(f, OfWord(w), t) = 0 <=> \A k \in OfWord(w) : f[k[1]][k[2]] # t
  <2> SUFFICES ASSUME NEW w \in Words, NEW t \in Topics
               PROVE  /\ HowMany(f, OfWord(w), t) \in Nat
                      /\ HowMany(f, OfWord(w), t) = 0 <=> \A k \in OfWord(w) : f[k[1]][k[2]] # t
    OBVIOUS
  <2>1. OfWord(w) \in SUBSET Tokens
    BY OfWordIs
  <2> QED  BY <2>1, HowManyType
<1> HIDE DEF c, wd, m
<1>5. DOMAIN m = {"word", "global", "prior"} /\ m.word = wd /\ m.global = c.global
  BY <1>1 DEF NewModel
<1>6. ASSUME NEW w \in Words
      PROVE  /\ wd[w] = IF occurring(w) = {} THEN Nil ELSE [t \in occurring(w) |-> c.word[w][t]]
             /\ occurring(w) # {} => IsSparse(wd[w]) /\ wd[w] # Nil /\ Positive(wd[w])
             /\ \A t \in Topics : At(WordTopicHist(m, w), t) = HowMany(f, OfWord(w), t)
             /\ occurring(w) = {} => OfWord(w) = {}
  <2> DEFINE O == occurring(w)
             h == [t \in O |-> c.word[w][t]]
  <2>1. wd[w] = IF O = {} THEN Nil ELSE h
    BY DEF wd
  <2>2. O \subseteq Topics /\ \A t \in Topics : t \in O <=> HowMany(f, OfWord(w), t) > 0
    BY <1>2
  <2>3. IsSparse(h) /\ Positive(h)
    BY <1>2, <1>4, <2>2 DEF IsSparse, Positive
  <2>4. h # Nil
    <3> HIDE DEF h
    <3> QED  BY <2>3, SparseIs
  <2>5. WordTopicHist(m, w) = IF O = {} THEN <<>> ELSE h
    BY <1>5, <2>1, <2>4 DEF WordTopicHist
  <2>6. \A t \in Topics : At(WordTopicHist(m, w), t) = HowMany(f, OfWord(w), t)
    <3>1. \A t \in Topics : t \notin O => HowMany(f, OfWord(w), t) = 0
      BY <1>4, <2>2
    <3> QED  BY <1>2, <2>2, <2>5, <3>1 DEF At
  <2>7. O = {} => OfWord(w) = {}
    <3> SUFFICES ASSUME O = {}, NEW k \in OfWord(w) PROVE FALSE
      OBVIOUS
    <3>1. f[k[1]][k[2]] \in Topics
      BY OfWordIs, TopicOf
    <3>2. HowMany(f, OfWord(w), f[k[1]][k[2]]) > 0
      BY <1>4, <3>1
    <3> QED  BY <2>2, <3>1, <3>2
  <2> QED  BY <2>1, <2>3, <2>4, <2>6, <2>7
<1> HIDE DEF occurring
<1>7. IsModel(m) /\ \A w \in Words : m.word[w] # Nil => Positive(m.word[w])
  <2>1. wd = [w \in Words |-> wd[w]]
    BY DEF wd
  <2> QED  BY <1>5, <1>6, <2>1 DEF IsModel
<1>8. m.global \in [Topics -> Int]
  <2>1. \A t \in Topics : HowMany(f, Tokens, t) \in Nat
    BY HowManyType
  <2> QED  BY <1>3, <1>5, <2>1
<1>9. Counts(m) = CountsOf(f)
  <2>1. m.global = [t \in Topics |-> HowMany(f, Tokens, t)]
    BY <1>3, <1>5
  <2>2. \A w \in Words, t \in Topics : At(WordTopicHist(m, w), t) = HowMany(f, OfWord(w), t)
    BY <1>6
  <2> QED  BY <2>1, <2>2, CountsAre
<1> QED  BY <1>5, <1>6, <1>7, <1>8, <1>9 DEF m

LEMMA InitTInv == Init => TInv
<1> SUFFICES ASSUME Init PROVE TInv
  OBVIOUS
<1>1. /\ program \in {"multithread", "singlethread"} /\ topics \in Assignments
      /\ model = ModelOf(topics) /\ thread = [i \in Threads |-> Idle]
      /\ main = [phase |-> "head", iter |-> 0] /\ saved = Nil
  BY TrainerAssumption DEF Init
<1>2. main.phase = "head" /\ main \in [phase : Phases, iter : Nat] /\ ~ Iterating
  BY <1>1 DEF Phases, Iterating
<1>3. MainOK
  BY <1>1, <1>2 DEF MainOK
<1>4. ThreadsOK
  <2>1. DOMAIN Idle = Fields /\ Idle.pc = "idle" /\ Idle.doc = 0 /\ Idle.pos = 1
    BY DEF Idle, Fields
  <2> QED  BY <1>1, <1>2, <2>1 DEF ThreadsOK, ThreadOK
<1>5. Hybrid = topics
  <2>1. Merged = Tokens
    BY <1>2 DEF Merged
  <2> QED  BY <1>3, <2>1, HybridIs DEF HybridFacts
<1>6. ModelOK /\ ModelCounts
  BY <1>1, <1>5, ModelOfIs DEF ModelOK, ModelCounts, EntriesArePositive, Positive
<1>7. DiffsOK
  BY <1>2 DEF DiffsOK
<1> QED  BY <1>3, <1>4, <1>6, <1>7 DEF TInv

\* However the diffs of goroutines are signed, and in whatever order their words come,
\* the model has positive entries.
THEOREM EntriesStayPositive == Spec => []EntriesArePositive
<1>1. TInv => EntriesArePositive
  BY DEF TInv, ModelOK
<1>2. TInv /\ [Next]_vars => TInv'
  BY NextTInv
<1> QED  BY InitTInv, <1>1, <1>2, PTL DEF Spec

-----------------------------------------------------------------------------
(* Trainers keep what Training promises. *)

\* The topics and the counts that Training has.
TopicsSeen == IF Iterating THEN base.topics ELSE topics
CountsSeen == IF Iterating THEN base.counts ELSE Counts(model)

LEMMA SameCardinality == \A S : Promise!Cardinality(S) = Cardinality(S)
BY DEF Cardinality, Promise!Cardinality

LEMMA SameWords ==
  /\ Promise!Assignments = Assignments
  /\ \A f : Promise!CountsOf(f) = CountsOf(f)
<1>1. /\ Promise!Topics = Topics /\ Promise!Words = Words /\ Promise!Docs = Docs
      /\ \A d : Promise!Positions(d) = Positions(d)
  BY DEF Topics, Words, Docs, Positions, Promise!Topics, Promise!Words, Promise!Docs, Promise!Positions
<1>2. Promise!Tokens = Tokens
  BY <1>1 DEF Tokens, Promise!Tokens
<1>3. /\ \A f, t : Promise!OfTopic(f, t) = OfTopic(f, t)
      /\ \A w : Promise!OfWord(w) = OfWord(w)
  BY <1>2 DEF OfTopic, OfWord, Promise!OfTopic, Promise!OfWord
<1>4. ASSUME NEW f PROVE Promise!CountsOf(f) = CountsOf(f)
  <2> DEFINE pw == [w \in Promise!Words |-> [t \in Promise!Topics |->
                      Cardinality(Promise!OfTopic(f, t) \cap Promise!OfWord(w))]]
             pg == [t \in Promise!Topics |-> Cardinality(Promise!OfTopic(f, t))]
             cw == [w \in Words |-> [t \in Topics |-> Cardinality(OfTopic(f, t) \cap OfWord(w))]]
             cg == [t \in Topics |-> Cardinality(OfTopic(f, t))]
  <2>1. pw = cw
    <3>1. \A w, t : Cardinality(Promise!OfTopic(f, t) \cap Promise!OfWord(w))
                     = Cardinality(OfTopic(f, t) \cap OfWord(w))
      BY <1>3
    <3> QED  BY <1>1, <3>1
  <2>2. pg = cg
    <3>1. \A t : Cardinality(Promise!OfTopic(f, t)) = Cardinality(OfTopic(f, t))
      BY <1>3
    <3> QED  BY <1>1, <3>1
  <2>3. Promise!CountsOf(f) = [word |-> pw, global |-> pg]
    BY SameCardinality DEF Promise!CountsOf
  <2>4. CountsOf(f) = [word |-> cw, global |-> cg]
    BY DEF CountsOf
  <2> HIDE DEF pw, pg, cw, cg
  <2> QED  BY <2>1, <2>2, <2>3, <2>4
<1>5. Promise!Assignments = Assignments
  BY <1>1 DEF Assignments, Promise!Assignments
<1> QED  BY <1>4, <1>5

\* Outside of an iteration the model counts the topics.
SeenFacts ==
  /\ TopicsSeen \in Assignments /\ CountsSeen = CountsOf(TopicsSeen)
  /\ main.phase # "end" => saved = Nil

LEMMA SeenIs == TInv => SeenFacts
<1> SUFFICES ASSUME TInv PROVE SeenFacts
  OBVIOUS
<1>1. ASSUME Iterating PROVE TopicsSeen \in Assignments /\ CountsSeen = CountsOf(TopicsSeen)
  BY <1>1 DEF TInv, MainOK, TopicsSeen, CountsSeen
<1>2. ASSUME ~ Iterating PROVE TopicsSeen \in Assignments /\ CountsSeen = CountsOf(TopicsSeen)
  <2>1. Merged = Tokens
    BY <1>2 DEF Iterating, Merged
  <2>2. Hybrid = topics
    BY <2>1, HybridIs DEF TInv, HybridFacts
  <2> QED  BY <1>2, <2>2 DEF TInv, MainOK, ModelCounts, TopicsSeen, CountsSeen
<1>3. main.phase # "end" => saved = Nil
  BY DEF TInv, MainOK
<1> QED  BY <1>1, <1>2, <1>3 DEF SeenFacts

LEMMA SeenNext == TInv' => SeenFacts'
BY SeenIs, PTL

\* What is not of interest to Training, sampling and aggregation above all.
LEMMA Unseen ==
  ASSUME TInv, TInv', [Next]_vars, ~ Optimize, ~ SaveModel
  PROVE  UNCHANGED <<TopicsSeen, CountsSeen, saved>>
<1>0. main \in [phase : Phases, iter : Nat]
  BY DEF TInv, MainOK
<1>1. CASE BeginIteration
  <2>1. /\ main.phase = "head" /\ main' = [main EXCEPT !.phase = "sample"]
        /\ base' = [topics |-> topics, counts |-> Counts(model)] /\ saved' = saved
    BY <1>1 DEF BeginIteration
  <2>2. ~ Iterating /\ Iterating' /\ base'.topics = topics /\ base'.counts = Counts(model)
    BY <1>0, <2>1 DEF Iterating
  <2> QED  BY <2>1, <2>2 DEF TopicsSeen, CountsSeen
<1>2. CASE BreakOff \/ LastIteration \/ EndIteration
  <2>1. /\ main.phase \in {"head", "evaluate"}
        /\ main' \in {[main EXCEPT !.phase = "save"], [phase |-> "head", iter |-> main.iter + 1]}
        /\ UNCHANGED <<topics, model, saved>>
    BY <1>2 DEF BreakOff, LastIteration, EndIteration
  <2>2. ~ Iterating /\ ~ Iterating'
    BY <1>0, <2>1 DEF Iterating
  <2>3. Counts(model') = Counts(model)
    BY <2>1
  <2> QED  BY <2>1, <2>2, <2>3 DEF TopicsSeen, CountsSeen, Counts, WordTopicHist
<1>3. CASE JoinThreads \/ Accumulate \/ NextDiff
  <2>1. Iterating /\ Iterating' /\ UNCHANGED <<base, saved>>
    <3>1. /\ main.phase \in {"sample", "accumulate"}
          /\ main' \in {main, [main EXCEPT !.phase = "accumulate"], [main EXCEPT !.phase = "optimize"]}
          /\ UNCHANGED <<base, saved>>
      BY <1>3 DEF JoinThreads, Accumulate, NextDiff
    <3> QED  BY <1>0, <3>1 DEF Iterating
  <2> QED  BY <2>1 DEF TopicsSeen, CountsSeen
<1>4. CASE \E i \in Running : SampleToken(i)
  <2>1. PICK i \in Running : SampleToken(i)
    BY <1>4
  <2>2. UNCHANGED <<main, base, saved>> /\ thread[i].pc = "sample"
    BY <2>1 DEF SampleToken
  <2>3. main.phase = "sample"
    BY <2>2, StrideIs DEF TInv, MainOK, ThreadsOK, ThreadOK
  <2> QED  BY <2>2, <2>3 DEF TopicsSeen, CountsSeen, Iterating
<1>5. CASE UNCHANGED <<topics, model, main, base, saved>>
  <2>1. Iterating' = Iterating /\ Counts(model') = Counts(model)
    BY <1>5 DEF Iterating
  <2> QED  BY <1>5, <2>1 DEF TopicsSeen, CountsSeen, Counts, WordTopicHist
<1>6. CASE \E i \in Running : StartThread(i) \/ EndDocument(i) \/ EndThread(i) \/ Evaluate(i)
  BY <1>5, <1>6 DEF StartThread, EndDocument, EndThread, Evaluate
<1>7. CASE Signal \/ Ended \/ UNCHANGED vars
  BY <1>5, <1>7 DEF Signal, Ended, vars
<1> QED  BY <1>1, <1>2, <1>3, <1>4, <1>6, <1>7 DEF Next, Main, Thread

LEMMA OptimizeIsIteration ==
  ASSUME TInv, TInv', Optimize
  PROVE  saved = Nil /\ saved' = saved /\ TopicsSeen' \in Assignments
         /\ CountsSeen' = CountsOf(TopicsSeen')
<1>1. main.phase = "optimize" /\ saved' = saved
  BY DEF Optimize
<1> QED  BY <1>1, SeenIs, SeenNext DEF SeenFacts

LEMMA SaveModelSaves ==
  ASSUME TInv, TInv', SaveModel
  PROVE  /\ saved = Nil /\ saved' \in {Nil} \cup [counts : {CountsSeen}, whole : BOOLEAN]
         /\ UNCHANGED <<TopicsSeen, CountsSeen>>
<1>1. /\ main.phase = "save" /\ main' = [main EXCEPT !.phase = "end"]
      /\ saved' \in {Nil} \cup [counts : {Counts(model)}, whole : BOOLEAN]
      /\ UNCHANGED <<topics, model>>
  BY DEF SaveModel
<1>2. ~ Iterating /\ ~ Iterating'
  BY <1>1 DEF Iterating, TInv, MainOK
<1>3. CountsSeen = Counts(model) /\ TopicsSeen = topics /\ TopicsSeen' = topics'
      /\ CountsSeen' = Counts(model')
  BY <1>1, <1>2 DEF CountsSeen, TopicsSeen, Counts, WordTopicHist
<1> QED  BY <1>1, <1>3, SeenIs DEF SeenFacts

\* However the work is divided among goroutines, and whether or not the diffs of some
\* are merged already, an iteration moves all tokens and all counts at once; what is
\* saved, after an interrupt too, is the model of whole iterations.
THEOREM TrainersTrain == Spec => IsTraining
<1>1. Init => Promise!Init
  <2> SUFFICES ASSUME Init PROVE Promise!Init
    OBVIOUS
  <2>1. ~ Iterating /\ saved = Nil
    BY DEF Init, Iterating
  <2>2. topics \in Assignments /\ Counts(model) = CountsOf(topics)
    BY <2>1, InitTInv, SeenIs DEF SeenFacts, TopicsSeen, CountsSeen
  <2> QED  BY <2>1, <2>2, SameWords DEF Promise!Init
<1>2. TInv /\ TInv' /\ [Next]_vars => [Promise!Next]_<<TopicsSeen, CountsSeen, saved>>
  <2> SUFFICES ASSUME TInv, TInv', [Next]_vars
               PROVE  [Promise!Next]_<<TopicsSeen, CountsSeen, saved>>
    OBVIOUS
  <2>1. CASE Optimize
    <3>1. saved = Nil /\ saved' = saved /\ TopicsSeen' \in Assignments
          /\ CountsSeen' = CountsOf(TopicsSeen')
      BY <2>1, OptimizeIsIteration
    <3>2. Promise!Iteration
      BY <3>1, SameWords DEF Promise!Iteration, TopicsSeen, CountsSeen
    <3> QED  BY <3>2 DEF Promise!Next
  <2>2. CASE SaveModel
    <3>1. /\ saved = Nil /\ saved' \in {Nil} \cup [counts : {CountsSeen}, whole : BOOLEAN]
          /\ UNCHANGED <<TopicsSeen, CountsSeen>>
      BY <2>2, SaveModelSaves
    <3>2. CASE saved' = Nil
      BY <3>1, <3>2
    <3>3. CASE saved' \in [counts : {CountsSeen}, whole : BOOLEAN]
      <4>1. Promise!Save
        BY <3>1, <3>3 DEF Promise!Save, TopicsSeen, CountsSeen
      <4> QED  BY <4>1 DEF Promise!Next
    <3> QED  BY <3>1, <3>2, <3>3
  <2>3. CASE ~ Optimize /\ ~ SaveModel
    BY <2>3, Unseen
  <2> QED  BY <2>1, <2>2, <2>3
<1>3. TInv /\ [Next]_vars => TInv'
  BY NextTInv
<1> QED  BY <1>1, <1>2, <1>3, InitTInv, PTL
        DEF Spec, IsTraining, Promise!Spec, TopicsSeen, CountsSeen

-----------------------------------------------------------------------------
(* Documents and their lengths. *)

LEMMA LengthsAre ==
  /\ \E b \in Nat : Lengths = 0 .. b
  /\ Lengths \in SUBSET Nat /\ IsFiniteSet(Lengths) /\ 0 \in Lengths
  /\ \A d \in Docs : 0 .. Len(Corpus[d]) \subseteq Lengths
<1> DEFINE Longest(n) == \E j \in Docs : \A d \in Docs : d <= n => Len(Corpus[j]) >= Len(Corpus[d])
           T == {n \in Nat : Longest(n)}
           L == {Len(Corpus[d]) : d \in Docs}
<1>1. Docs = 1 .. Len(Corpus) /\ Len(Corpus) \in Nat /\ 1 \in Docs
      /\ \A d \in Docs : Len(Corpus[d]) \in Nat
  BY CorpusIsTyped, CorpusAssumption DEF Docs
<1>2. 0 \in T
  BY <1>1
<1>3. ASSUME NEW n \in Nat, n \in T PROVE n + 1 \in T
  <2>1. PICK j \in Docs : \A d \in Docs : d <= n => Len(Corpus[j]) >= Len(Corpus[d])
    BY <1>3
  <2>2. CASE n + 1 \in Docs /\ Len(Corpus[n + 1]) > Len(Corpus[j])
    <3>1. \A d \in Docs : d <= n + 1 => Len(Corpus[n + 1]) >= Len(Corpus[d])
      BY <1>1, <2>1, <2>2
    <3> QED  BY <2>2, <3>1
  <2>3. CASE ~ (n + 1 \in Docs /\ Len(Corpus[n + 1]) > Len(Corpus[j]))
    <3>1. \A d \in Docs : d <= n + 1 => Len(Corpus[j]) >= Len(Corpus[d])
      BY <1>1, <2>1, <2>3
    <3> QED  BY <3>1
  <2> QED  BY <2>2, <2>3
<1>4. Len(Corpus) \in T
  <2> HIDE DEF T
  <2> QED  BY <1>1, <1>2, <1>3, AllNumbers
<1>5. PICK j \in Docs : \A d \in Docs : Len(Corpus[j]) >= Len(Corpus[d])
  BY <1>1, <1>4
<1>6. Max(L) \in L /\ \A y \in L : Max(L) >= y
  <2>1. \E x \in L : \A y \in L : x >= y
    BY <1>5
  <2>2. Max(L) = CHOOSE x \in L : \A y \in L : x >= y
    BY DEF Max
  <2> HIDE DEF L
  <2> QED  BY <2>1, <2>2
<1>7. Lengths = 0 .. Max(L) /\ Max(L) \in Nat
  BY <1>1, <1>6 DEF Lengths
<1>8. \A d \in Docs : Len(Corpus[d]) <= Max(L) /\ Len(Corpus[d]) \in Nat
  BY <1>1, <1>6
<1> HIDE DEF L
<1>9. IsFiniteSet(0 .. Max(L))
  BY <1>7, FS_Interval
<1> QED  BY <1>7, <1>8, <1>9

LEMMA OfDocIs ==
  ASSUME NEW d \in Docs
  PROVE  /\ OfDoc(d) \in SUBSET Tokens /\ IsFiniteSet(OfDoc(d))
         /\ Cardinality(OfDoc(d)) = Len(Corpus[d])
<1>1. Positions(d) = 1 .. Len(Corpus[d]) /\ Len(Corpus[d]) \in Nat
  BY CorpusIsTyped
<1>2. OfDoc(d) = {d} \X Positions(d)
  BY DEF OfDoc, Tokens
<1>3. IsFiniteSet(Positions(d)) /\ Cardinality(Positions(d)) = Len(Corpus[d])
  <2>1. /\ IsFiniteSet(1 .. Len(Corpus[d]))
        /\ Cardinality(1 .. Len(Corpus[d])) = IF 1 > Len(Corpus[d]) THEN 0 ELSE Len(Corpus[d]) - 1 + 1
    BY <1>1, FS_Interval
  <2> QED  BY <1>1, <2>1
<1>4. IsFiniteSet({d}) /\ Cardinality({d}) = 1
  BY FS_Singleton
<1>5. /\ IsFiniteSet({d} \X Positions(d))
      /\ Cardinality({d} \X Positions(d)) = Cardinality({d}) * Cardinality(Positions(d))
  BY <1>3, <1>4, FS_Product
<1>6. Cardinality({d} \X Positions(d)) = Len(Corpus[d])
  BY <1>1, <1>3, <1>4, <1>5
<1> QED  BY <1>2, <1>5, <1>6 DEF OfDoc

\* No document has a topic more often than it has words.
LEMMA DocCountIs ==
  ASSUME NEW f, NEW d \in Docs, NEW t
  PROVE  DocCount(f, d, t) = HowMany(f, OfDoc(d), t) /\ DocCount(f, d, t) \in Lengths
<1>1. OfTopic(f, t) \cap OfDoc(d) = {k \in OfDoc(d) : f[k[1]][k[2]] = t}
  BY OfDocIs DEF OfTopic
<1>2. /\ IsFiniteSet(OfTopic(f, t) \cap OfDoc(d))
      /\ Cardinality(OfTopic(f, t) \cap OfDoc(d)) <= Cardinality(OfDoc(d))
  BY OfDocIs, FS_Subset
<1>3. Cardinality(OfTopic(f, t) \cap OfDoc(d)) \in Nat
  BY <1>2, FS_CardinalityType
<1>4. DocCount(f, d, t) \in 0 .. Len(Corpus[d])
  BY <1>2, <1>3, OfDocIs, CorpusIsTyped DEF DocCount
<1> QED  BY <1>1, <1>4, LengthsAre DEF DocCount, HowMany

-----------------------------------------------------------------------------
(* The statistics of the optimizer. *)

\* The documents up to n that have topic t, m times.
DocsWith(f, n, t, m) == {d \in 1 .. n : m > 0 /\ DocCount(f, d, t) = m}
DocsOfLength(n, m)   == {d \in 1 .. n : Len(Corpus[d]) = m}

StatsOf(f, n) ==
  [topicDocs |-> [t \in Topics |-> [m \in Lengths |-> Cardinality(DocsWith(f, n, t, m))]],
   docLens   |-> [m \in Lengths |-> Cardinality(DocsOfLength(n, m))]]

LEMMA OneMoreDocument ==
  ASSUME NEW f, NEW n \in Nat, NEW t, NEW m
  PROVE  /\ Cardinality(DocsWith(f, n, t, m)) \in Nat /\ Cardinality(DocsOfLength(n, m)) \in Nat
         /\ Cardinality(DocsWith(f, n + 1, t, m)) = Cardinality(DocsWith(f, n, t, m))
              + (IF m > 0 /\ DocCount(f, n + 1, t) = m THEN 1 ELSE 0)
         /\ Cardinality(DocsOfLength(n + 1, m)) = Cardinality(DocsOfLength(n, m))
              + (IF Len(Corpus[n + 1]) = m THEN 1 ELSE 0)
<1> DEFINE A == DocsWith(f, n, t, m)
           B == DocsOfLength(n, m)
<1>1. IsFiniteSet(1 .. n)
  BY FS_Interval
<1>2. IsFiniteSet(A) /\ IsFiniteSet(B)
  BY <1>1, FS_Subset DEF DocsWith, DocsOfLength
<1>3. 1 .. n + 1 = (1 .. n) \cup {n + 1} /\ n + 1 \notin 1 .. n
  OBVIOUS
<1>4. /\ DocsWith(f, n + 1, t, m) = IF m > 0 /\ DocCount(f, n + 1, t) = m THEN A \cup {n + 1} ELSE A
      /\ DocsOfLength(n + 1, m) = IF Len(Corpus[n + 1]) = m THEN B \cup {n + 1} ELSE B
      /\ n + 1 \notin A /\ n + 1 \notin B
  BY <1>3 DEF DocsWith, DocsOfLength
<1> HIDE DEF A, B
<1>5. /\ Cardinality(A) \in Nat /\ Cardinality(A \cup {n + 1}) = Cardinality(A) + 1
      /\ Cardinality(B) \in Nat /\ Cardinality(B \cup {n + 1}) = Cardinality(B) + 1
  BY <1>2, <1>4, FS_CardinalityType, FS_AddElement
<1>6. /\ Cardinality(DocsWith(f, n + 1, t, m)) = Cardinality(A)
              + (IF m > 0 /\ DocCount(f, n + 1, t) = m THEN 1 ELSE 0)
      /\ Cardinality(DocsOfLength(n + 1, m)) = Cardinality(B)
              + (IF Len(Corpus[n + 1]) = m THEN 1 ELSE 0)
  BY <1>4, <1>5
<1> QED  BY <1>5, <1>6 DEF A, B

LEMMA NothingCollected == ASSUME NEW f PROVE StatsOf(f, 0) = NewOptimizer
<1>1. \A t, m : DocsWith(f, 0, t, m) = {} /\ DocsOfLength(0, m) = {}
  BY DEF DocsWith, DocsOfLength
<1>2. Cardinality({}) = 0
  BY FS_EmptySet
<1> QED  BY <1>1, <1>2 DEF StatsOf, NewOptimizer

LEMMA Collects ==
  ASSUME NEW f, NEW n \in Nat, n + 1 \in Docs
  PROVE  CollectDocumentStatistics(StatsOf(f, n), n + 1, f) = StatsOf(f, n + 1)
<1> DEFINE a == [t \in Topics |-> [m \in Lengths |-> Cardinality(DocsWith(f, n, t, m))]]
           b == [m \in Lengths |-> Cardinality(DocsOfLength(n, m))]
           a1 == [t \in Topics |-> [m \in Lengths |-> a[t][m]
                    + (IF m > 0 /\ DocCount(f, n + 1, t) = m THEN 1 ELSE 0)]]
           b1 == [b EXCEPT ![Len(Corpus[n + 1])] = @ + 1]
           a2 == [t \in Topics |-> [m \in Lengths |-> Cardinality(DocsWith(f, n + 1, t, m))]]
           b2 == [m \in Lengths |-> Cardinality(DocsOfLength(n + 1, m))]
<1>1. \A t \in Topics, m \in Lengths :
        Cardinality(DocsWith(f, n + 1, t, m))
          = a[t][m] + (IF m > 0 /\ DocCount(f, n + 1, t) = m THEN 1 ELSE 0)
  BY OneMoreDocument
<1>2. a1 = a2
  BY <1>1
<1>3. Len(Corpus[n + 1]) \in Lengths
  BY LengthsAre, CorpusIsTyped
<1>4. \A m \in Lengths : /\ b2[m] = b[m] + (IF Len(Corpus[n + 1]) = m THEN 1 ELSE 0)
                         /\ b[m] \in Nat
  BY OneMoreDocument
<1>5. b1 = b2
  <2>1. \A m \in Lengths : b1[m] = IF m = Len(Corpus[n + 1]) THEN b[m] + 1 ELSE b[m]
    BY <1>3
  <2>2. \A m \in Lengths : b1[m] = b2[m]
    BY <1>4, <2>1
  <2>3. DOMAIN b1 = Lengths /\ b1 = [m \in Lengths |-> b1[m]] /\ b2 = [m \in Lengths |-> b2[m]]
    OBVIOUS
  <2> HIDE DEF b1, b2
  <2> QED  BY <2>2, <2>3
<1>6. /\ StatsOf(f, n) = [topicDocs |-> a, docLens |-> b]
      /\ StatsOf(f, n + 1) = [topicDocs |-> a2, docLens |-> b2]
  BY DEF StatsOf
<1> HIDE DEF a, b
<1>7. CollectDocumentStatistics([topicDocs |-> a, docLens |-> b], n + 1, f)
        = [topicDocs |-> a1, docLens |-> b1]
  BY DEF CollectDocumentStatistics
<1> HIDE DEF a1, b1, a2, b2
<1> QED  BY <1>2, <1>5, <1>6, <1>7

\* What is collected in the end does not depend on how it was done.
LEMMA CollectAllIs == ASSUME NEW f PROVE CollectAll(f) = StatsOf(f, Len(Corpus))
<1> DEFINE N == Len(Corpus)
           P(c) == c = [n \in 0 .. N |-> IF n = 0 THEN NewOptimizer
                                         ELSE CollectDocumentStatistics(c[n - 1], n, f)]
           g == [n \in 0 .. N |-> StatsOf(f, n)]
           c == CHOOSE h : P(h)
           T == {n \in Nat : n <= N => c[n] = StatsOf(f, n)}
<1>1. Docs = 1 .. N /\ N \in Nat
  BY CorpusAssumption DEF Docs
<1>2. P(g)
  <2>1. ASSUME NEW n \in 0 .. N
        PROVE  StatsOf(f, n) = IF n = 0 THEN NewOptimizer ELSE CollectDocumentStatistics(g[n - 1], n, f)
    <3>1. CASE n = 0
      BY <3>1, NothingCollected
    <3>2. CASE n # 0
      <4>1. n - 1 \in Nat /\ n - 1 \in 0 .. N /\ (n - 1) + 1 = n /\ n \in Docs
        BY <1>1, <3>2
      <4>2. g[n - 1] = StatsOf(f, n - 1)
        BY <4>1
      <4>3. CollectDocumentStatistics(StatsOf(f, n - 1), (n - 1) + 1, f) = StatsOf(f, (n - 1) + 1)
        BY <4>1, Collects
      <4> QED  BY <3>2, <4>1, <4>2, <4>3
    <3> QED  BY <3>1, <3>2
  <2> QED  BY <2>1
<1>3. P(c)
  <2> HIDE DEF P
  <2> QED  BY <1>2
<1>4. CollectAll(f) = c[N]
  BY DEF CollectAll
<1> HIDE DEF c
<1>5. 0 \in T
  BY <1>1, <1>3, NothingCollected
<1>6. ASSUME NEW n \in Nat, n \in T PROVE n + 1 \in T
  <2> SUFFICES ASSUME n + 1 <= N PROVE c[n + 1] = StatsOf(f, n + 1)
    OBVIOUS
  <2>1. c[n] = StatsOf(f, n) /\ n + 1 \in 0 .. N /\ n + 1 # 0 /\ (n + 1) - 1 = n /\ n + 1 \in Docs
    BY <1>1, <1>6
  <2>2. c[n + 1] = CollectDocumentStatistics(c[(n + 1) - 1], n + 1, f)
    BY <1>3, <2>1
  <2> QED  BY <2>1, <2>2, Collects
<1>7. N \in T
  <2> HIDE DEF T
  <2> QED  BY <1>1, <1>5, <1>6, AllNumbers
<1> QED  BY <1>1, <1>4, <1>7

-----------------------------------------------------------------------------
(* Sums over documents. *)

\* The tokens of the documents in S.
TokensOf(S) == {k \in Tokens : k[1] \in S}
WordsIn(S)  == Cardinality(TokensOf(S))

LEMMA TokensOfMore ==
  ASSUME NEW S \in SUBSET Docs, NEW d \in Docs \ S
  PROVE  /\ TokensOf(S \cup {d}) = TokensOf(S) \cup OfDoc(d) /\ TokensOf(S) \cap OfDoc(d) = {}
         /\ TokensOf(S) \in SUBSET Tokens /\ TokensOf(S \cup {d}) \in SUBSET Tokens
         /\ OfDoc(d) \in SUBSET TokensOf(S \cup {d})
         /\ TokensOf(S \cup {d}) \ OfDoc(d) = TokensOf(S)
BY OfDocIs DEF TokensOf, OfDoc

\* The union of two sets that have nothing in common.
LEMMA UnionCount ==
  ASSUME NEW S, IsFiniteSet(S), NEW R, IsFiniteSet(R), S \cap R = {}
  PROVE  /\ Cardinality(S \cup R) = Cardinality(S) + Cardinality(R)
         /\ Cardinality(S) \in Nat /\ Cardinality(R) \in Nat
<1>1. Cardinality(S \cap R) = 0
  BY FS_EmptySet
<1>2. Cardinality(S \cup R) = Cardinality(S) + Cardinality(R) - Cardinality(S \cap R)
  BY FS_Union
<1>3. Cardinality(S) \in Nat /\ Cardinality(R) \in Nat
  BY FS_CardinalityType
<1> QED  BY <1>1, <1>2, <1>3

\* The documents with topic t, each as often as it has the topic, sum up to the
\* tokens of the topic.
LEMMA TopicDocsAddUp ==
  ASSUME NEW f, NEW t
  PROVE  Sum([m \in Lengths |-> m * Cardinality(DocsWith(f, Len(Corpus), t, m))])
           = HowMany(f, Tokens, t)
<1> DEFINE N == Len(Corpus)
           g(n) == [m \in Lengths |-> m * Cardinality(DocsWith(f, n, t, m))]
           U(n) == TokensOf(1 .. n)
           T == {n \in Nat : n <= N => SumOver(g(n), Lengths) = HowMany(f, U(n), t)}
<1>1. Docs = 1 .. N /\ N \in Nat
  BY CorpusAssumption DEF Docs
<1>2. IsFiniteSet(Lengths) /\ Lengths \in SUBSET Nat
  BY LengthsAre
<1>3. \A n \in Nat : \A m \in Lengths : g(n)[m] \in Nat
  <2> SUFFICES ASSUME NEW n \in Nat, NEW m \in Lengths
               PROVE  m * Cardinality(DocsWith(f, n, t, m)) \in Nat
    OBVIOUS
  <2>1. Cardinality(DocsWith(f, n, t, m)) \in Nat /\ m \in Nat
    BY <1>2, OneMoreDocument
  <2> QED  BY <2>1, SMT
<1>4. 0 \in T
  <2>1. \A m \in Lengths : g(0)[m] = 0
    <3> SUFFICES ASSUME NEW m \in Lengths PROVE m * Cardinality(DocsWith(f, 0, t, m)) = 0
      OBVIOUS
    <3>1. DocsWith(f, 0, t, m) = {} /\ Cardinality({}) = 0 /\ m \in Nat
      BY <1>2, FS_EmptySet DEF DocsWith
    <3> QED  BY <3>1, SMT
  <2>2. U(0) = {}
    BY Token DEF TokensOf
  <2>3. HowMany(f, {}, t) = 0
    BY HowManyType
  <2> HIDE DEF g
  <2>4. SumOver(g(0), Lengths) = 0
    BY <1>2, <2>1, SumZero
  <2> QED  BY <2>2, <2>3, <2>4
<1>5. ASSUME NEW n \in Nat, n \in T PROVE n + 1 \in T
  <2> SUFFICES ASSUME n + 1 <= N PROVE SumOver(g(n + 1), Lengths) = HowMany(f, U(n + 1), t)
    OBVIOUS
  <2> DEFINE d == n + 1
             c == DocCount(f, d, t)
  <2>1. d \in Docs /\ 1 .. n \in SUBSET Docs /\ d \notin 1 .. n /\ (1 .. n) \cup {d} = 1 .. d
    BY <1>1
  <2>2. c = HowMany(f, OfDoc(d), t) /\ c \in Lengths /\ c \in Nat
    BY <1>2, <2>1, DocCountIs
  <2>3. \A m \in Lengths : m # c => g(d)[m] = g(n)[m]
    <3> SUFFICES ASSUME NEW m \in Lengths, m # c
                 PROVE  m * Cardinality(DocsWith(f, d, t, m)) = m * Cardinality(DocsWith(f, n, t, m))
      OBVIOUS
    <3>1. Cardinality(DocsWith(f, d, t, m)) = Cardinality(DocsWith(f, n, t, m))
      BY OneMoreDocument
    <3> QED  BY <3>1
  <2>4. g(d)[c] = g(n)[c] + c
    <3> DEFINE x == Cardinality(DocsWith(f, n, t, c))
    <3>1. x \in Nat /\ Cardinality(DocsWith(f, d, t, c)) = x + (IF c > 0 THEN 1 ELSE 0)
      BY OneMoreDocument
    <3>2. g(d)[c] = c * Cardinality(DocsWith(f, d, t, c)) /\ g(n)[c] = c * x
      BY <2>2
    <3> HIDE DEF x, g, c
    <3>3. CASE c > 0
      <4>1. c * (x + 1) = c * x + c
        BY <2>2, <3>1, SMT
      <4> QED  BY <3>1, <3>2, <3>3, <4>1
    <3>4. CASE c = 0
      <4>1. c * x = 0 /\ c * (x + 0) = 0 /\ c + 0 = 0
        BY <2>2, <3>1, <3>4, SMT
      <4>2. g(d)[c] = c * (x + 0)
        BY <3>1, <3>2, <3>4
      <4> QED  BY <3>2, <3>4, <4>1, <4>2
    <3> QED  BY <2>2, <3>3, <3>4
  <2>5. SumOver(g(n), Lengths) = HowMany(f, U(n), t) /\ n <= N
    BY <1>5
  <2>6. \A m \in Lengths : g(n)[m] \in Int /\ g(d)[m] \in Int
    BY <1>3
  <2> HIDE DEF g, c, T
  <2>7. SumOver(g(d), Lengths) = SumOver(g(n), Lengths) - g(n)[c] + g(d)[c]
    <3> DEFINE a == g(n)  b == g(d)
    <3>1. /\ \A m \in Lengths : a[m] \in Int /\ b[m] \in Int
          /\ \A m \in Lengths : m # c => b[m] = a[m]
      BY <2>3, <2>6
    <3> HIDE DEF a, b
    <3>2. IsFiniteSet(Lengths) /\ (\A m \in Lengths : a[m] \in Int) /\ c \in Lengths /\ b[c] \in Int
      BY <1>2, <2>2, <3>1
    <3>3. SumOver(b, Lengths) = SumOver(a, Lengths) - a[c] + b[c]
      BY <3>1, <3>2, SumChange
    <3> QED  BY <3>3 DEF a, b
  <2>8. SumOver(g(n), Lengths) \in Int
    BY <1>2, <2>6, SumSteps
  <2>9. SumOver(g(d), Lengths) = SumOver(g(n), Lengths) + c
    BY <2>2, <2>4, <2>6, <2>7, <2>8
  <2>10. HowMany(f, U(d), t) = HowMany(f, OfDoc(d), t) + HowMany(f, U(n), t)
    <3> DEFINE A == TokensOf(1 .. d)  B == TokensOf(1 .. n)
    <3>1. /\ TokensOf((1 .. n) \cup {d}) \in SUBSET Tokens
          /\ OfDoc(d) \in SUBSET TokensOf((1 .. n) \cup {d})
          /\ TokensOf((1 .. n) \cup {d}) \ OfDoc(d) = TokensOf(1 .. n)
      BY <2>1, TokensOfMore
    <3>2. A \in SUBSET Tokens /\ OfDoc(d) \in SUBSET A /\ A \ OfDoc(d) = B
      BY <2>1, <3>1
    <3> HIDE DEF A, B
    <3>3. HowMany(f, A, t) = HowMany(f, OfDoc(d), t) + HowMany(f, A \ OfDoc(d), t)
      BY <3>2, HowManyWithin
    <3>4. HowMany(f, A, t) = HowMany(f, OfDoc(d), t) + HowMany(f, B, t)
      BY <3>2, <3>3
    <3> QED  BY <3>4 DEF A, B
  <2> QED  BY <2>2, <2>5, <2>8, <2>9, <2>10
<1>6. N \in T
  <2> HIDE DEF T
  <2> QED  BY <1>1, <1>4, <1>5, AllNumbers
<1>7. U(N) = Tokens
  BY <1>1, Token DEF TokensOf
<1>8. Sum(g(N)) = SumOver(g(N), Lengths)
  <2> DEFINE h == g(N)
  <2>1. h = [m \in Lengths |-> h[m]]
    OBVIOUS
  <2> HIDE DEF h
  <2> QED  BY <2>1, SumIsOver DEF h
<1>9. SumOver(g(N), Lengths) = HowMany(f, Tokens, t)
  BY <1>1, <1>6, <1>7
<1> QED  BY <1>8, <1>9

\* Each document has one length.
LEMMA DocLensAddUp == Sum([m \in Lengths |-> Cardinality(DocsOfLength(Len(Corpus), m))]) = Len(Corpus)
<1> DEFINE N == Len(Corpus)
           g(n) == [m \in Lengths |-> Cardinality(DocsOfLength(n, m))]
           T == {n \in Nat : n <= N => SumOver(g(n), Lengths) = n}
<1>1. Docs = 1 .. N /\ N \in Nat
  BY CorpusAssumption DEF Docs
<1>2. IsFiniteSet(Lengths) /\ Lengths \in SUBSET Nat
  BY LengthsAre
<1>3. \A n \in Nat : \A m \in Lengths : g(n)[m] \in Nat
  BY OneMoreDocument
<1>4. 0 \in T
  <2>1. \A m \in Lengths : g(0)[m] = 0
    <3> SUFFICES ASSUME NEW m \in Lengths PROVE Cardinality(DocsOfLength(0, m)) = 0
      OBVIOUS
    <3>1. DocsOfLength(0, m) = {} /\ Cardinality({}) = 0
      BY FS_EmptySet DEF DocsOfLength
    <3> QED  BY <3>1
  <2> HIDE DEF g
  <2>2. SumOver(g(0), Lengths) = 0
    BY <1>2, <2>1, SumZero
  <2> QED  BY <2>2
<1>5. ASSUME NEW n \in Nat, n \in T PROVE n + 1 \in T
  <2> SUFFICES ASSUME n + 1 <= N PROVE SumOver(g(n + 1), Lengths) = n + 1
    OBVIOUS
  <2> DEFINE c == Len(Corpus[n + 1])
  <2>1. c \in Lengths
    BY <1>1, LengthsAre, CorpusIsTyped
  <2>2. \A m \in Lengths : g(n + 1)[m] = g(n)[m] + (IF c = m THEN 1 ELSE 0)
    BY OneMoreDocument
  <2>3. SumOver(g(n), Lengths) = n
    BY <1>5
  <2>4. \A m \in Lengths : g(n)[m] \in Int /\ g(n + 1)[m] \in Int
    BY <1>3
  <2> HIDE DEF g, c, T
  <2>5. SumOver(g(n + 1), Lengths) = SumOver(g(n), Lengths) - g(n)[c] + g(n + 1)[c]
    <3> DEFINE a == g(n)  b == g(n + 1)
    <3>1. /\ \A m \in Lengths : a[m] \in Int /\ b[m] \in Int
          /\ \A m \in Lengths : m # c => b[m] = a[m]
      BY <2>2, <2>4
    <3> HIDE DEF a, b
    <3>2. IsFiniteSet(Lengths) /\ (\A m \in Lengths : a[m] \in Int) /\ c \in Lengths /\ b[c] \in Int
      BY <1>2, <2>1, <3>1
    <3>3. SumOver(b, Lengths) = SumOver(a, Lengths) - a[c] + b[c]
      BY <3>1, <3>2, SumChange
    <3> QED  BY <3>3 DEF a, b
  <2> QED  BY <2>1, <2>2, <2>3, <2>4, <2>5
<1>6. N \in T
  <2> HIDE DEF T
  <2> QED  BY <1>1, <1>4, <1>5, AllNumbers
<1>7. Sum(g(N)) = SumOver(g(N), Lengths)
  <2> DEFINE h == g(N)
  <2>1. h = [m \in Lengths |-> h[m]]
    OBVIOUS
  <2> HIDE DEF h
  <2> QED  BY <2>1, SumIsOver DEF h
<1>8. SumOver(g(N), Lengths) = N
  BY <1>1, <1>6
<1> QED  BY <1>7, <1>8

\* The words of a stripe are its tokens.
LEMMA WordsAreTokens == ASSUME NEW S \in SUBSET Docs PROVE WordsOf(S) = WordsIn(S)
<1> DEFINE f == [d \in Docs |-> Len(Corpus[d])]
           T == {s \in SUBSET Docs : SumOver(f, s) = WordsIn(s)}
<1>1. IsFiniteSet(Docs) /\ \A d \in Docs : f[d] \in Int /\ f[d] = Len(Corpus[d])
  BY TokensAreFinite, CorpusIsTyped
<1> HIDE DEF f
<1>2. {} \in T
  <2>1. TokensOf({}) = {}
    BY DEF TokensOf
  <2>2. SumOver(f, {}) = 0
    BY <1>1, SumSteps
  <2> QED  BY <2>1, <2>2, FS_EmptySet DEF WordsIn
<1>3. ASSUME NEW s \in SUBSET Docs, NEW d \in Docs \ s, s \in T PROVE s \cup {d} \in T
  <2>1. SumOver(f, s \cup {d}) = f[d] + SumOver(f, s)
    BY <1>1, SumAdd
  <2>2. /\ IsFiniteSet(TokensOf(s)) /\ IsFiniteSet(OfDoc(d)) /\ TokensOf(s) \cap OfDoc(d) = {}
        /\ TokensOf(s \cup {d}) = TokensOf(s) \cup OfDoc(d)
    BY TokensAreFinite, FS_Subset, TokensOfMore, OfDocIs
  <2>3. /\ Cardinality(TokensOf(s) \cup OfDoc(d)) = Cardinality(TokensOf(s)) + Cardinality(OfDoc(d))
        /\ Cardinality(TokensOf(s)) \in Nat
    BY <2>2, UnionCount
  <2>4. Cardinality(OfDoc(d)) = f[d] /\ f[d] \in Int
    BY <1>1, OfDocIs
  <2>5. WordsIn(s \cup {d}) = f[d] + WordsIn(s)
    <3>1. Cardinality(TokensOf(s \cup {d})) = Cardinality(TokensOf(s) \cup OfDoc(d))
      BY <2>2
    <3> QED  BY <2>3, <2>4, <3>1 DEF WordsIn
  <2>6. SumOver(f, s) = WordsIn(s)
    BY <1>3
  <2> QED  BY <2>1, <2>5, <2>6
<1>4. S \in T
  <2> HIDE DEF T
  <2> QED  BY <1>1, <1>2, <1>3, AllSubsets
<1>5. WordsOf(S) = SumOver(f, S)
  <2>1. [d \in S |-> Len(Corpus[d])] = [d \in S |-> f[d]]
    BY <1>1
  <2> QED  BY <2>1 DEF WordsOf, SumOver
<1> QED  BY <1>4, <1>5

TallyOf(S) == [docs |-> Cardinality(S), words |-> WordsIn(S)]

\* Documents and words of stripes that have nothing in common.
LEMMA TallyAdds ==
  ASSUME NEW S \in SUBSET Docs, NEW R \in SUBSET Docs, S \cap R = {}
  PROVE  TallyOf(S \cup R) = [docs  |-> TallyOf(S).docs + Cardinality(R),
                              words |-> TallyOf(S).words + WordsOf(R)]
<1>1. IsFiniteSet(S) /\ IsFiniteSet(R) /\ IsFiniteSet(TokensOf(S)) /\ IsFiniteSet(TokensOf(R))
  BY TokensAreFinite, FS_Subset DEF TokensOf
<1>2. TokensOf(S \cup R) = TokensOf(S) \cup TokensOf(R) /\ TokensOf(S) \cap TokensOf(R) = {}
  BY DEF TokensOf
<1>3. Cardinality(S \cup R) = Cardinality(S) + Cardinality(R)
  BY <1>1, UnionCount
<1>4. Cardinality(TokensOf(S) \cup TokensOf(R)) = Cardinality(TokensOf(S)) + Cardinality(TokensOf(R))
  BY <1>1, <1>2, UnionCount
<1>5. /\ Cardinality(S \cup R) = Cardinality(S) + Cardinality(R)
      /\ WordsIn(S \cup R) = WordsIn(S) + WordsIn(R)
  BY <1>2, <1>3, <1>4 DEF WordsIn
<1>6. WordsOf(R) = WordsIn(R)
  BY WordsAreTokens
<1> QED  BY <1>5, <1>6 DEF TallyOf

LEMMA TallyEnds ==
  /\ TallyOf({}) = [docs |-> 0, words |-> 0]
  /\ TallyOf(Docs) = [docs |-> Len(Corpus), words |-> Cardinality(Tokens)]
<1>1. TokensOf({}) = {} /\ TokensOf(Docs) = Tokens /\ Cardinality({}) = 0
  BY Token, FS_EmptySet DEF TokensOf
<1>2. Cardinality(Docs) = Len(Corpus)
  <2>1. Docs = 1 .. Len(Corpus) /\ Len(Corpus) \in Int /\ Len(Corpus) > 0 /\ 1 \in Int
    BY CorpusAssumption DEF Docs
  <2>2. Cardinality(1 .. Len(Corpus)) = IF 1 > Len(Corpus) THEN 0 ELSE Len(Corpus) - 1 + 1
    BY <2>1, FS_Interval
  <2> QED  BY <2>1, <2>2
<1> QED  BY <1>1, <1>2 DEF TallyOf, WordsIn

-----------------------------------------------------------------------------
(* What the optimizer has collected: the single thread the documents that it has
   sampled, the main goroutine of many all of them. *)

NumDocs == Len(Corpus)

StatsOK ==
  /\ program = "singlethread" => thread[0].pc # "start"
  /\ main.iter > OptimStart =>
       /\ program = "singlethread" /\ main.phase = "sample" =>
            /\ thread[0].doc \in 1 .. NumDocs + 1
            /\ stats = StatsOf(topics, thread[0].doc - 1)
            /\ thread[0].pc = "done" => thread[0].doc = NumDocs + 1
       /\ (program = "singlethread" /\ main.phase = "optimize") \/ main.phase = "evaluate" =>
            stats = StatsOf(topics, NumDocs)

\* Documents that are sampled already keep their topics.
LEMMA StatsKept ==
  ASSUME NEW f \in Assignments, NEW d \in Docs, NEW p \in Positions(d), NEW x \in Topics,
         NEW n \in Nat, n < d
  PROVE  StatsOf(Moved(f, d, p, x), n) = StatsOf(f, n)
<1> DEFINE g == Moved(f, d, p, x)
<1>1. \A k \in Tokens : g[k[1]][k[2]] = IF k = <<d, p>> THEN x ELSE f[k[1]][k[2]]
  BY OneMoves
<1> HIDE DEF g
<1>2. ASSUME NEW e \in 1 .. n, NEW t PROVE DocCount(g, e, t) = DocCount(f, e, t)
  <2>1. e \in Docs /\ e # d
    BY CorpusAssumption DEF Docs
  <2>2. OfDoc(e) \in SUBSET Tokens /\ \A k \in OfDoc(e) : k # <<d, p>>
    BY <2>1, OfDocIs DEF OfDoc
  <2>3. \A k \in OfDoc(e) : g[k[1]][k[2]] = f[k[1]][k[2]]
    BY <1>1, <2>2
  <2>4. HowMany(g, OfDoc(e), t) = HowMany(f, OfDoc(e), t)
    BY <2>2, <2>3, HowManySame
  <2> QED  BY <2>1, <2>4, DocCountIs
<1>3. \A t, m : DocsWith(g, n, t, m) = DocsWith(f, n, t, m)
  BY <1>2 DEF DocsWith
<1>4. StatsOf(g, n) = StatsOf(f, n)
  BY <1>3 DEF StatsOf
<1> QED  BY <1>4 DEF g

\* The single thread is the one that runs.
LEMMA Single ==
  ASSUME TInv, program = "singlethread"
  PROVE  /\ Running = {0} /\ Stride = 1 /\ 0 \in Threads /\ DOMAIN thread = Threads
         /\ ThreadOK(0) /\ DOMAIN thread[0] = Fields
         /\ main.phase # "sample" => thread[0].pc \notin {"start", "sample"}
<1>1. Running = 0 .. Stride - 1 /\ Stride = 1 /\ Running \subseteq Threads
  BY StrideIs
<1>2. Running = {0} /\ 0 \in Threads
  BY <1>1
<1> QED  BY <1>1, <1>2 DEF TInv, ThreadsOK, ThreadOK

\* The single thread adds one document to the statistics as it goes on to the next.
LEMMA StatsOfThreads ==
  ASSUME TInv, TInv', StatsOK, NEW i \in Running, Thread(i) \/ Evaluate(i)
  PROVE  StatsOK'
<1>1. UNCHANGED <<program, main>> /\ program \in {"multithread", "singlethread"}
      /\ NumDocs \in Nat /\ Docs = 1 .. NumDocs
  <2>1. UNCHANGED <<program, main>>
    BY DEF Thread, StartThread, SampleToken, EndDocument, EndThread, Evaluate
  <2>2. NumDocs \in Nat /\ Docs = 1 .. NumDocs
    BY CorpusAssumption DEF Docs, NumDocs
  <2>3. program \in {"multithread", "singlethread"}
    BY DEF TInv, MainOK
  <2> QED  BY <2>1, <2>2, <2>3
<1>2. CASE program = "multithread"
  <2>1. CASE main.phase = "evaluate"
    <3>1. ~ StartThread(i) /\ ~ SampleToken(i) /\ ~ EndDocument(i) /\ ~ EndThread(i)
      BY <2>1, StrideIs
         DEF TInv, MainOK, ThreadsOK, ThreadOK, StartThread, SampleToken, EndDocument, EndThread
    <3>2. UNCHANGED <<stats, topics>>
      BY <3>1 DEF Thread, Evaluate
    <3> QED  BY <1>1, <1>2, <2>1, <3>2 DEF StatsOK
  <2>2. CASE main.phase # "evaluate"
    BY <1>1, <1>2, <2>2 DEF StatsOK
  <2> QED  BY <2>1, <2>2
<1>3. CASE program = "singlethread"
  <2>1. /\ i = 0 /\ Stride = 1 /\ 0 \in Threads /\ DOMAIN thread = Threads
        /\ ThreadOK(0) /\ DOMAIN thread[0] = Fields /\ thread[0].pc # "start"
        /\ main.phase # "sample" => thread[0].pc \notin {"start", "sample"}
    BY <1>3, Single DEF StatsOK
  <2>2. CASE SampleToken(0)
    <3> DEFINE d == thread[0].doc
               p == thread[0].pos
    <3>1. /\ thread[0].pc = "sample" /\ d <= NumDocs /\ p <= Len(Corpus[d]) /\ stats' = stats
          /\ thread' = [thread EXCEPT ![0].pos = p + 1]
          /\ \E t \in Drawn(thread[0].prior, d, p) : topics' = Moved(topics, d, p, t)
      BY <1>3, <2>2 DEF SampleToken, NumDocs, Moved
    <3>2. main.phase = "sample" /\ d \in Nat /\ d >= 1 /\ p \in Nat \ {0} /\ topics \in Assignments
      BY <2>1, <3>1, <1>3, Single DEF ThreadOK, TInv, MainOK
    <3>3. d \in Docs /\ p \in Positions(d)
      <4>1. d \in Docs
        BY <1>1, <3>1, <3>2
      <4> QED  BY <3>1, <3>2, <4>1, CorpusIsTyped
    <3>4. thread'[0].doc = d /\ thread'[0].pc = "sample"
      <4> DEFINE new == [thread[0] EXCEPT !.pos = p + 1]
      <4>1. new.doc = d /\ new.pc = "sample"
        BY <2>1, <3>1 DEF Fields
      <4>2. thread' = [thread EXCEPT ![0] = new]
        BY <3>1
      <4> HIDE DEF new
      <4> QED  BY <2>1, <4>1, <4>2
    <3>5. StatsOf(topics', d - 1) = StatsOf(topics, d - 1)
      <4>1. PICK t \in Topics : topics' = Moved(topics, d, p, t)
        BY <3>1, <3>2, DrawnAreTopics
      <4>2. d - 1 \in Nat /\ d - 1 < d
        BY <3>2
      <4> HIDE DEF d, p
      <4> QED  BY <3>2, <3>3, <4>1, <4>2, StatsKept
    <3> HIDE DEF p
    <3> QED  BY <1>1, <3>1, <3>2, <3>4, <3>5 DEF StatsOK
  <2>3. CASE EndDocument(0)
    <3> DEFINE d == thread[0].doc
    <3>1. /\ thread[0].pc = "sample" /\ d <= NumDocs
          /\ thread' = [thread EXCEPT ![0].doc = d + Stride, ![0].pos = 1]
          /\ topics' = topics
          /\ main.iter > OptimStart => stats' = CollectDocumentStatistics(stats, d, topics)
      BY <1>3, <2>3 DEF EndDocument, NextDoc, NumDocs
    <3>2. main.phase = "sample" /\ d \in Nat /\ d >= 1
      BY <2>1, <3>1, <1>3, Single DEF ThreadOK
    <3>3. thread'[0].doc = d + 1 /\ thread'[0].pc = "sample"
      <4> DEFINE new == [thread[0] EXCEPT !.doc = d + Stride, !.pos = 1]
      <4>1. new.doc = d + 1 /\ new.pc = "sample"
        BY <2>1, <3>1 DEF Fields
      <4>2. thread' = [thread EXCEPT ![0] = new]
        BY <3>1
      <4> HIDE DEF new
      <4> QED  BY <2>1, <4>1, <4>2
    <3>4. ASSUME main.iter > OptimStart PROVE stats' = StatsOf(topics, d)
      <4>1. stats = StatsOf(topics, d - 1) /\ stats' = CollectDocumentStatistics(stats, d, topics)
        BY <1>3, <3>1, <3>2, <3>4 DEF StatsOK
      <4>2. d - 1 \in Nat /\ (d - 1) + 1 = d /\ d \in Docs
        BY <1>1, <3>1, <3>2
      <4>3. CollectDocumentStatistics(StatsOf(topics, d - 1), (d - 1) + 1, topics)
              = StatsOf(topics, (d - 1) + 1)
        BY <4>2, Collects
      <4> QED  BY <4>1, <4>2, <4>3
    <3>5. (d + 1) - 1 = d /\ d + 1 \in 1 .. NumDocs + 1
      BY <1>1, <3>1, <3>2
    <3> HIDE DEF d
    <3> QED  BY <1>1, <3>1, <3>2, <3>3, <3>4, <3>5 DEF StatsOK
  <2>4. CASE EndThread(0)
    <3>1. /\ thread[0].pc = "sample" /\ thread[0].doc > NumDocs
          /\ thread' = [thread EXCEPT ![0].pc = "done"] /\ UNCHANGED <<topics, stats>>
      BY <2>4 DEF EndThread, NumDocs
    <3>2. main.phase = "sample" /\ thread[0].doc \in Nat
      BY <2>1, <3>1, <1>3, Single DEF ThreadOK
    <3>3. thread'[0].doc = thread[0].doc /\ thread'[0].pc = "done"
      <4> DEFINE new == [thread[0] EXCEPT !.pc = "done"]
      <4>1. new.doc = thread[0].doc /\ new.pc = "done"
        BY <2>1, <3>1 DEF Fields
      <4>2. thread' = [thread EXCEPT ![0] = new]
        BY <3>1
      <4> HIDE DEF new
      <4> QED  BY <2>1, <4>1, <4>2
    <3> QED  BY <1>1, <1>3, <3>1, <3>2, <3>3 DEF StatsOK
  <2>5. CASE Evaluate(0)
    <3>1. /\ main.phase = "evaluate" /\ UNCHANGED <<topics, stats>>
          /\ thread' = [thread EXCEPT ![0].pc = "evaluated"]
      BY <2>5 DEF Evaluate
    <3>2. thread'[0].pc = "evaluated"
      BY <2>1, <3>1 DEF Fields
    <3> QED  BY <1>1, <1>3, <3>1, <3>2 DEF StatsOK
  <2>6. ~ StartThread(0)
    BY <2>1 DEF StartThread
  <2> QED  BY <2>1, <2>2, <2>3, <2>4, <2>5, <2>6 DEF Thread
<1> QED  BY <1>1, <1>2, <1>3

LEMMA StatsStep == ASSUME TInv, TInv', StatsOK, [Next]_vars PROVE StatsOK'
<1>0. main \in [phase : Phases, iter : Nat] /\ program \in {"multithread", "singlethread"}
  BY DEF TInv, MainOK
<1>1. CASE BeginIteration
  <2>1. /\ main' = [main EXCEPT !.phase = "sample"] /\ program' = program /\ topics' = topics
        /\ stats' = NewOptimizer
        /\ thread' = [i \in Threads |->
             IF i \notin Running THEN thread[i]
             ELSE IF program = "multithread" THEN [Idle EXCEPT !.pc = "start", !.diff = NewModel]
             ELSE [thread[i] EXCEPT !.pc = "sample", !.doc = 1]]
    BY <1>1 DEF BeginIteration
  <2>2. main'.phase = "sample"
    BY <1>0, <2>1
  <2>3. CASE program = "singlethread"
    <3>1. Running = {0} /\ 0 \in Threads /\ DOMAIN thread[0] = Fields
      BY <2>3, Single
    <3> DEFINE new == [thread[0] EXCEPT !.pc = "sample", !.doc = 1]
    <3>2. new.pc = "sample" /\ new.doc = 1
      BY <3>1 DEF Fields
    <3>3. thread'[0] = new
      BY <2>1, <2>3, <3>1
    <3> HIDE DEF new
    <3>4. stats' = StatsOf(topics, 0)
      BY <2>1, NothingCollected
    <3>5. thread'[0].doc \in 1 .. NumDocs + 1 /\ thread'[0].doc - 1 = 0
      BY <3>2, <3>3, CorpusAssumption DEF NumDocs
    <3> QED  BY <2>1, <2>2, <3>2, <3>3, <3>4, <3>5 DEF StatsOK
  <2>4. CASE program # "singlethread"
    BY <2>1, <2>2, <2>4 DEF StatsOK
  <2> QED  BY <2>3, <2>4
<1>2. CASE BreakOff \/ LastIteration \/ SaveModel
  <2>1. /\ UNCHANGED <<program, thread>>
        /\ main' \in {[main EXCEPT !.phase = "save"], [main EXCEPT !.phase = "end"]}
    BY <1>2 DEF BreakOff, LastIteration, SaveModel
  <2>2. main'.phase \in {"save", "end"}
    BY <1>0, <2>1
  <2> QED  BY <2>1, <2>2 DEF StatsOK
<1>3. CASE JoinThreads
  <2>1. /\ UNCHANGED <<program, topics, thread, stats>> /\ main.phase = "sample"
        /\ \A i \in Running : thread[i].pc = "done"
        /\ main' = [main EXCEPT !.phase = IF program = "multithread" THEN "accumulate" ELSE "optimize"]
    BY <1>3 DEF JoinThreads
  <2>2. main'.phase = (IF program = "multithread" THEN "accumulate" ELSE "optimize")
        /\ main'.iter = main.iter
    BY <1>0, <2>1
  <2>3. CASE program = "singlethread"
    <3>1. thread[0].pc = "done"
      BY <2>1, <2>3, Single
    <3>2. main.iter > OptimStart => stats = StatsOf(topics, (NumDocs + 1) - 1)
      BY <2>1, <2>3, <3>1 DEF StatsOK
    <3>3. (NumDocs + 1) - 1 = NumDocs
      BY CorpusAssumption DEF NumDocs
    <3> QED  BY <2>1, <2>2, <3>1, <3>2, <3>3 DEF StatsOK
  <2>4. CASE program = "multithread"
    BY <2>1, <2>2, <2>4 DEF StatsOK
  <2> QED  BY <1>0, <2>3, <2>4
<1>4. CASE NextDiff
  <2>1. program = "multithread" /\ program' = program
        /\ main' \in {main, [main EXCEPT !.phase = "optimize"]} /\ main.phase = "accumulate"
    BY <1>4 DEF NextDiff, TInv, MainOK
  <2>2. main'.phase \in {"accumulate", "optimize"}
    BY <1>0, <2>1
  <2> QED  BY <2>1, <2>2 DEF StatsOK
<1>5. CASE Optimize
  <2>1. /\ main.phase = "optimize" /\ main' = [main EXCEPT !.phase = "evaluate"]
        /\ UNCHANGED <<program, topics>>
        /\ main.iter > OptimStart =>
             stats' = IF program = "multithread" THEN CollectAll(topics) ELSE stats
        /\ thread' = [i \in Threads |->
              IF program = "multithread" THEN Idle
              ELSE [thread[i] EXCEPT !.pc = "idle", !.prior = model'.prior]]
    BY <1>5 DEF Optimize
  <2>2. main'.phase = "evaluate" /\ main'.iter = main.iter
    BY <1>0, <2>1
  <2>3. main.iter > OptimStart => stats' = StatsOf(topics, NumDocs)
    BY <1>0, <2>1, CollectAllIs DEF StatsOK, NumDocs
  <2>4. program = "singlethread" => thread'[0].pc # "start"
    <3> SUFFICES ASSUME program = "singlethread" PROVE thread'[0].pc # "start"
      OBVIOUS
    <3>1. 0 \in Threads /\ DOMAIN thread[0] = Fields
      BY Single
    <3>2. thread'[0] = [thread[0] EXCEPT !.pc = "idle", !.prior = model'.prior]
      BY <2>1, <3>1
    <3> QED  BY <3>1, <3>2 DEF Fields
  <2> QED  BY <2>1, <2>2, <2>3, <2>4 DEF StatsOK
<1>6. CASE EndIteration
  <2>1. /\ main' = [phase |-> "head", iter |-> main.iter + 1] /\ program' = program
        /\ thread' = [i \in Threads |-> [thread[i] EXCEPT !.pc = "idle"]]
    BY <1>6 DEF EndIteration
  <2>2. program = "singlethread" => thread'[0].pc # "start"
    <3> SUFFICES ASSUME program = "singlethread" PROVE thread'[0].pc # "start"
      OBVIOUS
    <3>1. 0 \in Threads /\ DOMAIN thread[0] = Fields
      BY Single
    <3>2. thread'[0] = [thread[0] EXCEPT !.pc = "idle"]
      BY <2>1, <3>1
    <3> QED  BY <3>1, <3>2 DEF Fields
  <2>3. main'.phase = "head"
    BY <2>1
  <2> QED  BY <2>1, <2>2, <2>3 DEF StatsOK
<1>7. CASE \E i \in Running : Thread(i) \/ Evaluate(i)
  BY <1>7, StatsOfThreads
<1>8. CASE Accumulate \/ Signal \/ Ended \/ UNCHANGED vars
  <2>1. UNCHANGED <<program, topics, thread, stats, main>>
    BY <1>8 DEF Accumulate, Signal, Ended, vars
  <2> QED  BY <2>1 DEF StatsOK
<1> QED  BY <1>1, <1>2, <1>3, <1>4, <1>5, <1>6, <1>7, <1>8 DEF Next, Main

-----------------------------------------------------------------------------
(* The tally of the log-likelihood: documents that are evaluated, those of   *)
(* stripes.                                                                   *)

Evaluated == {d \in Docs : thread[(d - 1) % Stride].pc = "evaluated"}

TallyOK ==
  /\ Iterating => tally = TallyOf({})
  /\ main.phase = "evaluate" => /\ \A i \in Running : thread[i].pc \in {"idle", "evaluated"}
                               /\ tally = TallyOf(Evaluated)
  /\ main.phase = "head" /\ main.iter > 0 /\ (main.iter - 1) % EvalLag = 0 => tally = TallyOf(Docs)

\* What is left of a multiple of n and a number below n.
LEMMA MultipleAndRest ==
  ASSUME NEW n \in Nat \ {0}, NEW i \in 0 .. n - 1, NEW q \in Nat
  PROVE  n * q \in Nat /\ (n * q + i) % n = i
<1> DEFINE T == {p \in Nat : n * p \in Nat /\ (n * p + i) % n = i}
<1>1. 0 \in T
  <2>1. n * 0 = 0 /\ 0 + i = i /\ i \in Nat /\ i < n
    BY SMT
  <2>2. i % n = i
    BY <2>1, Remainder
  <2> QED  BY <2>1, <2>2
<1>2. ASSUME NEW p \in Nat, p \in T PROVE p + 1 \in T
  <2>1. n * (p + 1) = n * p + n /\ n * p \in Nat
    BY <1>2, SMT
  <2> DEFINE x == n * p  y == n * (p + 1)
  <2>2. x \in Nat /\ y = x + n /\ (x + i) % n = i
    BY <1>2, <2>1
  <2> HIDE DEF x, y
  <2>3. x + i \in Nat
    BY <2>2
  <2>4. ((x + i) + n) % n = (x + i) % n
    BY <2>3, Remainder
  <2>5. (x + i) + n = y + i /\ y \in Nat
    BY <2>2
  <2>6. y \in Nat /\ (y + i) % n = i
    BY <2>2, <2>4, <2>5
  <2> QED  BY <2>6 DEF y
<1>3. q \in T
  <2> HIDE DEF T
  <2> QED  BY <1>1, <1>2, AllNumbers
<1> QED  BY <1>3

\* Every n-th number from i on.
LEMMA SameRest ==
  ASSUME NEW a \in Nat, NEW n \in Nat \ {0}, NEW i \in 0 .. n - 1
  PROVE  a + 1 > i /\ (a - i) % n = 0 <=> a % n = i
<1>1. ASSUME a + 1 > i, (a - i) % n = 0 PROVE a % n = i
  <2> DEFINE b == a - i  q == b \div n
  <2>1. b \in Nat /\ b % n = 0
    BY <1>1
  <2> HIDE DEF b
  <2>2. q \in Nat /\ b = n * q + (b % n)
    BY <2>1, SMT
  <2> HIDE DEF q
  <2>3. n * q \in Nat /\ (n * q + i) % n = i
    BY <2>2, MultipleAndRest
  <2>4. b = n * q
    BY <2>1, <2>2, <2>3
  <2>5. a = b + i
    BY <2>1 DEF b
  <2> QED  BY <2>3, <2>4, <2>5
<1>2. ASSUME a % n = i PROVE a + 1 > i /\ (a - i) % n = 0
  <2> DEFINE q == a \div n
  <2>1. q \in Nat /\ a = n * q + (a % n)
    BY SMT
  <2> HIDE DEF q
  <2>2. n * q \in Nat /\ (n * q + 0) % n = 0
    BY <2>1, MultipleAndRest
  <2>3. a - i = n * q + 0 /\ a + 1 > i
    BY <1>2, <2>1, <2>2
  <2> QED  BY <2>2, <2>3
<1> QED  BY <1>1, <1>2

\* Each document is in one stripe.
LEMMA StripeIs ==
  ASSUME program \in {"multithread", "singlethread"}, NEW i \in Running
  PROVE  /\ Stripe(i) = {d \in Docs : (d - 1) % Stride = i}
         /\ \A d \in Docs : (d - 1) % Stride \in Running
<1>1. /\ Stride \in Nat \ {0} /\ Running = 0 .. Stride - 1
      /\ Docs = 1 .. Len(Corpus) /\ Len(Corpus) \in Nat
  BY StrideIs, CorpusAssumption DEF Docs
<1>2. ASSUME NEW d \in Docs
      PROVE  /\ (d - 1) % Stride \in Running
             /\ d > i /\ (d - 1 - i) % Stride = 0 <=> (d - 1) % Stride = i
  <2>1. d - 1 \in Nat /\ (d - 1) + 1 = d
    BY <1>1
  <2>2. (d - 1) % Stride \in Running
    BY <1>1, <2>1, Remainder
  <2> DEFINE a == d - 1  n == Stride
  <2>3. a \in Nat /\ n \in Nat \ {0} /\ i \in 0 .. n - 1 /\ a + 1 = d
    BY <1>1, <2>1
  <2> HIDE DEF a, n
  <2>4. a + 1 > i /\ (a - i) % n = 0 <=> a % n = i
    BY <2>3, SameRest
  <2>5. d > i /\ (a - i) % n = 0 <=> a % n = i
    BY <2>3, <2>4
  <2> QED  BY <2>2, <2>5 DEF a, n
<1> QED  BY <1>1, <1>2 DEF Stripe

\* A goroutine adds its stripe to the tally, which no other adds.
LEMMA TallyOfThreads ==
  ASSUME TInv, TInv', TallyOK, NEW i \in Running, Thread(i) \/ Evaluate(i)
  PROVE  TallyOK'
<1>1. UNCHANGED <<program, main>> /\ program \in {"multithread", "singlethread"}
  BY DEF Thread, StartThread, SampleToken, EndDocument, EndThread, Evaluate, TInv, MainOK
<1>2. CASE main.phase # "evaluate"
  <2>1. UNCHANGED tally
    BY <1>2 DEF Thread, StartThread, SampleToken, EndDocument, EndThread, Evaluate
  <2> QED  BY <1>1, <1>2, <2>1 DEF TallyOK, Iterating
<1>3. CASE main.phase = "evaluate"
  <2>1. /\ \A j \in Running : thread[j].pc \in {"idle", "evaluated"}
        /\ tally = TallyOf(Evaluated)
    BY <1>3 DEF TallyOK
  <2>2. Evaluate(i)
    BY <2>1 DEF Thread, StartThread, SampleToken, EndDocument, EndThread
  <2>3. /\ thread[i].pc = "idle" /\ thread' = [thread EXCEPT ![i].pc = "evaluated"]
        /\ tally' = [docs  |-> tally.docs + Cardinality(Stripe(i)),
                     words |-> tally.words + WordsOf(Stripe(i))]
    BY <2>2 DEF Evaluate
  <2>4. /\ Running \subseteq Threads /\ DOMAIN thread = Threads
        /\ DOMAIN thread[i] = Fields /\ i \in Threads
    BY <1>1, StrideIs DEF TInv, ThreadsOK, ThreadOK
  <2>5. \A j \in Running : thread'[j].pc = IF j = i THEN "evaluated" ELSE thread[j].pc
    <3> DEFINE new == [thread[i] EXCEPT !.pc = "evaluated"]
    <3>1. new.pc = "evaluated" /\ thread' = [thread EXCEPT ![i] = new]
      BY <2>3, <2>4 DEF Fields
    <3> HIDE DEF new
    <3> QED  BY <2>4, <3>1
  <2>6. /\ Stripe(i) = {d \in Docs : (d - 1) % Stride = i}
        /\ \A d \in Docs : (d - 1) % Stride \in Running
    BY <1>1, StripeIs
  <2>7. Running' = Running /\ Evaluated' = {d \in Docs : thread'[(d - 1) % Stride].pc = "evaluated"}
    BY <1>1 DEF Running, Stride, Evaluated
  <2>8. Evaluated' = Evaluated \cup Stripe(i) /\ Evaluated \cap Stripe(i) = {}
    BY <2>3, <2>5, <2>6, <2>7 DEF Evaluated
  <2>9. Evaluated \in SUBSET Docs /\ Stripe(i) \in SUBSET Docs
    BY <2>6 DEF Evaluated
  <2>10. tally' = TallyOf(Evaluated')
    <3> DEFINE S == Evaluated  R == Stripe(i)
    <3>1. S \in SUBSET Docs /\ R \in SUBSET Docs /\ S \cap R = {}
      BY <2>8, <2>9
    <3> HIDE DEF S, R
    <3>2. TallyOf(S \cup R) = [docs  |-> TallyOf(S).docs + Cardinality(R),
                               words |-> TallyOf(S).words + WordsOf(R)]
      BY <3>1, TallyAdds
    <3>3. Evaluated' = S \cup R /\ tally = TallyOf(S)
      BY <2>1, <2>8 DEF S, R
    <3>4. tally' = [docs  |-> tally.docs + Cardinality(R), words |-> tally.words + WordsOf(R)]
      BY <2>3 DEF R
    <3> QED  BY <3>2, <3>3, <3>4
  <2>11. \A j \in Running' : thread'[j].pc \in {"idle", "evaluated"}
    BY <2>1, <2>5, <2>7
  <2>12. main'.phase = "evaluate"
    BY <1>1, <1>3
  <2> QED  BY <2>10, <2>11, <2>12 DEF TallyOK, Iterating
<1> QED  BY <1>2, <1>3

LEMMA TallyStep == ASSUME TInv, TInv', TallyOK, [Next]_vars PROVE TallyOK'
<1>0. /\ main \in [phase : Phases, iter : Nat] /\ program \in {"multithread", "singlethread"}
      /\ Running \subseteq Threads /\ DOMAIN thread = Threads
      /\ \A i \in Threads : DOMAIN thread[i] = Fields
      /\ \A d \in Docs : (d - 1) % Stride \in Running
  <2>1. main \in [phase : Phases, iter : Nat] /\ program \in {"multithread", "singlethread"}
    BY DEF TInv, MainOK
  <2>2. 0 \in Running /\ Running \subseteq Threads
    BY <2>1, StrideIs
  <2> QED  BY <2>1, <2>2, StripeIs DEF TInv, ThreadsOK, ThreadOK
<1>1. CASE BeginIteration
  <2>1. main' = [main EXCEPT !.phase = "sample"] /\ tally' = [docs |-> 0, words |-> 0]
    BY <1>1 DEF BeginIteration
  <2>2. main'.phase = "sample" /\ tally' = TallyOf({})
    BY <1>0, <2>1, TallyEnds
  <2> QED  BY <2>2 DEF TallyOK
<1>2. CASE BreakOff \/ LastIteration \/ SaveModel
  <2>1. main' \in {[main EXCEPT !.phase = "save"], [main EXCEPT !.phase = "end"]}
    BY <1>2 DEF BreakOff, LastIteration, SaveModel
  <2>2. main'.phase \in {"save", "end"}
    BY <1>0, <2>1
  <2> QED  BY <2>2 DEF TallyOK, Iterating
<1>3. CASE JoinThreads \/ NextDiff \/ Accumulate
  <2>1. /\ main.phase \in {"sample", "accumulate"} /\ tally' = tally
        /\ main' \in {main, [main EXCEPT !.phase = "accumulate"], [main EXCEPT !.phase = "optimize"]}
    BY <1>3 DEF JoinThreads, NextDiff, Accumulate
  <2>2. main'.phase \in {"sample", "accumulate", "optimize"}
    BY <1>0, <2>1
  <2>3. tally = TallyOf({})
    BY <2>1 DEF TallyOK, Iterating
  <2> QED  BY <2>1, <2>2, <2>3 DEF TallyOK
<1>4. CASE Optimize
  <2>1. /\ main.phase = "optimize" /\ main' = [main EXCEPT !.phase = "evaluate"]
        /\ program' = program /\ tally' = tally
        /\ thread' = [i \in Threads |->
              IF program = "multithread" THEN Idle
              ELSE [thread[i] EXCEPT !.pc = "idle", !.prior = model'.prior]]
    BY <1>4 DEF Optimize
  <2>2. main'.phase = "evaluate" /\ tally' = TallyOf({}) /\ Running' = Running
    BY <1>0, <2>1 DEF TallyOK, Iterating, Running, Stride
  <2>3. \A i \in Threads : thread'[i].pc = "idle"
    <3> SUFFICES ASSUME NEW i \in Threads PROVE thread'[i].pc = "idle"
      OBVIOUS
    <3>1. thread'[i] = IF program = "multithread" THEN Idle
                       ELSE [thread[i] EXCEPT !.pc = "idle", !.prior = model'.prior]
      BY <2>1
    <3> QED  BY <1>0, <3>1 DEF Idle, Fields
  <2>4. Evaluated' = {d \in Docs : thread'[(d - 1) % Stride].pc = "evaluated"}
    BY <2>1 DEF Evaluated, Stride
  <2>5. Evaluated' = {}
    BY <1>0, <2>3, <2>4
  <2> QED  BY <1>0, <2>2, <2>3, <2>5 DEF TallyOK, Iterating
<1>5. CASE EndIteration
  <2>1. /\ main.phase = "evaluate" /\ main' = [phase |-> "head", iter |-> main.iter + 1]
        /\ tally' = tally
        /\ main.iter % EvalLag = 0 => \A i \in Running : thread[i].pc = "evaluated"
    BY <1>5 DEF EndIteration
  <2>2. main'.phase = "head" /\ main'.iter - 1 = main.iter
    BY <1>0, <2>1
  <2>3. main.iter % EvalLag = 0 => tally = TallyOf(Docs)
    <3> SUFFICES ASSUME main.iter % EvalLag = 0 PROVE tally = TallyOf(Docs)
      OBVIOUS
    <3>1. Evaluated = Docs
      BY <1>0, <2>1 DEF Evaluated
    <3> QED  BY <2>1, <3>1 DEF TallyOK
  <2> QED  BY <2>1, <2>2, <2>3 DEF TallyOK, Iterating
<1>6. CASE \E i \in Running : Thread(i) \/ Evaluate(i)
  BY <1>6, TallyOfThreads
<1>7. CASE Signal \/ Ended \/ UNCHANGED vars
  <2>1. UNCHANGED <<program, thread, tally, main>>
    BY <1>7 DEF Signal, Ended, vars
  <2> QED  BY <2>1 DEF TallyOK, Iterating, Evaluated, Stride, Running
<1> QED  BY <1>1, <1>2, <1>3, <1>4, <1>5, <1>6, <1>7 DEF Next, Main

LEMMA InitStatsTally == Init => StatsOK /\ TallyOK
<1> SUFFICES ASSUME Init PROVE StatsOK /\ TallyOK
  OBVIOUS
<1>1. main.phase = "head" /\ main.iter = 0 /\ thread = [i \in Threads |-> Idle]
      /\ program \in {"multithread", "singlethread"}
  BY TrainerAssumption DEF Init
<1>2. ~ (0 > OptimStart)
  BY TrainerAssumption
<1>3. 0 \in Threads
  BY <1>1, StrideIs
<1>4. thread[0].pc = "idle"
  BY <1>1, <1>3 DEF Idle
<1> QED  BY <1>1, <1>2, <1>4 DEF StatsOK, TallyOK, Iterating

\* What the properties say of the statistics and the tally.
LEMMA CountedOnce == ASSUME TInv, StatsOK, TallyOK PROVE TokensCountOnce
<1>1. ASSUME main.phase = "evaluate", main.iter > OptimStart
      PROVE  /\ \A t \in Topics :
                  Sum([n \in Lengths |-> n * stats.topicDocs[t][n]]) = model.global[t]
             /\ Sum([n \in Lengths |-> stats.docLens[n]]) = Len(Corpus)
  <2>1. stats = StatsOf(topics, Len(Corpus))
    BY <1>1 DEF StatsOK, NumDocs
  <2>2. ASSUME NEW t \in Topics
        PROVE  Sum([n \in Lengths |-> n * stats.topicDocs[t][n]]) = model.global[t]
    <3>1. [n \in Lengths |-> n * stats.topicDocs[t][n]]
            = [n \in Lengths |-> n * Cardinality(DocsWith(topics, Len(Corpus), t, n))]
      BY <2>1 DEF StatsOf
    <3>2. Sum([n \in Lengths |-> n * Cardinality(DocsWith(topics, Len(Corpus), t, n))])
            = HowMany(topics, Tokens, t)
      BY TopicDocsAddUp
    <3>3. model.global[t] = HowMany(topics, Tokens, t)
      <4>1. MainOK /\ Counts(model) = CountsOf(Hybrid) /\ Merged = Tokens
        BY <1>1 DEF TInv, ModelCounts, Merged
      <4>2. Counts(model) = CountsOf(topics)
        BY <4>1, HybridIs DEF HybridFacts
      <4>3. model.global = [u \in Topics |-> HowMany(topics, Tokens, u)]
        BY <4>2, CountsAre
      <4> QED  BY <4>3
    <3> QED  BY <3>1, <3>2, <3>3
  <2>3. Sum([n \in Lengths |-> stats.docLens[n]]) = Len(Corpus)
    <3>1. [n \in Lengths |-> stats.docLens[n]]
            = [n \in Lengths |-> Cardinality(DocsOfLength(Len(Corpus), n))]
      BY <2>1 DEF StatsOf
    <3> QED  BY <3>1, DocLensAddUp
  <2> QED  BY <2>2, <2>3
<1>2. ASSUME main.phase = "head", main.iter > 0, (main.iter - 1) % EvalLag = 0
      PROVE  tally = [docs |-> Len(Corpus), words |-> Cardinality(Tokens)]
  BY <1>2, TallyEnds DEF TallyOK
<1> QED  BY <1>1, <1>2 DEF TokensCountOnce

\* Each token counts once, for the optimizer under the topic that the model counts
\* it for, and for the perplexity (optimizer.go, multithread.go, singlethread.go).
THEOREM TokensAreCountedOnce == Spec => []TokensCountOnce
<1>1. Init => TInv /\ StatsOK /\ TallyOK
  BY InitTInv, InitStatsTally
<1>2. TInv /\ StatsOK /\ TallyOK /\ [Next]_vars => (TInv /\ StatsOK /\ TallyOK)'
  BY NextTInv, StatsStep, TallyStep
<1>3. TInv /\ StatsOK /\ TallyOK => TokensCountOnce
  BY CountedOnce
<1> QED  BY <1>1, <1>2, <1>3, PTL DEF Spec

-----------------------------------------------------------------------------
(* Topics without a prior have no tokens. *)

PriorOK ==
  /\ model.prior.values \in [Topics -> {"zero", "positive"}]
  /\ \A t \in Topics : model.prior.values[t] = "zero" =>
       /\ ~ Shape
       /\ \A k \in Tokens : /\ topics[k[1]][k[2]] # t
                            /\ Iterating => base.topics[k[1]][k[2]] # t

\* The optimizer has a document for a topic that a token has, and for no other.
LEMMA DocsOfTopic ==
  ASSUME NEW f, NEW t \in Topics
  PROVE  (\E n \in Lengths : StatsOf(f, NumDocs).topicDocs[t][n] > 0)
           <=> \E k \in Tokens : f[k[1]][k[2]] = t
<1> DEFINE D(n) == DocsWith(f, NumDocs, t, n)
<1>1. Docs = 1 .. NumDocs /\ NumDocs \in Nat
  BY CorpusAssumption DEF Docs, NumDocs
<1>2. ASSUME NEW n \in Lengths
      PROVE  StatsOf(f, NumDocs).topicDocs[t][n] > 0 <=> \E d \in Docs : n > 0 /\ DocCount(f, d, t) = n
  <2>1. StatsOf(f, NumDocs).topicDocs[t][n] = Cardinality(D(n))
    BY DEF StatsOf
  <2>2. D(n) = {d \in Docs : n > 0 /\ DocCount(f, d, t) = n}
    BY <1>1 DEF DocsWith
  <2>3. IsFiniteSet(D(n))
    BY <2>2, TokensAreFinite, FS_Subset
  <2> HIDE DEF D
  <2>4. Cardinality(D(n)) \in Nat /\ (Cardinality(D(n)) = 0 <=> D(n) = {})
    BY <2>3, FS_CardinalityType, FS_EmptySet
  <2> QED  BY <2>1, <2>2, <2>4
<1>3. ASSUME NEW d \in Docs
      PROVE  /\ DocCount(f, d, t) \in Lengths /\ DocCount(f, d, t) \in Nat
             /\ DocCount(f, d, t) > 0 <=> \E k \in OfDoc(d) : f[k[1]][k[2]] = t
  <2> DEFINE S == {k \in OfDoc(d) : f[k[1]][k[2]] = t}
  <2>1. DocCount(f, d, t) = Cardinality(S) /\ DocCount(f, d, t) \in Lengths
    BY DocCountIs DEF HowMany
  <2>2. IsFiniteSet(S)
    BY OfDocIs, FS_Subset
  <2>3. S = {} <=> ~ \E k \in OfDoc(d) : f[k[1]][k[2]] = t
    OBVIOUS
  <2> HIDE DEF S
  <2>4. Cardinality(S) \in Nat /\ (Cardinality(S) = 0 <=> S = {})
    BY <2>2, FS_CardinalityType, FS_EmptySet
  <2> QED  BY <2>1, <2>3, <2>4
<1>4. \A k \in Tokens : k[1] \in Docs /\ k \in OfDoc(k[1])
  BY Token DEF OfDoc
<1>5. \A d \in Docs : OfDoc(d) \in SUBSET Tokens
  BY OfDocIs
<1>6. (\E n \in Lengths : StatsOf(f, NumDocs).topicDocs[t][n] > 0)
        <=> \E d \in Docs : DocCount(f, d, t) > 0
  BY <1>2, <1>3
<1> QED  BY <1>3, <1>4, <1>5, <1>6

\* A topic that was drawn has a prior, or a token already.
LEMMA DrawnHavePriors ==
  ASSUME ~ BorderDraws, IInv, TInv, PriorOK, NEW i \in Running, SampleToken(i)
  PROVE  PriorOK'
<1> DEFINE d == thread[i].doc
           p == thread[i].pos
           w == Corpus[d][p]
           moved(m, t) == Consider(Neglect(m, w, topics[d][p]), w, t)
<1>1. /\ thread[i].pc = "sample" /\ d <= Len(Corpus) /\ p <= Len(Corpus[d])
      /\ UNCHANGED <<main, base>> /\ topics \in Assignments
      /\ d \in Nat /\ p \in Nat \ {0} /\ d >= 1
  BY StrideIs DEF SampleToken, TInv, MainOK, ThreadsOK, ThreadOK
<1>2. PICK x \in Drawn(thread[i].prior, d, p) :
        /\ topics' = Moved(topics, d, p, x)
        /\ model' \in {model, moved(model, x)}
  BY DEF SampleToken, Moved
<1>3. d \in Docs /\ p \in Positions(d)
  <2>1. d \in Docs
    BY <1>1, CorpusAssumption DEF Docs
  <2> QED  BY <1>1, <2>1, CorpusIsTyped
<1>4. model'.prior = model.prior
  <2>1. {"word", "global", "prior"} \subseteq DOMAIN model
    BY DEF IInv, HasFields
  <2>2. moved(model, x).prior = model.prior
    BY <2>1, CountsOnly
  <2> HIDE DEF moved
  <2> QED  BY <1>2, <2>2
<1>5. thread[i].prior = model.prior
  BY <1>1 DEF IInv, PriorsCached
<1>6. x \in Topics /\ model.prior.values[x] # "zero"
  <2>1. CASE model.prior.values[x] = "positive"
    BY <1>2, <2>1 DEF Drawn
  <2>2. CASE \E q \in Positions(d) \ {p} : topics[d][q] = x
    <3>1. PICK q \in Positions(d) : topics[d][q] = x
      BY <2>2
    <3>2. <<d, q>> \in Tokens /\ <<d, q>>[1] = d /\ <<d, q>>[2] = q
      BY <1>3, APair
    <3>3. x \in Topics
      BY <1>2 DEF Drawn
    <3> QED  BY <3>1, <3>2, <3>3 DEF PriorOK
  <2> QED  BY <1>2, <1>5, <2>1, <2>2 DEF Drawn
<1>7. \A k \in Tokens : topics'[k[1]][k[2]] = IF k = <<d, p>> THEN x ELSE topics[k[1]][k[2]]
  <2> HIDE DEF d, p
  <2> QED  BY <1>1, <1>2, <1>3, <1>6, OneMoves
<1>8. Iterating' = Iterating
  BY <1>1 DEF Iterating
<1> HIDE DEF d, p, w, moved
<1> QED  BY <1>1, <1>4, <1>6, <1>7, <1>8 DEF PriorOK

\* A prior becomes zero only without the shape and without documents of the topic,
\* and the prior of a topic without documents stays zero.
LEMMA OptimizedPriors ==
  ASSUME TInv, TInv', StatsOK', PriorOK, Optimize
  PROVE  /\ PriorOK'
         /\ \A t \in Topics : model.prior.values[t] = "zero" => model'.prior.values[t] = "zero"
<1>1. /\ main' = [main EXCEPT !.phase = "evaluate"] /\ topics' = topics
      /\ main.iter > OptimStart =>
           model' = [model EXCEPT !.prior = OptimizeTopicPriors(model.prior, stats')]
      /\ ~ (main.iter > OptimStart) => model' = model
  BY DEF Optimize
<1>2. main'.phase = "evaluate" /\ main'.iter = main.iter
  BY <1>1 DEF TInv, MainOK
<1>3. ~ Iterating'
  BY <1>2 DEF Iterating
<1>4. CASE ~ (main.iter > OptimStart)
  BY <1>1, <1>3, <1>4 DEF PriorOK
<1>5. CASE main.iter > OptimStart
  <2> DEFINE docs(t) == stats'.topicDocs[t]
             some(t) == \E n \in Lengths : docs(t)[n] > 0
  <2>1. stats' = StatsOf(topics, NumDocs)
    BY <1>1, <1>2, <1>5 DEF StatsOK, NumDocs
  <2>2. \A t \in Topics : some(t) <=> \E k \in Tokens : topics[k[1]][k[2]] = t
    BY <2>1, DocsOfTopic
  <2>3. model'.prior = OptimizeTopicPriors(model.prior, stats')
    BY <1>1, <1>5 DEF TInv, ModelOK, IsModel
  <2>4. /\ model'.prior.values = [t \in Topics |-> OptimizedPrior(model.prior.values[t], docs(t))]
        /\ \A t \in Topics : model.prior.values[t] \in {"zero", "positive"}
    BY <2>3 DEF OptimizeTopicPriors, PriorOK
  <2>5. ASSUME NEW t \in Topics
        PROVE  /\ OptimizedPrior(model.prior.values[t], docs(t)) \in {"zero", "positive"}
               /\ model.prior.values[t] = "zero" =>
                    OptimizedPrior(model.prior.values[t], docs(t)) = "zero"
               /\ OptimizedPrior(model.prior.values[t], docs(t)) = "zero" =>
                    ~ Shape /\ ~ some(t)
    <3>1. CASE model.prior.values[t] = "zero"
      <4>1. ~ Shape /\ ~ some(t)
        BY <2>2, <3>1 DEF PriorOK
      <4> QED  BY <3>1, <4>1 DEF OptimizedPrior
    <3>2. CASE model.prior.values[t] = "positive"
      BY <3>2 DEF OptimizedPrior
    <3> QED  BY <2>4, <3>1, <3>2
  <2> HIDE DEF docs, some
  <2>6. \A t \in Topics : model'.prior.values[t] = OptimizedPrior(model.prior.values[t], docs(t))
    BY <2>4
  <2>7. model'.prior.values \in [Topics -> {"zero", "positive"}]
    BY <2>4, <2>5
  <2>8. ASSUME NEW t \in Topics, model'.prior.values[t] = "zero"
        PROVE  ~ Shape /\ \A k \in Tokens : topics'[k[1]][k[2]] # t
    BY <1>1, <2>2, <2>5, <2>6, <2>8
  <2> QED  BY <1>3, <2>5, <2>6, <2>7, <2>8 DEF PriorOK
<1> QED  BY <1>4, <1>5

\* All other steps.
LEMMA PriorKept ==
  ASSUME TInv, PriorOK, [Next]_vars, ~ Optimize, \A i \in Running : ~ SampleToken(i)
  PROVE  PriorOK' /\ model'.prior = model.prior
<1>0. main \in [phase : Phases, iter : Nat] /\ DOMAIN model = {"word", "global", "prior"}
  BY DEF TInv, MainOK, ModelOK, IsModel
<1>1. CASE BeginIteration
  <2>1. topics' = topics /\ model' = model /\ base'.topics = topics
    BY <1>1 DEF BeginIteration
  <2> QED  BY <2>1 DEF PriorOK
<1>2. CASE BreakOff \/ LastIteration \/ SaveModel \/ EndIteration
  <2>1. topics' = topics /\ model' = model
        /\ main' \in {[main EXCEPT !.phase = "save"], [main EXCEPT !.phase = "end"],
                      [phase |-> "head", iter |-> main.iter + 1]}
    BY <1>2 DEF BreakOff, LastIteration, SaveModel, EndIteration
  <2>2. main'.phase \in {"save", "end", "head"}
    BY <1>0, <2>1
  <2> QED  BY <2>1, <2>2 DEF PriorOK, Iterating
<1>3. CASE JoinThreads \/ NextDiff
  <2>1. topics' = topics /\ model' = model /\ base' = base /\ Iterating
    BY <1>3 DEF JoinThreads, NextDiff, Iterating
  <2> QED  BY <2>1 DEF PriorOK
<1>4. CASE Accumulate
  <2>1. PICK w \in merge.todo :
          model' = AccumulateWord(model, w, thread[merge.diff].diff.word[w])
    BY <1>4 DEF Accumulate
  <2>2. topics' = topics /\ base' = base /\ main' = main
    BY <1>4 DEF Accumulate
  <2>3. model'.prior = model.prior
    BY <1>0, <2>1, CountsOnly
  <2> QED  BY <2>2, <2>3 DEF PriorOK, Iterating
<1>5. CASE \E i \in Running : Thread(i) \/ Evaluate(i)
  <2>1. UNCHANGED <<topics, model, base, main>>
    BY <1>5 DEF Thread, StartThread, EndDocument, EndThread, Evaluate
  <2> QED  BY <2>1 DEF PriorOK, Iterating
<1>6. CASE Signal \/ Ended \/ UNCHANGED vars
  <2>1. UNCHANGED <<topics, model, base, main>>
    BY <1>6 DEF Signal, Ended, vars
  <2> QED  BY <2>1 DEF PriorOK, Iterating
<1> QED  BY <1>1, <1>2, <1>3, <1>4, <1>5, <1>6 DEF Next, Main

LEMMA PriorStep ==
  ASSUME ~ BorderDraws, IInv, TInv, TInv', StatsOK', PriorOK, [Next]_vars
  PROVE  /\ PriorOK'
         /\ \A t \in Topics : model.prior.values[t] = "zero" => model'.prior.values[t] = "zero"
<1>1. CASE Optimize
  BY <1>1, OptimizedPriors
<1>2. CASE \E i \in Running : SampleToken(i)
  <2>1. PICK i \in Running : SampleToken(i)
    BY <1>2
  <2>2. PriorOK'
    BY <2>1, DrawnHavePriors
  <2>3. model'.prior = model.prior
    <3>1. {"word", "global", "prior"} \subseteq DOMAIN model
      BY DEF IInv, HasFields
    <3>2. \A w, t, h : Consider(Neglect(model, w, t), w, h).prior = model.prior
      BY <3>1, CountsOnly
    <3>3. model' = model \/ \E w, t, h : model' = Consider(Neglect(model, w, t), w, h)
      BY <2>1 DEF SampleToken
    <3> QED  BY <3>2, <3>3
  <2> QED  BY <2>2, <2>3
<1>3. CASE ~ Optimize /\ ~ \E i \in Running : SampleToken(i)
  BY <1>3, PriorKept
<1> QED  BY <1>1, <1>2, <1>3

\* The model has no token for a topic without a prior.
NoTokens == \A t \in Topics : model.prior.values[t] = "zero" => model.global[t] = 0

LEMMA DeadHaveNoTokens == ASSUME TInv, PriorOK PROVE NoTokens
<1>1. model.global = [t \in Topics |-> HowMany(Hybrid, Tokens, t)]
  BY CountsAre DEF TInv, ModelCounts
<1>2. HybridFacts /\ MainOK
  BY HybridIs DEF TInv
<1>3. Iterating \/ Merged = Tokens
  BY DEF Merged, Iterating
<1>4. ASSUME NEW t \in Topics, model.prior.values[t] = "zero" PROVE model.global[t] = 0
  <2>1. \A k \in Tokens : Hybrid[k[1]][k[2]] # t
    BY <1>2, <1>3, <1>4 DEF HybridFacts, PriorOK
  <2>2. {k \in Tokens : Hybrid[k[1]][k[2]] = t} = {} /\ Cardinality({}) = 0
    BY <2>1, FS_EmptySet
  <2>3. HowMany(Hybrid, Tokens, t) = 0
    BY <2>2 DEF HowMany
  <2> QED  BY <1>1, <2>3
<1> QED  BY <1>4 DEF NoTokens

LEMMA InitPrior == Init => PriorOK
<1> SUFFICES ASSUME Init PROVE PriorOK
  OBVIOUS
<1>1. model.prior.values = Initially
  BY DEF Init, ModelOf, NewModel
<1> QED  BY <1>1 DEF PriorOK, Initially

\* A topic whose prior has become zero never gets a token again, and no prior
\* becomes infinity times zero (optimizer.go, sampler.go), if no draw falls exactly
\* on the border of the last bucket.
THEOREM TheDeadStayDead ==
  ASSUME ~ BorderDraws
  PROVE  Spec => DeadTopicsStayDead
<1> DEFINE J == IInv /\ TInv /\ StatsOK /\ PriorOK
           Dead == \A t \in Topics :
                     /\ model'.prior.values[t] # "nan"
                     /\ model.prior.values[t] = "zero" =>
                          /\ model'.prior.values[t] = "zero"
                          /\ model.global[t] = 0 /\ model'.global[t] = 0
<1>1. Init => J
  BY InitIInv, InitTInv, InitStatsTally, InitPrior
<1>2. J /\ [Next]_vars => J'
  BY NextIInv, NextTInv, StatsStep, PriorStep
<1>3. J => NoTokens
  BY DeadHaveNoTokens
<1>4. J' => NoTokens'
  BY <1>3, PTL
<1>5. J /\ [Next]_vars => [Dead]_vars
  <2> SUFFICES ASSUME J, [Next]_vars PROVE Dead
    OBVIOUS
  <2>1. J' /\ NoTokens /\ NoTokens'
    BY <1>2, <1>3, <1>4
  <2>2. \A t \in Topics : model.prior.values[t] = "zero" => model'.prior.values[t] = "zero"
    BY <2>1, PriorStep
  <2>3. \A t \in Topics : model'.prior.values[t] # "nan"
    BY <2>1 DEF PriorOK
  <2> QED  BY <2>1, <2>2, <2>3 DEF NoTokens
<1>6. [][Dead]_vars => DeadTopicsStayDead
  BY DEF DeadTopicsStayDead
<1> HIDE DEF J, Dead
<1> QED  BY <1>1, <1>2, <1>5, <1>6, PTL DEF Spec
=============================================================================
