----------------------------- MODULE Interpreter -----------------------------
(***************************************************************************)
(* Interpret and the handler of cmd/interpreter, which shows the heaviest  *)
(* topics of a query: the words of a query get topics as those of a        *)
(* document do, and after a burn-in the topics of each round are counted.  *)
(* A topic prior is above zero or not; a distribution is a sequence of     *)
(* topics and counts, whose common divisor is norm.                        *)
(***************************************************************************)
EXTENDS Integers, Sequences, FiniteSets, FiniteSetsExt, Sums

CONSTANTS
  NumTopics, \* topics are 0 .. NumTopics - 1
  Likely,    \* topics whose prior is above zero
  Lengths,   \* numbers of words of a query that the vocabulary has
  Rounds,    \* pairs of burnin and iter
  MaxShown   \* 10 in the code

Topics == 0 .. NumTopics - 1

InterpreterAssumption ==
  /\ NumTopics \in Nat \ {0} /\ Likely \subseteq Topics
  /\ Lengths \subseteq Nat /\ Rounds \subseteq [burnin : Nat, iter : Nat]
  /\ MaxShown \in Nat

VARIABLES
  times,     \* the arguments [burnin, iter]
  pc,        \* "called", "sampling", "done", "empty" (an error), "panic"
  topics,    \* Document.Topics
  topicHist, \* Document.TopicHist
  at,        \* [round, pos]: the loop variables, from 0 and from 1
  sum,       \* accumulatedTopicHist
  norm,      \* the number of topics that were counted
  dist,      \* the result
  samples    \* history: the topics at the end of each round

vars == <<times, pc, topics, topicHist, at, sum, norm, dist, samples>>

Zero == [t \in Topics |-> 0]
HistOf(ts) == [t \in Topics |-> Cardinality({p \in DOMAIN ts : ts[p] = t})]

Init ==
  /\ times \in Rounds
  /\ pc = "called"
  /\ topics = <<>> /\ topicHist = Zero
  /\ at = [round |-> 0, pos |-> 1]
  /\ sum = Zero /\ norm = 0
  /\ dist = <<>> /\ samples = <<>>

\* InitializeDocument draws from all topics.
Interpret ==
  /\ pc = "called"
  /\ \E n \in Lengths : \E ts \in [1 .. n -> Topics] :
       IF times.iter <= times.burnin
       THEN pc' = "panic" /\ UNCHANGED <<topics, topicHist>>
       ELSE /\ pc' = IF n = 0 THEN "empty" ELSE "sampling"
            /\ topics' = ts /\ topicHist' = HistOf(ts)
  /\ UNCHANGED <<times, at, sum, norm, dist, samples>>

\* What sampleTopic may return: topics of the other words, likely ones, and
\* topic 0 when the sample is at the edge of the smoothing-only bucket.
Sampled(hist) == {t \in Topics : hist[t] > 0} \cup Likely \cup {0}

\* As SampleTopic below, but the old topic stays in the histogram.
SampleTopicAdding ==
  /\ pc = "sampling" /\ at.round < times.iter /\ at.pos <= Len(topics)
  /\ \E t \in Sampled(topicHist) :
       /\ topics' = [topics EXCEPT ![at.pos] = t]
       /\ topicHist' = [topicHist EXCEPT ![t] = @ + 1]
  /\ at' = [at EXCEPT !.pos = @ + 1]
  /\ UNCHANGED <<times, pc, sum, norm, dist, samples>>

SampleTopic ==
  /\ pc = "sampling" /\ at.round < times.iter /\ at.pos <= Len(topics)
  /\ LET others == [topicHist EXCEPT ![topics[at.pos]] = @ - 1]
     IN  \E t \in Sampled(others) :
           /\ topics' = [topics EXCEPT ![at.pos] = t]
           /\ topicHist' = [others EXCEPT ![t] = @ + 1]
  /\ at' = [at EXCEPT !.pos = @ + 1]
  /\ UNCHANGED <<times, pc, sum, norm, dist, samples>>

Counted(round) == round > times.burnin

EndRound ==
  /\ pc = "sampling" /\ at.round < times.iter /\ at.pos > Len(topics)
  /\ at' = [round |-> at.round + 1, pos |-> 1]
  /\ samples' = Append(samples, topics)
  /\ IF Counted(at.round)
     THEN /\ sum' = [t \in Topics |-> sum[t] + topicHist[t]]
          /\ norm' = norm + Sum(topicHist)
     ELSE UNCHANGED <<sum, norm>>
  /\ UNCHANGED <<times, pc, topics, topicHist, dist>>

\* Less compares probabilities only.
Sorted(E) ==
  {s \in [1 .. Cardinality(E) -> E] :
     \A i, j \in DOMAIN s : i < j => s[i] # s[j] /\ s[i].count >= s[j].count}

Return ==
  /\ pc = "sampling" /\ at.round = times.iter
  /\ pc' = "done"
  /\ dist' \in Sorted({[topic |-> t, count |-> sum[t]] : t \in {u \in Topics : sum[u] > 0}})
  /\ UNCHANGED <<times, topics, topicHist, at, sum, norm, samples>>

\* The topics that the handler shows.
Shown == SubSeq(dist, 1, Min({Len(dist), MaxShown}))

Answered == pc \in {"done", "empty", "panic"} /\ UNCHANGED vars

Next == Interpret \/ SampleTopic \/ EndRound \/ Return \/ Answered

Spec == Init /\ [][Next]_vars

-----------------------------------------------------------------------------
(* Properties. *)

\* The rounds after the burn-in, of which the first is not counted: with one
\* round after the burn-in there is none, and the answer has no topics
\* (interpreter.go 46 and 72).
Kept == {r \in DOMAIN samples : r > times.burnin + 1}

\* The answer is the share of each topic in the rounds that are kept, though a
\* histogram of the document is all that is counted, and it follows the words
\* one by one; no topic that is not shown has a larger share.
AnswerIsShareOfSamples ==
  pc = "done" =>
    /\ norm = Len(topics) * Cardinality(Kept)
    /\ \A t \in Topics :
         LET times_t == Sum([r \in Kept |-> HistOf(samples[r])[t]])
         IN  IF times_t = 0 THEN \A i \in DOMAIN dist : dist[i].topic # t
             ELSE \E i \in DOMAIN dist :
                    /\ dist[i] = [topic |-> t, count |-> times_t]
                    /\ i > Len(Shown) => \A j \in DOMAIN Shown : Shown[j].count >= times_t
=============================================================================
