------------------------------ MODULE TopWords ------------------------------
(***************************************************************************)
(* How a model is shown: GetTopWords and GetTopNWords of Model, which      *)
(* PrintTopics and DescribeTopics use.  A histogram of words is a sequence *)
(* of [word, count]; percentage is a quotient.                             *)
(***************************************************************************)
EXTENDS Integers, Sequences, FiniteSets, Sums

CONSTANTS
  NumTopics,    \* topics are 0 .. NumTopics - 1
  VocabSize,    \* words are 0 .. VocabSize - 1
  MaxCount,     \* bound: of a word in a topic
  Surplus,      \* by how much a global histogram may exceed the words of a model
  Percentages,  \* pairs of numerator and denominator
  Lengths       \* -len of cmd/print_model and cmd/interpreter

Topics == 0 .. NumTopics - 1
Words  == 0 .. VocabSize - 1

TopWordsAssumption ==
  /\ NumTopics \in Nat /\ VocabSize \in Nat /\ MaxCount \in Nat /\ Surplus \subseteq Nat
  /\ Percentages \subseteq Nat \X (Nat \ {0}) /\ Lengths \subseteq Nat \ {0}

VARIABLES
  hists,   \* Model.WordTopicHists; zero: no entry
  global,  \* Model.GlobalTopicHist
  percent, \* the percentage of the last call, or <<>>
  top,     \* what GetTopNWords returned for every topic
  descs    \* what DescribeTopics returned, or <<>>

vars == <<hists, global, percent, top, descs>>

Weight(s) == Sum([i \in DOMAIN s |-> s[i].count])

\* Descending counts, and ascending words where they are equal.
Before(d, e) == d.count > e.count \/ (d.count = e.count /\ d.word < e.word)

\* An OrderedSparse to which a Sparse of the words of topic t is assigned.
GetTopWords(t) ==
  LET E == {[word |-> w, count |-> hists[w][t]] : w \in {u \in Words : hists[u][t] > 0}}
  IN  CHOOSE s \in [1 .. Cardinality(E) -> E] :
        \A i, j \in DOMAIN s : i < j => Before(s[i], s[j])

\* int(float64(Nt) * percentage).
Enough(t, p) == (global[t] * p[1]) \div p[2]

\* As GetTopNWords below, but the word that reaches the limit is left out.
GetTopNWordsShort(t, p) ==
  LET all  == GetTopWords(t)
      cuts == {n \in DOMAIN all : Weight(SubSeq(all, 1, n)) >= Enough(t, p)}
  IN  IF cuts = {} THEN all ELSE SubSeq(all, 1, Min(cuts) - 1)

\* The loop stops after the word whose count reaches the limit.
GetTopNWords(t, p) ==
  LET all  == GetTopWords(t)
      cuts == {n \in DOMAIN all : Weight(SubSeq(all, 1, n)) >= Enough(t, p)}
  IN  IF cuts = {} THEN all ELSE SubSeq(all, 1, Min(cuts))

PrintTopics(p) ==
  /\ percent' = p
  /\ top' = [t \in Topics |-> GetTopNWords(t, p)]
  /\ UNCHANGED <<hists, global, descs>>

\* A topic that has no words is a panic of its goroutine.
DescribeTopics(n) ==
  /\ descs' = IF \E t \in Topics : GetTopWords(t) = <<>> THEN <<>>
              ELSE [t \in Topics |->
                     LET s == GetTopWords(t) IN SubSeq(s, 1, Min({n, Len(s)}))]
  /\ UNCHANGED <<hists, global, percent, top>>

Init ==
  /\ hists \in [Words -> [Topics -> 0 .. MaxCount]]
  /\ \E more \in Surplus :
       global = [t \in Topics |-> more + Sum([w \in Words |-> hists[w][t]])]
  /\ percent = <<>> /\ top = [t \in Topics |-> <<>>]
  /\ descs = <<>>

Next == \/ \E p \in Percentages : PrintTopics(p)
        \/ \E n \in Lengths : DescribeTopics(n)

Spec == Init /\ [][Next]_vars

-----------------------------------------------------------------------------
(* Properties. *)

WordsIn(s) == {s[i].word : i \in DOMAIN s}
WordsOf(t) == {w \in Words : hists[w][t] > 0}

HeavierThanOthers(S, t) ==
  \A w \in S, u \in Words \ S : hists[w][t] >= hists[u][t]

\* The words that are shown have the percentage that was asked for of the topic,
\* no fewer words have it, and no other word is more frequent; the latter also
\* goes for descriptions.  PrintTopics, which asks for 100 percent, prints every
\* word, also of the part of a model that one aggregator has saved, whose global
\* histogram counts the words of the others too.
FewestHeaviestWords ==
  /\ percent # <<>> => \A t \in Topics :
    LET shown == WordsIn(top[t])
        weigh(S) == Sum([w \in S |-> hists[w][t]])
    IN  /\ percent = <<1, 1>> => shown = WordsOf(t)
        /\ shown = WordsOf(t) \/ weigh(shown) >= Enough(t, percent)
        /\ \A S \in SUBSET WordsOf(t) : S # {} /\ weigh(S) >= Enough(t, percent) =>
             Cardinality(S) >= Cardinality(shown)
        /\ HeavierThanOthers(shown, t)
  /\ descs # <<>> => \A t \in Topics :
       descs[t] # <<>> /\ HeavierThanOthers(WordsIn(descs[t]), t)
=============================================================================
