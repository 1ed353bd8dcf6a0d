------------------------------- MODULE Library -------------------------------
(***************************************************************************)
(* The parts of the library that run on their own, side by side with the   *)
(* evaluator: a behaviour is one of the part that is chosen at the         *)
(* beginning, while the others stay in an initial state.                   *)
(***************************************************************************)
EXTENDS Evaluator, Sequences

CONSTANTS
  HistTopics, MaxInt, Amounts, Others,                      \* OrderedSparse
  MaxWords, MaxShards,                                      \* Sharding
  Strings, Fingerprint, VocabFiles, Lines, Translations,    \* Vocabulary
  Bounds, Processes, Reader, MaxLines,
  MaxOccurrences, Surplus, Percentages, TopLengths,         \* TopWords
  QueryTopics, Likely, QueryLengths, Rounds, MaxShown,      \* Interpreter
  Files                                                     \* Config

VARIABLES
  part,
  o, panicked,                                              \* OrderedSparse
  v, shards, present, maps,                                 \* Sharding
  file, tokens, ids, bounds, corpus, scan, query, original, \* Vocabulary
  words, global, percent, top, descs,                       \* TopWords
  times, pc, topics, topicHist, at, sum, norm, dist, samples, \* Interpreter
  c, outcome, calls                                         \* Config

histogram   == <<o, panicked>>
sharding    == <<v, shards, present, maps>>
vocabulary  == <<file, tokens, ids, bounds, corpus, scan, query, original>>
topwords    == <<words, global, percent, top, descs>>
interpreter == <<times, pc, topics, topicHist, at, sum, norm, dist, samples>>
config      == <<c, outcome, calls>>

H == INSTANCE OrderedSparse WITH NumTopics <- HistTopics
S == INSTANCE Sharding
V == INSTANCE Vocabulary WITH given <- original
W == INSTANCE TopWords
       WITH MaxCount <- MaxOccurrences, Lengths <- TopLengths, hists <- words
I == INSTANCE Interpreter WITH NumTopics <- QueryTopics, Lengths <- QueryLengths
C == INSTANCE Config WITH None <- Nil

ASSUME LibraryAssumption ==
  /\ H!OrderedSparseAssumption /\ V!VocabularyAssumption /\ I!InterpreterAssumption
  /\ W!TopWordsAssumption

-----------------------------------------------------------------------------
IdleEvaluator   == cached = 0 /\ sampler = FALSE /\ hists = [w \in Words |-> Nil] /\ Init
IdleVocabulary  == file \in VocabFiles /\ bounds = [min |-> 0, max |-> 0] /\ V!Init
IdleTopWords    == /\ words = [w \in W!Words |-> [t \in W!Topics |-> 1]]
                   /\ global = [t \in W!Topics |-> VocabSize]
                   /\ W!Init
IdleInterpreter == times = [burnin |-> 0, iter |-> 1] /\ I!Init
IdleConfig      == /\ c = [Aggregators |-> <<>>, Squads |-> <<>>,
                           Machines |-> {}, NumVShards |-> 0]
                   /\ C!Init

LibraryInit ==
  /\ part \in {"evaluator", "histogram", "sharding", "vocabulary", "topwords",
               "interpreter", "config"}
  /\ IF part = "evaluator" THEN Init ELSE IdleEvaluator
  /\ H!Init
  /\ S!Init
  /\ IF part = "vocabulary" THEN V!Init ELSE IdleVocabulary
  /\ IF part = "topwords" THEN W!Init ELSE IdleTopWords
  /\ IF part = "interpreter" THEN I!Init ELSE IdleInterpreter
  /\ IF part = "config" THEN C!Init ELSE IdleConfig

LibraryNext ==
  \/ /\ part = "evaluator" /\ Next
     /\ UNCHANGED <<part, histogram, sharding, vocabulary, topwords, interpreter, config>>
  \/ /\ part = "histogram" /\ H!Next
     /\ UNCHANGED <<part, vars, sharding, vocabulary, topwords, interpreter, config>>
  \/ /\ part = "sharding" /\ S!Next
     /\ UNCHANGED <<part, vars, histogram, vocabulary, topwords, interpreter, config>>
  \/ /\ part = "vocabulary" /\ V!Next
     /\ UNCHANGED <<part, vars, histogram, sharding, topwords, interpreter, config>>
  \/ /\ part = "topwords" /\ W!Next
     /\ UNCHANGED <<part, vars, histogram, sharding, vocabulary, interpreter, config>>
  \/ /\ part = "interpreter" /\ I!Next
     /\ UNCHANGED <<part, vars, histogram, sharding, vocabulary, topwords, config>>
  \/ /\ part = "config" /\ C!Next
     /\ UNCHANGED <<part, vars, histogram, sharding, vocabulary, topwords, interpreter>>

allvars == <<part, vars, histogram, sharding, vocabulary, topwords, interpreter, config>>

LibrarySpec == LibraryInit /\ [][LibraryNext]_allvars

-----------------------------------------------------------------------------
(* The properties of the parts; those of Evaluator have their names already. *)

\* OrderedSparse: descending positive counts, one entry for a topic.
EntriesAreOrdered == H!EntriesAreOrdered
\* OrderedSparse: it is a Hist.
IsHist == H!IsHist

\* Sharding: each histogram goes to one shard.
EveryWordHasOneShard == S!EveryWordHasOneShard

\* Vocabulary: processes give a string the same id.
ProcessesAgree == V!ProcessesAgree
\* Vocabulary: queries and documents have the words of their texts.
WordsAreKept == V!WordsAreKept

\* TopWords: words that are shown are the fewest and heaviest.
FewestHeaviestWords == W!FewestHeaviestWords

\* Interpreter: the answer is the share of topics in the samples that count.
AnswerIsShareOfSamples == I!AnswerIsShareOfSamples

\* Config: a valid job has what master and squads assume.
ValidJobsAreWhole == C!ValidJobsAreWhole
\* Config: workers find their place by their addresses.
WorkersFindTheirPlace == C!WorkersFindTheirPlace
=============================================================================
