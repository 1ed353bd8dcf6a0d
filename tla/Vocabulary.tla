----------------------------- MODULE Vocabulary -----------------------------
(***************************************************************************)
(* The vocabulary (core/gibbs/vocab.go) and what is read with it: corpora  *)
(* and queries (core/utils/io.go, core/gibbs/document.go).  Every process  *)
(* of a job loads the vocabulary file on its own, and they exchange words  *)
(* as ids only.  Ids and positions count from 1 here, from 0 in the code.  *)
(***************************************************************************)
EXTENDS Integers, SequencesExt

CONSTANTS
  Strings,      \* strings, as numbers in their lexical order
  Fingerprint,  \* [Strings -> Nat]: the hash of each; it may collide
  VocabFiles,   \* the first columns of the lines of a vocabulary file
  Lines,        \* lines of a corpus, as sequences of strings
  Translations, \* functions from some strings to strings
  Bounds,       \* minimal and maximal lengths of documents: -minlen, -maxlen
  Processes,    \* that load the vocabulary
  Reader,       \* the one of them that reads a corpus as well
  MaxLines      \* bound: lines of the corpus

VocabularyAssumption ==
  /\ Strings \subseteq Nat /\ Fingerprint \in [Strings -> Nat]
  /\ VocabFiles \subseteq Seq(Strings) /\ Reader \in Processes
  /\ Lines \subseteq Seq(Strings) /\ Bounds \subseteq [min : Int, max : Int]

VARIABLES
  file,     \* the vocabulary file
  tokens,   \* tokens[p]: Vocabulary.Tokens in process p, empty before Load
  ids,      \* ids[p]: Vocabulary.ids
  bounds,   \* the flags of Reader
  corpus,   \* the documents that it has read, each a sequence of ids
  scan,     \* LoadCorpusOrDie: lines it has read (history), and where it is
  query,    \* the last query, and the document made of it
  given     \* history: Tokens of Reader before they were translated

vars == <<file, tokens, ids, bounds, corpus, scan, query, given>>

\* As Less below, but blind to strings with the same hash.
LessHash(s, t) == Fingerprint[s] < Fingerprint[t]

Less(s, t) == \/ Fingerprint[s] < Fingerprint[t]
              \/ Fingerprint[s] = Fingerprint[t] /\ s < t

\* What sort.Sort, which is not stable, may make of the slice s.
Sorted(s) ==
  {r \in {[i \in DOMAIN s |-> s[f[i]]] : f \in Bijection(DOMAIN s, DOMAIN s)} :
     \A i, j \in DOMAIN r : i < j => ~ Less(r[j], r[i])}

\* The last of several equal tokens counts.
buildIdMap(ts) ==
  [s \in Range(ts) |-> CHOOSE i \in DOMAIN ts :
                         ts[i] = s /\ \A j \in DOMAIN ts : ts[j] = s => j <= i]

Load(p) ==
  /\ tokens[p] = <<>>
  /\ \E ts \in Sorted(file) :
       /\ tokens' = [tokens EXCEPT ![p] = ts]
       /\ ids' = [ids EXCEPT ![p] = buildIdMap(ts)]
       /\ given' = IF p = Reader THEN ts ELSE given
  /\ UNCHANGED <<file, bounds, corpus, scan, query>>

\* TranslatedVocab of Reader, with the map of tokens built anew.
TranslatedVocabAnew(tr) ==
  /\ tokens[Reader] # <<>> /\ tokens[Reader] = given
  /\ LET ts == [i \in DOMAIN given |-> IF given[i] \in DOMAIN tr THEN tr[given[i]]
                                       ELSE given[i]]
     IN  /\ tokens' = [tokens EXCEPT ![Reader] = ts]
         /\ ids' = [ids EXCEPT ![Reader] = buildIdMap(ts)]
  /\ UNCHANGED <<file, bounds, corpus, scan, query, given>>

\* TranslatedVocab replaces the tokens in place, and not their map to ids.
TranslatedVocab(tr) ==
  /\ tokens[Reader] # <<>> /\ tokens[Reader] = given
  /\ LET ts == [i \in DOMAIN given |-> IF given[i] \in DOMAIN tr THEN tr[given[i]]
                                       ELSE given[i]]
     IN  tokens' = [tokens EXCEPT ![Reader] = ts]
  /\ UNCHANGED <<file, ids, bounds, corpus, scan, query, given>>

\* Vocabulary.Id.
Known(s) == s \in DOMAIN ids[Reader]
Id(s)    == ids[Reader][s]

\* InitializeDocument skips unknown words.
DocumentOf(line) ==
  LET upTo[i \in 0 .. Len(line)] ==
        IF i = 0 THEN <<>>
        ELSE IF Known(line[i]) THEN Append(upTo[i - 1], Id(line[i])) ELSE upTo[i - 1]
  IN  upTo[Len(line)]

Admitted(n) == /\ bounds.min > 0 => n >= bounds.min
               /\ bounds.max > 0 => n <= bounds.max

\* One turn of the loop of LoadCorpusOrDie; trainers do not translate.
ReadLine(line) ==
  /\ tokens[Reader] # <<>> /\ tokens[Reader] = given
  /\ scan.state = "open" /\ Len(scan.lines) < MaxLines
  /\ scan' = [scan EXCEPT !.lines = Append(@, line)]
  /\ corpus' = IF Admitted(Len(DocumentOf(line)))
               THEN Append(corpus, DocumentOf(line)) ELSE corpus
  /\ UNCHANGED <<file, tokens, ids, bounds, query, given>>

\* What follows the last newline comes together with io.EOF, and ends the loop.
ReadRest ==
  /\ tokens[Reader] # <<>> /\ scan.state = "open"
  /\ scan' = [scan EXCEPT !.state = IF corpus = <<>> THEN "fatal" ELSE "done"]
  /\ UNCHANGED <<file, tokens, ids, bounds, corpus, query, given>>

\* cmd/interpreter translates the vocabulary before it answers queries.
Query(words) ==
  /\ tokens[Reader] # <<>>
  /\ query' = [words |-> words, doc |-> DocumentOf(words)]
  /\ UNCHANGED <<file, tokens, ids, bounds, corpus, scan, given>>

Init ==
  /\ file \in VocabFiles
  /\ tokens = [p \in Processes |-> <<>>]
  /\ ids = [p \in Processes |-> <<>>]
  /\ bounds \in Bounds
  /\ corpus = <<>>
  /\ scan = [lines |-> <<>>, state |-> "open"]
  /\ query = [words |-> <<>>, doc |-> <<>>]
  /\ given = <<>>

Next ==
  \/ \E p \in Processes : Load(p)
  \/ \E tr \in Translations : TranslatedVocab(tr)
  \/ \E line \in Lines : ReadLine(line) \/ Query(line)
  \/ ReadRest

Spec == Init /\ [][Next]_vars

-----------------------------------------------------------------------------
(* Properties. *)

\* Processes that load the same file give a string the same id, though they sort
\* on their own: loaders send ids to aggregators (loader_service.go 150-158), and
\* a model file holds nothing else.
ProcessesAgree ==
  \A p \in Processes \ {Reader} :
    tokens[p] # <<>> /\ given # <<>> => tokens[p] = given /\ ids[p] = ids[Reader]

\* f lists the numbers in P in their order.
Lists(f, P) == Range(f) = P /\ \A i, j \in DOMAIN f : i < j => f[i] < f[j]

KnownIn(line) == {i \in DOMAIN line : line[i] \in Range(file)}

\* The document has, one by one, the words of line that the vocabulary has.
HasWordsOf(doc, line) ==
  \E f \in [DOMAIN doc -> KnownIn(line)] :
    Lists(f, KnownIn(line)) /\ \A i \in DOMAIN doc : given[doc[i]] = line[f[i]]

\* The lines read so far whose number of known words is within the bounds.
Fitting ==
  {i \in DOMAIN scan.lines :
     LET n == Cardinality(KnownIn(scan.lines[i]))
     IN  (bounds.min > 0 => n >= bounds.min) /\ (bounds.max > 0 => ~ n > bounds.max)}

\* A query has the words that were asked for in their order, each as one id, also
\* when the vocabulary has been translated for display meanwhile, or has a token
\* twice; a corpus has such a document for every line that a newline ends, in
\* their order, when its length is within the bounds that are set.
WordsAreKept ==
  /\ HasWordsOf(query.doc, query.words)
  /\ \A i, j \in DOMAIN query.doc :
       given[query.doc[i]] = given[query.doc[j]] => query.doc[i] = query.doc[j]
  /\ \E f \in [DOMAIN corpus -> Fitting] :
       /\ Lists(f, Fitting)
       /\ \A d \in DOMAIN corpus : HasWordsOf(corpus[d], scan.lines[f[d]])
=============================================================================
