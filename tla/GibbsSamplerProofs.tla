-------------------------- MODULE GibbsSamplerProofs --------------------------
(***************************************************************************)
(* The histograms count the topics of the tokens, and the diff of a        *)
(* Sampler is the difference of the model, for every corpus, number of     *)
(* topics and set of priors.  A move changes by one what it adds to or     *)
(* takes from the model and the diff, and it is about one token; what is   *)
(* needed besides is where Sample is and that tokens have topics.          *)
(*                                                                         *)
(* The cached buckets are exact when a topic is drawn.  CacheOK says which *)
(* of them are right in which phase, and for which histograms; a move      *)
(* changes the factor of one topic in each, and the size by as much.       *)
(***************************************************************************)
EXTENDS GibbsSampler, SumProofs

Totals == [Topics -> Int]
Hists  == [Words -> Totals]

\* Where Sample is, and the topics of the tokens.
PlaceOK ==
  /\ topics \in [Docs -> UNION {[Positions(d) -> Topics] : d \in Docs}]
  /\ \A d \in Docs : topics[d] \in [Positions(d) -> Topics]
  /\ at.phase \in {"idle", "next", "draw"}
  /\ at \in [phase : {"idle", "next", "draw"}, doc : Nat, pos : Nat]
  /\ at.phase # "idle" => at.doc \in Docs /\ at.pos >= 1
  /\ at.phase = "draw" => at.pos \in Positions(at.doc)

\* The histograms; that no count is negative follows from CountsMatchTopics.
HistsOK ==
  /\ wordHist \in Hists /\ global \in Totals /\ docHist \in [Docs -> Totals]
  /\ diff \in [on : BOOLEAN, word : Hists, global : Totals]
  /\ base \in [word : Hists, global : Totals]

IInv == PlaceOK /\ HistsOK /\ CountsMatchTopics /\ DiffIsTheUpdate

-----------------------------------------------------------------------------
\* Documents are sequences of words.
LEMMA CorpusIsTyped ==
  ASSUME NEW d \in Docs
  PROVE  /\ Docs = 1 .. Len(Corpus) /\ Positions(d) = 1 .. Len(Corpus[d])
         /\ Len(Corpus[d]) \in Nat
         /\ \A p \in Positions(d) : Corpus[d][p] \in Words
<1>1. Corpus \in Seq(Seq(Words))
  BY SamplerAssumption
<1>2. Corpus[d] \in Seq(Words)
  BY <1>1 DEF Docs
<1> QED  BY <1>1, <1>2 DEF Docs, Positions

\* Histograms of words, or of documents, with one count changed.
Moved(h, w, t, n)   == [h EXCEPT ![w][t] = @ + n]
MovedTotal(h, t, n) == [h EXCEPT ![t] = @ + n]

LEMMA OneTotal ==
  ASSUME NEW h \in Totals, NEW t \in Topics, NEW n \in Int
  PROVE  /\ MovedTotal(h, t, n) \in Totals
         /\ \A u \in Topics : MovedTotal(h, t, n)[u] = h[u] + (IF u = t THEN n ELSE 0)
BY DEF Totals, MovedTotal

LEMMA OneCount ==
  ASSUME NEW R, NEW h \in [R -> Totals], NEW w \in R, NEW t \in Topics, NEW n \in Int
  PROVE  /\ Moved(h, w, t, n) \in [R -> Totals]
         /\ \A x \in R, u \in Topics :
              Moved(h, w, t, n)[x][u] = h[x][u] + (IF x = w /\ u = t THEN n ELSE 0)
<1> DEFINE g == Moved(h, w, t, n)
           row == MovedTotal(h[w], t, n)
<1>1. g = [h EXCEPT ![w] = row]
  BY DEF Moved, MovedTotal
<1>2. row \in Totals /\ \A u \in Topics : row[u] = h[w][u] + (IF u = t THEN n ELSE 0)
  BY OneTotal
<1> HIDE DEF g, row
<1>3. g \in [R -> Totals] /\ \A x \in R : g[x] = IF x = w THEN row ELSE h[x]
  BY <1>1, <1>2
<1>4. \A x \in R, u \in Topics : h[x][u] \in Int
  BY DEF Totals
<1>5. \A x \in R, u \in Topics : x # w => g[x][u] = h[x][u] + 0
  BY <1>3, <1>4
<1>6. \A u \in Topics : g[w][u] = h[w][u] + (IF u = t THEN n ELSE 0)
  BY <1>2, <1>3
<1> QED  BY <1>3, <1>5, <1>6 DEF g

\* What a move of a count does to the histograms.
LEMMA MoveMovesCounts ==
  ASSUME HistsOK, NEW d \in Docs, NEW w \in Words, NEW t \in Topics,
         NEW n \in Int, MoveCounts(d, w, t, n)
  PROVE  /\ wordHist' \in Hists
         /\ \A x \in Words, u \in Topics :
              wordHist'[x][u] = wordHist[x][u] + (IF x = w /\ u = t THEN n ELSE 0)
         /\ global' \in Totals
         /\ \A u \in Topics : global'[u] = global[u] + (IF u = t THEN n ELSE 0)
         /\ docHist' \in [Docs -> Totals]
         /\ \A x \in Docs, u \in Topics :
              docHist'[x][u] = docHist[x][u] + (IF x = d /\ u = t THEN n ELSE 0)
<1>1. /\ wordHist' \in Hists
      /\ \A x \in Words, u \in Topics :
           wordHist'[x][u] = wordHist[x][u] + (IF x = w /\ u = t THEN n ELSE 0)
  <2>1. wordHist \in Hists /\ wordHist' = Moved(wordHist, w, t, n)
    BY DEF HistsOK, MoveCounts, Moved
  <2> QED  BY <2>1, OneCount DEF Hists
<1>2. /\ global' \in Totals
      /\ \A u \in Topics : global'[u] = global[u] + (IF u = t THEN n ELSE 0)
  <2>1. global \in Totals /\ global' = MovedTotal(global, t, n)
    BY DEF HistsOK, MoveCounts, MovedTotal
  <2> QED  BY <2>1, OneTotal
<1>3. /\ docHist' \in [Docs -> Totals]
      /\ \A x \in Docs, u \in Topics :
           docHist'[x][u] = docHist[x][u] + (IF x = d /\ u = t THEN n ELSE 0)
  <2>1. docHist \in [Docs -> Totals] /\ docHist' = Moved(docHist, d, t, n)
    BY DEF HistsOK, MoveCounts, Moved
  <2> QED  BY <2>1, OneCount
<1> QED  BY <1>1, <1>2, <1>3

\* A move of a count keeps the diff the difference.
LEMMA MoveKeepsDiff ==
  ASSUME HistsOK, DiffIsTheUpdate, NEW d \in Docs, NEW w \in Words, NEW t \in Topics,
         NEW n \in Int, MoveCounts(d, w, t, n), UNCHANGED base
  PROVE  HistsOK' /\ DiffIsTheUpdate'
<1>1. /\ wordHist' \in Hists
      /\ \A x \in Words, u \in Topics :
           wordHist'[x][u] = wordHist[x][u] + (IF x = w /\ u = t THEN n ELSE 0)
  BY MoveMovesCounts
<1>2. /\ global' \in Totals
      /\ \A u \in Topics : global'[u] = global[u] + (IF u = t THEN n ELSE 0)
  BY MoveMovesCounts
<1>3. docHist' \in [Docs -> Totals]
  BY MoveMovesCounts
<1>4. CASE ~ diff.on
  <2>1. diff' = diff
    BY <1>4 DEF MoveCounts
  <2> QED  BY <1>1, <1>2, <1>3, <1>4, <2>1 DEF HistsOK, DiffIsTheUpdate
<1>5. CASE diff.on
  <2> DEFINE dw == Moved(diff.word, w, t, n)
             dg == MovedTotal(diff.global, t, n)
  <2>0. diff.word \in Hists /\ diff.global \in Totals
    BY DEF HistsOK
  <2>1. diff' = [diff EXCEPT !.word[w][t] = @ + n, !.global[t] = @ + n]
    BY <1>5 DEF MoveCounts
  <2>2. diff' = [diff EXCEPT !.word = dw, !.global = dg]
    BY <2>1 DEF HistsOK, Moved, MovedTotal
  <2>3. /\ dw \in Hists
        /\ \A x \in Words, u \in Topics :
             dw[x][u] = diff.word[x][u] + (IF x = w /\ u = t THEN n ELSE 0)
    BY <2>0, OneCount DEF Hists
  <2>4. /\ dg \in Totals
        /\ \A u \in Topics : dg[u] = diff.global[u] + (IF u = t THEN n ELSE 0)
    BY <2>0, OneTotal
  <2> HIDE DEF dw, dg
  <2>5. /\ diff' \in [on : BOOLEAN, word : Hists, global : Totals]
        /\ diff'.word = dw /\ diff'.global = dg
    BY <2>2, <2>3, <2>4 DEF HistsOK
  <2>6. base' = base /\ base \in [word : Hists, global : Totals]
    BY DEF HistsOK
  <2>7. HistsOK'
    BY <1>1, <1>2, <1>3, <2>5, <2>6 DEF HistsOK
  <2>8. /\ \A x \in Words, u \in Topics : wordHist[x][u] = base.word[x][u] + diff.word[x][u]
        /\ \A u \in Topics : global[u] = base.global[u] + diff.global[u]
    BY <1>5 DEF DiffIsTheUpdate
  <2>9. \A x \in Words, u \in Topics : base.word[x][u] \in Int /\ diff.word[x][u] \in Int
    BY <2>0, <2>6 DEF Hists, Totals
  <2>10. \A u \in Topics : base.global[u] \in Int /\ diff.global[u] \in Int
    BY <2>0, <2>6 DEF Totals
  <2>11. \A x \in Words, u \in Topics : wordHist'[x][u] = base'.word[x][u] + diff'.word[x][u]
    BY <1>1, <2>3, <2>5, <2>6, <2>8, <2>9
  <2>12. \A u \in Topics : global'[u] = base'.global[u] + diff'.global[u]
    BY <1>2, <2>4, <2>5, <2>6, <2>8, <2>10
  <2> QED  BY <2>7, <2>11, <2>12 DEF DiffIsTheUpdate
<1> QED  BY <1>4, <1>5

-----------------------------------------------------------------------------
(* Counting tokens. *)

LEMMA TokensAreFinite == IsFiniteSet(Tokens) /\ <<0, 0>> \notin Tokens
<1> DEFINE ofDoc == [d \in Docs |-> {d} \X Positions(d)]
           S == {{d} \X Positions(d) : d \in Docs}
<1>1. Len(Corpus) \in Nat /\ Docs = 1 .. Len(Corpus)
  BY SamplerAssumption DEF Docs
<1>2. IsFiniteSet(Docs)
  BY <1>1, FS_Interval
<1>3. ofDoc \in Surjection(Docs, S)
  BY DEF Surjection
<1>4. IsFiniteSet(S)
  BY <1>2, <1>3, FS_Surjection
<1>5. \A T \in S : IsFiniteSet(T)
  <2> SUFFICES ASSUME NEW d \in Docs PROVE IsFiniteSet({d} \X Positions(d))
    OBVIOUS
  <2>1. IsFiniteSet(Positions(d))
    BY CorpusIsTyped, FS_Interval
  <2> QED  BY <2>1, FS_Singleton, FS_Product
<1>6. IsFiniteSet(UNION S)
  BY <1>4, <1>5, FS_UNION
<1>7. \A d \in Docs : d # 0
  BY <1>1
<1>8. <<0, 0>> \notin Tokens
  BY <1>7 DEF Tokens
<1> QED  BY <1>6, <1>8 DEF Tokens

LEMMA AssignedIsNat == ASSUME NEW skip, NEW S PROVE Assigned(skip, S) \in Nat
<1>1. {k \in Tokens : k # skip /\ k \in S} \in SUBSET Tokens
  OBVIOUS
<1> QED  BY <1>1, TokensAreFinite, FS_Subset, FS_CardinalityType DEF Assigned

\* S and T differ in at most the token that is left out of S.
LEMMA OneToken ==
  ASSUME NEW S, NEW T, NEW k0 \in Tokens,
         \A k \in Tokens : k # k0 => (k \in S <=> k \in T)
  PROVE  Assigned(<<0, 0>>, T) = Assigned(k0, S) + (IF k0 \in T THEN 1 ELSE 0)
<1> DEFINE A == {k \in Tokens : k # k0 /\ k \in S}
           B == {k \in Tokens : k # <<0, 0>> /\ k \in T}
<1>1. A \in SUBSET Tokens /\ k0 \notin A
  OBVIOUS
<1>2. IsFiniteSet(A)
  BY <1>1, TokensAreFinite, FS_Subset
<1>3. Cardinality(A) \in Nat
  BY <1>2, FS_CardinalityType
<1>4. B = IF k0 \in T THEN A \cup {k0} ELSE A
  BY TokensAreFinite
<1>5. Cardinality(A \cup {k0}) = Cardinality(A) + 1
  BY <1>1, <1>2, FS_AddElement
<1> HIDE DEF A, B
<1>6. Cardinality(B) = Cardinality(A) + (IF k0 \in T THEN 1 ELSE 0)
  BY <1>3, <1>4, <1>5
<1> QED  BY <1>6 DEF Assigned, A, B

\* The counts of the model and the documents without the token skip.
CountsWithout(skip) ==
  /\ \A t \in Topics, w \in Words :
       wordHist[w][t] = Assigned(skip, OfTopic(t) \cap OfWord(w))
  /\ \A t \in Topics, d \in Docs :
       docHist[d][t] = Assigned(skip, OfTopic(t) \cap OfDoc(d))
  /\ \A t \in Topics : global[t] = Assigned(skip, OfTopic(t))

LEMMA CountsAreWithout == CountsMatchTopics <=> CountsWithout(Neglected)
BY DEF CountsMatchTopics, CountsWithout

-----------------------------------------------------------------------------
(* Each action preserves the invariant. *)

\* The token that Sample is at, its word and its topic.
LEMMA Here ==
  ASSUME PlaceOK, at.phase # "idle", at.pos \in Positions(at.doc)
  PROVE  /\ at.doc \in Docs /\ <<at.doc, at.pos>> \in Tokens
         /\ Corpus[at.doc][at.pos] \in Words
         /\ topics[at.doc][at.pos] \in Topics
<1>1. at.doc \in Docs
  BY DEF PlaceOK
<1>2. topics[at.doc] \in [Positions(at.doc) -> Topics]
  BY <1>1 DEF PlaceOK
<1> QED  BY <1>1, <1>2, CorpusIsTyped DEF Tokens

LEMMA NeglectIInv == ASSUME IInv, Neglect PROVE IInv'
<1> DEFINE d == at.doc
           p == at.pos
           w == Corpus[d][p]
           t == topics[d][p]
<1>1. at.phase = "next" /\ d \in Docs /\ p \in Positions(d)
  <2>1. at.phase = "next" /\ d \in Docs /\ p >= 1 /\ p \in Nat /\ p <= Len(Corpus[d])
    BY DEF IInv, PlaceOK, Neglect
  <2> QED  BY <2>1, CorpusIsTyped
<1>2. <<d, p>> \in Tokens /\ w \in Words /\ t \in Topics
  BY <1>1, Here DEF IInv
<1>3. MoveCounts(d, w, t, -1) /\ UNCHANGED <<topics, base>>
  BY DEF Neglect
<1>4. at' = [at EXCEPT !.phase = "draw"]
  BY DEF Neglect
<1>5. at'.phase = "draw" /\ at'.doc = d /\ at'.pos = p
  BY <1>4 DEF IInv, PlaceOK
<1> HIDE DEF w, t
<1>6. PlaceOK'
  BY <1>1, <1>3, <1>4, <1>5 DEF IInv, PlaceOK
<1>7. HistsOK' /\ DiffIsTheUpdate'
  BY <1>1, <1>2, <1>3, MoveKeepsDiff DEF IInv
<1>8. CountsWithout(<<0, 0>>)
  BY <1>1, CountsAreWithout DEF IInv, Neglected
<1>9. ASSUME NEW u \in Topics, NEW S
      PROVE  Assigned(<<0, 0>>, OfTopic(u) \cap S)
               = Assigned(<<d, p>>, OfTopic(u) \cap S)
                 + (IF u = t /\ <<d, p>> \in S THEN 1 ELSE 0)
  <2>1. <<d, p>> \in OfTopic(u) <=> u = t
    BY <1>2 DEF OfTopic, t
  <2> QED  BY <1>2, <2>1, OneToken
<1>10. \A u \in Topics : OfTopic(u)' = OfTopic(u)
  BY <1>3 DEF OfTopic
<1>11. /\ \A u \in Topics, x \in Words :
            wordHist'[x][u] = Assigned(<<d, p>>, OfTopic(u) \cap OfWord(x))
       /\ \A u \in Topics, x \in Docs :
            docHist'[x][u] = Assigned(<<d, p>>, OfTopic(u) \cap OfDoc(x))
       /\ \A u \in Topics : global'[u] = Assigned(<<d, p>>, OfTopic(u))
  <2>1. ASSUME NEW u \in Topics, NEW x \in Words
        PROVE  wordHist'[x][u] = Assigned(<<d, p>>, OfTopic(u) \cap OfWord(x))
    <3>1. wordHist'[x][u] = wordHist[x][u] + (IF x = w /\ u = t THEN -1 ELSE 0)
      BY <1>1, <1>2, <1>3, MoveMovesCounts DEF IInv
    <3>2. <<d, p>> \in OfWord(x) <=> x = w
      BY <1>2 DEF OfWord, w
    <3>3. wordHist[x][u] = Assigned(<<0, 0>>, OfTopic(u) \cap OfWord(x))
      BY <1>8 DEF CountsWithout
    <3> QED  BY <1>9, <3>1, <3>2, <3>3, AssignedIsNat
  <2>2. ASSUME NEW u \in Topics, NEW x \in Docs
        PROVE  docHist'[x][u] = Assigned(<<d, p>>, OfTopic(u) \cap OfDoc(x))
    <3>1. docHist'[x][u] = docHist[x][u] + (IF x = d /\ u = t THEN -1 ELSE 0)
      BY <1>1, <1>2, <1>3, MoveMovesCounts DEF IInv
    <3>2. <<d, p>> \in OfDoc(x) <=> x = d
      BY <1>2 DEF OfDoc
    <3>3. docHist[x][u] = Assigned(<<0, 0>>, OfTopic(u) \cap OfDoc(x))
      BY <1>8 DEF CountsWithout
    <3> QED  BY <1>9, <3>1, <3>2, <3>3, AssignedIsNat
  <2>3. ASSUME NEW u \in Topics
        PROVE  global'[u] = Assigned(<<d, p>>, OfTopic(u))
    <3>1. global'[u] = global[u] + (IF u = t THEN -1 ELSE 0)
      BY <1>1, <1>2, <1>3, MoveMovesCounts DEF IInv
    <3>2. global[u] = Assigned(<<0, 0>>, OfTopic(u) \cap Tokens)
      BY <1>8 DEF CountsWithout, OfTopic
    <3>3. OfTopic(u) \cap Tokens = OfTopic(u)
      BY DEF OfTopic
    <3> QED  BY <1>2, <1>9, <3>1, <3>2, <3>3, AssignedIsNat
  <2> QED  BY <2>1, <2>2, <2>3
<1>12. Neglected' = <<d, p>>
  BY <1>5 DEF Neglected
<1>13. CountsMatchTopics'
  <2>1. ASSUME NEW u \in Topics, NEW x \in Words
        PROVE  Assigned(Neglected, OfTopic(u) \cap OfWord(x))'
                 = Assigned(<<d, p>>, OfTopic(u) \cap OfWord(x))
    BY <1>10, <1>12 DEF Assigned, OfWord
  <2>2. ASSUME NEW u \in Topics, NEW x \in Docs
        PROVE  Assigned(Neglected, OfTopic(u) \cap OfDoc(x))'
                 = Assigned(<<d, p>>, OfTopic(u) \cap OfDoc(x))
    BY <1>10, <1>12 DEF Assigned, OfDoc
  <2>3. ASSUME NEW u \in Topics
        PROVE  Assigned(Neglected, OfTopic(u))' = Assigned(<<d, p>>, OfTopic(u))
    BY <1>10, <1>12 DEF Assigned
  <2> QED  BY <1>11, <2>1, <2>2, <2>3 DEF CountsMatchTopics
<1> QED  BY <1>6, <1>7, <1>13 DEF IInv

LEMMA ConsiderIInv == ASSUME IInv, NEW t \in Topics, Consider(t) PROVE IInv'
<1> DEFINE d == at.doc
           p == at.pos
           w == Corpus[d][p]
<1>1. at.phase = "draw" /\ d \in Docs /\ p \in Positions(d)
  BY DEF IInv, PlaceOK, Consider
<1>2. <<d, p>> \in Tokens /\ w \in Words
  BY <1>1, Here DEF IInv
<1>3. MoveCounts(d, w, t, 1) /\ UNCHANGED base
  BY DEF Consider, neglectOrConsiderWord
<1>4. at' = [at EXCEPT !.phase = "next", !.pos = p + 1]
  BY DEF Consider
<1>5. at'.phase = "next" /\ at'.doc = d /\ at'.pos = p + 1 /\ p \in Nat /\ p >= 1
  BY <1>1, <1>4 DEF IInv, PlaceOK
<1>6. topics' = [topics EXCEPT ![d] = [topics[d] EXCEPT ![p] = t]]
  BY DEF Consider
<1>7. /\ \A e \in Docs : topics'[e] \in [Positions(e) -> Topics]
      /\ topics' \in [Docs -> UNION {[Positions(e) -> Topics] : e \in Docs}]
      /\ topics'[d][p] = t
      /\ \A e \in Docs : \A q \in Positions(e) :
           <<e, q>> # <<d, p>> => topics'[e][q] = topics[e][q]
  <2> DEFINE row == [topics[d] EXCEPT ![p] = t]
  <2>1. /\ topics \in [Docs -> UNION {[Positions(e) -> Topics] : e \in Docs}]
        /\ \A e \in Docs : topics[e] \in [Positions(e) -> Topics]
    BY DEF IInv, PlaceOK
  <2>2. /\ row \in [Positions(d) -> Topics] /\ row[p] = t
        /\ \A q \in Positions(d) : q # p => row[q] = topics[d][q]
    BY <1>1, <2>1
  <2> HIDE DEF row
  <2>3. /\ \A e \in Docs : topics'[e] = IF e = d THEN row ELSE topics[e]
        /\ DOMAIN topics' = Docs /\ topics' = [e \in Docs |-> topics'[e]]
    BY <1>6, <2>1 DEF row
  <2>4. \A e \in Docs : topics'[e] \in [Positions(e) -> Topics]
    BY <1>1, <2>1, <2>2, <2>3
  <2>5. topics' \in [Docs -> UNION {[Positions(e) -> Topics] : e \in Docs}]
    BY <2>3, <2>4
  <2> QED  BY <1>1, <2>2, <2>3, <2>4, <2>5
<1> HIDE DEF w
<1>8. PlaceOK'
  <2>1. at \in [phase : {"idle", "next", "draw"}, doc : Nat, pos : Nat]
    BY DEF IInv, PlaceOK
  <2>2. p + 1 \in Nat /\ p + 1 >= 1
    BY <1>5
  <2>3. at' \in [phase : {"idle", "next", "draw"}, doc : Nat, pos : Nat]
    BY <1>4, <2>1, <2>2
  <2> QED  BY <1>1, <1>5, <1>7, <2>2, <2>3 DEF PlaceOK
<1>9. HistsOK' /\ DiffIsTheUpdate'
  BY <1>1, <1>2, <1>3, MoveKeepsDiff DEF IInv
<1>10. CountsWithout(<<d, p>>)
  BY <1>1, CountsAreWithout DEF IInv, Neglected
<1>11. ASSUME NEW k \in Tokens, k # <<d, p>>, NEW u
       PROVE  k \in OfTopic(u) <=> k \in OfTopic(u)'
  <2>1. k[1] \in Docs /\ k[2] \in Positions(k[1]) /\ k = <<k[1], k[2]>>
    BY DEF Tokens
  <2>2. topics'[k[1]][k[2]] = topics[k[1]][k[2]]
    BY <1>7, <1>11, <2>1
  <2> QED  BY <2>2 DEF OfTopic
<1>12. ASSUME NEW u \in Topics, NEW S
       PROVE  Assigned(<<0, 0>>, OfTopic(u)' \cap S)
                = Assigned(<<d, p>>, OfTopic(u) \cap S)
                  + (IF u = t /\ <<d, p>> \in S THEN 1 ELSE 0)
  <2>1. <<d, p>> \in OfTopic(u)' <=> u = t
    BY <1>2, <1>7 DEF OfTopic
  <2> HIDE DEF d, p
  <2>2. \A k \in Tokens : k # <<d, p>> =>
          (k \in OfTopic(u) \cap S <=> k \in OfTopic(u)' \cap S)
    BY <1>11
  <2> QED  BY <1>2, <2>1, <2>2, OneToken
<1>13. /\ \A u \in Topics, x \in Words :
            wordHist'[x][u] = Assigned(<<0, 0>>, OfTopic(u)' \cap OfWord(x))
       /\ \A u \in Topics, x \in Docs :
            docHist'[x][u] = Assigned(<<0, 0>>, OfTopic(u)' \cap OfDoc(x))
       /\ \A u \in Topics : global'[u] = Assigned(<<0, 0>>, OfTopic(u)')
  <2>1. ASSUME NEW u \in Topics, NEW x \in Words
        PROVE  wordHist'[x][u] = Assigned(<<0, 0>>, OfTopic(u)' \cap OfWord(x))
    <3>1. wordHist'[x][u] = wordHist[x][u] + (IF x = w /\ u = t THEN 1 ELSE 0)
      BY <1>1, <1>2, <1>3, MoveMovesCounts DEF IInv
    <3>2. <<d, p>> \in OfWord(x) <=> x = w
      BY <1>2 DEF OfWord, w
    <3>3. wordHist[x][u] = Assigned(<<d, p>>, OfTopic(u) \cap OfWord(x))
      BY <1>10 DEF CountsWithout
    <3> QED  BY <1>12, <3>1, <3>2, <3>3, AssignedIsNat
  <2>2. ASSUME NEW u \in Topics, NEW x \in Docs
        PROVE  docHist'[x][u] = Assigned(<<0, 0>>, OfTopic(u)' \cap OfDoc(x))
    <3>1. docHist'[x][u] = docHist[x][u] + (IF x = d /\ u = t THEN 1 ELSE 0)
      BY <1>1, <1>2, <1>3, MoveMovesCounts DEF IInv
    <3>2. <<d, p>> \in OfDoc(x) <=> x = d
      BY <1>2 DEF OfDoc
    <3>3. docHist[x][u] = Assigned(<<d, p>>, OfTopic(u) \cap OfDoc(x))
      BY <1>10 DEF CountsWithout
    <3> QED  BY <1>12, <3>1, <3>2, <3>3, AssignedIsNat
  <2>3. ASSUME NEW u \in Topics
        PROVE  global'[u] = Assigned(<<0, 0>>, OfTopic(u)')
    <3>1. global'[u] = global[u] + (IF u = t THEN 1 ELSE 0)
      BY <1>1, <1>2, <1>3, MoveMovesCounts DEF IInv
    <3>2. OfTopic(u) \cap Tokens = OfTopic(u) /\ OfTopic(u)' \cap Tokens = OfTopic(u)'
      BY DEF OfTopic
    <3>3. global[u] = Assigned(<<d, p>>, OfTopic(u) \cap Tokens)
      BY <1>10, <3>2 DEF CountsWithout
    <3> QED  BY <1>2, <1>12, <3>1, <3>2, <3>3, AssignedIsNat
  <2> QED  BY <2>1, <2>2, <2>3
<1>14. Neglected' = <<0, 0>>
  BY <1>5 DEF Neglected
<1>15. CountsMatchTopics'
  <2>1. ASSUME NEW u \in Topics, NEW x \in Words
        PROVE  Assigned(Neglected, OfTopic(u) \cap OfWord(x))'
                 = Assigned(<<0, 0>>, OfTopic(u)' \cap OfWord(x))
    BY <1>14 DEF Assigned, OfWord
  <2>2. ASSUME NEW u \in Topics, NEW x \in Docs
        PROVE  Assigned(Neglected, OfTopic(u) \cap OfDoc(x))'
                 = Assigned(<<0, 0>>, OfTopic(u)' \cap OfDoc(x))
    BY <1>14 DEF Assigned, OfDoc
  <2>3. ASSUME NEW u \in Topics
        PROVE  Assigned(Neglected, OfTopic(u))' = Assigned(<<0, 0>>, OfTopic(u)')
    BY <1>14 DEF Assigned
  <2> QED  BY <1>13, <2>1, <2>2, <2>3 DEF CountsMatchTopics
<1> QED  BY <1>8, <1>9, <1>15 DEF IInv

\* The steps between tokens and between documents change no count.
LEMMA SameCounts ==
  ASSUME IInv, UNCHANGED <<topics, docHist, wordHist, global>>,
         at.phase # "draw", at'.phase # "draw"
  PROVE  CountsMatchTopics'
<1>1. Neglected = <<0, 0>> /\ Neglected' = <<0, 0>>
  BY DEF Neglected
<1>2. \A u \in Topics : OfTopic(u)' = OfTopic(u)
  BY DEF OfTopic
<1>3. ASSUME NEW u \in Topics, NEW x \in Words
      PROVE  Assigned(Neglected, OfTopic(u) \cap OfWord(x))'
               = Assigned(Neglected, OfTopic(u) \cap OfWord(x))
  BY <1>1, <1>2 DEF Assigned, OfWord
<1>4. ASSUME NEW u \in Topics, NEW x \in Docs
      PROVE  Assigned(Neglected, OfTopic(u) \cap OfDoc(x))'
               = Assigned(Neglected, OfTopic(u) \cap OfDoc(x))
  BY <1>1, <1>2 DEF Assigned, OfDoc
<1>5. ASSUME NEW u \in Topics
      PROVE  Assigned(Neglected, OfTopic(u))' = Assigned(Neglected, OfTopic(u))
  BY <1>1, <1>2 DEF Assigned
<1> QED  BY <1>3, <1>4, <1>5 DEF IInv, CountsMatchTopics

LEMMA BetweenTokensIInv ==
  ASSUME IInv, (\E d \in Docs : BeginDocument(d)) \/ EndDocument
  PROVE  IInv'
<1>1. /\ UNCHANGED <<topics, docHist, wordHist, global, diff, base>>
      /\ at.phase # "draw" /\ at'.phase # "draw"
  <2>1. CASE \E d \in Docs : BeginDocument(d)
    BY <2>1 DEF BeginDocument
  <2>2. CASE EndDocument
    <3>1. at' = [at EXCEPT !.phase = "idle", !.pos = 1] /\ at.phase = "next"
      BY <2>2 DEF EndDocument
    <3>2. at'.phase = "idle"
      BY <3>1 DEF IInv, PlaceOK
    <3> QED  BY <2>2, <3>1, <3>2 DEF EndDocument
  <2> QED  BY <2>1, <2>2
<1>2. CountsMatchTopics'
  BY <1>1, SameCounts
<1>3. HistsOK' /\ DiffIsTheUpdate'
  BY <1>1 DEF IInv, HistsOK, DiffIsTheUpdate
<1>4. PlaceOK'
  <2>1. CASE \E d \in Docs : BeginDocument(d)
    <3>1. PICK d \in Docs : BeginDocument(d)
      BY <2>1
    <3>2. d \in Nat
      BY CorpusIsTyped
    <3> QED  BY <3>1, <3>2 DEF IInv, PlaceOK, BeginDocument
  <2>2. CASE EndDocument
    BY <2>2 DEF IInv, PlaceOK, EndDocument
  <2> QED  BY <2>1, <2>2
<1> QED  BY <1>2, <1>3, <1>4 DEF IInv

\* Also without a word between two calls of SetDiff, the diff begins empty.
LEMMA SetDiffIInv == ASSUME IInv, NEW on \in BOOLEAN, SetDiff(on) PROVE IInv'
<1>1. UNCHANGED <<topics, docHist, wordHist, global, at>> /\ at.phase = "idle"
  BY DEF SetDiff
<1>2. CountsMatchTopics'
  BY <1>1, SameCounts DEF IInv
<1>3. PlaceOK'
  BY <1>1 DEF IInv, PlaceOK
<1>4. /\ diff' = [on |-> on, word |-> [w \in Words |-> Zero], global |-> Zero]
      /\ base' = [word |-> wordHist, global |-> global]
  BY DEF SetDiff
<1>5. Zero \in Totals /\ [w \in Words |-> Zero] \in Hists
  BY DEF Zero, Totals, Hists
<1>6. HistsOK'
  BY <1>1, <1>4, <1>5 DEF IInv, HistsOK
<1>7. DiffIsTheUpdate'
  <2>1. \A w \in Words, t \in Topics : wordHist[w][t] \in Int /\ global[t] \in Int
    BY DEF IInv, HistsOK, Hists, Totals
  <2>2. /\ \A w \in Words : diff'.word[w] = Zero /\ base'.word = wordHist
        /\ diff'.global = Zero /\ base'.global = global
    BY <1>4
  <2>3. \A t \in Topics : Zero[t] = 0
    BY DEF Zero
  <2> QED  BY <1>1, <2>1, <2>2, <2>3 DEF DiffIsTheUpdate, IInv, HistsOK, Totals
<1> QED  BY <1>2, <1>3, <1>6, <1>7 DEF IInv

LEMMA InitIInv == Init => IInv
<1> SUFFICES ASSUME Init PROVE IInv
  OBVIOUS
<1>1. PlaceOK
  BY DEF Init, InitializeDocuments, PlaceOK
<1>2. /\ docHist = [d \in Docs |-> [t \in Topics |->
                     Assigned(<<0, 0>>, OfTopic(t) \cap OfDoc(d))]]
      /\ wordHist = [w \in Words |-> [t \in Topics |->
                      Assigned(<<0, 0>>, OfTopic(t) \cap OfWord(w))]]
      /\ global = [t \in Topics |-> Assigned(<<0, 0>>, OfTopic(t))]
  BY DEF Init, InitializeDocuments, ApplyToModel
<1>3. wordHist \in Hists /\ global \in Totals /\ docHist \in [Docs -> Totals]
  BY <1>2, AssignedIsNat DEF Hists, Totals
<1>4. Zero \in Totals /\ [w \in Words |-> Zero] \in Hists
  BY DEF Zero, Totals, Hists
<1>5. HistsOK
  BY <1>3, <1>4 DEF Init, HistsOK
<1>6. CountsMatchTopics
  <2>1. Neglected = <<0, 0>>
    BY DEF Init, Neglected
  <2> QED  BY <1>2, <2>1 DEF CountsMatchTopics
<1>7. DiffIsTheUpdate
  BY DEF Init, DiffIsTheUpdate
<1> QED  BY <1>1, <1>5, <1>6, <1>7 DEF IInv

LEMMA NextIInv == IInv /\ [Next]_vars => IInv'
<1> SUFFICES ASSUME IInv, [Next]_vars PROVE IInv'
  OBVIOUS
<1>1. CASE Sample
  BY <1>1, BetweenTokensIInv, NeglectIInv, ConsiderIInv DEF Sample
<1>2. CASE \E on \in BOOLEAN : SetDiff(on)
  BY <1>2, SetDiffIInv
<1>3. ASSUME NEW p \in TopicPriors, AfterOptimization(p) PROVE IInv'
  <2>1. UNCHANGED <<topics, docHist, wordHist, global, diff, at, base>> /\ at.phase = "idle"
    BY <1>3 DEF AfterOptimization
  <2>2. CountsMatchTopics'
    BY <2>1, SameCounts
  <2> QED  BY <2>1, <2>2 DEF IInv, PlaceOK, HistsOK, DiffIsTheUpdate
<1>4. CASE UNCHANGED vars
  <2>1. UNCHANGED <<topics, docHist, wordHist, global, diff, at, base>>
    BY <1>4 DEF vars
  <2>2. Neglected' = Neglected /\ \A u \in Topics : OfTopic(u)' = OfTopic(u)
    BY <2>1 DEF Neglected, OfTopic
  <2>3. CountsMatchTopics'
    BY <2>1, <2>2 DEF IInv, CountsMatchTopics, Assigned, OfWord, OfDoc
  <2> QED  BY <2>1, <2>3 DEF IInv, PlaceOK, HistsOK, DiffIsTheUpdate
<1> QED  BY <1>1, <1>2, <1>3, <1>4 DEF Next

-----------------------------------------------------------------------------
\* No count is lost, doubled or negative, however often documents are visited.
THEOREM CountsAreExact == Spec => []CountsMatchTopics
<1>1. IInv => CountsMatchTopics
  BY DEF IInv
<1> QED  BY InitIInv, NextIInv, <1>1, PTL DEF Spec

\* The diff is the difference of the model since it was set.
THEOREM DiffIsExact == Spec => []DiffIsTheUpdate
<1>1. IInv => DiffIsTheUpdate
  BY DEF IInv
<1> QED  BY InitIInv, NextIInv, <1>1, PTL DEF Spec

-----------------------------------------------------------------------------
(* The caches.  What is cached is computed anew where a bucket is built, and   *)
(* changes for one topic only where a word moves.                              *)

NatTotals == [Topics -> Nat]

Caches == [smoothing : Totals, smoothingSize : Int, document : Totals,
           documentSize : Int, word : Totals, wordSize : Int, coefficients : Totals]

\* The bucket of all documents is right for model g and prior p ...
SmoothingOK(c, g, p) ==
  c.smoothing = SmoothingOnly(g, p) /\ c.smoothingSize = Sum(SmoothingOnly(g, p))

\* ... that of a document with histogram h, and the coefficients for it ...
DocumentOK(c, g, h) ==
  c.document = DocumentTopic(g, h) /\ c.documentSize = Sum(DocumentTopic(g, h))

CoefficientsOK(c, g, p, h) == c.coefficients = Coefficients(g, p, h)

\* ... and that of a word, which is built when the word is neglected.
WordFactors(g, p, h, hist) == [t \in Topics |-> Coefficients(g, p, h)[t] * hist[t]]

WordOK(c, g, p, h, hist) ==
  c.word = WordFactors(g, p, h, hist) /\ c.wordSize = Sum(WordFactors(g, p, h, hist))

CacheOK ==
  /\ prior \in NatTotals /\ cache \in Caches
  /\ SmoothingOK(cache, global, prior)
  /\ at.phase = "idle" => CoefficientsOK(cache, global, prior, Zero)
  /\ at.phase # "idle" => /\ DocumentOK(cache, global, docHist[at.doc])
                          /\ CoefficientsOK(cache, global, prior, docHist[at.doc])
  /\ at.phase = "draw" =>
       WordOK(cache, global, prior, docHist[at.doc], wordHist[Corpus[at.doc][at.pos]])

LEMMA TopicsAreFinite == IsFiniteSet(Topics)
<1>1. 0 \in Int /\ NumTopics - 1 \in Int
  BY SamplerAssumption
<1> QED  BY <1>1, FS_Interval DEF Topics

\* Quotients are whole numbers.
LEMMA OverIsNat ==
  ASSUME NEW n \in Nat, NEW g \in NatTotals, NEW t \in Topics
  PROVE  Over(n, g, t) \in Nat
<1>1. Cardinality(Words) \in Nat \ {0} /\ WordPrior \in Nat \ {0} /\ Scale \in Nat
  BY FS_CardinalityType, SamplerAssumption
<1>2. WordPriorSum \in Nat /\ WordPriorSum > 0
  BY <1>1, SMT DEF WordPriorSum
<1>3. g[t] \in Nat
  BY DEF NatTotals
<1>4. Scale * n \in Nat
  BY <1>1, SMT
<1> DEFINE x == Scale * n
           y == WordPriorSum + g[t]
<1>5. y \in Nat /\ y > 0
  BY <1>2, <1>3
<1> HIDE DEF x, y
<1>6. x \div y \in Nat
  BY <1>4, <1>5, SMT DEF x
<1> QED  BY <1>6 DEF Over, x, y

LEMMA FactorsAreTyped ==
  ASSUME NEW g \in NatTotals, NEW q \in NatTotals, NEW h \in NatTotals
  PROVE  /\ SmoothingOnly(g, q) \in Totals /\ DocumentTopic(g, h) \in Totals
         /\ Coefficients(g, q, h) \in Totals
<1>1. \A t \in Topics : q[t] \in Nat /\ h[t] \in Nat /\ WordPrior \in Nat
  BY SamplerAssumption DEF NatTotals
<1>2. \A t \in Topics : q[t] * WordPrior \in Nat /\ WordPrior * h[t] \in Nat /\ q[t] + h[t] \in Nat
  BY <1>1, SMT
<1>3. \A t \in Topics : /\ Over(q[t] * WordPrior, g, t) \in Int
                         /\ Over(WordPrior * h[t], g, t) \in Int
                         /\ Over(q[t] + h[t], g, t) \in Int
  BY <1>2, OverIsNat
<1> QED  BY <1>3 DEF SmoothingOnly, DocumentTopic, Coefficients, Totals

LEMMA SumOfTotals == ASSUME NEW f \in Totals PROVE Sum(f) = SumOver(f, Topics) /\ Sum(f) \in Int
<1>1. f = [t \in Topics |-> f[t]] /\ \A t \in Topics : f[t] \in Int
  BY DEF Totals
<1>2. Sum(f) = SumOver(f, Topics)
  BY <1>1, SumIsOver
<1>3. SumOver(f, Topics) \in Int
  BY <1>1, TopicsAreFinite, SumSteps
<1> QED  BY <1>2, <1>3

\* The size of a bucket after the factor of one topic has changed.
LEMMA SizeChange ==
  ASSUME NEW f \in Totals, NEW g \in Totals, NEW t \in Topics,
         \A u \in Topics : u # t => g[u] = f[u]
  PROVE  g = [f EXCEPT ![t] = g[t]] /\ Sum(g) = Sum(f) - f[t] + g[t]
<1>1. \A u \in Topics : f[u] \in Int /\ g[u] \in Int
  BY DEF Totals
<1>2. SumOver(g, Topics) = SumOver(f, Topics) - f[t] + g[t]
  BY <1>1, TopicsAreFinite, SumChange
<1>3. g = [f EXCEPT ![t] = g[t]]
  BY DEF Totals
<1> QED  BY <1>2, <1>3, SumOfTotals

\* When the counts of one topic change, Refresh keeps the caches right.
LEMMA RefreshKeeps ==
  ASSUME NEW c \in Caches, NEW q \in NatTotals, NEW t \in Topics,
         NEW g \in NatTotals, NEW h \in NatTotals,
         NEW G \in NatTotals, NEW H \in NatTotals,
         \A u \in Topics : u # t => G[u] = g[u] /\ H[u] = h[u],
         SmoothingOK(c, g, q), DocumentOK(c, g, h), CoefficientsOK(c, g, q, h)
  PROVE  /\ Refresh(c, G, q, H, t) \in Caches
         /\ SmoothingOK(Refresh(c, G, q, H, t), G, q)
         /\ DocumentOK(Refresh(c, G, q, H, t), G, H)
         /\ CoefficientsOK(Refresh(c, G, q, H, t), G, q, H)
         /\ Refresh(c, G, q, H, t).word = c.word
<1> DEFINE r == Refresh(c, G, q, H, t)
           e == Over(q[t] * WordPrior, G, t)
           k == Over(H[t] * WordPrior, G, t)
           l == Over(q[t] + H[t], G, t)
<1>1. /\ SmoothingOnly(g, q) \in Totals /\ SmoothingOnly(G, q) \in Totals
      /\ DocumentTopic(g, h) \in Totals /\ DocumentTopic(G, H) \in Totals
      /\ Coefficients(g, q, h) \in Totals /\ Coefficients(G, q, H) \in Totals
  BY FactorsAreTyped
<1>2. \A u \in Topics : u # t => /\ SmoothingOnly(G, q)[u] = SmoothingOnly(g, q)[u]
                                 /\ DocumentTopic(G, H)[u] = DocumentTopic(g, h)[u]
                                 /\ Coefficients(G, q, H)[u] = Coefficients(g, q, h)[u]
  BY DEF SmoothingOnly, DocumentTopic, Coefficients, Over
<1>3. SmoothingOnly(G, q)[t] = e /\ DocumentTopic(G, H)[t] = k /\ Coefficients(G, q, H)[t] = l
  <2>1. H[t] * WordPrior = WordPrior * H[t]
    BY SamplerAssumption, SMT DEF NatTotals
  <2> QED  BY <2>1 DEF SmoothingOnly, DocumentTopic, Coefficients
<1>4. /\ SmoothingOnly(G, q) = [c.smoothing EXCEPT ![t] = e]
      /\ Sum(SmoothingOnly(G, q)) = c.smoothingSize - c.smoothing[t] + e
  <2>1. /\ SmoothingOnly(G, q) = [SmoothingOnly(g, q) EXCEPT ![t] = SmoothingOnly(G, q)[t]]
        /\ Sum(SmoothingOnly(G, q)) = Sum(SmoothingOnly(g, q)) - SmoothingOnly(g, q)[t]
                                        + SmoothingOnly(G, q)[t]
    BY <1>1, <1>2, SizeChange
  <2> QED  BY <1>3, <2>1 DEF SmoothingOK
<1>5. /\ DocumentTopic(G, H) = [c.document EXCEPT ![t] = k]
      /\ Sum(DocumentTopic(G, H)) = c.documentSize - c.document[t] + k
  <2>1. /\ DocumentTopic(G, H) = [DocumentTopic(g, h) EXCEPT ![t] = DocumentTopic(G, H)[t]]
        /\ Sum(DocumentTopic(G, H)) = Sum(DocumentTopic(g, h)) - DocumentTopic(g, h)[t]
                                        + DocumentTopic(G, H)[t]
    BY <1>1, <1>2, SizeChange
  <2> QED  BY <1>3, <2>1 DEF DocumentOK
<1>6. Coefficients(G, q, H) = [c.coefficients EXCEPT ![t] = l]
  <2>1. Coefficients(G, q, H) = [Coefficients(g, q, h) EXCEPT ![t] = Coefficients(G, q, H)[t]]
    BY <1>1, <1>2, SizeChange
  <2> QED  BY <1>3, <2>1 DEF CoefficientsOK
<1>7. r = [c EXCEPT !.smoothing = [c.smoothing EXCEPT ![t] = e],
                    !.smoothingSize = c.smoothingSize - c.smoothing[t] + e,
                    !.document = [c.document EXCEPT ![t] = k],
                    !.documentSize = c.documentSize - c.document[t] + k,
                    !.coefficients = [c.coefficients EXCEPT ![t] = l]]
  BY DEF Refresh, Caches
<1>8. r = [c EXCEPT !.smoothing = SmoothingOnly(G, q),
                    !.smoothingSize = Sum(SmoothingOnly(G, q)),
                    !.document = DocumentTopic(G, H),
                    !.documentSize = Sum(DocumentTopic(G, H)),
                    !.coefficients = Coefficients(G, q, H)]
  BY <1>4, <1>5, <1>6, <1>7
<1>9. Sum(SmoothingOnly(G, q)) \in Int /\ Sum(DocumentTopic(G, H)) \in Int
  BY <1>1, SumOfTotals
<1> HIDE DEF r
<1>10. r \in Caches
  BY <1>1, <1>8, <1>9 DEF Caches
<1>11. /\ r.smoothing = SmoothingOnly(G, q) /\ r.smoothingSize = Sum(SmoothingOnly(G, q))
       /\ r.document = DocumentTopic(G, H) /\ r.documentSize = Sum(DocumentTopic(G, H))
       /\ r.coefficients = Coefficients(G, q, H) /\ r.word = c.word
  BY <1>8 DEF Caches
<1> QED  BY <1>10, <1>11 DEF r, SmoothingOK, DocumentOK, CoefficientsOK

HistsAreNat ==
  /\ global \in NatTotals
  /\ \A d \in Docs : docHist[d] \in NatTotals
  /\ \A w \in Words : wordHist[w] \in NatTotals

LEMMA CountsAreNat == IInv => HistsAreNat
<1> SUFFICES ASSUME IInv PROVE HistsAreNat
  OBVIOUS
<1>1. \A t \in Topics : /\ global[t] \in Nat
                        /\ \A d \in Docs : docHist[d][t] \in Nat
                        /\ \A w \in Words : wordHist[w][t] \in Nat
  <2> TAKE t \in Topics
  <2>1. global[t] \in Nat
    <3>1. global[t] = Assigned(Neglected, OfTopic(t))
      BY DEF IInv, CountsMatchTopics
    <3> QED  BY <3>1, AssignedIsNat
  <2>2. ASSUME NEW d \in Docs PROVE docHist[d][t] \in Nat
    <3>1. docHist[d][t] = Assigned(Neglected, OfTopic(t) \cap OfDoc(d))
      BY DEF IInv, CountsMatchTopics
    <3> QED  BY <3>1, AssignedIsNat
  <2>3. ASSUME NEW w \in Words PROVE wordHist[w][t] \in Nat
    <3>1. wordHist[w][t] = Assigned(Neglected, OfTopic(t) \cap OfWord(w))
      BY DEF IInv, CountsMatchTopics
    <3> QED  BY <3>1, AssignedIsNat
  <2> QED  BY <2>1, <2>2, <2>3
<1>2. /\ DOMAIN global = Topics /\ global = [t \in Topics |-> global[t]]
      /\ \A d \in Docs : docHist[d] = [t \in Topics |-> docHist[d][t]]
      /\ \A w \in Words : wordHist[w] = [t \in Topics |-> wordHist[w][t]]
  BY DEF IInv, HistsOK, Totals, Hists
<1> QED  BY <1>1, <1>2 DEF HistsAreNat, NatTotals

LEMMA CountsAreNatNext == IInv' => HistsAreNat'
BY CountsAreNat, PTL

\* A bucket of a word is right when it has been built.
LEMMA BuiltWord ==
  ASSUME NEW c \in Caches, NEW q \in NatTotals, NEW g \in NatTotals, NEW h \in NatTotals,
         NEW hist \in NatTotals,
         SmoothingOK(c, g, q), DocumentOK(c, g, h), CoefficientsOK(c, g, q, h)
  PROVE  /\ buildTopicWordBucket(c, hist) \in Caches
         /\ SmoothingOK(buildTopicWordBucket(c, hist), g, q)
         /\ DocumentOK(buildTopicWordBucket(c, hist), g, h)
         /\ CoefficientsOK(buildTopicWordBucket(c, hist), g, q, h)
         /\ WordOK(buildTopicWordBucket(c, hist), g, q, h, hist)
<1> DEFINE f == [t \in Topics |-> c.coefficients[t] * hist[t]]
           r == [c EXCEPT !.word = f, !.wordSize = Sum(f)]
<1>1. buildTopicWordBucket(c, hist) = r
  BY DEF buildTopicWordBucket
<1>2. f \in Totals
  <2>1. \A t \in Topics : c.coefficients[t] \in Int /\ hist[t] \in Nat
    BY DEF Caches, Totals, NatTotals
  <2>2. \A t \in Topics : c.coefficients[t] * hist[t] \in Int
    BY <2>1, SMT
  <2> QED  BY <2>2 DEF Totals
<1>3. Sum(f) \in Int
  BY <1>2, SumOfTotals
<1>4. f = WordFactors(g, q, h, hist)
  BY DEF CoefficientsOK, WordFactors
<1> HIDE DEF f
<1>5. r \in Caches
  BY <1>2, <1>3 DEF Caches
<1>6. /\ r.word = f /\ r.wordSize = Sum(f) /\ r.smoothing = c.smoothing
      /\ r.smoothingSize = c.smoothingSize /\ r.document = c.document
      /\ r.documentSize = c.documentSize /\ r.coefficients = c.coefficients
  BY DEF Caches
<1> HIDE DEF r
<1> QED  BY <1>1, <1>4, <1>5, <1>6 DEF SmoothingOK, DocumentOK, CoefficientsOK, WordOK

LEMMA BuiltDocument ==
  ASSUME NEW c \in Caches, NEW q \in NatTotals, NEW g \in NatTotals, NEW h \in NatTotals,
         SmoothingOK(c, g, q), CoefficientsOK(c, g, q, Zero)
  PROVE  LET r == updateCoefficients(buildDocumentTopicBucket(c, g, h), g, q, h)
         IN  /\ r \in Caches /\ SmoothingOK(r, g, q)
             /\ DocumentOK(r, g, h) /\ CoefficientsOK(r, g, q, h)
<1> DEFINE f == DocumentTopic(g, h)
           x == [t \in Topics |-> IF h[t] > 0 THEN Over(q[t] + h[t], g, t)
                                  ELSE c.coefficients[t]]
           b == [c EXCEPT !.document = f, !.documentSize = Sum(f)]
           r == [c EXCEPT !.document = f, !.documentSize = Sum(f), !.coefficients = x]
<1>1. f \in Totals /\ Sum(f) \in Int /\ Coefficients(g, q, h) \in Totals
  BY FactorsAreTyped, SumOfTotals
<1>2. x = Coefficients(g, q, h)
  <2>1. ASSUME NEW t \in Topics PROVE x[t] = Coefficients(g, q, h)[t]
    <3>1. h[t] \in Nat /\ q[t] \in Nat
      BY DEF NatTotals
    <3>2. CASE h[t] > 0
      BY <3>2 DEF Coefficients
    <3>3. CASE ~ (h[t] > 0)
      <4>1. h[t] = 0 /\ Zero[t] = 0 /\ x[t] = c.coefficients[t]
        BY <3>1, <3>3 DEF Zero
      <4> QED  BY <4>1 DEF Coefficients, CoefficientsOK
    <3> QED  BY <3>2, <3>3
  <2>2. Coefficients(g, q, h) = [t \in Topics |-> Coefficients(g, q, h)[t]]
    BY DEF Coefficients
  <2> QED  BY <2>1, <2>2
<1>3. buildDocumentTopicBucket(c, g, h) = b
  BY DEF buildDocumentTopicBucket
<1>4. b.coefficients = c.coefficients
  BY DEF Caches
<1>5. updateCoefficients(b, g, q, h) = [b EXCEPT !.coefficients = x]
  BY <1>4 DEF updateCoefficients
<1> HIDE DEF f, x
<1>6. [b EXCEPT !.coefficients = x] = r
  BY DEF Caches
<1>7. r \in Caches
  BY <1>1, <1>2 DEF Caches
<1>8. /\ r.document = f /\ r.documentSize = Sum(f) /\ r.coefficients = x
      /\ r.smoothing = c.smoothing /\ r.smoothingSize = c.smoothingSize
  BY DEF Caches
<1> HIDE DEF r, b
<1>9. SmoothingOK(r, g, q) /\ DocumentOK(r, g, h) /\ CoefficientsOK(r, g, q, h)
  BY <1>2, <1>8 DEF SmoothingOK, DocumentOK, CoefficientsOK, f
<1> QED  BY <1>3, <1>5, <1>6, <1>7, <1>9

\* It is enough to visit the topics that the document has at its end.
LEMMA ResetAll ==
  ASSUME NEW c \in Caches, NEW q \in NatTotals, NEW g \in NatTotals, NEW h \in NatTotals,
         SmoothingOK(c, g, q), CoefficientsOK(c, g, q, h)
  PROVE  LET r == resetCoefficients(c, g, q, h)
         IN  r \in Caches /\ SmoothingOK(r, g, q) /\ CoefficientsOK(r, g, q, Zero)
<1> DEFINE x == [t \in Topics |-> IF h[t] > 0 THEN Over(q[t], g, t) ELSE c.coefficients[t]]
           r == [c EXCEPT !.coefficients = x]
<1>1. Zero \in NatTotals /\ Coefficients(g, q, Zero) \in Totals
  <2>1. Zero \in NatTotals
    BY DEF Zero, NatTotals
  <2> QED  BY <2>1, FactorsAreTyped
<1>2. x = Coefficients(g, q, Zero)
  <2>1. ASSUME NEW t \in Topics PROVE x[t] = Coefficients(g, q, Zero)[t]
    <3>1. h[t] \in Nat /\ q[t] \in Nat /\ Zero[t] = 0
      BY DEF NatTotals, Zero
    <3>2. q[t] + Zero[t] = q[t]
      BY <3>1
    <3>3. CASE h[t] > 0
      BY <3>2, <3>3 DEF Coefficients
    <3>4. CASE ~ (h[t] > 0)
      <4>1. h[t] = Zero[t] /\ x[t] = c.coefficients[t]
        BY <3>1, <3>4
      <4> QED  BY <4>1 DEF Coefficients, CoefficientsOK
    <3> QED  BY <3>3, <3>4
  <2>2. Coefficients(g, q, Zero) = [t \in Topics |-> Coefficients(g, q, Zero)[t]]
    BY DEF Coefficients
  <2> QED  BY <2>1, <2>2
<1>3. resetCoefficients(c, g, q, h) = r
  BY DEF resetCoefficients
<1> HIDE DEF x
<1>4. r \in Caches
  BY <1>1, <1>2 DEF Caches
<1>5. r.coefficients = x /\ r.smoothing = c.smoothing /\ r.smoothingSize = c.smoothingSize
  BY DEF Caches
<1> HIDE DEF r
<1> QED  BY <1>2, <1>3, <1>4, <1>5 DEF SmoothingOK, CoefficientsOK

\* A new sampler, and one that AfterOptimization was called of.
LEMMA BuiltSmoothing ==
  ASSUME NEW c \in Caches, NEW q \in NatTotals, NEW g \in NatTotals
  PROVE  LET r == cacheCoefficients(buildSmoothingOnlyBucket(c, g, q), g, q)
         IN  r \in Caches /\ SmoothingOK(r, g, q) /\ CoefficientsOK(r, g, q, Zero)
<1> DEFINE f == SmoothingOnly(g, q)
           x == Coefficients(g, q, Zero)
           r == [c EXCEPT !.smoothing = f, !.smoothingSize = Sum(f), !.coefficients = x]
<1>1. Zero \in NatTotals
  BY DEF Zero, NatTotals
<1>2. f \in Totals /\ Sum(f) \in Int /\ x \in Totals
  BY <1>1, FactorsAreTyped, SumOfTotals
<1>3. cacheCoefficients(buildSmoothingOnlyBucket(c, g, q), g, q) = r
  BY DEF cacheCoefficients, buildSmoothingOnlyBucket, Caches
<1> HIDE DEF f, x
<1>4. r \in Caches
  BY <1>2 DEF Caches
<1>5. r.coefficients = x /\ r.smoothing = f /\ r.smoothingSize = Sum(f)
  BY DEF Caches
<1> HIDE DEF r
<1> QED  BY <1>3, <1>4, <1>5 DEF SmoothingOK, CoefficientsOK, f, x

\* Neglect and Consider: the counts of one topic change, those of the word and of
\* the document that Sample is at among them.
LEMMA MoveRefreshes ==
  ASSUME IInv, IInv', CacheOK, NEW n \in Int, at.phase # "idle", at.pos \in Positions(at.doc),
         NEW t \in Topics, MoveCounts(at.doc, Corpus[at.doc][at.pos], t, n),
         prior' = prior, NEW r, r = Refresh(cache, global', prior, docHist'[at.doc], t)
  PROVE  /\ r \in Caches /\ SmoothingOK(r, global', prior)
         /\ DocumentOK(r, global', docHist'[at.doc])
         /\ CoefficientsOK(r, global', prior, docHist'[at.doc])
         /\ global' \in NatTotals /\ docHist'[at.doc] \in NatTotals
         /\ wordHist'[Corpus[at.doc][at.pos]] \in NatTotals
<1>1. at.doc \in Docs /\ Corpus[at.doc][at.pos] \in Words
  BY Here DEF IInv
<1>2. HistsAreNat /\ HistsAreNat'
  BY CountsAreNat, CountsAreNatNext
<1>3. /\ global \in NatTotals /\ docHist[at.doc] \in NatTotals
      /\ global' \in NatTotals /\ docHist'[at.doc] \in NatTotals
      /\ wordHist'[Corpus[at.doc][at.pos]] \in NatTotals
  BY <1>1, <1>2 DEF HistsAreNat
<1>4. /\ \A u \in Topics : global'[u] = global[u] + (IF u = t THEN n ELSE 0)
      /\ \A u \in Topics :
           docHist'[at.doc][u] = docHist[at.doc][u] + (IF u = t THEN n ELSE 0)
  BY <1>1, MoveMovesCounts DEF IInv
<1>5. \A u \in Topics : u # t => global'[u] = global[u] /\ docHist'[at.doc][u] = docHist[at.doc][u]
  BY <1>3, <1>4 DEF NatTotals
<1>6. /\ prior \in NatTotals /\ cache \in Caches /\ SmoothingOK(cache, global, prior)
      /\ DocumentOK(cache, global, docHist[at.doc])
      /\ CoefficientsOK(cache, global, prior, docHist[at.doc])
  BY DEF CacheOK
<1> DEFINE G == global'
           H == docHist'[at.doc]
           h == docHist[at.doc]
<1>7. /\ h \in NatTotals /\ G \in NatTotals /\ H \in NatTotals
      /\ \A u \in Topics : u # t => G[u] = global[u] /\ H[u] = h[u]
      /\ DocumentOK(cache, global, h) /\ CoefficientsOK(cache, global, prior, h)
      /\ r = Refresh(cache, G, prior, H, t)
  BY <1>3, <1>5, <1>6
<1> HIDE DEF G, H, h
<1>8. /\ Refresh(cache, G, prior, H, t) \in Caches
      /\ SmoothingOK(Refresh(cache, G, prior, H, t), G, prior)
      /\ DocumentOK(Refresh(cache, G, prior, H, t), G, H)
      /\ CoefficientsOK(Refresh(cache, G, prior, H, t), G, prior, H)
  BY <1>3, <1>6, <1>7, RefreshKeeps
<1>9. /\ r \in Caches /\ SmoothingOK(r, G, prior)
      /\ DocumentOK(r, G, H) /\ CoefficientsOK(r, G, prior, H)
  BY <1>7, <1>8
<1> QED  BY <1>3, <1>9 DEF G, H

LEMMA NeglectCache == ASSUME IInv, IInv', CacheOK, Neglect PROVE CacheOK'
<1> DEFINE d == at.doc
           w == Corpus[at.doc][at.pos]
           t == topics[at.doc][at.pos]
           r == Refresh(cache, global', prior, docHist'[at.doc], t)
<1>1. at.phase = "next" /\ at.pos \in Positions(at.doc)
  <2>1. at.phase = "next" /\ at.doc \in Docs /\ at.pos >= 1 /\ at.pos \in Nat
        /\ at.pos <= Len(Corpus[at.doc])
    BY DEF IInv, PlaceOK, Neglect
  <2> QED  BY <2>1, CorpusIsTyped
<1>2. /\ MoveCounts(d, w, t, -1) /\ prior' = prior
      /\ cache' = buildTopicWordBucket(r, wordHist'[w])
      /\ at' = [at EXCEPT !.phase = "draw"]
  BY DEF Neglect
<1>3. t \in Topics
  BY <1>1, Here DEF IInv
<1>4. /\ r \in Caches /\ SmoothingOK(r, global', prior)
      /\ DocumentOK(r, global', docHist'[d]) /\ CoefficientsOK(r, global', prior, docHist'[d])
      /\ global' \in NatTotals /\ docHist'[d] \in NatTotals /\ wordHist'[w] \in NatTotals
  <2> HIDE DEF t
  <2>1. at.phase # "idle" /\ -1 \in Int
    BY <1>1
  <2> QED  BY <1>1, <1>2, <1>3, <2>1, MoveRefreshes
<1>5. at'.phase = "draw" /\ at'.doc = at.doc /\ at'.pos = at.pos
  BY <1>2 DEF IInv, PlaceOK
<1>6. prior \in NatTotals
  BY DEF CacheOK
<1> HIDE DEF r, w
<1>7. /\ cache' \in Caches /\ SmoothingOK(cache', global', prior)
      /\ DocumentOK(cache', global', docHist'[d])
      /\ CoefficientsOK(cache', global', prior, docHist'[d])
      /\ WordOK(cache', global', prior, docHist'[d], wordHist'[w])
  BY <1>2, <1>4, <1>6, BuiltWord
<1> QED  BY <1>2, <1>5, <1>6, <1>7 DEF CacheOK, w

LEMMA ConsiderCache == ASSUME IInv, IInv', CacheOK, NEW t \in Topics, Consider(t) PROVE CacheOK'
<1> DEFINE d == at.doc
           w == Corpus[at.doc][at.pos]
           r == Refresh(cache, global', prior, docHist'[at.doc], t)
<1>1. at.phase = "draw" /\ at.pos \in Positions(at.doc)
  BY DEF IInv, PlaceOK, Consider
<1>2. /\ MoveCounts(d, w, t, 1) /\ prior' = prior /\ cache' = r
      /\ at' = [at EXCEPT !.phase = "next", !.pos = @ + 1]
  BY DEF Consider, neglectOrConsiderWord
<1>3. /\ r \in Caches /\ SmoothingOK(r, global', prior)
      /\ DocumentOK(r, global', docHist'[d]) /\ CoefficientsOK(r, global', prior, docHist'[d])
  <2>1. at.phase # "idle" /\ 1 \in Int
    BY <1>1
  <2> QED  BY <1>1, <1>2, <2>1, MoveRefreshes
<1>4. at'.phase = "next" /\ at'.doc = at.doc
  BY <1>2 DEF IInv, PlaceOK
<1>5. prior \in NatTotals
  BY DEF CacheOK
<1> HIDE DEF r
<1> QED  BY <1>2, <1>3, <1>4, <1>5 DEF CacheOK

LEMMA BetweenTokensCache ==
  ASSUME IInv, CacheOK, (\E d \in Docs : BeginDocument(d)) \/ EndDocument
  PROVE  CacheOK'
<1>0. HistsAreNat /\ prior \in NatTotals /\ cache \in Caches /\ SmoothingOK(cache, global, prior)
  BY CountsAreNat DEF CacheOK
<1>1. CASE \E d \in Docs : BeginDocument(d)
  <2>1. PICK d \in Docs : BeginDocument(d)
    BY <1>1
  <2> DEFINE r == updateCoefficients(buildDocumentTopicBucket(cache, global, docHist[d]),
                                     global, prior, docHist[d])
  <2>2. /\ at.phase = "idle" /\ at' = [phase |-> "next", doc |-> d, pos |-> 1]
        /\ cache' = r /\ global' = global /\ prior' = prior /\ docHist' = docHist
    BY <2>1 DEF BeginDocument
  <2>3. CoefficientsOK(cache, global, prior, Zero)
    BY <2>2 DEF CacheOK
  <2>4. global \in NatTotals /\ docHist[d] \in NatTotals
    BY <1>0 DEF HistsAreNat
  <2>5. /\ r \in Caches /\ SmoothingOK(r, global, prior)
        /\ DocumentOK(r, global, docHist[d]) /\ CoefficientsOK(r, global, prior, docHist[d])
    BY <1>0, <2>3, <2>4, BuiltDocument
  <2>6. at'.phase = "next" /\ at'.doc = d
    BY <2>2
  <2> HIDE DEF r
  <2> QED  BY <1>0, <2>2, <2>5, <2>6 DEF CacheOK
<1>2. CASE EndDocument
  <2> DEFINE r == resetCoefficients(cache, global, prior, docHist[at.doc])
  <2>1. /\ at.phase = "next" /\ at' = [at EXCEPT !.phase = "idle", !.pos = 1]
        /\ cache' = r /\ global' = global /\ prior' = prior
    BY <1>2 DEF EndDocument
  <2>2. at'.phase = "idle" /\ at.doc \in Docs
    BY <2>1 DEF IInv, PlaceOK
  <2>3. global \in NatTotals /\ docHist[at.doc] \in NatTotals
    BY <1>0, <2>2 DEF HistsAreNat
  <2>4. CoefficientsOK(cache, global, prior, docHist[at.doc])
    BY <2>1 DEF CacheOK
  <2>5. r \in Caches /\ SmoothingOK(r, global, prior) /\ CoefficientsOK(r, global, prior, Zero)
    BY <1>0, <2>3, <2>4, ResetAll
  <2> HIDE DEF r
  <2> QED  BY <1>0, <2>1, <2>2, <2>5 DEF CacheOK
<1> QED  BY <1>1, <1>2

LEMMA PriorsAreNat == TopicPriors \subseteq NatTotals /\ InitPrior \in TopicPriors
BY SamplerAssumption DEF NatTotals

LEMMA AfterOptimizationCache ==
  ASSUME IInv, CacheOK, NEW p \in TopicPriors, AfterOptimization(p) PROVE CacheOK'
<1> DEFINE r == cacheCoefficients(buildSmoothingOnlyBucket(cache, global, p), global, p)
<1>1. /\ at.phase = "idle" /\ at' = at /\ global' = global /\ prior' = p /\ cache' = r
  BY DEF AfterOptimization
<1>2. p \in NatTotals /\ global \in NatTotals /\ cache \in Caches
  BY PriorsAreNat, CountsAreNat DEF HistsAreNat, CacheOK
<1>3. r \in Caches /\ SmoothingOK(r, global, p) /\ CoefficientsOK(r, global, p, Zero)
  BY <1>2, BuiltSmoothing
<1> HIDE DEF r
<1> QED  BY <1>1, <1>2, <1>3 DEF CacheOK

LEMMA InitCache == Init => CacheOK
<1> SUFFICES ASSUME Init PROVE CacheOK
  OBVIOUS
<1> DEFINE r == cacheCoefficients(buildSmoothingOnlyBucket(EmptyCache, global, prior), global, prior)
<1>1. at.phase = "idle" /\ prior = InitPrior /\ cache = r
  BY DEF Init, NewSampler
<1>2. prior \in NatTotals /\ global \in NatTotals
  BY <1>1, PriorsAreNat, InitIInv, CountsAreNat DEF HistsAreNat
<1>3. EmptyCache \in Caches
  <2>1. Zero \in Totals
    BY DEF Zero, Totals
  <2> QED  BY <2>1 DEF EmptyCache, Caches
<1>4. r \in Caches /\ SmoothingOK(r, global, prior) /\ CoefficientsOK(r, global, prior, Zero)
  BY <1>2, <1>3, BuiltSmoothing
<1> HIDE DEF r
<1> QED  BY <1>1, <1>2, <1>4 DEF CacheOK

LEMMA NextCache == IInv /\ CacheOK /\ [Next]_vars => CacheOK'
<1> SUFFICES ASSUME IInv, CacheOK, [Next]_vars PROVE CacheOK'
  OBVIOUS
<1>0. IInv'
  BY NextIInv
<1>1. CASE Sample
  BY <1>0, <1>1, BetweenTokensCache, NeglectCache, ConsiderCache DEF Sample
<1>2. CASE \E on \in BOOLEAN : SetDiff(on)
  <2>1. UNCHANGED <<docHist, wordHist, global, prior, cache, at>>
    BY <1>2 DEF SetDiff
  <2> QED  BY <2>1 DEF CacheOK
<1>3. CASE \E p \in TopicPriors : AfterOptimization(p)
  BY <1>3, AfterOptimizationCache
<1>4. CASE UNCHANGED vars
  <2>1. UNCHANGED <<docHist, wordHist, global, prior, cache, at>>
    BY <1>4 DEF vars
  <2> QED  BY <2>1 DEF CacheOK
<1> QED  BY <1>1, <1>2, <1>3, <1>4 DEF Next

\* Though caches are refreshed for one topic at a time, and coefficients reset only
\* for the topics that a document has at its end: whenever a topic is drawn, the
\* buckets and their sizes are those that the model and the document define.
THEOREM CachesAreExact == Spec => []DrawsFromTheModel
<1>1. IInv /\ CacheOK => DrawsFromTheModel
  BY DEF CacheOK, DrawsFromTheModel, SmoothingOK, DocumentOK, CoefficientsOK, WordOK, WordFactors
<1> QED  BY InitIInv, NextIInv, InitCache, NextCache, <1>1, PTL DEF Spec
=============================================================================
