--------------------------- MODULE AggregatorProofs ---------------------------
(***************************************************************************)
(* What the calls that loaders make of the aggregators leave in the model, *)
(* for all numbers of aggregators, loaders, words and shards.              *)
(*                                                                         *)
(* Any interleaving: an object is fresh for a word until its call has come *)
(* to it; nobody else has it or writes to it, so its count is what the     *)
(* shard had.  Whatever is read, or held by the model, is at most what the *)
(* calls that are done with the word have sent.                            *)
(*                                                                         *)
(* Loaders one after the other: what is held is exactly that.  The global  *)
(* histogram follows it word by word (GlobalFollows), and is the sum over  *)
(* all aggregators after a turnover (GlobalOK).                            *)
(***************************************************************************)
EXTENDS Aggregator, SumProofs

Steps == {"idle", "next", "copy", "read", "write", "globalRead", "globalWrite"}
\* A call is at a word of its own, and has not added it to the model yet.
Busy    == {"copy", "read", "write"}
\* It has not added it to the global histogram yet.
Flying  == {"globalRead", "globalWrite"}

ModelType ==
  /\ slot \in [Aggregators -> [Words -> Objects \cup {Nil}]]
  /\ count \in [Aggregators -> [Objects -> [Words -> Nat]]]
  /\ global \in [Aggregators -> Nat]

CallType ==
  /\ batch \in [Loaders -> 0 .. Batches]
  /\ pc \in [Loaders -> [Aggregators -> Steps]]
  /\ word \in [Loaders -> [Aggregators -> Words \cup {Nil}]]
  /\ todo \in [Loaders -> [Aggregators -> SUBSET Words]]
  /\ reg \in [Loaders -> [Aggregators -> [of : Objects \cup {Nil}, value : Nat]]]

\* Where a call is.
CallOK(l, a) ==
  /\ pc[l][a] = "idle" => todo[l][a] = {}
  /\ pc[l][a] # "idle" => batch[l] >= 1
  /\ pc[l][a] \in Busy \cup Flying => word[l][a] \in Words \ todo[l][a]
  /\ pc[l][a] \in {"read", "write"} => slot[a][word[l][a]] # Nil
  /\ pc[l][a] = "write" => reg[l][a].of \in Objects

MasterType ==
  /\ turn \in [phase : {"idle", "get", "set"}, calls : SUBSET Aggregators, sum : Nat,
               turnovers : 0 .. MaxTurnovers]
  /\ turn.phase # "idle" => turn.turnovers > 0
  /\ orderly \in BOOLEAN

TypeOK == ModelType /\ CallType /\ MasterType
            /\ \A l \in Loaders, a \in Aggregators : CallOK(l, a)

\* The call of l to a has still to add w to the model.
Pending(l, a, w) == w \in todo[l][a] \/ (pc[l][a] \in Busy /\ word[l][a] = w)

\* What the calls to a that are done with w have sent of it.
ShardsDone(l, a, w) == batch[l] - (IF Pending(l, a, w) THEN 1 ELSE 0)
Credited(a, w)   == Sum([l \in Loaders |-> ShardsDone(l, a, w) * Occurrences[l][w]])

\* The b-th shard of l has not added w to the model of a yet.
Fresh(l, b, a, w) == b > batch[l] \/ (b = batch[l] /\ Pending(l, a, w))

Untouched(o, a, w) ==
  /\ count[a][o][w] = Occurrences[o[1]][w]
  /\ slot[a][w] # o
  /\ \A m \in Loaders : pc[m][a] = "write" /\ word[m][a] = w => reg[m][a].of # o

FreshOK ==
  \A a \in Aggregators, w \in Words, l \in Loaders, b \in 1 .. Batches :
    Fresh(l, b, a, w) => Untouched(<<l, b>>, a, w)

BoundedOK ==
  \A a \in Aggregators, w \in Words :
    /\ Held(a, w) <= Credited(a, w)
    /\ \A m \in Loaders : pc[m][a] = "write" /\ word[m][a] = w =>
         reg[m][a].value <= Credited(a, w)

Invariant == TypeOK /\ FreshOK /\ BoundedOK

\* Without overlaps, the one call that there is reads what the model holds.
OrderlyCall(l, a) ==
  LET w == word[l][a]
  IN  /\ pc[l][a] = "copy" => slot[a][w] = Nil
      /\ pc[l][a] = "write" => reg[l][a].of = slot[a][w] /\ reg[l][a].value = Held(a, w)
      /\ pc[l][a] \in Flying => count[a][Own(l)][w] = Occurrences[l][w]
      /\ pc[l][a] = "globalWrite" => reg[l][a].value = global[a] + Occurrences[l][w]

OrderlyOK ==
  orderly =>
    /\ \A l, m \in Loaders : Loading(l) /\ Loading(m) => l = m
    /\ turn.turnovers > 0 => \A l \in Loaders : ~ Loading(l)
    /\ \A l \in Loaders, a \in Aggregators : OrderlyCall(l, a)
    /\ \A a \in Aggregators, w \in Words : Held(a, w) = Credited(a, w)

\* The global histogram of a: what is held, without the word that is on its way.
GlobalFollows(a) ==
  /\ (\A l \in Loaders : pc[l][a] \notin Flying) => global[a] = HeldBy(a)
  /\ \A l \in Loaders : pc[l][a] \in Flying =>
       global[a] + Occurrences[l][word[l][a]] = HeldBy(a)

AllHeld == Sum([b \in Aggregators |-> HeldBy(b)])
Got     == Sum([b \in Aggregators |-> IF b \in turn.calls THEN 0 ELSE HeldBy(b)])

GlobalOK ==
  orderly =>
    /\ turn.turnovers = 0 => turn.phase = "idle" /\ \A a \in Aggregators : GlobalFollows(a)
    /\ turn.phase = "get" => /\ turn.sum = Got
                             /\ \A a \in Aggregators : global[a] = HeldBy(a)
    /\ turn.phase = "set" => /\ turn.sum = AllHeld
                             /\ \A a \in Aggregators \ turn.calls : global[a] = AllHeld
    /\ turn.phase = "idle" /\ turn.turnovers > 0 =>
         \A a \in Aggregators : global[a] = AllHeld

-----------------------------------------------------------------------------
(* Types and places. *)

LEMMA Update2 ==
  ASSUME NEW R, NEW T, NEW V, NEW f \in [R -> [T -> V]], NEW x \in R, NEW y \in T,
         NEW v \in V, NEW g, g = [f EXCEPT ![x][y] = v]
  PROVE  /\ g \in [R -> [T -> V]] /\ g[x][y] = v
         /\ \A m \in R, b \in T : m # x \/ b # y => g[m][b] = f[m][b]
<1>1. g = [f EXCEPT ![x] = [f[x] EXCEPT ![y] = v]]
  OBVIOUS
<1> DEFINE row == [f[x] EXCEPT ![y] = v]
<1>2. row \in [T -> V] /\ row[y] = v /\ \A b \in T : b # y => row[b] = f[x][b]
  OBVIOUS
<1> HIDE DEF row
<1>3. g = [f EXCEPT ![x] = row]
  BY <1>1 DEF row
<1>4. g \in [R -> [T -> V]] /\ g[x] = row /\ \A m \in R : m # x => g[m] = f[m]
  BY <1>2, <1>3
<1> QED  BY <1>2, <1>4

\* The call of l to a, and no other, is at another place.
Elsewhere(l, a) ==
  \A m \in Loaders, b \in Aggregators : m # l \/ b # a =>
    /\ pc'[m][b] = pc[m][b] /\ word'[m][b] = word[m][b]
    /\ todo'[m][b] = todo[m][b] /\ reg'[m][b] = reg[m][b]

LEMMA OwnIsObject ==
  ASSUME CallType, NEW l \in Loaders, batch[l] >= 1 PROVE Own(l) \in Objects /\ Own(l)[1] = l
BY DEF CallType, Own, Objects

LEMMA ObjectsAreNotNil == Nil \notin Objects
BY AggregatorAssumption DEF Objects

LEMMA NextWordFacts ==
  ASSUME TypeOK, NEW l \in Loaders, NEW a \in Aggregators, NextWord(l, a)
  PROVE  /\ CallType' /\ Elsewhere(l, a) /\ UNCHANGED <<modelVars, batch, turn, orderly>>
         /\ pc[l][a] = "next" /\ reg'[l][a] = reg[l][a]
         /\ \/ /\ todo[l][a] = {} /\ pc'[l][a] = "idle"
               /\ todo'[l][a] = {} /\ word'[l][a] = word[l][a]
            \/ \E w \in todo[l][a] :
                 /\ word'[l][a] = w /\ todo'[l][a] = todo[l][a] \ {w}
                 /\ pc'[l][a] = IF slot[a][w] = Nil THEN "copy" ELSE "read"
<1>0. /\ pc \in [Loaders -> [Aggregators -> Steps]]
      /\ word \in [Loaders -> [Aggregators -> Words \cup {Nil}]]
      /\ todo \in [Loaders -> [Aggregators -> SUBSET Words]]
  BY DEF TypeOK, CallType
<1>1. /\ pc[l][a] = "next" /\ UNCHANGED <<modelVars, batch, reg, turn, orderly>>
  BY DEF NextWord
<1>3. ASSUME NEW w \in todo[l][a], word' = [word EXCEPT ![l][a] = w],
             todo' = [todo EXCEPT ![l][a] = @ \ {w}],
             pc' = [pc EXCEPT ![l][a] = IF slot[a][w] = Nil THEN "copy" ELSE "read"]
      PROVE  /\ CallType' /\ Elsewhere(l, a)
             /\ word'[l][a] = w /\ todo'[l][a] = todo[l][a] \ {w}
             /\ pc'[l][a] = IF slot[a][w] = Nil THEN "copy" ELSE "read"
  <2> DEFINE p == IF slot[a][w] = Nil THEN "copy" ELSE "read"
             k == todo[l][a] \ {w}
  <2>1. p \in Steps /\ w \in Words \cup {Nil} /\ k \in SUBSET Words
    BY <1>0 DEF Steps
  <2>2. pc' = [pc EXCEPT ![l][a] = p] /\ todo' = [todo EXCEPT ![l][a] = k]
    BY <1>0, <1>3
  <2> HIDE DEF p, k
  <2>3. /\ pc' \in [Loaders -> [Aggregators -> Steps]] /\ pc'[l][a] = p
        /\ \A m \in Loaders, b \in Aggregators : m # l \/ b # a => pc'[m][b] = pc[m][b]
    BY <1>0, <2>1, <2>2, Update2
  <2>4. /\ todo' \in [Loaders -> [Aggregators -> SUBSET Words]] /\ todo'[l][a] = k
        /\ \A m \in Loaders, b \in Aggregators : m # l \/ b # a => todo'[m][b] = todo[m][b]
    BY <1>0, <2>1, <2>2, Update2
  <2>5. /\ word' \in [Loaders -> [Aggregators -> Words \cup {Nil}]] /\ word'[l][a] = w
        /\ \A m \in Loaders, b \in Aggregators : m # l \/ b # a => word'[m][b] = word[m][b]
    BY <1>0, <1>3, <2>1, Update2
  <2> QED  BY <1>1, <2>3, <2>4, <2>5 DEF TypeOK, CallType, Elsewhere, p, k
<1>4. \/ todo[l][a] = {} /\ pc' = [pc EXCEPT ![l][a] = "idle"] /\ UNCHANGED <<word, todo>>
      \/ \E w \in todo[l][a] :
           /\ word' = [word EXCEPT ![l][a] = w] /\ todo' = [todo EXCEPT ![l][a] = @ \ {w}]
           /\ pc' = [pc EXCEPT ![l][a] = IF slot[a][w] = Nil THEN "copy" ELSE "read"]
  BY DEF NextWord
<1>5. CASE \E w \in todo[l][a] :
             /\ word' = [word EXCEPT ![l][a] = w] /\ todo' = [todo EXCEPT ![l][a] = @ \ {w}]
             /\ pc' = [pc EXCEPT ![l][a] = IF slot[a][w] = Nil THEN "copy" ELSE "read"]
  BY <1>1, <1>3, <1>5
<1>6. CASE todo[l][a] = {} /\ pc' = [pc EXCEPT ![l][a] = "idle"] /\ UNCHANGED <<word, todo>>
  <2>1. CallType' /\ Elsewhere(l, a) /\ pc'[l][a] = "idle"
    <3>1. "idle" \in Steps
      BY DEF Steps
    <3>2. /\ pc' \in [Loaders -> [Aggregators -> Steps]] /\ pc'[l][a] = "idle"
          /\ \A m \in Loaders, b \in Aggregators : m # l \/ b # a => pc'[m][b] = pc[m][b]
      BY <1>0, <1>6, <3>1, Update2
    <3> QED  BY <1>1, <1>6, <3>2 DEF TypeOK, CallType, Elsewhere
  <2> QED  BY <1>1, <1>6, <2>1
<1> QED  BY <1>4, <1>5, <1>6

\* The other steps of a call leave its loop alone.
LEMMA StepFacts ==
  ASSUME TypeOK, NEW l \in Loaders, NEW a \in Aggregators, NEW p \in Steps,
         pc' = [pc EXCEPT ![l][a] = p], UNCHANGED <<batch, word, todo>>,
         NEW r \in [of : Objects \cup {Nil}, value : Nat],
         reg' = [reg EXCEPT ![l][a] = r] \/ (reg' = reg /\ r = reg[l][a])
  PROVE  /\ CallType' /\ Elsewhere(l, a) /\ pc'[l][a] = p /\ reg'[l][a] = r
         /\ word'[l][a] = word[l][a] /\ todo'[l][a] = todo[l][a]
<1>0. /\ pc \in [Loaders -> [Aggregators -> Steps]]
      /\ reg \in [Loaders -> [Aggregators -> [of : Objects \cup {Nil}, value : Nat]]]
  BY DEF TypeOK, CallType
<1>1. /\ pc' \in [Loaders -> [Aggregators -> Steps]] /\ pc'[l][a] = p
      /\ \A m \in Loaders, b \in Aggregators : m # l \/ b # a => pc'[m][b] = pc[m][b]
  BY <1>0, Update2
<1>2. /\ reg' \in [Loaders -> [Aggregators -> [of : Objects \cup {Nil}, value : Nat]]]
      /\ reg'[l][a] = r
      /\ \A m \in Loaders, b \in Aggregators : m # l \/ b # a => reg'[m][b] = reg[m][b]
  <2>1. CASE reg' = [reg EXCEPT ![l][a] = r]
    BY <1>0, <2>1, Update2
  <2>2. CASE reg' = reg /\ r = reg[l][a]
    BY <1>0, <2>2
  <2> QED  BY <2>1, <2>2
<1> QED  BY <1>1, <1>2 DEF TypeOK, CallType, Elsewhere

\* The word of the call of l to a, while it is at one.
LEMMA AtAWord ==
  ASSUME TypeOK, NEW l \in Loaders, NEW a \in Aggregators, pc[l][a] \in Busy \cup Flying
  PROVE  /\ word[l][a] \in Words /\ word[l][a] \notin todo[l][a]
         /\ Own(l) \in Objects /\ Own(l)[1] = l
<1>1. CallOK(l, a) /\ CallType
  BY DEF TypeOK
<1>2. batch[l] >= 1 /\ word[l][a] \in Words \ todo[l][a]
  BY <1>1 DEF CallOK, Busy, Flying
<1> QED  BY <1>1, <1>2, OwnIsObject

LEMMA FastCopyFacts ==
  ASSUME TypeOK, NEW l \in Loaders, NEW a \in Aggregators, FastCopy(l, a)
  PROVE  /\ CallType' /\ ModelType' /\ Elsewhere(l, a)
         /\ UNCHANGED <<count, global, batch, turn, orderly>>
         /\ pc[l][a] = "copy" /\ pc'[l][a] = "globalRead"
         /\ word'[l][a] = word[l][a] /\ todo'[l][a] = todo[l][a] /\ reg'[l][a] = reg[l][a]
         /\ slot'[a][word[l][a]] = Own(l)
         /\ \A b \in Aggregators, w \in Words : b # a \/ w # word[l][a] => slot'[b][w] = slot[b][w]
<1>1. /\ pc[l][a] = "copy" /\ pc' = [pc EXCEPT ![l][a] = "globalRead"]
      /\ slot' = [slot EXCEPT ![a][word[l][a]] = Own(l)]
      /\ UNCHANGED <<count, global, batch, word, todo, reg, turn, orderly>>
  BY DEF FastCopy
<1>2. "globalRead" \in Steps /\ reg[l][a] \in [of : Objects \cup {Nil}, value : Nat]
  BY DEF Steps, TypeOK, CallType
<1>3. /\ CallType' /\ Elsewhere(l, a) /\ pc'[l][a] = "globalRead" /\ reg'[l][a] = reg[l][a]
      /\ word'[l][a] = word[l][a] /\ todo'[l][a] = todo[l][a]
  BY <1>1, <1>2, StepFacts
<1>4. word[l][a] \in Words /\ Own(l) \in Objects \cup {Nil}
  BY <1>1, AtAWord DEF Busy
<1>5. slot \in [Aggregators -> [Words -> Objects \cup {Nil}]]
  BY DEF TypeOK, ModelType
<1>6. /\ slot' \in [Aggregators -> [Words -> Objects \cup {Nil}]]
      /\ slot'[a][word[l][a]] = Own(l)
      /\ \A b \in Aggregators, w \in Words : b # a \/ w # word[l][a] => slot'[b][w] = slot[b][w]
  BY <1>1, <1>4, <1>5, Update2
<1> QED  BY <1>1, <1>3, <1>6 DEF TypeOK, ModelType

LEMMA ReadCountFacts ==
  ASSUME TypeOK, NEW l \in Loaders, NEW a \in Aggregators, ReadCount(l, a)
  PROVE  /\ CallType' /\ Elsewhere(l, a) /\ UNCHANGED <<modelVars, batch, turn, orderly>>
         /\ pc[l][a] = "read" /\ pc'[l][a] = "write"
         /\ word'[l][a] = word[l][a] /\ todo'[l][a] = todo[l][a]
         /\ reg'[l][a].of = slot[a][word[l][a]] /\ reg'[l][a].of \in Objects
         /\ reg'[l][a].value = Held(a, word[l][a])
<1> DEFINE w == word[l][a]
           r == [of |-> slot[a][w], value |-> count[a][slot[a][w]][w]]
<1>1. /\ pc[l][a] = "read" /\ pc' = [pc EXCEPT ![l][a] = "write"]
      /\ reg' = [reg EXCEPT ![l][a] = r]
      /\ UNCHANGED <<modelVars, batch, word, todo, turn, orderly>>
  BY DEF ReadCount
<1>2. w \in Words
  BY <1>1, AtAWord DEF Busy
<1>3. slot[a][w] \in Objects
  <2>1. CallOK(l, a) /\ slot[a][w] \in Objects \cup {Nil}
    BY <1>2 DEF TypeOK, ModelType
  <2> QED  BY <1>1, <2>1 DEF CallOK
<1>4. count[a][slot[a][w]][w] \in Nat
  BY <1>2, <1>3 DEF TypeOK, ModelType
<1>5. "write" \in Steps /\ r \in [of : Objects \cup {Nil}, value : Nat]
  BY <1>3, <1>4 DEF Steps
<1> HIDE DEF r
<1>6. /\ CallType' /\ Elsewhere(l, a) /\ pc'[l][a] = "write" /\ reg'[l][a] = r
      /\ word'[l][a] = word[l][a] /\ todo'[l][a] = todo[l][a]
  BY <1>1, <1>5, StepFacts
<1>7. r.of = slot[a][w] /\ r.value = Held(a, w)
  BY <1>3, ObjectsAreNotNil DEF r, Held
<1> QED  BY <1>1, <1>3, <1>6, <1>7

LEMMA WriteCountFacts ==
  ASSUME TypeOK, NEW l \in Loaders, NEW a \in Aggregators, WriteCount(l, a)
  PROVE  /\ CallType' /\ ModelType' /\ Elsewhere(l, a)
         /\ UNCHANGED <<slot, global, batch, turn, orderly>>
         /\ pc[l][a] = "write" /\ pc'[l][a] = "globalRead"
         /\ word'[l][a] = word[l][a] /\ todo'[l][a] = todo[l][a] /\ reg'[l][a] = reg[l][a]
         /\ reg[l][a].of \in Objects
         /\ count'[a][reg[l][a].of][word[l][a]] =
              reg[l][a].value + count[a][Own(l)][word[l][a]]
         /\ \A b \in Aggregators, o \in Objects, w \in Words :
              b # a \/ o # reg[l][a].of \/ w # word[l][a] => count'[b][o][w] = count[b][o][w]
<1> DEFINE w == word[l][a]
           o == reg[l][a].of
           n == reg[l][a].value + count[a][Own(l)][w]
<1>1. /\ pc[l][a] = "write" /\ pc' = [pc EXCEPT ![l][a] = "globalRead"]
      /\ count' = [count EXCEPT ![a][o][w] = n]
      /\ UNCHANGED <<slot, global, batch, word, todo, reg, turn, orderly>>
  BY DEF WriteCount
<1>2. "globalRead" \in Steps /\ reg[l][a] \in [of : Objects \cup {Nil}, value : Nat]
  BY DEF Steps, TypeOK, CallType
<1>3. /\ CallType' /\ Elsewhere(l, a) /\ pc'[l][a] = "globalRead" /\ reg'[l][a] = reg[l][a]
      /\ word'[l][a] = word[l][a] /\ todo'[l][a] = todo[l][a]
  BY <1>1, <1>2, StepFacts
<1>4. w \in Words /\ Own(l) \in Objects
  BY <1>1, AtAWord DEF Busy
<1>5. o \in Objects
  <2>1. CallOK(l, a)
    BY DEF TypeOK
  <2> QED  BY <1>1, <2>1 DEF CallOK
<1>6. count \in [Aggregators -> [Objects -> [Words -> Nat]]]
  BY DEF TypeOK, ModelType
<1>7. n \in Nat
  <2>1. reg[l][a].value \in Nat /\ count[a][Own(l)][w] \in Nat
    BY <1>2, <1>4, <1>6
  <2> QED  BY <2>1
<1> HIDE DEF n, o, w
<1> DEFINE mine == [count[a] EXCEPT ![o][w] = n]
<1>8. count[a] \in [Objects -> [Words -> Nat]]
  BY <1>6
<1>9. /\ mine \in [Objects -> [Words -> Nat]] /\ mine[o][w] = n
      /\ \A q \in Objects, x \in Words : q # o \/ x # w => mine[q][x] = count[a][q][x]
  BY <1>4, <1>5, <1>7, <1>8, Update2
<1>10. count' = [count EXCEPT ![a] = mine]
  BY <1>1
<1> HIDE DEF mine
<1>11. /\ count' \in [Aggregators -> [Objects -> [Words -> Nat]]] /\ count'[a] = mine
       /\ \A b \in Aggregators : b # a => count'[b] = count[b]
  BY <1>6, <1>9, <1>10
<1>12. count'[a][o][w] = n
  BY <1>9, <1>11
<1>13. \A b \in Aggregators, q \in Objects, x \in Words :
         b # a \/ q # o \/ x # w => count'[b][q][x] = count[b][q][x]
  BY <1>9, <1>11
<1> QED  BY <1>1, <1>3, <1>5, <1>11, <1>12, <1>13 DEF TypeOK, ModelType, n, o, w

LEMMA ReadGlobalFacts ==
  ASSUME TypeOK, NEW l \in Loaders, NEW a \in Aggregators, ReadGlobal(l, a)
  PROVE  /\ CallType' /\ Elsewhere(l, a) /\ UNCHANGED <<modelVars, batch, turn, orderly>>
         /\ pc[l][a] = "globalRead" /\ pc'[l][a] = "globalWrite"
         /\ word'[l][a] = word[l][a] /\ todo'[l][a] = todo[l][a]
         /\ reg'[l][a].value = global[a] + count[a][Own(l)][word[l][a]]
<1> DEFINE w == word[l][a]
           r == [of |-> Own(l), value |-> global[a] + count[a][Own(l)][w]]
<1>1. /\ pc[l][a] = "globalRead" /\ pc' = [pc EXCEPT ![l][a] = "globalWrite"]
      /\ reg' = [reg EXCEPT ![l][a] = r]
      /\ UNCHANGED <<modelVars, batch, word, todo, turn, orderly>>
  BY DEF ReadGlobal
<1>2. w \in Words /\ Own(l) \in Objects
  BY <1>1, AtAWord DEF Flying
<1>3. count[a][Own(l)][w] \in Nat /\ global[a] \in Nat
  BY <1>2 DEF TypeOK, ModelType
<1>4. global[a] + count[a][Own(l)][w] \in Nat
  BY <1>3
<1>5. "globalWrite" \in Steps /\ r \in [of : Objects \cup {Nil}, value : Nat]
  BY <1>2, <1>4 DEF Steps
<1>6. r.value = global[a] + count[a][Own(l)][w]
  OBVIOUS
<1> HIDE DEF r
<1>7. /\ CallType' /\ Elsewhere(l, a) /\ pc'[l][a] = "globalWrite" /\ reg'[l][a] = r
      /\ word'[l][a] = word[l][a] /\ todo'[l][a] = todo[l][a]
  BY <1>1, <1>5, StepFacts
<1> QED  BY <1>1, <1>6, <1>7

LEMMA WriteGlobalFacts ==
  ASSUME TypeOK, NEW l \in Loaders, NEW a \in Aggregators, WriteGlobal(l, a)
  PROVE  /\ CallType' /\ ModelType' /\ Elsewhere(l, a)
         /\ UNCHANGED <<slot, count, batch, turn, orderly>>
         /\ pc[l][a] = "globalWrite" /\ pc'[l][a] = "next"
         /\ word'[l][a] = word[l][a] /\ todo'[l][a] = todo[l][a] /\ reg'[l][a] = reg[l][a]
         /\ global' = [global EXCEPT ![a] = reg[l][a].value]
<1>1. /\ pc[l][a] = "globalWrite" /\ pc' = [pc EXCEPT ![l][a] = "next"]
      /\ global' = [global EXCEPT ![a] = reg[l][a].value]
      /\ UNCHANGED <<slot, count, batch, word, todo, reg, turn, orderly>>
  BY DEF WriteGlobal
<1>2. "next" \in Steps /\ reg[l][a] \in [of : Objects \cup {Nil}, value : Nat]
  BY DEF Steps, TypeOK, CallType
<1>3. /\ CallType' /\ Elsewhere(l, a) /\ pc'[l][a] = "next" /\ reg'[l][a] = reg[l][a]
      /\ word'[l][a] = word[l][a] /\ todo'[l][a] = todo[l][a]
  BY <1>1, <1>2, StepFacts
<1>4. ModelType'
  BY <1>1, <1>2 DEF TypeOK, ModelType
<1> QED  BY <1>1, <1>3, <1>4

\* Calls that are elsewhere are where they were, as no slot becomes empty.
LEMMA OthersStayOK ==
  ASSUME TypeOK, NEW l \in Loaders, NEW a \in Aggregators, Elsewhere(l, a), batch' = batch,
         \A b \in Aggregators, w \in Words : slot[b][w] # Nil => slot'[b][w] # Nil,
         NEW m \in Loaders, NEW b \in Aggregators, m # l \/ b # a
  PROVE  CallOK(m, b)'
<1>1. CallOK(m, b)
  BY DEF TypeOK
<1>2. /\ pc'[m][b] = pc[m][b] /\ word'[m][b] = word[m][b]
      /\ todo'[m][b] = todo[m][b] /\ reg'[m][b] = reg[m][b]
  BY DEF Elsewhere
<1>3. pc[m][b] \in {"read", "write"} => slot'[b][word[m][b]] # Nil
  BY <1>1 DEF CallOK, Busy
<1> QED  BY <1>1, <1>2, <1>3 DEF CallOK

LEMMA AccumulateType ==
  ASSUME TypeOK, NEW l \in Loaders, NEW a \in Aggregators, Accumulate(l, a)
  PROVE  /\ TypeOK' /\ Elsewhere(l, a) /\ UNCHANGED <<batch, turn, orderly>>
         /\ \A b \in Aggregators, w \in Words : slot[b][w] # Nil => slot'[b][w] # Nil
<1>0. CallOK(l, a) /\ ModelType /\ MasterType /\ CallType
  BY DEF TypeOK
<1>1. SUFFICES /\ CallType' /\ ModelType' /\ Elsewhere(l, a) /\ UNCHANGED <<batch, turn, orderly>>
               /\ \A b \in Aggregators, w \in Words : slot[b][w] # Nil => slot'[b][w] # Nil
               /\ CallOK(l, a)'
  <2> SUFFICES ASSUME /\ CallType' /\ ModelType' /\ Elsewhere(l, a) /\ UNCHANGED <<batch, turn, orderly>>
                      /\ \A b \in Aggregators, w \in Words : slot[b][w] # Nil => slot'[b][w] # Nil
                      /\ CallOK(l, a)'
               PROVE  TypeOK'
    OBVIOUS
  <2>1. \A m \in Loaders, b \in Aggregators : CallOK(m, b)'
    BY OthersStayOK
  <2>2. MasterType'
    BY <1>0 DEF MasterType
  <2> QED  BY <2>1, <2>2 DEF TypeOK
<1>2. CASE NextWord(l, a)
  <2>1. /\ CallType' /\ Elsewhere(l, a) /\ UNCHANGED <<modelVars, batch, turn, orderly>>
        /\ pc[l][a] = "next" /\ reg'[l][a] = reg[l][a]
    BY <1>2, NextWordFacts
  <2>2. ModelType' /\ slot' = slot
    BY <1>0, <2>1 DEF modelVars, ModelType
  <2>3. CallOK(l, a)'
    <3>1. CASE pc'[l][a] = "idle" /\ todo'[l][a] = {}
      BY <3>1 DEF CallOK, Busy, Flying
    <3>2. CASE \E w \in todo[l][a] : /\ word'[l][a] = w /\ todo'[l][a] = todo[l][a] \ {w}
                                     /\ pc'[l][a] = IF slot[a][w] = Nil THEN "copy" ELSE "read"
      <4>1. PICK w \in todo[l][a] : /\ word'[l][a] = w /\ todo'[l][a] = todo[l][a] \ {w}
                                    /\ pc'[l][a] = IF slot[a][w] = Nil THEN "copy" ELSE "read"
        BY <3>2
      <4>2. w \in Words /\ batch[l] >= 1
        BY <1>0, <2>1 DEF CallType, CallOK
      <4> QED  BY <2>1, <2>2, <4>1, <4>2 DEF CallOK, Busy, Flying
    <3> QED  BY <1>2, <3>1, <3>2, NextWordFacts
  <2> QED  BY <2>1, <2>2, <2>3
<1>3. CASE FastCopy(l, a)
  <2>1. \A b \in Aggregators, w \in Words : slot[b][w] # Nil => slot'[b][w] # Nil
    <3>1. Own(l) # Nil
      BY <1>3, AtAWord, ObjectsAreNotNil DEF FastCopy, Busy
    <3> QED  BY <1>3, <3>1, FastCopyFacts
  <2>2. CallOK(l, a)'
    BY <1>0, <1>3, FastCopyFacts DEF CallOK, Busy, Flying
  <2> QED  BY <1>3, <2>1, <2>2, FastCopyFacts
<1>4. CASE ReadCount(l, a)
  <2>1. ModelType' /\ slot' = slot /\ batch' = batch
    BY <1>0, <1>4, ReadCountFacts DEF modelVars, ModelType
  <2>2. CallOK(l, a)'
    BY <1>0, <1>4, <2>1, ReadCountFacts DEF CallOK, Busy, Flying
  <2> QED  BY <1>4, <2>1, <2>2, ReadCountFacts
<1>5. CASE WriteCount(l, a)
  <2>1. CallOK(l, a)'
    BY <1>0, <1>5, WriteCountFacts DEF CallOK, Busy, Flying
  <2> QED  BY <1>5, <2>1, WriteCountFacts
<1>6. CASE ReadGlobal(l, a)
  <2>1. ModelType' /\ slot' = slot /\ batch' = batch
    BY <1>0, <1>6, ReadGlobalFacts DEF modelVars, ModelType
  <2>2. CallOK(l, a)'
    BY <1>0, <1>6, <2>1, ReadGlobalFacts DEF CallOK, Busy, Flying
  <2> QED  BY <1>6, <2>1, <2>2, ReadGlobalFacts
<1>7. CASE WriteGlobal(l, a)
  <2>1. CallOK(l, a)'
    BY <1>0, <1>7, WriteGlobalFacts DEF CallOK, Busy, Flying
  <2> QED  BY <1>7, <2>1, WriteGlobalFacts
<1> QED  BY <1>2, <1>3, <1>4, <1>5, <1>6, <1>7 DEF Accumulate

LEMMA LoadFacts ==
  ASSUME TypeOK, NEW l \in Loaders, Load(l)
  PROVE  /\ TypeOK' /\ UNCHANGED <<modelVars, turn>>
         /\ batch'[l] = batch[l] + 1
         /\ orderly' = (orderly /\ turn.turnovers = 0 /\ \A m \in Loaders : ~ Loading(m))
         /\ \A a \in Aggregators : /\ pc[l][a] = "idle" /\ pc'[l][a] = "next"
                                   /\ todo'[l][a] = {w \in Words : Occurrences[l][w] > 0}
         /\ \A m \in Loaders \ {l} : /\ batch'[m] = batch[m] /\ pc'[m] = pc[m]
                                      /\ word'[m] = word[m] /\ todo'[m] = todo[m] /\ reg'[m] = reg[m]
<1>1. /\ batch' = [batch EXCEPT ![l] = @ + 1]
      /\ pc' = [pc EXCEPT ![l] = [a \in Aggregators |-> "next"]]
      /\ todo' = [todo EXCEPT ![l] = [a \in Aggregators |-> {w \in Words : Occurrences[l][w] > 0}]]
      /\ UNCHANGED <<modelVars, word, reg, turn>> /\ batch[l] < Batches
      /\ orderly' = (orderly /\ turn.turnovers = 0 /\ \A m \in Loaders : ~ Loading(m))
      /\ \A a \in Aggregators : pc[l][a] = "idle"
  BY DEF Load, Loading
<1>2. ModelType /\ CallType /\ MasterType /\ \A m \in Loaders, b \in Aggregators : CallOK(m, b)
  BY DEF TypeOK
<1>3. ModelType' /\ MasterType'
  BY <1>1, <1>2 DEF ModelType, MasterType, modelVars
<1>4. CallType'
  <2>1. batch' \in [Loaders -> 0 .. Batches]
    BY <1>1, <1>2, AggregatorAssumption DEF CallType
  <2>2. pc' \in [Loaders -> [Aggregators -> Steps]]
    BY <1>1, <1>2 DEF CallType, Steps
  <2>3. todo' \in [Loaders -> [Aggregators -> SUBSET Words]]
    BY <1>1, <1>2 DEF CallType
  <2> QED  BY <1>1, <1>2, <2>1, <2>2, <2>3 DEF CallType
<1>5. /\ batch'[l] = batch[l] + 1
      /\ \A a \in Aggregators : /\ pc'[l][a] = "next"
                                /\ todo'[l][a] = {w \in Words : Occurrences[l][w] > 0}
      /\ \A m \in Loaders \ {l} : /\ batch'[m] = batch[m] /\ pc'[m] = pc[m]
                                   /\ word'[m] = word[m] /\ todo'[m] = todo[m] /\ reg'[m] = reg[m]
  BY <1>1, <1>2 DEF CallType
<1>6. ASSUME NEW m \in Loaders, NEW b \in Aggregators PROVE CallOK(m, b)'
  <2>1. CASE m = l
    <3>1. batch'[l] >= 1
      BY <1>2, <1>5 DEF CallType
    <3> QED  BY <1>5, <2>1, <3>1 DEF CallOK, Busy, Flying
  <2>2. CASE m # l
    <3>1. slot' = slot
      BY <1>1 DEF modelVars
    <3> QED  BY <1>2, <1>5, <2>2, <3>1 DEF CallOK
  <2> QED  BY <2>1, <2>2
<1> QED  BY <1>1, <1>3, <1>4, <1>5, <1>6 DEF TypeOK

\* The turnover changes the global histograms only.
LEMMA MasterFacts ==
  ASSUME TypeOK, BeginAggregate \/ \E a \in Aggregators : GetGlobalHist(a) \/ SetGlobalHist(a)
  PROVE  TypeOK' /\ UNCHANGED <<slot, count, callVars>>
<1>0. /\ ModelType /\ CallType /\ MasterType
      /\ \A m \in Loaders, b \in Aggregators : CallOK(m, b)
  BY DEF TypeOK
<1>a. /\ turn \in [phase : {"idle", "get", "set"}, calls : SUBSET Aggregators, sum : Nat,
                    turnovers : 0 .. MaxTurnovers]
      /\ turn.phase # "idle" => turn.turnovers > 0
      /\ global \in [Aggregators -> Nat] /\ orderly \in BOOLEAN
  BY <1>0 DEF MasterType, ModelType
<1>1. SUFFICES MasterType' /\ global' \in [Aggregators -> Nat] /\ UNCHANGED <<slot, count, callVars>>
  BY <1>0 DEF TypeOK, ModelType, CallType, CallOK, callVars
<1>2. CASE BeginAggregate
  <2>1. /\ orderly' = (orderly /\ \A l \in Loaders : ~ Loading(l) /\ batch[l] = Batches)
        /\ turn' = [phase |-> "get", calls |-> Aggregators, sum |-> 0,
                    turnovers |-> turn.turnovers + 1]
        /\ turn.turnovers < MaxTurnovers /\ UNCHANGED <<modelVars, callVars>>
    BY <1>2 DEF BeginAggregate
  <2>2. turn.turnovers + 1 \in 0 .. MaxTurnovers
    BY <1>a, <2>1, AggregatorAssumption
  <2>3. orderly' \in BOOLEAN
    BY <2>1
  <2> QED  BY <1>a, <2>1, <2>2, <2>3 DEF MasterType, modelVars
<1>3. ASSUME NEW a \in Aggregators, GetGlobalHist(a)
      PROVE  MasterType' /\ global' \in [Aggregators -> Nat] /\ UNCHANGED <<slot, count, callVars>>
  <2> DEFINE left == turn.calls \ {a}
  <2>1. /\ turn' = [turn EXCEPT !.phase = After("get", left), !.sum = @ + global[a],
                               !.calls = IF left = {} THEN Aggregators ELSE left]
        /\ UNCHANGED <<modelVars, callVars, orderly>> /\ turn.phase = "get"
    BY <1>3 DEF GetGlobalHist
  <2>2. After("get", left) \in {"idle", "get", "set"} /\ turn.sum + global[a] \in Nat
    BY <1>a DEF After
  <2> QED  BY <1>a, <2>1, <2>2 DEF MasterType, modelVars
<1>4. ASSUME NEW a \in Aggregators, SetGlobalHist(a)
      PROVE  MasterType' /\ global' \in [Aggregators -> Nat] /\ UNCHANGED <<slot, count, callVars>>
  <2>1. /\ turn' = [turn EXCEPT !.phase = After("set", turn.calls \ {a}), !.calls = @ \ {a}]
        /\ global' = [global EXCEPT ![a] = turn.sum] /\ UNCHANGED <<slot, count, callVars, orderly>>
        /\ turn.phase = "set"
    BY <1>4 DEF SetGlobalHist
  <2>2. After("set", turn.calls \ {a}) \in {"idle", "get", "set"}
    BY DEF After
  <2> QED  BY <1>a, <2>1, <2>2 DEF MasterType
<1> QED  BY <1>2, <1>3, <1>4

LEMMA InitType == Init => TypeOK
<1> SUFFICES ASSUME Init PROVE TypeOK
  OBVIOUS
<1>1. ModelType
  <2>1. \A o \in Objects, w \in Words : Occurrences[o[1]][w] \in Nat
    BY AggregatorAssumption DEF Objects
  <2> QED  BY <2>1 DEF Init, ModelType
<1>2. CallType
  BY AggregatorAssumption DEF Init, CallType, Steps
<1>3. MasterType
  BY AggregatorAssumption DEF Init, MasterType
<1>4. \A l \in Loaders, a \in Aggregators : CallOK(l, a)
  BY DEF Init, CallOK, Busy, Flying
<1> QED  BY <1>1, <1>2, <1>3, <1>4 DEF TypeOK

-----------------------------------------------------------------------------
(* What calls that are done with a word have sent of it. *)

LEMMA PendingBegan ==
  ASSUME TypeOK, NEW l \in Loaders, NEW a \in Aggregators, NEW w \in Words, Pending(l, a, w)
  PROVE  pc[l][a] # "idle" /\ batch[l] >= 1
BY DEF TypeOK, CallOK, Pending, Busy

LEMMA CreditTerms ==
  ASSUME TypeOK, NEW l \in Loaders, NEW a \in Aggregators, NEW w \in Words
  PROVE  /\ ShardsDone(l, a, w) \in Nat /\ ShardsDone(l, a, w) <= batch[l] /\ batch[l] \in Nat
         /\ Occurrences[l][w] \in Nat
         /\ ShardsDone(l, a, w) * Occurrences[l][w] \in Nat
         /\ batch[l] * Occurrences[l][w] \in Nat
         /\ ShardsDone(l, a, w) * Occurrences[l][w] <= batch[l] * Occurrences[l][w]
<1>1. batch[l] \in Nat /\ Occurrences[l][w] \in Nat
  BY AggregatorAssumption DEF TypeOK, CallType
<1>2. ShardsDone(l, a, w) \in Nat /\ (ShardsDone(l, a, w) = batch[l] \/ ShardsDone(l, a, w) = batch[l] - 1)
  BY <1>1, PendingBegan DEF ShardsDone
<1> DEFINE k == ShardsDone(l, a, w)
           n == Occurrences[l][w]
           x == batch[l]
<1>3. k \in Nat /\ n \in Nat /\ x \in Nat /\ (k = x \/ k = x - 1)
  BY <1>1, <1>2
<1> HIDE DEF k, n, x
<1>4. k * n \in Nat /\ x * n \in Nat
  BY <1>3, SMT
<1>5. k = x - 1 => k * n = x * n - n
  <2> SUFFICES ASSUME k = x - 1 PROVE k * n = x * n - n
    OBVIOUS
  <2>1. (x - 1) * n = x * n - n
    BY <1>3, SMT
  <2> QED  BY <2>1
<1>6. k * n <= x * n
  BY <1>3, <1>4, <1>5
<1> QED  BY <1>3, <1>4, <1>6 DEF k, n, x

CreditTerm(a, w) == [l \in Loaders |-> ShardsDone(l, a, w) * Occurrences[l][w]]

LEMMA CreditedIs ==
  ASSUME TypeOK, NEW a \in Aggregators, NEW w \in Words
  PROVE  /\ Credited(a, w) = SumOver(CreditTerm(a, w), Loaders)
         /\ \A l \in Loaders : CreditTerm(a, w)[l] \in Nat
         /\ Credited(a, w) \in Nat /\ Credited(a, w) <= Sent(w)
<1>1. \A l \in Loaders : CreditTerm(a, w)[l] \in Nat
  BY CreditTerms DEF CreditTerm
<1>2. Credited(a, w) = SumOver(CreditTerm(a, w), Loaders)
  <2>1. CreditTerm(a, w) = [l \in Loaders |-> CreditTerm(a, w)[l]]
    BY DEF CreditTerm
  <2> QED  BY <2>1, SumIsOver DEF Credited, CreditTerm
<1>3. IsFiniteSet(Loaders)
  BY AggregatorAssumption
<1>4. Credited(a, w) \in Nat
  BY <1>1, <1>2, <1>3, SumNat
<1>5. Credited(a, w) <= Sent(w)
  <2> DEFINE g == [l \in Loaders |-> batch[l] * Occurrences[l][w]]
  <2>1. \A l \in Loaders : /\ CreditTerm(a, w)[l] \in Int /\ g[l] \in Int
                           /\ CreditTerm(a, w)[l] <= g[l]
    BY CreditTerms DEF CreditTerm
  <2>2. Sum(g) = SumOver(g, Loaders)
    BY SumIsOver
  <2> HIDE DEF g
  <2>3. SumOver(CreditTerm(a, w), Loaders) <= SumOver(g, Loaders)
    BY <1>3, <2>1, SumMonotonic
  <2> QED  BY <1>2, <2>2, <2>3 DEF Sent, g
<1> QED  BY <1>1, <1>2, <1>4, <1>5

\* The credit of a word is what it was, when no call has done with it.
LEMMA SameCredit ==
  ASSUME NEW a \in Aggregators, NEW w \in Words,
         \A l \in Loaders : \/ ShardsDone(l, a, w)' = ShardsDone(l, a, w)
                            \/ /\ Occurrences[l][w] = 0
                               /\ ShardsDone(l, a, w) \in Int /\ ShardsDone(l, a, w)' \in Int
  PROVE  Credited(a, w)' = Credited(a, w)
<1>1. \A l \in Loaders : ShardsDone(l, a, w)' * Occurrences[l][w] = ShardsDone(l, a, w) * Occurrences[l][w]
  <2> TAKE l \in Loaders
  <2>1. CASE ShardsDone(l, a, w)' = ShardsDone(l, a, w)
    BY <2>1
  <2>2. CASE Occurrences[l][w] = 0 /\ ShardsDone(l, a, w) \in Int /\ ShardsDone(l, a, w)' \in Int
    <3> DEFINE k == ShardsDone(l, a, w)
               n == ShardsDone(l, a, w)'
    <3>1. k \in Int /\ n \in Int
      BY <2>2
    <3> HIDE DEF k, n
    <3>2. k * 0 = 0 /\ n * 0 = 0
      BY <3>1, SMT
    <3> QED  BY <2>2, <3>2 DEF k, n
  <2> QED  BY <2>1, <2>2
<1>2. [l \in Loaders |-> ShardsDone(l, a, w)' * Occurrences[l][w]]
        = [l \in Loaders |-> ShardsDone(l, a, w) * Occurrences[l][w]]
  BY <1>1
<1> QED  BY <1>2 DEF Credited

LEMMA MoreCredit ==
  ASSUME TypeOK, TypeOK', NEW a \in Aggregators, NEW w \in Words, NEW l \in Loaders,
         Pending(l, a, w), ~ Pending(l, a, w)', batch' = batch,
         \A m \in Loaders : m # l => ShardsDone(m, a, w)' = ShardsDone(m, a, w)
  PROVE  Credited(a, w)' = Credited(a, w) + Occurrences[l][w]
<1> DEFINE f == CreditTerm(a, w)
           g == CreditTerm(a, w)'
           n == Occurrences[l][w]
<1>1. /\ Credited(a, w) = SumOver(f, Loaders) /\ Credited(a, w) \in Nat
      /\ \A m \in Loaders : f[m] \in Nat
  BY CreditedIs
<1>2. /\ Credited(a, w)' = SumOver(g, Loaders) /\ \A m \in Loaders : g[m] \in Nat
  <2>1. \A m \in Loaders : g[m] = ShardsDone(m, a, w)' * Occurrences[m][w]
    BY DEF CreditTerm
  <2>2. g = [m \in Loaders |-> g[m]] /\ Credited(a, w)' = Sum(g)
    BY DEF CreditTerm, Credited
  <2>3. ASSUME NEW m \in Loaders PROVE g[m] \in Nat
    <3>1. CASE m # l
      BY <1>1, <2>1, <3>1 DEF CreditTerm
    <3>2. CASE m = l
      <4>1. ShardsDone(l, a, w)' = batch[l]
        <5>1. batch[l] \in Nat
          BY CreditTerms
        <5> QED  BY <5>1 DEF ShardsDone
      <4>2. batch[l] * Occurrences[l][w] \in Nat
        BY CreditTerms
      <4> QED  BY <2>1, <3>2, <4>1, <4>2
    <3> QED  BY <3>1, <3>2
  <2> HIDE DEF g
  <2> QED  BY <2>2, <2>3, SumIsOver
<1>3. \A m \in Loaders : m # l => g[m] = f[m]
  BY DEF CreditTerm
<1>4. g[l] = f[l] + n
  <2>1. batch[l] \in Nat /\ n \in Nat
    BY CreditTerms
  <2>2. ShardsDone(l, a, w)' = batch[l] /\ ShardsDone(l, a, w) = batch[l] - 1
    BY <2>1 DEF ShardsDone
  <2>3. batch[l] * n = (batch[l] - 1) * n + n
    BY <2>1, SMT
  <2> QED  BY <2>2, <2>3 DEF CreditTerm
<1> HIDE DEF f, g
<1>5. SumOver(g, Loaders) = SumOver(f, Loaders) - f[l] + g[l]
  <2>1. IsFiniteSet(Loaders) /\ g[l] \in Int /\ \A m \in Loaders : f[m] \in Int
    BY <1>1, <1>2, AggregatorAssumption
  <2> QED  BY <1>3, <2>1, SumChange
<1>6. n \in Nat /\ f[l] \in Nat
  BY <1>1, CreditTerms
<1> QED  BY <1>1, <1>2, <1>4, <1>5, <1>6

\* A call adds its word to the model: by its own map, or to the one that is there.
AddsWord(l, a) == FastCopy(l, a) \/ WriteCount(l, a)

LEMMA PendingStep ==
  ASSUME TypeOK, NEW l \in Loaders, NEW a \in Aggregators, Accumulate(l, a)
  PROVE  /\ \A m \in Loaders, b \in Aggregators, w \in Words :
              m # l \/ b # a => Pending(m, b, w)' = Pending(m, b, w)
         /\ ~ AddsWord(l, a) => \A w \in Words : Pending(l, a, w)' <=> Pending(l, a, w)
         /\ AddsWord(l, a) =>
              /\ word[l][a] \in Words /\ Pending(l, a, word[l][a])
              /\ \A w \in Words : Pending(l, a, w)' <=> Pending(l, a, w) /\ w # word[l][a]
<1>1. Elsewhere(l, a)
  BY AccumulateType
<1>2. \A m \in Loaders, b \in Aggregators, w \in Words :
        m # l \/ b # a => Pending(m, b, w)' = Pending(m, b, w)
  BY <1>1 DEF Elsewhere, Pending
<1>3. CASE NextWord(l, a)
  <2>1. pc[l][a] = "next" /\ ~ AddsWord(l, a)
    BY <1>3 DEF NextWord, AddsWord, FastCopy, WriteCount
  <2>2. \A w \in Words : Pending(l, a, w)' <=> Pending(l, a, w)
    <3>1. CASE todo[l][a] = {} /\ pc'[l][a] = "idle" /\ todo'[l][a] = {}
      BY <2>1, <3>1 DEF Pending, Busy
    <3>2. CASE \E w \in todo[l][a] : /\ word'[l][a] = w /\ todo'[l][a] = todo[l][a] \ {w}
                                     /\ pc'[l][a] = IF slot[a][w] = Nil THEN "copy" ELSE "read"
      BY <2>1, <3>2 DEF Pending, Busy
    <3> QED  BY <1>3, <3>1, <3>2, NextWordFacts
  <2> QED  BY <1>2, <2>1, <2>2
<1>4. CASE FastCopy(l, a)
  <2>1. word[l][a] \in Words /\ word[l][a] \notin todo[l][a]
    BY <1>4, AtAWord DEF FastCopy, Busy
  <2>2. /\ AddsWord(l, a) /\ Pending(l, a, word[l][a])
        /\ \A w \in Words : Pending(l, a, w)' <=> Pending(l, a, w) /\ w # word[l][a]
    BY <1>4, <2>1, FastCopyFacts DEF AddsWord, Pending, Busy
  <2> QED  BY <1>2, <2>1, <2>2
<1>5. CASE WriteCount(l, a)
  <2>1. word[l][a] \in Words /\ word[l][a] \notin todo[l][a]
    BY <1>5, AtAWord DEF WriteCount, Busy
  <2>2. /\ AddsWord(l, a) /\ Pending(l, a, word[l][a])
        /\ \A w \in Words : Pending(l, a, w)' <=> Pending(l, a, w) /\ w # word[l][a]
    BY <1>5, <2>1, WriteCountFacts DEF AddsWord, Pending, Busy
  <2> QED  BY <1>2, <2>1, <2>2
<1>6. CASE ReadCount(l, a)
  <2>1. ~ AddsWord(l, a)
    BY <1>6 DEF ReadCount, AddsWord, FastCopy, WriteCount
  <2>2. \A w \in Words : Pending(l, a, w)' <=> Pending(l, a, w)
    BY <1>6, ReadCountFacts DEF Pending, Busy
  <2> QED  BY <1>2, <2>1, <2>2
<1>7. CASE ReadGlobal(l, a)
  <2>1. ~ AddsWord(l, a)
    BY <1>7 DEF ReadGlobal, AddsWord, FastCopy, WriteCount
  <2>2. \A w \in Words : Pending(l, a, w)' <=> Pending(l, a, w)
    BY <1>7, ReadGlobalFacts DEF Pending, Busy
  <2> QED  BY <1>2, <2>1, <2>2
<1>8. CASE WriteGlobal(l, a)
  <2>1. ~ AddsWord(l, a)
    BY <1>8 DEF WriteGlobal, AddsWord, FastCopy, WriteCount
  <2>2. \A w \in Words : Pending(l, a, w)' <=> Pending(l, a, w)
    BY <1>8, WriteGlobalFacts DEF Pending, Busy
  <2> QED  BY <1>2, <2>1, <2>2
<1> QED  BY <1>3, <1>4, <1>5, <1>6, <1>7, <1>8 DEF Accumulate

\* What a step of a call does to the credits.
LEMMA CreditStep ==
  ASSUME TypeOK, NEW l \in Loaders, NEW a \in Aggregators, Accumulate(l, a)
  PROVE  \A b \in Aggregators, w \in Words :
           Credited(b, w)' = Credited(b, w) +
             (IF AddsWord(l, a) /\ b = a /\ w = word[l][a] THEN Occurrences[l][w] ELSE 0)
<1>1. TypeOK' /\ batch' = batch
  BY AccumulateType
<1> TAKE b \in Aggregators, w \in Words
<1>2. Credited(b, w) \in Nat
  BY CreditedIs
<1>3. CASE AddsWord(l, a) /\ b = a /\ w = word[l][a]
  <2>1. Pending(l, a, w) /\ ~ Pending(l, a, w)'
    BY <1>3, PendingStep
  <2>2. \A m \in Loaders : m # l => ShardsDone(m, a, w)' = ShardsDone(m, a, w)
    BY <1>1, PendingStep DEF ShardsDone
  <2>3. Credited(a, w)' = Credited(a, w) + Occurrences[l][w]
    BY <1>1, <2>1, <2>2, MoreCredit
  <2> QED  BY <1>3, <2>3
<1>4. CASE ~ (AddsWord(l, a) /\ b = a /\ w = word[l][a])
  <2>1. \A m \in Loaders : Pending(m, b, w)' <=> Pending(m, b, w)
    BY <1>4, PendingStep
  <2>2. \A m \in Loaders : ShardsDone(m, b, w)' = ShardsDone(m, b, w)
    BY <1>1, <2>1 DEF ShardsDone
  <2>3. Credited(b, w)' = Credited(b, w)
    BY <2>2, SameCredit
  <2> QED  BY <1>2, <1>4, <2>3
<1> QED  BY <1>3, <1>4

-----------------------------------------------------------------------------
(* Any interleaving. *)

\* What is fresh after the step of a call was fresh before.
LEMMA FreshShrinks ==
  ASSUME TypeOK, NEW l \in Loaders, NEW a \in Aggregators, Accumulate(l, a),
         NEW m \in Loaders, NEW n \in 1 .. Batches, NEW b \in Aggregators, NEW w \in Words,
         Fresh(m, n, b, w)'
  PROVE  /\ Fresh(m, n, b, w)
         /\ AddsWord(l, a) /\ b = a /\ w = word[l][a] => <<m, n>> # Own(l)
<1>1. batch' = batch
  BY AccumulateType
<1>2. Pending(m, b, w)' => Pending(m, b, w)
  BY PendingStep
<1>3. Fresh(m, n, b, w)
  BY <1>1, <1>2 DEF Fresh
<1>4. ASSUME AddsWord(l, a), b = a, w = word[l][a], <<m, n>> = Own(l) PROVE FALSE
  <2>1. m = l /\ n = batch[l]
    BY <1>4 DEF Own
  <2>2. ~ Pending(l, a, w)'
    BY <1>4, PendingStep
  <2>3. ~ (batch[l] > batch[l])
    BY CreditTerms
  <2> QED  BY <1>1, <1>4, <2>1, <2>2, <2>3 DEF Fresh
<1> QED  BY <1>3, <1>4

LEMMA QuietStep ==
  ASSUME Invariant, NEW l \in Loaders, NEW a \in Aggregators, Accumulate(l, a), ~ AddsWord(l, a)
  PROVE  FreshOK' /\ BoundedOK'
<1>0. TypeOK /\ FreshOK /\ BoundedOK
  BY DEF Invariant
<1>1. TypeOK' /\ Elsewhere(l, a)
  BY <1>0, AccumulateType
<1>2. /\ slot' = slot /\ count' = count
      /\ pc'[l][a] = "write" => /\ reg'[l][a].of = slot[a][word'[l][a]]
                                /\ reg'[l][a].value = Held(a, word'[l][a])
  <2>1. CASE NextWord(l, a)
    BY <1>0, <2>1, NextWordFacts DEF modelVars
  <2>2. CASE ReadCount(l, a)
    BY <1>0, <2>2, ReadCountFacts DEF modelVars
  <2>3. CASE ReadGlobal(l, a)
    BY <1>0, <2>3, ReadGlobalFacts DEF modelVars
  <2>4. CASE WriteGlobal(l, a)
    BY <1>0, <2>4, WriteGlobalFacts
  <2> QED  BY <2>1, <2>2, <2>3, <2>4 DEF Accumulate, AddsWord
<1>3. \A m \in Loaders, b \in Aggregators : pc'[m][b] = "write" =>
        \/ /\ pc[m][b] = "write" /\ word'[m][b] = word[m][b] /\ reg'[m][b] = reg[m][b]
        \/ /\ reg'[m][b].of = slot[b][word'[m][b]]
           /\ reg'[m][b].value = Held(b, word'[m][b])
  BY <1>1, <1>2 DEF Elsewhere
<1>4. \A b \in Aggregators, w \in Words : Credited(b, w)' = Credited(b, w)
  <2> TAKE b \in Aggregators, w \in Words
  <2>1. Credited(b, w) \in Nat
    BY <1>0, CreditedIs
  <2>2. Credited(b, w)' = Credited(b, w) + 0
    BY <1>0, CreditStep
  <2> QED  BY <2>1, <2>2
<1>5. FreshOK'
  <2>1. ASSUME NEW b \in Aggregators, NEW w \in Words, NEW m \in Loaders, NEW n \in 1 .. Batches,
               Fresh(m, n, b, w)'
        PROVE  Untouched(<<m, n>>, b, w)'
    <3>1. Untouched(<<m, n>>, b, w)
      BY <1>0, <2>1, FreshShrinks DEF FreshOK
    <3> QED  BY <1>2, <1>3, <3>1 DEF Untouched
  <2> QED  BY <2>1 DEF FreshOK
<1>6. \A b \in Aggregators, w \in Words : Held(b, w)' = Held(b, w)
  BY <1>2 DEF Held
<1>7. BoundedOK'
  BY <1>0, <1>3, <1>4, <1>6 DEF BoundedOK
<1> QED  BY <1>5, <1>7

LEMMA AddingStep ==
  ASSUME Invariant, NEW l \in Loaders, NEW a \in Aggregators, AddsWord(l, a)
  PROVE  FreshOK' /\ BoundedOK'
<1> DEFINE w0 == word[l][a]
           n0 == Occurrences[l][w0]
<1>0. TypeOK /\ FreshOK /\ BoundedOK /\ Accumulate(l, a)
  BY DEF Invariant, AddsWord, Accumulate
<1>1. TypeOK' /\ Elsewhere(l, a) /\ batch' = batch
  BY <1>0, AccumulateType
<1>2. w0 \in Words /\ Own(l) \in Objects /\ Own(l)[1] = l
  BY <1>0, AtAWord DEF AddsWord, FastCopy, WriteCount, Busy
<1>3. Untouched(Own(l), a, w0)
  <2>1. Pending(l, a, w0)
    BY <1>0, PendingStep
  <2>2. batch[l] \in 1 .. Batches
    BY <1>0, <1>2, <2>1, PendingBegan DEF TypeOK, CallType
  <2>3. Fresh(l, batch[l], a, w0)
    BY <2>1 DEF Fresh
  <2> QED  BY <1>0, <1>2, <2>2, <2>3 DEF FreshOK, Own
<1>4. count[a][Own(l)][w0] = n0 /\ n0 \in Nat
  BY <1>0, <1>2, <1>3, CreditTerms DEF Untouched
<1>5. \A b \in Aggregators, w \in Words :
        /\ Credited(b, w) \in Nat
        /\ Credited(b, w)' = Credited(b, w) + (IF b = a /\ w = w0 THEN n0 ELSE 0)
  BY <1>0, CreditStep, CreditedIs
<1>6. \A m \in Loaders, b \in Aggregators : pc'[m][b] = "write" =>
        pc[m][b] = "write" /\ word'[m][b] = word[m][b] /\ reg'[m][b] = reg[m][b]
  <2>1. pc'[l][a] # "write"
    BY <1>0, FastCopyFacts, WriteCountFacts DEF AddsWord
  <2> QED  BY <1>1, <2>1 DEF Elsewhere
<1> HIDE DEF w0, n0
<1>7. CASE FastCopy(l, a)
  <2>1. /\ count' = count /\ slot'[a][w0] = Own(l)
        /\ \A b \in Aggregators, w \in Words : b # a \/ w # w0 => slot'[b][w] = slot[b][w]
    BY <1>0, <1>7, FastCopyFacts DEF w0
  <2>2. ASSUME NEW b \in Aggregators, NEW w \in Words, NEW m \in Loaders, NEW n \in 1 .. Batches,
               Fresh(m, n, b, w)'
        PROVE  Untouched(<<m, n>>, b, w)'
    <3>1. /\ Untouched(<<m, n>>, b, w) /\ (b = a /\ w = w0 => <<m, n>> # Own(l))
      BY <1>0, <2>2, FreshShrinks DEF FreshOK, w0
    <3> QED  BY <1>6, <2>1, <3>1 DEF Untouched
  <2>3. ASSUME NEW b \in Aggregators, NEW w \in Words
        PROVE  Held(b, w)' <= Credited(b, w)'
    <3>1. CASE b = a /\ w = w0
      <4>1. Held(b, w)' = n0
        BY <1>2, <1>4, <2>1, <3>1, ObjectsAreNotNil DEF Held
      <4> QED  BY <1>4, <1>5, <3>1, <4>1
    <3>2. CASE ~ (b = a /\ w = w0)
      <4>1. Held(b, w)' = Held(b, w)
        BY <2>1, <3>2 DEF Held
      <4>2. Credited(b, w)' = Credited(b, w)
        BY <1>5, <3>2
      <4> QED  BY <1>0, <4>1, <4>2 DEF BoundedOK
    <3> QED  BY <3>1, <3>2
  <2>4. ASSUME NEW b \in Aggregators, NEW w \in Words, NEW m \in Loaders,
               pc'[m][b] = "write", word'[m][b] = w
        PROVE  reg'[m][b].value <= Credited(b, w)'
    <3>1. reg'[m][b] = reg[m][b] /\ reg[m][b].value <= Credited(b, w) /\ reg[m][b].value \in Nat
      BY <1>0, <1>6, <2>4 DEF BoundedOK, TypeOK, CallType
    <3> QED  BY <1>4, <1>5, <3>1
  <2> QED  BY <2>2, <2>3, <2>4 DEF FreshOK, BoundedOK
<1>8. CASE WriteCount(l, a)
  <2> DEFINE o == reg[l][a].of
             k == reg[l][a].value
  <2>1. /\ slot' = slot /\ o \in Objects /\ pc[l][a] = "write"
        /\ count'[a][o][w0] = k + n0
        /\ \A b \in Aggregators, q \in Objects, w \in Words :
             b # a \/ q # o \/ w # w0 => count'[b][q][w] = count[b][q][w]
    BY <1>0, <1>4, <1>8, WriteCountFacts DEF w0
  <2>2. k \in Nat /\ k <= Credited(a, w0)
    BY <1>0, <1>2, <2>1 DEF BoundedOK, TypeOK, CallType, w0
  <2>3. ASSUME NEW b \in Aggregators, NEW w \in Words, NEW m \in Loaders, NEW n \in 1 .. Batches,
               Fresh(m, n, b, w)'
        PROVE  Untouched(<<m, n>>, b, w)'
    <3>1. Untouched(<<m, n>>, b, w)
      BY <1>0, <2>3, FreshShrinks DEF FreshOK
    <3>2. <<m, n>> \in Objects
      BY DEF Objects
    <3>3. b = a /\ w = w0 => <<m, n>> # o
      BY <2>1, <3>1 DEF Untouched, w0
    <3>4. count'[b][<<m, n>>][w] = count[b][<<m, n>>][w]
      BY <2>1, <3>2, <3>3
    <3> QED  BY <1>6, <2>1, <3>1, <3>4 DEF Untouched
  <2> HIDE DEF o, k
  <2>4. ASSUME NEW b \in Aggregators, NEW w \in Words
        PROVE  Held(b, w)' <= Credited(b, w)'
    <3>0. slot[b][w] \in Objects \cup {Nil}
      BY <1>0 DEF TypeOK, ModelType
    <3>1. CASE b = a /\ w = w0 /\ slot[a][w0] = o
      <4>1. Held(b, w)' = k + n0
        BY <2>1, <3>1, ObjectsAreNotNil DEF Held
      <4> QED  BY <1>4, <1>5, <2>2, <3>1, <4>1
    <3>2. CASE ~ (b = a /\ w = w0 /\ slot[a][w0] = o)
      <4>1. Held(b, w)' = Held(b, w)
        BY <2>1, <3>0, <3>2 DEF Held
      <4>2. Held(b, w) <= Credited(b, w) /\ Held(b, w) \in Nat
        <5>1. slot[b][w] # Nil => count[b][slot[b][w]][w] \in Nat
          BY <1>0, <3>0 DEF TypeOK, ModelType
        <5> QED  BY <1>0, <5>1 DEF BoundedOK, Held
      <4> QED  BY <1>4, <1>5, <4>1, <4>2
    <3> QED  BY <3>1, <3>2
  <2>5. ASSUME NEW b \in Aggregators, NEW w \in Words, NEW m \in Loaders,
               pc'[m][b] = "write", word'[m][b] = w
        PROVE  reg'[m][b].value <= Credited(b, w)'
    <3>1. reg'[m][b] = reg[m][b] /\ reg[m][b].value <= Credited(b, w) /\ reg[m][b].value \in Nat
      BY <1>0, <1>6, <2>5 DEF BoundedOK, TypeOK, CallType
    <3> QED  BY <1>4, <1>5, <3>1
  <2> QED  BY <2>3, <2>4, <2>5 DEF FreshOK, BoundedOK
<1> QED  BY <1>7, <1>8 DEF AddsWord

LEMMA LoadCredit ==
  ASSUME TypeOK, NEW l \in Loaders, Load(l)
  PROVE  \A a \in Aggregators, w \in Words : Credited(a, w)' = Credited(a, w)
<1> TAKE a \in Aggregators, w \in Words
<1>0. TypeOK'
  BY LoadFacts
<1>1. ASSUME NEW m \in Loaders
      PROVE  \/ ShardsDone(m, a, w)' = ShardsDone(m, a, w)
             \/ /\ Occurrences[m][w] = 0
                /\ ShardsDone(m, a, w) \in Int /\ ShardsDone(m, a, w)' \in Int
  <2>1. CASE m # l
    <3>1. Pending(m, a, w)' = Pending(m, a, w) /\ batch'[m] = batch[m]
      BY <2>1, LoadFacts DEF Pending
    <3> QED  BY <3>1 DEF ShardsDone
  <2>2. CASE m = l
    <3>1. /\ batch'[l] = batch[l] + 1 /\ pc[l][a] = "idle" /\ pc'[l][a] = "next"
          /\ todo'[l][a] = {x \in Words : Occurrences[l][x] > 0}
      BY LoadFacts
    <3>2. ~ Pending(l, a, w) /\ batch[l] \in Nat /\ Occurrences[l][w] \in Nat
      BY <3>1, PendingBegan, CreditTerms
    <3>3. Pending(l, a, w)' <=> Occurrences[l][w] > 0
      BY <3>1 DEF Pending, Busy
    <3>4. CASE Occurrences[l][w] > 0
      BY <2>2, <3>1, <3>2, <3>3, <3>4 DEF ShardsDone
    <3>5. CASE Occurrences[l][w] = 0
      BY <2>2, <3>1, <3>2, <3>3, <3>5 DEF ShardsDone
    <3> QED  BY <3>2, <3>4, <3>5
  <2> QED  BY <2>1, <2>2
<1> QED  BY <1>1, SameCredit

LEMMA LoadStep ==
  ASSUME Invariant, NEW l \in Loaders, Load(l) PROVE FreshOK' /\ BoundedOK'
<1>0. TypeOK /\ FreshOK /\ BoundedOK
  BY DEF Invariant
<1>1. /\ slot' = slot /\ count' = count
      /\ \A b \in Aggregators, w \in Words : Held(b, w)' = Held(b, w)
  BY <1>0, LoadFacts DEF modelVars, Held
<1>2. \A m \in Loaders, b \in Aggregators : pc'[m][b] = "write" =>
        pc[m][b] = "write" /\ word'[m][b] = word[m][b] /\ reg'[m][b] = reg[m][b]
  BY <1>0, LoadFacts
<1>3. ASSUME NEW b \in Aggregators, NEW w \in Words, NEW m \in Loaders, NEW n \in 1 .. Batches,
             Fresh(m, n, b, w)'
      PROVE  Untouched(<<m, n>>, b, w)'
  <2>1. Fresh(m, n, b, w)
    <3>1. batch[m] \in Nat /\ batch'[m] \in {batch[m], batch[m] + 1}
          /\ (m # l => batch'[m] = batch[m]) /\ batch'[l] = batch[l] + 1
      BY <1>0, LoadFacts, CreditTerms
    <3>2. m # l => Pending(m, b, w)' = Pending(m, b, w)
      BY <1>0, LoadFacts DEF Pending
    <3> QED  BY <1>3, <3>1, <3>2 DEF Fresh
  <2>2. Untouched(<<m, n>>, b, w)
    BY <1>0, <2>1 DEF FreshOK
  <2> QED  BY <1>1, <1>2, <2>2 DEF Untouched
<1>4. BoundedOK'
  BY <1>0, <1>1, <1>2, LoadCredit DEF BoundedOK
<1> QED  BY <1>3, <1>4 DEF FreshOK

\* What is left alone by the turnover, and when nothing happens.
LEMMA SameCalls ==
  ASSUME UNCHANGED <<slot, count, callVars>>
  PROVE  /\ FreshOK' = FreshOK /\ BoundedOK' = BoundedOK
         /\ \A b, w : Held(b, w)' = Held(b, w) /\ Credited(b, w)' = Credited(b, w)
<1>1. /\ slot' = slot /\ count' = count /\ batch' = batch /\ pc' = pc
      /\ word' = word /\ todo' = todo /\ reg' = reg
  BY DEF callVars
<1>2. \A b, w : Held(b, w)' = Held(b, w) /\ Credited(b, w)' = Credited(b, w)
  BY <1>1 DEF Held, Credited, ShardsDone, Pending
<1>3. \A l, b, a, w : Fresh(l, b, a, w)' = Fresh(l, b, a, w)
  BY <1>1 DEF Fresh, Pending
<1>4. \A o, a, w : Untouched(o, a, w)' = Untouched(o, a, w)
  BY <1>1 DEF Untouched
<1>5. FreshOK' = FreshOK
  BY <1>3, <1>4 DEF FreshOK
<1>6. BoundedOK' = BoundedOK
  BY <1>1, <1>2 DEF BoundedOK
<1> QED  BY <1>2, <1>5, <1>6

LEMMA InitCredit ==
  ASSUME Init
  PROVE  \A a \in Aggregators, w \in Words : Credited(a, w) = 0 /\ Held(a, w) = 0
<1> TAKE a \in Aggregators, w \in Words
<1>1. Held(a, w) = 0
  BY DEF Init, Held
<1>2. TypeOK
  BY InitType
<1>3. \A l \in Loaders : CreditTerm(a, w)[l] = 0
  <2> TAKE l \in Loaders
  <2>1. ShardsDone(l, a, w) = 0 /\ Occurrences[l][w] \in Nat
    BY <1>2, CreditTerms DEF Init, ShardsDone, Pending, Busy
  <2>2. 0 * Occurrences[l][w] = 0
    BY <2>1, SMT
  <2> QED  BY <2>1, <2>2 DEF CreditTerm
<1>4. SumOver(CreditTerm(a, w), Loaders) = 0
  BY <1>3, AggregatorAssumption, SumZero
<1> QED  BY <1>1, <1>2, <1>4, CreditedIs

LEMMA InitInvariant == Init => Invariant
<1> SUFFICES ASSUME Init PROVE Invariant
  OBVIOUS
<1>1. TypeOK
  BY InitType
<1>2. FreshOK
  <2>1. ASSUME NEW a \in Aggregators, NEW w \in Words, NEW l \in Loaders, NEW b \in 1 .. Batches
        PROVE  Untouched(<<l, b>>, a, w)
    <3>1. <<l, b>> \in Objects
      BY DEF Objects
    <3>2. <<l, b>> # Nil
      BY <3>1, ObjectsAreNotNil
    <3> QED  BY <3>1, <3>2 DEF Init, Untouched
  <2> QED  BY <2>1 DEF FreshOK
<1>3. BoundedOK
  <2>1. \A m \in Loaders, a \in Aggregators : pc[m][a] # "write"
    BY DEF Init
  <2> QED  BY <2>1, InitCredit DEF BoundedOK
<1> QED  BY <1>1, <1>2, <1>3 DEF Invariant

LEMMA NextInvariant == Invariant /\ [Next]_vars => Invariant'
<1> SUFFICES ASSUME Invariant, [Next]_vars PROVE Invariant'
  OBVIOUS
<1>0. TypeOK /\ FreshOK /\ BoundedOK
  BY DEF Invariant
<1>1. ASSUME NEW l \in Loaders, Load(l) PROVE Invariant'
  BY <1>0, <1>1, LoadFacts, LoadStep DEF Invariant
<1>2. ASSUME NEW l \in Loaders, NEW a \in Aggregators, Accumulate(l, a) PROVE Invariant'
  BY <1>0, <1>2, AccumulateType, QuietStep, AddingStep DEF Invariant
<1>3. CASE BeginAggregate \/ \E a \in Aggregators : GetGlobalHist(a) \/ SetGlobalHist(a)
  BY <1>0, <1>3, MasterFacts, SameCalls DEF Invariant
<1>4. CASE UNCHANGED vars
  <2>1. UNCHANGED <<slot, count, global, callVars, turn, orderly>>
    BY <1>4 DEF vars, modelVars
  <2>2. TypeOK'
    BY <1>0, <2>1 DEF TypeOK, ModelType, CallType, MasterType, CallOK, callVars
  <2> QED  BY <1>0, <2>1, <2>2, SameCalls DEF Invariant
<1> QED  BY <1>1, <1>2, <1>3, <1>4 DEF Next

\* Whatever calls overlap, and though a fast copy leaves a call and the model with
\* one map: no count of a word is above what the loaders have sent of it.
THEOREM WordsStayBounded == Spec => []WordsAreNotInvented
<1>1. Invariant => WordsAreNotInvented
  <2> SUFFICES ASSUME Invariant, NEW a \in Aggregators, NEW w \in Words
               PROVE  Held(a, w) <= Sent(w)
    BY DEF WordsAreNotInvented
  <2>1. TypeOK /\ Held(a, w) <= Credited(a, w)
    BY DEF Invariant, BoundedOK
  <2>2. Credited(a, w) \in Nat /\ Credited(a, w) <= Sent(w)
    BY <2>1, CreditedIs
  <2>3. Held(a, w) \in Nat
    BY <2>1 DEF TypeOK, ModelType, Held
  <2>4. Sent(w) \in Int
    <3> DEFINE g == [l \in Loaders |-> batch[l] * Occurrences[l][w]]
    <3>1. \A l \in Loaders : g[l] \in Nat
      BY <2>1, CreditTerms
    <3>2. Sum(g) = SumOver(g, Loaders)
      BY SumIsOver
    <3> HIDE DEF g
    <3>3. Sum(g) \in Nat
      BY <3>1, <3>2, AggregatorAssumption, SumNat
    <3> QED  BY <3>3 DEF Sent, g
  <2> QED  BY <2>1, <2>2, <2>3, <2>4
<1> QED  BY <1>1, InitInvariant, NextInvariant, PTL DEF Spec

-----------------------------------------------------------------------------
(* Loaders one after the other. *)

\* The count that a call is about to add, in an object that nobody else has.
LEMMA OwnIsFresh ==
  ASSUME TypeOK, FreshOK, NEW l \in Loaders, NEW a \in Aggregators, AddsWord(l, a)
  PROVE  /\ word[l][a] \in Words
         /\ count[a][Own(l)][word[l][a]] = Occurrences[l][word[l][a]]
         /\ slot[a][word[l][a]] # Own(l)
         /\ pc[l][a] = "write" => reg[l][a].of # Own(l)
<1>1. /\ word[l][a] \in Words /\ Own(l) \in Objects /\ Own(l)[1] = l
      /\ Pending(l, a, word[l][a])
  BY AtAWord, PendingStep DEF AddsWord, FastCopy, WriteCount, Busy, Accumulate
<1>2. batch[l] \in 1 .. Batches
  BY <1>1, PendingBegan DEF TypeOK, CallType
<1>3. Fresh(l, batch[l], a, word[l][a])
  BY <1>1 DEF Fresh
<1>4. Untouched(Own(l), a, word[l][a])
  BY <1>1, <1>2, <1>3 DEF FreshOK, Own
<1> QED  BY <1>1, <1>4 DEF Untouched

\* A call changes the model of one aggregator.
LEMMA OthersKeepTheirModel ==
  ASSUME TypeOK, NEW l \in Loaders, NEW a \in Aggregators, Accumulate(l, a),
         NEW b \in Aggregators, b # a
  PROVE  /\ global'[b] = global[b]
         /\ \A w \in Words : slot'[b][w] = slot[b][w] /\ Held(b, w)' = Held(b, w)
         /\ \A o \in Objects, w \in Words : count'[b][o][w] = count[b][o][w]
<1>1. SUFFICES /\ global'[b] = global[b] /\ \A w \in Words : slot'[b][w] = slot[b][w]
               /\ \A o \in Objects, w \in Words : count'[b][o][w] = count[b][o][w]
  BY DEF TypeOK, ModelType, Held
<1>2. CASE NextWord(l, a)
  BY <1>2 DEF NextWord, modelVars
<1>3. CASE FastCopy(l, a)
  BY <1>3, FastCopyFacts
<1>4. CASE ReadCount(l, a)
  BY <1>4 DEF ReadCount, modelVars
<1>5. CASE WriteCount(l, a)
  BY <1>5, WriteCountFacts
<1>6. CASE ReadGlobal(l, a)
  BY <1>6 DEF ReadGlobal, modelVars
<1>7. CASE WriteGlobal(l, a)
  BY <1>7, WriteGlobalFacts DEF TypeOK, ModelType
<1> QED  BY <1>2, <1>3, <1>4, <1>5, <1>6, <1>7 DEF Accumulate

\* What the step of the only call does to what is held.
LEMMA HeldStep ==
  ASSUME Invariant, OrderlyOK, orderly, NEW l \in Loaders, NEW a \in Aggregators, Accumulate(l, a)
  PROVE  \A b \in Aggregators, w \in Words :
           /\ Held(b, w)' = Held(b, w) +
                (IF AddsWord(l, a) /\ b = a /\ w = word[l][a] THEN Occurrences[l][w] ELSE 0)
           /\ Held(b, w) \in Nat
<1>0. TypeOK /\ FreshOK /\ OrderlyCall(l, a)
  BY DEF Invariant, OrderlyOK
<1>1. \A b \in Aggregators, w \in Words : Held(b, w) \in Nat
  BY <1>0 DEF TypeOK, ModelType, Held
<1> TAKE b \in Aggregators, w \in Words
<1>2. CASE ~ AddsWord(l, a)
  <2>1. slot' = slot /\ count' = count
    BY <1>0, <1>2, NextWordFacts, ReadCountFacts, ReadGlobalFacts, WriteGlobalFacts
       DEF Accumulate, AddsWord, modelVars
  <2>2. Held(b, w)' = Held(b, w)
    BY <2>1 DEF Held
  <2> QED  BY <1>1, <1>2, <2>2
<1> DEFINE w0 == word[l][a]
<1>3. AddsWord(l, a) =>
        /\ w0 \in Words /\ Own(l) \in Objects /\ Occurrences[l][w0] \in Nat
        /\ count[a][Own(l)][w0] = Occurrences[l][w0] /\ slot[a][w0] # Own(l)
  <2> SUFFICES ASSUME AddsWord(l, a)
               PROVE  /\ w0 \in Words /\ Own(l) \in Objects /\ Occurrences[l][w0] \in Nat
                      /\ count[a][Own(l)][w0] = Occurrences[l][w0] /\ slot[a][w0] # Own(l)
    OBVIOUS
  <2>1. w0 \in Words /\ Own(l) \in Objects /\ Own(l)[1] = l /\ Pending(l, a, w0)
    BY <1>0, AtAWord, PendingStep DEF AddsWord, FastCopy, WriteCount, Busy
  <2>2. batch[l] \in 1 .. Batches
    BY <1>0, <2>1, PendingBegan DEF TypeOK, CallType
  <2>3. Fresh(l, batch[l], a, w0)
    BY <2>1 DEF Fresh
  <2>4. Untouched(Own(l), a, w0)
    BY <1>0, <2>1, <2>2, <2>3 DEF FreshOK, Own
  <2> QED  BY <1>0, <2>1, <2>4, CreditTerms DEF Untouched
<1>4. CASE FastCopy(l, a)
  <2>1. /\ count' = count /\ slot'[a][w0] = Own(l) /\ slot[a][w0] = Nil
        /\ \A c \in Aggregators, x \in Words : c # a \/ x # w0 => slot'[c][x] = slot[c][x]
    BY <1>0, <1>4, FastCopyFacts DEF OrderlyCall
  <2>2. AddsWord(l, a)
    BY <1>4 DEF AddsWord
  <2>3. CASE b = a /\ w = w0
    <3>1. Held(b, w) = 0 /\ Held(b, w)' = Occurrences[l][w0]
      BY <1>3, <2>1, <2>2, <2>3, ObjectsAreNotNil DEF Held
    <3> QED  BY <1>1, <1>3, <2>2, <2>3, <3>1
  <2>4. CASE ~ (b = a /\ w = w0)
    <3>1. Held(b, w)' = Held(b, w)
      BY <2>1, <2>4 DEF Held
    <3> QED  BY <1>1, <2>4, <3>1
  <2> QED  BY <2>3, <2>4
<1>5. CASE WriteCount(l, a)
  <2>a. /\ reg[l][a].of \in Objects /\ pc[l][a] = "write" /\ slot' = slot
        /\ count'[a][reg[l][a].of][word[l][a]] =
             reg[l][a].value + count[a][Own(l)][word[l][a]]
        /\ \A c \in Aggregators, k \in Objects, x \in Words :
             c # a \/ k # reg[l][a].of \/ x # word[l][a] => count'[c][k][x] = count[c][k][x]
    BY <1>0, <1>5, WriteCountFacts
  <2> DEFINE q == reg[l][a].of
  <2>0. q = slot[a][w0] /\ reg[l][a].value = Held(a, w0) /\ q \in Objects
    BY <1>0, <2>a DEF OrderlyCall
  <2>1. /\ slot' = slot /\ count'[a][q][w0] = Held(a, w0) + count[a][Own(l)][w0]
        /\ \A c \in Aggregators, k \in Objects, x \in Words :
             c # a \/ k # q \/ x # w0 => count'[c][k][x] = count[c][k][x]
    BY <2>a, <2>0
  <2>2. AddsWord(l, a)
    BY <1>5 DEF AddsWord
  <2> HIDE DEF q
  <2>3. CASE b = a /\ w = w0
    <3>1. Held(b, w)' = Held(a, w0) + Occurrences[l][w0]
      BY <1>3, <2>0, <2>1, <2>2, <2>3, ObjectsAreNotNil DEF Held
    <3> QED  BY <1>1, <1>3, <2>2, <2>3, <3>1
  <2>4. CASE ~ (b = a /\ w = w0)
    <3>0. slot[b][w] \in Objects \cup {Nil}
      BY <1>0 DEF TypeOK, ModelType
    <3>1. Held(b, w)' = Held(b, w)
      BY <2>1, <2>4, <3>0 DEF Held
    <3> QED  BY <1>1, <2>4, <3>1
  <2> QED  BY <2>3, <2>4
<1> QED  BY <1>2, <1>4, <1>5 DEF AddsWord

LEMMA OnlyCall ==
  ASSUME OrderlyOK, orderly, NEW l \in Loaders, NEW a \in Aggregators, pc[l][a] # "idle"
  PROVE  \A m \in Loaders, b \in Aggregators : m # l => pc[m][b] = "idle"
BY DEF OrderlyOK, Loading

LEMMA OrderlyAccumulate ==
  ASSUME Invariant, OrderlyOK, NEW l \in Loaders, NEW a \in Aggregators, Accumulate(l, a)
  PROVE  OrderlyOK'
<1>0. TypeOK /\ FreshOK
  BY DEF Invariant
<1>1. /\ Elsewhere(l, a) /\ UNCHANGED <<batch, turn, orderly>>
  BY <1>0, AccumulateType
<1> SUFFICES ASSUME orderly PROVE OrderlyOK'
  BY <1>1 DEF OrderlyOK
<1>2. pc[l][a] # "idle"
  BY DEF Accumulate, NextWord, FastCopy, ReadCount, WriteCount, ReadGlobal, WriteGlobal
<1>3. \A m \in Loaders, b \in Aggregators : m # l => pc[m][b] = "idle" /\ pc'[m][b] = "idle"
  BY <1>1, <1>2, OnlyCall DEF Elsewhere
<1>4. \A m \in Loaders : Loading(m)' => m = l
  BY <1>3 DEF Loading
<1>5. turn'.turnovers > 0 => FALSE
  BY <1>1, <1>2 DEF OrderlyOK, Loading
<1>6. \A b \in Aggregators, w \in Words : Held(b, w)' = Credited(b, w)'
  <2>1. \A b \in Aggregators, w \in Words : Held(b, w) = Credited(b, w)
    BY DEF OrderlyOK
  <2> QED  BY <1>0, <2>1, HeldStep, CreditStep
<1>7. Own(l)' = Own(l)
  BY <1>1 DEF Own
<1>8. OrderlyCall(l, a)
  BY DEF OrderlyOK
<1>a. /\ batch[l] >= 1 /\ Own(l) \in Objects /\ Own(l)[1] = l
  BY <1>0, <1>2, OwnIsObject DEF TypeOK, CallOK
<1>9. OrderlyCall(l, a)'
  <2>1. CASE NextWord(l, a)
    <3>0. slot' = slot
      BY <1>0, <2>1, NextWordFacts DEF modelVars
    <3>1. \/ /\ todo[l][a] = {} /\ pc'[l][a] = "idle"
             /\ todo'[l][a] = {} /\ word'[l][a] = word[l][a]
          \/ \E w \in todo[l][a] :
               /\ word'[l][a] = w /\ todo'[l][a] = todo[l][a] \ {w}
               /\ pc'[l][a] = IF slot[a][w] = Nil THEN "copy" ELSE "read"
      BY <1>0, <2>1, NextWordFacts
    <3>2. CASE pc'[l][a] = "idle"
      BY <3>2 DEF OrderlyCall, Flying
    <3>3. CASE pc'[l][a] # "idle"
      <4>1. PICK x \in todo[l][a] :
              /\ word'[l][a] = x /\ todo'[l][a] = todo[l][a] \ {x}
              /\ pc'[l][a] = IF slot[a][x] = Nil THEN "copy" ELSE "read"
        BY <3>1, <3>3
      <4>2. pc'[l][a] = "copy" => slot'[a][word'[l][a]] = Nil
        BY <3>0, <4>1
      <4>3. pc'[l][a] \in {"copy", "read"}
        BY <4>1
      <4> QED  BY <4>2, <4>3 DEF OrderlyCall, Flying
    <3> QED  BY <3>2, <3>3
  <2>2. CASE FastCopy(l, a)
    <3>1. count[a][Own(l)][word[l][a]] = Occurrences[l][word[l][a]]
      BY <1>0, <2>2, OwnIsFresh DEF AddsWord
    <3>2. pc'[l][a] = "globalRead" /\ word'[l][a] = word[l][a] /\ count' = count
      BY <1>0, <2>2, FastCopyFacts
    <3>3. count'[a][Own(l)'][word'[l][a]] = Occurrences[l][word'[l][a]]
      BY <1>7, <3>1, <3>2
    <3> QED  BY <3>2, <3>3 DEF OrderlyCall, Flying
  <2>3. CASE ReadCount(l, a)
    <3> DEFINE w == word[l][a]
    <3>1. /\ pc'[l][a] = "write" /\ word'[l][a] = w /\ slot' = slot /\ count' = count
          /\ reg'[l][a].of = slot[a][w] /\ reg'[l][a].value = Held(a, w)
      BY <1>0, <2>3, ReadCountFacts DEF modelVars
    <3> HIDE DEF w
    <3>2. Held(a, word[l][a])' = Held(a, w)
      BY <3>1 DEF Held
    <3>3. reg'[l][a].of = slot'[a][word'[l][a]] /\ reg'[l][a].value = Held(a, word[l][a])'
      BY <3>1, <3>2
    <3> QED  BY <3>1, <3>3 DEF OrderlyCall, Flying
  <2>4. CASE WriteCount(l, a)
    <3>1. /\ count[a][Own(l)][word[l][a]] = Occurrences[l][word[l][a]]
          /\ Own(l) # reg[l][a].of /\ word[l][a] \in Words
      BY <1>0, <2>4, OwnIsFresh DEF AddsWord, WriteCount
    <3>2. /\ pc'[l][a] = "globalRead" /\ word'[l][a] = word[l][a]
          /\ \A b \in Aggregators, o \in Objects, w \in Words :
               b # a \/ o # reg[l][a].of \/ w # word[l][a] => count'[b][o][w] = count[b][o][w]
      BY <1>0, <2>4, WriteCountFacts
    <3>3. count'[a][Own(l)][word[l][a]] = count[a][Own(l)][word[l][a]]
      BY <1>a, <3>1, <3>2
    <3>4. count'[a][Own(l)'][word'[l][a]] = Occurrences[l][word'[l][a]]
      BY <1>7, <3>1, <3>2, <3>3
    <3> QED  BY <3>2, <3>4 DEF OrderlyCall, Flying
  <2>5. CASE ReadGlobal(l, a)
    <3>1. /\ pc[l][a] = "globalRead" /\ pc'[l][a] = "globalWrite" /\ word'[l][a] = word[l][a]
          /\ count' = count /\ global' = global
          /\ reg'[l][a].value = global[a] + count[a][Own(l)][word[l][a]]
      BY <1>0, <2>5, ReadGlobalFacts DEF modelVars
    <3>2. count[a][Own(l)][word[l][a]] = Occurrences[l][word[l][a]]
      BY <1>8, <3>1 DEF OrderlyCall, Flying
    <3>3. /\ count'[a][Own(l)'][word'[l][a]] = Occurrences[l][word'[l][a]]
          /\ reg'[l][a].value = global'[a] + Occurrences[l][word'[l][a]]
      BY <1>7, <3>1, <3>2
    <3> QED  BY <3>1, <3>3 DEF OrderlyCall, Flying
  <2>6. CASE WriteGlobal(l, a)
    BY <1>0, <2>6, WriteGlobalFacts DEF OrderlyCall, Flying
  <2> QED  BY <2>1, <2>2, <2>3, <2>4, <2>5, <2>6 DEF Accumulate
<1>10. ASSUME NEW m \in Loaders, NEW b \in Aggregators, m # l \/ b # a PROVE OrderlyCall(m, b)'
  <2>1. CASE m # l
    BY <1>3, <2>1 DEF OrderlyCall, Flying
  <2>2. CASE m = l /\ b # a
    <3>1. /\ pc'[l][b] = pc[l][b] /\ word'[l][b] = word[l][b] /\ reg'[l][b] = reg[l][b]
      BY <1>1, <2>2 DEF Elsewhere
    <3>2. OrderlyCall(l, b)
      BY DEF OrderlyOK
    <3>3. CASE pc[l][b] \notin Busy \cup Flying
      BY <2>2, <3>1, <3>3 DEF OrderlyCall, Busy, Flying
    <3>4. CASE pc[l][b] \in Busy \cup Flying
      <4>1. PICK w \in Words : w = word[l][b]
        BY <1>0, <3>4, AtAWord
      <4>2. slot'[b][w] = slot[b][w] /\ count'[b][Own(l)][w] = count[b][Own(l)][w]
              /\ global'[b] = global[b] /\ Held(b, w)' = Held(b, w)
        BY <1>0, <1>a, <2>2, OthersKeepTheirModel
      <4>3. Held(b, word[l][b])' = Held(b, w)
        BY <3>1, <4>1, <4>2 DEF Held
      <4> QED  BY <1>7, <2>2, <3>1, <3>2, <4>1, <4>2, <4>3 DEF OrderlyCall
    <3> QED  BY <3>3, <3>4
  <2> QED  BY <1>10, <2>1, <2>2
<1>11. \A m \in Loaders, b \in Aggregators : OrderlyCall(m, b)'
  BY <1>9, <1>10
<1> QED  BY <1>4, <1>5, <1>6, <1>11 DEF OrderlyOK

LEMMA OrderlyLoad ==
  ASSUME Invariant, OrderlyOK, NEW l \in Loaders, Load(l)
  PROVE  OrderlyOK'
<1>0. TypeOK
  BY DEF Invariant
<1>1. /\ slot' = slot /\ count' = count /\ turn' = turn
      /\ orderly' = (orderly /\ turn.turnovers = 0 /\ \A m \in Loaders : ~ Loading(m))
      /\ \A m \in Loaders, b \in Aggregators : m # l => pc'[m][b] = pc[m][b]
      /\ \A b \in Aggregators : pc'[l][b] = "next"
  BY <1>0, LoadFacts DEF modelVars
<1> SUFFICES ASSUME orderly' PROVE OrderlyOK'
  BY DEF OrderlyOK
<1>2. orderly /\ turn.turnovers = 0 /\ \A m \in Loaders, b \in Aggregators : pc[m][b] = "idle"
  BY <1>1 DEF Loading
<1>3. \A m \in Loaders : Loading(m)' => m = l
  BY <1>1, <1>2 DEF Loading
<1>4. ~ (turn'.turnovers > 0)
  BY <1>1, <1>2
<1>5. \A m \in Loaders, b \in Aggregators : pc'[m][b] \in {"idle", "next"}
  BY <1>1, <1>2
<1>6. \A m \in Loaders, b \in Aggregators : OrderlyCall(m, b)'
  BY <1>5 DEF OrderlyCall, Flying
<1>7. \A b \in Aggregators, w \in Words : Held(b, w)' = Credited(b, w)'
  <2>1. \A b \in Aggregators, w \in Words : Held(b, w) = Credited(b, w)
    BY <1>2 DEF OrderlyOK
  <2>2. \A b \in Aggregators, w \in Words : Held(b, w)' = Held(b, w)
    BY <1>1 DEF Held
  <2> QED  BY <1>0, <2>1, <2>2, LoadCredit
<1> QED  BY <1>3, <1>4, <1>6, <1>7 DEF OrderlyOK

\* The turnover begins, or goes on, while nobody loads.
LEMMA OrderlyMaster ==
  ASSUME Invariant, OrderlyOK, orderly',
         BeginAggregate \/ \E a \in Aggregators : GetGlobalHist(a) \/ SetGlobalHist(a)
  PROVE  orderly /\ \A l \in Loaders : ~ Loading(l) /\ ~ Loading(l)'
<1>1. MasterType /\ UNCHANGED callVars
  BY MasterFacts DEF Invariant, TypeOK
<1>2. SUFFICES orderly /\ \A l \in Loaders : ~ Loading(l)
  BY <1>1 DEF Loading, callVars
<1>3. CASE BeginAggregate
  BY <1>3 DEF BeginAggregate
<1>4. ASSUME NEW a \in Aggregators, GetGlobalHist(a) \/ SetGlobalHist(a)
      PROVE  orderly /\ \A l \in Loaders : ~ Loading(l)
  <2>1. orderly' = orderly /\ turn.phase # "idle"
    BY <1>4 DEF GetGlobalHist, SetGlobalHist
  <2>2. turn.turnovers > 0
    BY <1>1, <2>1 DEF MasterType
  <2> QED  BY <2>1, <2>2 DEF OrderlyOK
<1> QED  BY <1>3, <1>4

LEMMA NextOrderly == Invariant /\ OrderlyOK /\ [Next]_vars => OrderlyOK'
<1> SUFFICES ASSUME Invariant, OrderlyOK, [Next]_vars PROVE OrderlyOK'
  OBVIOUS
<1>1. ASSUME NEW l \in Loaders, Load(l) PROVE OrderlyOK'
  BY <1>1, OrderlyLoad
<1>2. ASSUME NEW l \in Loaders, NEW a \in Aggregators, Accumulate(l, a) PROVE OrderlyOK'
  BY <1>2, OrderlyAccumulate
<1>3. CASE BeginAggregate \/ \E a \in Aggregators : GetGlobalHist(a) \/ SetGlobalHist(a)
  <2> SUFFICES ASSUME orderly' PROVE OrderlyOK'
    BY DEF OrderlyOK
  <2>1. orderly /\ \A l \in Loaders : ~ Loading(l)'
    BY <1>3, OrderlyMaster
  <2>2. \A l \in Loaders, a \in Aggregators : pc'[l][a] = "idle"
    BY <2>1 DEF Loading
  <2>3. \A l \in Loaders, a \in Aggregators : OrderlyCall(l, a)'
    BY <2>2 DEF OrderlyCall, Flying
  <2>4. UNCHANGED <<slot, count, callVars>>
    BY <1>3, MasterFacts DEF Invariant
  <2>5. \A a \in Aggregators, w \in Words : Held(a, w)' = Credited(a, w)'
    BY <2>1, <2>4, SameCalls DEF OrderlyOK
  <2> QED  BY <2>1, <2>3, <2>5 DEF OrderlyOK
<1>4. CASE UNCHANGED vars
  <2>1. /\ UNCHANGED <<slot, count, callVars>> /\ global' = global /\ turn' = turn /\ orderly' = orderly
        /\ pc' = pc /\ word' = word /\ reg' = reg /\ batch' = batch
    BY <1>4 DEF vars, modelVars, callVars
  <2>2. \A a, w : Held(a, w)' = Held(a, w) /\ Credited(a, w)' = Credited(a, w)
    BY <2>1, SameCalls
  <2>3. \A l, a : OrderlyCall(l, a)' = OrderlyCall(l, a)
    BY <2>1 DEF OrderlyCall, Held, Own
  <2>4. \A l : Loading(l)' = Loading(l)
    BY <2>1 DEF Loading
  <2> QED  BY <2>1, <2>2, <2>3, <2>4 DEF OrderlyOK
<1> QED  BY <1>1, <1>2, <1>3, <1>4 DEF Next

LEMMA InitOrderly == Init => OrderlyOK
<1> SUFFICES ASSUME Init PROVE OrderlyOK
  OBVIOUS
<1>1. \A l \in Loaders, a \in Aggregators : pc[l][a] = "idle"
  BY DEF Init
<1>2. \A l \in Loaders : ~ Loading(l)
  BY <1>1 DEF Loading
<1>3. \A l \in Loaders, a \in Aggregators : OrderlyCall(l, a)
  BY <1>1 DEF OrderlyCall, Flying
<1> QED  BY <1>2, <1>3, InitCredit DEF OrderlyOK

\* When loaders come one after the other, and the turnovers after them, the model
\* of every aggregator has what they sent, each shard once.
THEOREM NoUpdateIsLost == Spec => []UpdatesAreKept
<1>1. Invariant /\ OrderlyOK => UpdatesAreKept
  <2> SUFFICES ASSUME Invariant, OrderlyOK, orderly, Quiescent,
                      NEW a \in Aggregators, NEW w \in Words
               PROVE  Held(a, w) = Sent(w)
    BY DEF UpdatesAreKept
  <2>1. TypeOK /\ Held(a, w) = Credited(a, w)
    BY DEF Invariant, OrderlyOK
  <2>2. \A l \in Loaders : ShardsDone(l, a, w) = batch[l]
    <3> TAKE l \in Loaders
    <3>1. ~ Pending(l, a, w)
      BY <2>1, PendingBegan DEF Quiescent, Loading
    <3> QED  BY <2>1, <3>1, CreditTerms DEF ShardsDone
  <2>3. Credited(a, w) = Sent(w)
    BY <2>2 DEF Credited, Sent
  <2> QED  BY <2>1, <2>3
<1> QED  BY <1>1, InitInvariant, NextInvariant, InitOrderly, NextOrderly, PTL DEF Spec

-----------------------------------------------------------------------------
(* The global histograms: of the words of one aggregator, then of all. *)

\* A second turnover sums up what the first has left everywhere.
OneTurnover == MaxTurnovers <= 1

LEMMA HeldBySum ==
  ASSUME TypeOK, NEW a \in Aggregators
  PROVE  /\ \A w \in Words : Held(a, w) \in Nat
         /\ HeldBy(a) = SumOver([w \in Words |-> Held(a, w)], Words) /\ HeldBy(a) \in Nat
<1> DEFINE f == [w \in Words |-> Held(a, w)]
<1>1. \A w \in Words : Held(a, w) \in Nat
  BY DEF TypeOK, ModelType, Held
<1>2. Sum(f) = SumOver(f, Words)
  BY SumIsOver
<1>3. \A w \in Words : f[w] \in Nat
  BY <1>1
<1>4. HeldBy(a) = Sum(f)
  BY DEF HeldBy
<1> HIDE DEF f
<1>5. SumOver(f, Words) \in Nat
  BY <1>3, AggregatorAssumption, SumNat
<1> QED  BY <1>1, <1>2, <1>4, <1>5 DEF f

\* A call that adds its word adds to the sum of the words.
LEMMA HeldByStep ==
  ASSUME Invariant, OrderlyOK, orderly, NEW l \in Loaders, NEW a \in Aggregators, Accumulate(l, a)
  PROVE  /\ \A b \in Aggregators : b # a \/ ~ AddsWord(l, a) => HeldBy(b)' = HeldBy(b)
         /\ AddsWord(l, a) => HeldBy(a)' = HeldBy(a) + Occurrences[l][word[l][a]]
<1>0. TypeOK /\ TypeOK'
  BY AccumulateType DEF Invariant
<1>1. ASSUME NEW b \in Aggregators, b # a \/ ~ AddsWord(l, a) PROVE HeldBy(b)' = HeldBy(b)
  <2>1. \A w \in Words : Held(b, w)' = Held(b, w)
    <3> TAKE w \in Words
    <3>1. Held(b, w)' = Held(b, w) + 0 /\ Held(b, w) \in Nat
      BY <1>1, HeldStep
    <3> QED  BY <3>1
  <2>2. [w \in Words |-> Held(b, w)'] = [w \in Words |-> Held(b, w)]
    BY <2>1
  <2> QED  BY <2>2 DEF HeldBy
<1>2. ASSUME AddsWord(l, a) PROVE HeldBy(a)' = HeldBy(a) + Occurrences[l][word[l][a]]
  <2>1. PICK y \in Words : y = word[l][a]
    BY <1>0, <1>2, PendingStep
  <2> DEFINE f == [w \in Words |-> Held(a, w)]
             g == [w \in Words |-> Held(a, w)']
  <2>2. \A w \in Words : f[w] \in Nat /\ g[w] = f[w] + (IF w = y THEN Occurrences[l][w] ELSE 0)
    BY <1>2, <2>1, HeldStep
  <2>3. Occurrences[l][y] \in Nat
    BY AggregatorAssumption
  <2>4. Sum(f) = SumOver(f, Words) /\ Sum(g) = SumOver(g, Words)
    BY SumIsOver
  <2>5. HeldBy(a) = Sum(f) /\ HeldBy(a)' = Sum(g)
    BY DEF HeldBy
  <2> HIDE DEF f, g
  <2>6. /\ g[y] \in Int /\ g[y] = f[y] + Occurrences[l][y] /\ f[y] \in Nat
        /\ \A w \in Words : f[w] \in Int /\ (w # y => g[w] = f[w])
    BY <2>2, <2>3
  <2>7. SumOver(g, Words) = SumOver(f, Words) - f[y] + g[y]
    BY <2>6, AggregatorAssumption, SumChange
  <2>8. HeldBy(a) \in Nat
    BY <1>0, HeldBySum
  <2> QED  BY <2>1, <2>3, <2>4, <2>5, <2>6, <2>7, <2>8
<1> QED  BY <1>1, <1>2

LEMMA GlobalAccumulate ==
  ASSUME Invariant, OrderlyOK, GlobalOK, NEW l \in Loaders, NEW a \in Aggregators, Accumulate(l, a)
  PROVE  GlobalOK'
<1>0. TypeOK /\ TypeOK' /\ Elsewhere(l, a) /\ UNCHANGED <<batch, turn, orderly>>
  BY AccumulateType DEF Invariant
<1> SUFFICES ASSUME orderly PROVE GlobalOK'
  BY <1>0 DEF GlobalOK
<1>1. pc[l][a] # "idle"
  BY DEF Accumulate, NextWord, FastCopy, ReadCount, WriteCount, ReadGlobal, WriteGlobal
<1>2. turn.turnovers = 0 /\ turn.phase = "idle" /\ \A b \in Aggregators : GlobalFollows(b)
  <2>1. ~ (turn.turnovers > 0)
    BY <1>1 DEF OrderlyOK, Loading
  <2>2. turn.turnovers \in Nat
    BY <1>0, AggregatorAssumption DEF TypeOK, MasterType
  <2> QED  BY <2>1, <2>2 DEF GlobalOK
<1>3. \A m \in Loaders, b \in Aggregators : m # l => pc[m][b] = "idle" /\ pc'[m][b] = "idle"
  BY <1>0, <1>1, OnlyCall DEF Elsewhere
<1>4. "idle" \notin Flying
  BY DEF Flying
<1>5. ASSUME NEW b \in Aggregators, b # a PROVE GlobalFollows(b)'
  <2>1. /\ pc'[l][b] = pc[l][b] /\ word'[l][b] = word[l][b]
        /\ global'[b] = global[b] /\ HeldBy(b)' = HeldBy(b)
    BY <1>0, <1>5, HeldByStep, OthersKeepTheirModel DEF Elsewhere
  <2>2. \A m \in Loaders : pc'[m][b] = pc[m][b]
    BY <1>3, <2>1
  <2>3. \A m \in Loaders : pc'[m][b] \in Flying => word'[m][b] = word[m][b]
    BY <1>3, <1>4, <2>1
  <2> QED  BY <1>2, <2>1, <2>2, <2>3 DEF GlobalFollows
<1>6. GlobalFollows(a)'
  <2>1. SUFFICES /\ pc'[l][a] \notin Flying => global'[a] = HeldBy(a)'
                 /\ pc'[l][a] \in Flying =>
                      global'[a] + Occurrences[l][word'[l][a]] = HeldBy(a)'
    BY <1>3, <1>4 DEF GlobalFollows
  <2>2. /\ pc[l][a] \notin Flying => global[a] = HeldBy(a)
        /\ pc[l][a] \in Flying => global[a] + Occurrences[l][word[l][a]] = HeldBy(a)
    BY <1>2, <1>3, <1>4 DEF GlobalFollows
  <2>3. CASE AddsWord(l, a)
    <3>1. /\ pc[l][a] \in {"copy", "write"} /\ pc'[l][a] = "globalRead"
          /\ global' = global /\ word'[l][a] = word[l][a]
      BY <1>0, <2>3, FastCopyFacts, WriteCountFacts DEF AddsWord
    <3>2. HeldBy(a)' = HeldBy(a) + Occurrences[l][word[l][a]]
      BY <2>3, HeldByStep
    <3> QED  BY <2>1, <2>2, <3>1, <3>2 DEF Flying
  <2>4. CASE ~ AddsWord(l, a)
    <3>1. HeldBy(a)' = HeldBy(a)
      BY <2>4, HeldByStep
    <3>2. CASE NextWord(l, a)
      <4>1. pc[l][a] = "next" /\ pc'[l][a] \in {"idle", "copy", "read"}
        BY <1>0, <3>2, NextWordFacts
      <4>2. global' = global
        BY <3>2 DEF NextWord, modelVars
      <4> QED  BY <2>1, <2>2, <3>1, <4>1, <4>2 DEF Flying
    <3>3. CASE ReadCount(l, a)
      <4>1. pc[l][a] = "read" /\ pc'[l][a] = "write" /\ global' = global
        BY <1>0, <3>3, ReadCountFacts DEF modelVars
      <4> QED  BY <2>1, <2>2, <3>1, <4>1 DEF Flying
    <3>4. CASE ReadGlobal(l, a)
      <4>1. /\ pc[l][a] = "globalRead" /\ pc'[l][a] = "globalWrite" /\ global' = global
            /\ word'[l][a] = word[l][a]
        BY <1>0, <3>4, ReadGlobalFacts DEF modelVars
      <4> QED  BY <2>1, <2>2, <3>1, <4>1 DEF Flying
    <3>5. CASE WriteGlobal(l, a)
      <4>1. /\ pc[l][a] = "globalWrite" /\ pc'[l][a] = "next"
            /\ global' = [global EXCEPT ![a] = reg[l][a].value]
        BY <1>0, <3>5, WriteGlobalFacts
      <4>2. global'[a] = reg[l][a].value
        BY <1>0, <4>1 DEF TypeOK, ModelType
      <4>3. reg[l][a].value = global[a] + Occurrences[l][word[l][a]]
        BY <4>1 DEF OrderlyOK, OrderlyCall
      <4> QED  BY <2>1, <2>2, <3>1, <4>1, <4>2, <4>3 DEF Flying
    <3> QED  BY <2>4, <3>2, <3>3, <3>4, <3>5 DEF Accumulate, AddsWord
  <2> QED  BY <2>3, <2>4
<1>7. \A b \in Aggregators : GlobalFollows(b)'
  BY <1>5, <1>6
<1>8. turn' = turn
  BY <1>0
<1> QED  BY <1>2, <1>7, <1>8 DEF GlobalOK

LEMMA SameHeldBy ==
  ASSUME UNCHANGED <<slot, count>>
  PROVE  (\A b : HeldBy(b)' = HeldBy(b)) /\ AllHeld' = AllHeld
<1>1. \A b : HeldBy(b)' = HeldBy(b)
  BY DEF HeldBy, Held
<1> QED  BY <1>1 DEF AllHeld

LEMMA GlobalLoad ==
  ASSUME Invariant, GlobalOK, NEW l \in Loaders, Load(l)
  PROVE  GlobalOK'
<1>1. /\ slot' = slot /\ count' = count /\ global' = global /\ turn' = turn
      /\ orderly' = (orderly /\ turn.turnovers = 0 /\ \A m \in Loaders : ~ Loading(m))
      /\ \A m \in Loaders, b \in Aggregators : m # l => pc'[m][b] = pc[m][b]
      /\ \A b \in Aggregators : pc'[l][b] = "next"
  BY LoadFacts DEF modelVars, Invariant
<1> SUFFICES ASSUME orderly' PROVE GlobalOK'
  BY DEF GlobalOK
<1>2. /\ turn.turnovers = 0 /\ turn.phase = "idle" /\ \A b \in Aggregators : GlobalFollows(b)
      /\ \A m \in Loaders, b \in Aggregators : pc[m][b] = "idle"
  BY <1>1 DEF GlobalOK, Loading
<1>3. \A m \in Loaders, b \in Aggregators : pc[m][b] \notin Flying /\ pc'[m][b] \notin Flying
  BY <1>1, <1>2 DEF Flying
<1>4. \A b \in Aggregators : GlobalFollows(b)'
  BY <1>1, <1>2, <1>3, SameHeldBy DEF GlobalFollows
<1> QED  BY <1>1, <1>2, <1>4 DEF GlobalOK

LEMMA GlobalMaster ==
  ASSUME OneTurnover, Invariant, OrderlyOK, GlobalOK,
         BeginAggregate \/ \E a \in Aggregators : GetGlobalHist(a) \/ SetGlobalHist(a)
  PROVE  GlobalOK'
<1> SUFFICES ASSUME orderly' PROVE GlobalOK'
  BY DEF GlobalOK
<1>1. orderly /\ \A l \in Loaders : ~ Loading(l) /\ ~ Loading(l)'
  BY OrderlyMaster
<1>2. /\ slot' = slot /\ count' = count /\ TypeOK /\ TypeOK'
  BY MasterFacts DEF Invariant
<1>3. (\A b : HeldBy(b)' = HeldBy(b)) /\ AllHeld' = AllHeld
  BY <1>2, SameHeldBy
<1>4. \A l \in Loaders, b \in Aggregators : pc[l][b] \notin Flying
  BY <1>1 DEF Loading, Flying
<1>5. /\ turn \in [phase : {"idle", "get", "set"}, calls : SUBSET Aggregators, sum : Nat,
                    turnovers : 0 .. MaxTurnovers]
      /\ turn.phase # "idle" => turn.turnovers > 0
      /\ global \in [Aggregators -> Nat]
  BY <1>2 DEF TypeOK, MasterType, ModelType
<1>6. \A b \in Aggregators : HeldBy(b) \in Nat
  BY <1>2, HeldBySum
<1>7. CASE BeginAggregate
  <2>1. /\ turn.phase = "idle" /\ turn.turnovers < MaxTurnovers /\ global' = global
        /\ turn' = [phase |-> "get", calls |-> Aggregators, sum |-> 0,
                    turnovers |-> turn.turnovers + 1]
    BY <1>7 DEF BeginAggregate, modelVars
  <2>2. turn.turnovers = 0
    <3>1. turn.turnovers \in 0 .. MaxTurnovers /\ MaxTurnovers \in Nat
      BY <1>5, AggregatorAssumption
    <3> QED  BY <2>1, <3>1 DEF OneTurnover
  <2>3. \A b \in Aggregators : global'[b] = HeldBy(b)'
    BY <1>1, <1>3, <1>4, <2>1, <2>2 DEF GlobalOK, GlobalFollows
  <2>4. /\ turn'.phase = "get" /\ turn'.calls = Aggregators /\ turn'.sum = 0
        /\ turn'.turnovers = 1
    BY <2>1, <2>2
  <2>5. Got' = 0
    <3> DEFINE f == [b \in Aggregators |-> 0]
    <3>1. [b \in Aggregators |-> IF b \in turn'.calls THEN 0 ELSE HeldBy(b)'] = f
      BY <2>4
    <3>2. Sum(f) = SumOver(f, Aggregators)
      BY SumIsOver
    <3>3. \A b \in Aggregators : f[b] = 0
      OBVIOUS
    <3>4. Got' = Sum(f)
      BY <3>1 DEF Got
    <3> HIDE DEF f
    <3>5. SumOver(f, Aggregators) = 0
      BY <3>3, AggregatorAssumption, SumZero
    <3> QED  BY <3>2, <3>4, <3>5
  <2> QED  BY <2>3, <2>4, <2>5 DEF GlobalOK
<1>8. ASSUME NEW a \in Aggregators, GetGlobalHist(a) PROVE GlobalOK'
  <2> DEFINE left == turn.calls \ {a}
  <2>1. /\ turn.phase = "get" /\ a \in turn.calls /\ global' = global
        /\ turn' = [turn EXCEPT !.phase = After("get", left), !.sum = @ + global[a],
                               !.calls = IF left = {} THEN Aggregators ELSE left]
    BY <1>8 DEF GetGlobalHist, modelVars
  <2>2. /\ turn'.turnovers = turn.turnovers /\ turn.turnovers > 0
        /\ turn'.sum = turn.sum + global[a]
        /\ left # {} => turn'.phase = "get" /\ turn'.calls = left
        /\ left = {} => turn'.phase = "set" /\ turn'.calls = Aggregators
    BY <1>5, <2>1 DEF After
  <2>3. turn.sum = Got /\ \A b \in Aggregators : global[b] = HeldBy(b)
    BY <1>1, <2>1 DEF GlobalOK
  <2> DEFINE f == [b \in Aggregators |-> IF b \in turn.calls THEN 0 ELSE HeldBy(b)]
             g == [b \in Aggregators |-> IF b \in left THEN 0 ELSE HeldBy(b)]
  <2>4. Sum(f) = SumOver(f, Aggregators) /\ Sum(g) = SumOver(g, Aggregators) /\ Got = Sum(f)
    BY SumIsOver DEF Got
  <2>5. /\ \A b \in Aggregators : f[b] \in Int /\ (b # a => g[b] = f[b])
        /\ f[a] = 0 /\ g[a] = HeldBy(a) /\ g[a] \in Int
    BY <1>6, <2>1
  <2>6. SumOver(f, Aggregators) \in Int
    <3> HIDE DEF f
    <3> QED  BY <2>5, AggregatorAssumption, SumSteps
  <2>7. Sum(g) = turn'.sum
    <3> HIDE DEF f, g
    <3>1. SumOver(g, Aggregators) = SumOver(f, Aggregators) - f[a] + g[a]
      BY <2>5, AggregatorAssumption, SumChange
    <3> QED  BY <2>2, <2>3, <2>4, <2>5, <2>6, <3>1
  <2>8. CASE left # {}
    <3>1. [b \in Aggregators |-> IF b \in turn'.calls THEN 0 ELSE HeldBy(b)'] = g
      BY <1>3, <2>2, <2>8
    <3>2. Got' = turn'.sum
      BY <2>7, <3>1 DEF Got
    <3>3. \A b \in Aggregators : global'[b] = HeldBy(b)'
      BY <1>3, <2>1, <2>3
    <3> QED  BY <2>2, <2>8, <3>2, <3>3 DEF GlobalOK
  <2>9. CASE left = {}
    <3>1. [b \in Aggregators |-> HeldBy(b)] = g
      BY <2>9
    <3>2. AllHeld' = turn'.sum
      BY <1>3, <2>7, <3>1 DEF AllHeld
    <3> QED  BY <2>2, <2>9, <3>2 DEF GlobalOK
  <2> QED  BY <2>8, <2>9
<1>9. ASSUME NEW a \in Aggregators, SetGlobalHist(a) PROVE GlobalOK'
  <2>1. /\ turn.phase = "set" /\ a \in turn.calls
        /\ turn' = [turn EXCEPT !.phase = After("set", turn.calls \ {a}), !.calls = @ \ {a}]
        /\ global' = [global EXCEPT ![a] = turn.sum]
    BY <1>9 DEF SetGlobalHist
  <2>2. /\ turn'.turnovers = turn.turnovers /\ turn.turnovers > 0
        /\ turn'.sum = turn.sum /\ turn'.calls = turn.calls \ {a}
        /\ turn'.calls # {} => turn'.phase = "set"
        /\ turn'.calls = {} => turn'.phase = "idle"
    BY <1>5, <2>1 DEF After
  <2>3. turn.sum = AllHeld /\ \A b \in Aggregators \ turn.calls : global[b] = AllHeld
    BY <1>1, <2>1 DEF GlobalOK
  <2>4. global'[a] = AllHeld /\ \A b \in Aggregators \ {a} : global'[b] = global[b]
    BY <1>5, <2>1, <2>3
  <2>5. turn'.sum = AllHeld' /\ \A b \in Aggregators \ turn'.calls : global'[b] = AllHeld'
    BY <1>3, <2>2, <2>3, <2>4
  <2>6. CASE turn'.calls # {}
    BY <1>5, <2>2, <2>5, <2>6 DEF GlobalOK
  <2>7. CASE turn'.calls = {}
    BY <1>5, <2>2, <2>5, <2>7 DEF GlobalOK
  <2> QED  BY <2>6, <2>7
<1> QED  BY <1>7, <1>8, <1>9

LEMMA NextGlobal == OneTurnover /\ Invariant /\ OrderlyOK /\ GlobalOK /\ [Next]_vars => GlobalOK'
<1> SUFFICES ASSUME OneTurnover, Invariant, OrderlyOK, GlobalOK, [Next]_vars PROVE GlobalOK'
  OBVIOUS
<1>1. ASSUME NEW l \in Loaders, Load(l) PROVE GlobalOK'
  BY <1>1, GlobalLoad
<1>2. ASSUME NEW l \in Loaders, NEW a \in Aggregators, Accumulate(l, a) PROVE GlobalOK'
  BY <1>2, GlobalAccumulate
<1>3. CASE BeginAggregate \/ \E a \in Aggregators : GetGlobalHist(a) \/ SetGlobalHist(a)
  BY <1>3, GlobalMaster
<1>4. CASE UNCHANGED vars
  <2>1. /\ slot' = slot /\ count' = count /\ global' = global /\ turn' = turn
        /\ orderly' = orderly /\ pc' = pc /\ word' = word
    BY <1>4 DEF vars, modelVars, callVars
  <2>2. (\A b : HeldBy(b)' = HeldBy(b)) /\ AllHeld' = AllHeld
    BY <2>1, SameHeldBy
  <2>3. Got' = Got
    BY <2>1, <2>2 DEF Got
  <2>4. \A b : GlobalFollows(b)' = GlobalFollows(b)
    BY <2>1, <2>2 DEF GlobalFollows
  <2> QED  BY <2>1, <2>2, <2>3, <2>4 DEF GlobalOK
<1> QED  BY <1>1, <1>2, <1>3, <1>4 DEF Next

LEMMA InitGlobal == Init => GlobalOK
<1> SUFFICES ASSUME Init PROVE GlobalOK
  OBVIOUS
<1>1. ASSUME NEW a \in Aggregators PROVE HeldBy(a) = 0
  <2> DEFINE f == [w \in Words |-> Held(a, w)]
  <2>1. Sum(f) = SumOver(f, Words) /\ \A w \in Words : f[w] = 0
    BY InitCredit, SumIsOver
  <2>2. HeldBy(a) = Sum(f)
    BY DEF HeldBy
  <2> HIDE DEF f
  <2>3. SumOver(f, Words) = 0
    BY <2>1, AggregatorAssumption, SumZero
  <2> QED  BY <2>1, <2>2, <2>3
<1>2. \A l \in Loaders, a \in Aggregators : pc[l][a] \notin Flying
  BY DEF Init, Flying
<1>3. \A a \in Aggregators : GlobalFollows(a)
  BY <1>1, <1>2 DEF Init, GlobalFollows
<1> QED  BY <1>3 DEF Init, GlobalOK

\* When loaders come one after the other, the global histogram of an aggregator is
\* the sum of its words, and after a turnover of the master that of the words of all.
THEOREM GlobalSumsUp == OneTurnover => (Spec => []GlobalIsSum)
<1> SUFFICES ASSUME OneTurnover PROVE Spec => []GlobalIsSum
  OBVIOUS
<1>1. Invariant /\ OrderlyOK /\ GlobalOK => GlobalIsSum
  <2> SUFFICES ASSUME Invariant, OrderlyOK, GlobalOK, orderly, Quiescent, NEW a \in Aggregators
               PROVE  global[a] = IF turn.turnovers = 0 THEN HeldBy(a) ELSE AllHeld
    BY DEF GlobalIsSum, AllHeld
  <2>1. \A l \in Loaders : pc[l][a] \notin Flying
    BY DEF Quiescent, Loading, Flying
  <2>2. CASE turn.turnovers = 0
    BY <2>1, <2>2 DEF GlobalOK, GlobalFollows
  <2>3. CASE turn.turnovers # 0
    <3>1. turn.turnovers > 0
      BY <2>3, AggregatorAssumption DEF Invariant, TypeOK, MasterType
    <3> QED  BY <2>3, <3>1 DEF GlobalOK, Quiescent
  <2> QED  BY <2>2, <2>3
<1>2. Invariant /\ OrderlyOK /\ GlobalOK /\ [Next]_vars => GlobalOK'
  BY NextGlobal
<1> QED  BY <1>1, <1>2, InitInvariant, NextInvariant, InitOrderly, NextOrderly, InitGlobal,
            PTL DEF Spec
=============================================================================
