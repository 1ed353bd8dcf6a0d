----------------------------- MODULE Aggregator -----------------------------
(***************************************************************************)
(* The model in the memory of the aggregators, while the loaders of the    *)
(* squads add to it (srv/loader_service.go calls Aggregator.Init) and the  *)
(* master aggregates global histograms (Master.aggregateGlobalHists).      *)
(*                                                                         *)
(* net/rpc serves every call in a goroutine of its own, and the handlers   *)
(* of the aggregator take no lock.  So Model.Accumulate is broken at every *)
(* read and every write of shared data: the slot of a word, the counts of  *)
(* a histogram (a Go map, that a fast copy shares between the call and the *)
(* model), and the global histogram.  One topic stands for all: topics     *)
(* never interact.                                                         *)
(***************************************************************************)
EXTENDS Integers, FiniteSets, Sums

CONSTANTS
  Aggregators,   \* addresses of the aggregators
  Loaders,       \* loaders that call them at the same time
  Words,         \* words of the part of the vocabulary an aggregator holds
  Occurrences,   \* [Loaders -> [Words -> Nat]]: counts in a shard; 0: no entry
  Batches,       \* bound: shards each loader loads
  MaxTurnovers,  \* bound: turnovers of the master
  Nil            \* a word without histogram

ASSUME AggregatorAssumption ==
  /\ IsFiniteSet(Aggregators) /\ IsFiniteSet(Loaders) /\ IsFiniteSet(Words)
  /\ Occurrences \in [Loaders -> [Words -> Nat]]
  /\ Batches \in Nat /\ MaxTurnovers \in Nat
  /\ Nil \notin Loaders \X (1 .. Batches)

VARIABLES
  slot,    \* slot[a][w]: the histogram object at Model.WordTopicHists[w]
  count,   \* count[a][o][w]: the count in the histogram of w that object o holds
  global,  \* global[a]: the count in Model.GlobalTopicHist
  batch,   \* batch[l]: shards that loader l has begun to load
  pc,      \* pc[l][a]: where the Init call of l to a is
  word,    \* word[l][a]: the word its loop is at
  todo,    \* todo[l][a]: words its loop has still to visit
  reg,     \* reg[l][a]: what it read and is about to use
  turn,    \* the master: phase, aggregators to call, sum, turnovers so far
  orderly  \* history: loaders one after the other, then the turnovers, so far

modelVars  == <<slot, count, global>>
callVars   == <<batch, pc, word, todo, reg>>
vars == <<modelVars, callVars, turn, orderly>>

\* The histograms of one call: those of the b-th shard of loader l.
Objects == Loaders \X (1 .. Batches)
Own(l)  == <<l, batch[l]>>

-----------------------------------------------------------------------------
(* Loader.Init: the calls to all aggregators go in parallel. *)

Loading(l) == \E a \in Aggregators : pc[l][a] # "idle"

Load(l) ==
  /\ ~ Loading(l)
  /\ batch[l] < Batches
  /\ orderly' = (orderly /\ turn.turnovers = 0 /\ \A m \in Loaders : ~ Loading(m))
  /\ batch' = [batch EXCEPT ![l] = @ + 1]
  /\ pc' = [pc EXCEPT ![l] = [a \in Aggregators |-> "next"]]
  /\ todo' = [todo EXCEPT ![l] =
       [a \in Aggregators |-> {w \in Words : Occurrences[l][w] > 0}]]
  /\ UNCHANGED <<modelVars, word, reg, turn>>

(* Model.Accumulate, in the goroutine that serves the call of l to a. *)

\* The loop visits the words in any order, and looks for a histogram.
NextWord(l, a) ==
  /\ pc[l][a] = "next"
  /\ \/ /\ todo[l][a] = {}
        /\ pc' = [pc EXCEPT ![l][a] = "idle"]
        /\ UNCHANGED <<word, todo>>
     \/ \E w \in todo[l][a] :
          /\ word' = [word EXCEPT ![l][a] = w]
          /\ todo' = [todo EXCEPT ![l][a] = @ \ {w}]
          /\ pc' = [pc EXCEPT ![l][a] = IF slot[a][w] = Nil THEN "copy" ELSE "read"]
  /\ UNCHANGED <<modelVars, batch, reg, turn, orderly>>

\* Fast copy, then the increment all the same.
FastCopyAndInc(l, a) ==
  /\ pc[l][a] = "copy"
  /\ slot' = [slot EXCEPT ![a][word[l][a]] = Own(l)]
  /\ pc' = [pc EXCEPT ![l][a] = "read"]
  /\ UNCHANGED <<count, global, batch, word, todo, reg, turn, orderly>>

\* Fast copy: the map of the call becomes that of the model.
FastCopy(l, a) ==
  /\ pc[l][a] = "copy"
  /\ slot' = [slot EXCEPT ![a][word[l][a]] = Own(l)]
  /\ pc' = [pc EXCEPT ![l][a] = "globalRead"]
  /\ UNCHANGED <<count, global, batch, word, todo, reg, turn, orderly>>

\* Sparse.Inc: s[t] += count, a read and a write.
ReadCount(l, a) ==
  /\ pc[l][a] = "read"
  /\ LET o == slot[a][word[l][a]]
     IN  reg' = [reg EXCEPT ![l][a] = [of |-> o, value |-> count[a][o][word[l][a]]]]
  /\ pc' = [pc EXCEPT ![l][a] = "write"]
  /\ UNCHANGED <<modelVars, batch, word, todo, turn, orderly>>

WriteCount(l, a) ==
  /\ pc[l][a] = "write"
  /\ LET w == word[l][a]
     IN  count' = [count EXCEPT ![a][reg[l][a].of][w] =
                     reg[l][a].value + count[a][Own(l)][w]]
  /\ pc' = [pc EXCEPT ![l][a] = "globalRead"]
  /\ UNCHANGED <<slot, global, batch, word, todo, reg, turn, orderly>>

\* Dense.Inc of the global histogram by what the map of the call holds now.
ReadGlobal(l, a) ==
  /\ pc[l][a] = "globalRead"
  /\ reg' = [reg EXCEPT ![l][a] =
       [of |-> Own(l), value |-> global[a] + count[a][Own(l)][word[l][a]]]]
  /\ pc' = [pc EXCEPT ![l][a] = "globalWrite"]
  /\ UNCHANGED <<modelVars, batch, word, todo, turn, orderly>>

WriteGlobal(l, a) ==
  /\ pc[l][a] = "globalWrite"
  /\ global' = [global EXCEPT ![a] = reg[l][a].value]
  /\ pc' = [pc EXCEPT ![l][a] = "next"]
  /\ UNCHANGED <<slot, count, batch, word, todo, reg, turn, orderly>>

Accumulate(l, a) ==
  \/ NextWord(l, a) \/ FastCopy(l, a)
  \/ ReadCount(l, a) \/ WriteCount(l, a)
  \/ ReadGlobal(l, a) \/ WriteGlobal(l, a)

-----------------------------------------------------------------------------
(* Master.aggregateGlobalHists: Get from all in parallel, then Set to all. *)

BeginAggregate ==
  /\ turn.phase = "idle" /\ turn.turnovers < MaxTurnovers
  /\ orderly' = (orderly /\ \A l \in Loaders : ~ Loading(l) /\ batch[l] = Batches)
  /\ turn' = [phase |-> "get", calls |-> Aggregators, sum |-> 0,
              turnovers |-> turn.turnovers + 1]
  /\ UNCHANGED <<modelVars, callVars>>

\* The phase that follows when the calls to the aggregators in s are left.
After(phase, s) == IF s # {} THEN phase ELSE IF phase = "get" THEN "set" ELSE "idle"

GetGlobalHist(a) ==
  /\ turn.phase = "get" /\ a \in turn.calls
  /\ LET left == turn.calls \ {a}
     IN  turn' = [turn EXCEPT !.phase = After("get", left), !.sum = @ + global[a],
                    !.calls = IF left = {} THEN Aggregators ELSE left]
  /\ UNCHANGED <<modelVars, callVars, orderly>>

\* The sum is added to what is there.
SetGlobalHistAdding(a) ==
  /\ turn.phase = "set" /\ a \in turn.calls
  /\ turn' = [turn EXCEPT !.phase = After("set", turn.calls \ {a}), !.calls = @ \ {a}]
  /\ global' = [global EXCEPT ![a] = @ + turn.sum]
  /\ UNCHANGED <<slot, count, callVars, orderly>>

SetGlobalHist(a) ==
  /\ turn.phase = "set" /\ a \in turn.calls
  /\ turn' = [turn EXCEPT !.phase = After("set", turn.calls \ {a}), !.calls = @ \ {a}]
  /\ global' = [global EXCEPT ![a] = turn.sum]
  /\ UNCHANGED <<slot, count, callVars, orderly>>

-----------------------------------------------------------------------------
Init ==
  /\ slot = [a \in Aggregators |-> [w \in Words |-> Nil]]
  /\ count = [a \in Aggregators |->
                [o \in Objects |-> [w \in Words |-> Occurrences[o[1]][w]]]]
  /\ global = [a \in Aggregators |-> 0]
  /\ batch = [l \in Loaders |-> 0]
  /\ pc = [l \in Loaders |-> [a \in Aggregators |-> "idle"]]
  /\ word = [l \in Loaders |-> [a \in Aggregators |-> Nil]]
  /\ todo = [l \in Loaders |-> [a \in Aggregators |-> {}]]
  /\ reg = [l \in Loaders |-> [a \in Aggregators |-> [of |-> Nil, value |-> 0]]]
  /\ turn = [phase |-> "idle", calls |-> {}, sum |-> 0, turnovers |-> 0]
  /\ orderly = TRUE

Next ==
  \/ \E l \in Loaders : Load(l)
  \/ \E l \in Loaders, a \in Aggregators : Accumulate(l, a)
  \/ BeginAggregate
  \/ \E a \in Aggregators : GetGlobalHist(a) \/ SetGlobalHist(a)

Spec == Init /\ [][Next]_vars

-----------------------------------------------------------------------------
(* Properties. *)

\* What the model of a holds for w, and what the loaders sent of w to a.
Held(a, w) == IF slot[a][w] = Nil THEN 0 ELSE count[a][slot[a][w]][w]
Sent(w)    == Sum([l \in Loaders |-> batch[l] * Occurrences[l][w]])

HeldBy(a) == Sum([w \in Words |-> Held(a, w)])

Quiescent == /\ \A l \in Loaders : ~ Loading(l)
             /\ turn.phase = "idle"

\* Loaders that come one after the other leave the model with the counts that
\* they sent, each once: the aggregators are in charge of the update of the model
\* (srv/doc.go 6-7).  Loaders that overlap lose counts.
UpdatesAreKept ==
  orderly /\ Quiescent => \A a \in Aggregators, w \in Words : Held(a, w) = Sent(w)

\* Whatever the interleaving of the calls, a word is never counted more often
\* than it was sent, though calls share maps after a fast copy.
WordsAreNotInvented ==
  \A a \in Aggregators, w \in Words : Held(a, w) <= Sent(w)

\* The global histogram of an aggregator sums up its words and, after a turnover,
\* those of all aggregators (master_service.go 161-163).
GlobalIsSum ==
  orderly /\ Quiescent => \A a \in Aggregators :
    global[a] = IF turn.turnovers = 0 THEN HeldBy(a)
                ELSE Sum([b \in Aggregators |-> HeldBy(b)])
=============================================================================
