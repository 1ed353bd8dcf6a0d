------------------------------ MODULE Histogram ------------------------------
(***************************************************************************)
(* What hist.Hist promises: a count for every topic, that Inc and Dec      *)
(* change for one topic and leave alone for the others.  A call that       *)
(* cannot be honoured panics and changes nothing.                          *)
(***************************************************************************)
EXTENDS Integers

CONSTANTS
  NumTopics,  \* topics are 0 .. NumTopics - 1
  MaxInt,     \* the largest count
  Amounts,    \* by which counts are increased and decreased
  Others      \* histograms that are assigned, or whose differences are added

VARIABLES
  counts,     \* the histogram
  panicked    \* did the last call panic?

Topics == 0 .. NumTopics - 1

TypeOK == counts \in [Topics -> 0 .. MaxInt] /\ panicked \in BOOLEAN

Init == counts = [t \in Topics |-> 0] /\ panicked = FALSE

Inc(t, n) == /\ counts[t] + n <= MaxInt
             /\ counts' = [counts EXCEPT ![t] = @ + n]
             /\ panicked' = FALSE

Dec(t, n) == /\ counts[t] >= n
             /\ counts' = [counts EXCEPT ![t] = @ - n]
             /\ panicked' = FALSE

\* To be sparing, an increment may panic when topic and count add up to the
\* limit; a decrement panics exactly when it would go below zero.
Panic(t, n) == /\ counts[t] < n \/ counts[t] + t + n >= MaxInt
               /\ panicked' = TRUE
               /\ UNCHANGED counts

Assign(h) == counts' = h /\ panicked' = FALSE

AddDiff(m, s) == /\ \A t \in Topics : counts[t] + m[t] - s[t] \in 0 .. MaxInt
                 /\ Assign([t \in Topics |-> counts[t] + m[t] - s[t]])

Next == \/ \E t \in Topics, n \in Amounts : Inc(t, n) \/ Dec(t, n) \/ Panic(t, n)
        \/ \E h \in Others : Assign(h)
        \/ \E m, s \in Others : AddDiff(m, s)

Spec == Init /\ [][Next]_<<counts, panicked>>
=============================================================================
