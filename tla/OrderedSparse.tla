---------------------------- MODULE OrderedSparse ----------------------------
(***************************************************************************)
(* The topic histogram of a document (core/hist): entries of topic and     *)
(* count in the order of descending counts, that Inc and Dec keep by       *)
(* moving one entry.  Topics and Counts, two slices in the code, are one   *)
(* sequence here: the code always changes both alike.  An int32 counts to  *)
(* MaxInt here.                                                            *)
(***************************************************************************)
EXTENDS Integers, Sequences, FiniteSets

CONSTANTS
  NumTopics,  \* topics are 0 .. NumTopics - 1
  MaxInt,     \* math.MaxInt32
  Amounts,    \* that Inc and Dec are called with
  Others      \* histograms that Assign and AddDiff are called with

Topics == 0 .. NumTopics - 1

OrderedSparseAssumption ==
  /\ NumTopics \in Nat /\ MaxInt \in Nat /\ NumTopics <= MaxInt
  /\ Amounts \subseteq 1 .. MaxInt
  /\ Others \subseteq [Topics -> 0 .. MaxInt]

VARIABLES
  o,        \* the entries
  panicked  \* did the last call panic?

vars == <<o, panicked>>

Entry == [topic : Topics, count : -MaxInt - 1 .. MaxInt]

\* The value of an int32 after overflow.
Wrap(x) == IF x > MaxInt THEN x - 2 * (MaxInt + 1) ELSE x

\* Both loops look for topic t: its position, or the one after the last.
Find(s, t) == CHOOSE i \in 1 .. Len(s) + 1 :
                /\ i <= Len(s) => s[i].topic = t
                /\ \A k \in 1 .. i - 1 : s[k].topic # t

Has(s, t) == \E k \in 1 .. Len(s) : s[k].topic = t

At(s, t) == IF Has(s, t) THEN s[Find(s, t)].count ELSE 0

\* The entry e, that was at i, goes to j before it: those between move up.
ToFront(s, i, j, e) ==
  [k \in 1 .. Len(s) |-> IF k = j THEN e
                         ELSE IF j < k /\ k <= i THEN s[k - 1] ELSE s[k]]

\* The entry e, that was at i, goes to j behind it: those between move down.
ToBack(s, i, j, e) ==
  [k \in 1 .. Len(s) |-> IF k = j THEN e
                         ELSE IF i <= k /\ k < j THEN s[k + 1] ELSE s[k]]

\* Where the loop that moves an entry of count c from i to the front stops,
\* and the one that moves it to the back.
FrontStop(s, i, c) ==
  CHOOSE j \in 1 .. i : /\ \A k \in j .. i - 1 : c > s[k].count
                        /\ j > 1 => c <= s[j - 1].count

BackStop(s, i, c) ==
  CHOOSE j \in i .. Len(s) : /\ \A k \in i + 1 .. j : c < s[k].count
                             /\ j < Len(s) => c >= s[j + 1].count

-----------------------------------------------------------------------------
\* As Increased below, but the entry stays where it is.
IncreasedInPlace(s, t, n) ==
  LET e == [topic |-> t, count |-> Wrap(At(s, t) + n)]
      i == Find(s, t)
      a == IF Has(s, t) THEN s ELSE Append(s, e)
  IN  ToFront(a, i, i, e)

\* The entries after Inc: one increased or appended, then moved to the front.
Increased(s, t, n) ==
  LET e == [topic |-> t, count |-> Wrap(At(s, t) + n)]
      i == Find(s, t)
      a == IF Has(s, t) THEN s ELSE Append(s, e)
  IN  ToFront(a, i, FrontStop(a, i, e.count), e)

Inc(t, n) ==
  /\ IF Has(o, t) /\ At(o, t) >= MaxInt - t
     THEN panicked' = TRUE /\ UNCHANGED o
     ELSE panicked' = FALSE /\ o' = Increased(o, t, n)

\* As Decreased below, but cut off where the entry was.
DecreasedShort(s, t, n) ==
  LET e == [topic |-> t, count |-> At(s, t) - n]
      i == Find(s, t)
      j == BackStop(s, i, e.count)
      m == ToBack(s, i, j, e)
  IN  IF e.count = 0 THEN SubSeq(m, 1, i - 1) ELSE m

\* The entries after Dec: one decreased, moved to the back, and cut off with
\* what follows it when its count is zero.
Decreased(s, t, n) ==
  LET e == [topic |-> t, count |-> At(s, t) - n]
      i == Find(s, t)
      j == BackStop(s, i, e.count)
      m == ToBack(s, i, j, e)
  IN  IF e.count = 0 THEN SubSeq(m, 1, j - 1) ELSE m

Dec(t, n) ==
  IF ~ Has(o, t) \/ At(o, t) < n
  THEN panicked' = TRUE /\ UNCHANGED o
  ELSE panicked' = FALSE /\ o' = Decreased(o, t, n)

\* The entries of a sparse histogram, which has no zeros.
Nonzeros(h) == {[topic |-> t, count |-> h[t]] : t \in {u \in Topics : h[u] # 0}}

\* Assign sorts them by Less: descending counts and, among equal counts,
\* ascending topics.
Less(d, e) == d.count > e.count \/ (d.count = e.count /\ d.topic < e.topic)

Sorted(h) ==
  {s \in [1 .. Cardinality(Nonzeros(h)) -> Nonzeros(h)] :
     \A i, j \in DOMAIN s : i < j => Less(s[i], s[j])}

Assign(h) == o' \in Sorted(h) /\ panicked' = FALSE

\* AddDiff adds m and subtracts s; callers see to it that no count gets
\* negative or too large.
AddDiff(m, s) ==
  LET sum == [t \in Topics |-> At(o, t) + m[t] - s[t]]
  IN  /\ \A t \in Topics : sum[t] \in 0 .. MaxInt
      /\ Assign(sum)

Init == o = <<>> /\ panicked = FALSE

Next ==
  \/ \E t \in Topics, n \in Amounts : Inc(t, n) \/ Dec(t, n)
  \/ \E h \in Others : Assign(h)
  \/ \E m, s \in Others : AddDiff(m, s)

Spec == Init /\ [][Next]_vars

-----------------------------------------------------------------------------
(* Properties. *)

\* What the search and the cut in Dec rely on: counts are in descending order
\* (ordered_sparse_histogram.go 9-12), a topic has one entry, as At, Inc and Dec
\* look at the first they find, and only non-zeros have entries; a count that
\* overflows panics before it gets negative (125-127).
EntriesAreOrdered ==
  /\ o \in Seq(Entry) /\ panicked \in BOOLEAN
  /\ \A i, j \in 1 .. Len(o) : i < j => o[i].count >= o[j].count
  /\ \A i, j \in 1 .. Len(o) : i # j => o[i].topic # o[j].topic
  /\ \A i \in 1 .. Len(o) : o[i].count > 0

\* OrderedSparse is a Hist: through any sequence of calls each topic keeps its
\* count, also when others are moved over it or cut off.
Abstract == INSTANCE Histogram WITH counts <- [t \in Topics |-> At(o, t)]
IsHist   == Abstract!Spec
=============================================================================
