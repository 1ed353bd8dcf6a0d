------------------------------ MODULE SumProofs ------------------------------
(***************************************************************************)
(* Lemmas about Sum, and the forms of induction that the other proofs      *)
(* need.  Sum is a fold, which recurses over the subsets of a finite set   *)
(* and chooses an element at each step; the lemmas say that it does so for *)
(* every function, and that the choice makes no difference.                *)
(***************************************************************************)
EXTENDS Sums, FiniteSetTheorems, WellFoundedInduction, TLAPS

-----------------------------------------------------------------------------
(* Induction over sets of numbers and of sets. *)

\* A set of natural numbers has a least one.
LEMMA LeastNumber ==
  ASSUME NEW T \in SUBSET Nat, T # {}
  PROVE  \E m \in T : \A k \in T : m <= k
<1> DEFINE R == OpToRel(<, Nat)
<1>1. IsWellFoundedOn(R, Nat)
  BY NatLessThanWellFounded
<1>2. \A k, m \in Nat : k < m => <<k, m>> \in R
  BY DEF OpToRel
<1> HIDE DEF R
<1>3. PICK m \in T : \A k \in T : ~ (<<k, m>> \in R)
  BY <1>1, WFMin
<1>4. \A k \in T : ~ (k < m) /\ k \in Nat /\ m \in Nat
  BY <1>2, <1>3
<1>5. \A k \in T : m <= k
  BY <1>4
<1> QED  BY <1>5

\* A set that has zero, and the successors of its members, has all numbers.
LEMMA AllNumbers ==
  ASSUME NEW T, 0 \in T, \A n \in Nat : n \in T => n + 1 \in T
  PROVE  \A n \in Nat : n \in T
<1> SUFFICES ASSUME Nat \ T # {} PROVE FALSE
  OBVIOUS
<1>1. PICK m \in Nat \ T : \A k \in Nat \ T : m <= k
  BY LeastNumber
<1>2. m # 0 /\ m - 1 \in Nat
  BY <1>1
<1>3. m - 1 \notin Nat \ T
  BY <1>1, <1>2
<1> QED  BY <1>1, <1>2, <1>3

\* The same for the subsets of a finite set.
LEMMA AllSubsets ==
  ASSUME NEW S, IsFiniteSet(S), NEW T, {} \in T,
         \A s \in SUBSET S : \A x \in S \ s : s \in T => s \cup {x} \in T
  PROVE  \A s \in SUBSET S : s \in T
<1> DEFINE N == {n \in Nat : \A s \in SUBSET S : Cardinality(s) = n => s \in T}
<1>1. \A s \in SUBSET S : IsFiniteSet(s) /\ Cardinality(s) \in Nat
  BY FS_Subset, FS_CardinalityType
<1>2. 0 \in N
  BY <1>1, FS_EmptySet
<1>3. ASSUME NEW n \in Nat, n \in N PROVE n + 1 \in N
  <2> SUFFICES ASSUME NEW s \in SUBSET S, Cardinality(s) = n + 1 PROVE s \in T
    OBVIOUS
  <2> HIDE DEF N
  <2>1. s # {}
    <3>1. Cardinality({}) = 0 /\ n + 1 # 0
      BY FS_EmptySet
    <3> QED  BY <3>1
  <2>2. PICK x \in s : TRUE
    BY <2>1
  <2>3. Cardinality(s \ {x}) = n
    <3>1. Cardinality(s \ {x}) = Cardinality(s) - 1
      BY <1>1, FS_RemoveElement
    <3> QED  BY <3>1
  <2>4. s \ {x} \in T /\ x \in S \ (s \ {x}) /\ s \ {x} \in SUBSET S
    BY <1>3, <2>3 DEF N
  <2>5. (s \ {x}) \cup {x} \in T
    BY <2>4
  <2>6. (s \ {x}) \cup {x} = s
    OBVIOUS
  <2> QED  BY <2>5, <2>6
<1> HIDE DEF N
<1>4. \A n \in Nat : n \in N
  BY <1>2, <1>3, AllNumbers
<1> QED  BY <1>1, <1>4 DEF N

-----------------------------------------------------------------------------
(* The fold. *)

Chosen(s) == CHOOSE x \in s : TRUE

OneMore(it, f, s) == IF s = {} THEN 0 ELSE f[Chosen(s)] + it[s \ {Chosen(s)}]

\* it sums up f for each subset of S.
Adds(it, f, S) == it = [s \in SUBSET S |-> OneMore(it, f, s)]

\* The recursion is well defined: there is such a function for the subsets with
\* at most n elements, whatever n is.
LEMMA SomethingAdds == ASSUME NEW f, NEW S, IsFiniteSet(S) PROVE \E it : Adds(it, f, S)
<1> DEFINE Small(n) == {s \in SUBSET S : Cardinality(s) <= n}
           N == {n \in Nat : \E it : it = [s \in Small(n) |-> OneMore(it, f, s)]}
<1>1. \A s \in SUBSET S : IsFiniteSet(s) /\ Cardinality(s) \in Nat
  BY FS_Subset, FS_CardinalityType
<1>2. 0 \in N
  <2> DEFINE it == [s \in Small(0) |-> 0]
  <2>1. \A s \in Small(0) : s = {}
    BY <1>1, FS_EmptySet
  <2>2. it = [s \in Small(0) |-> OneMore(it, f, s)]
    BY <2>1 DEF OneMore
  <2> QED  BY <2>2
<1>3. ASSUME NEW n \in Nat, n \in N PROVE n + 1 \in N
  <2>1. PICK g : g = [s \in Small(n) |-> OneMore(g, f, s)]
    BY <1>3
  <2> DEFINE it == [s \in Small(n + 1) |-> OneMore(g, f, s)]
  <2>2. ASSUME NEW s \in Small(n + 1) PROVE OneMore(g, f, s) = OneMore(it, f, s)
    <3>1. CASE s = {}
      BY <3>1 DEF OneMore
    <3>2. CASE s # {}
      <4> DEFINE r == s \ {Chosen(s)}
      <4>1. Chosen(s) \in s
        BY <3>2 DEF Chosen
      <4>2. Cardinality(r) = Cardinality(s) - 1 /\ Cardinality(s) \in Nat
        BY <1>1, <4>1, FS_RemoveElement
      <4>3. r \in Small(n) /\ r \in Small(n + 1)
        BY <4>2
      <4> HIDE DEF r, Small
      <4>4. it[r] = g[r]
        BY <2>1, <4>3
      <4> QED  BY <3>2, <4>4 DEF OneMore, r
    <3> QED  BY <3>1, <3>2
  <2>3. it = [s \in Small(n + 1) |-> OneMore(it, f, s)]
    <3> HIDE DEF Small
    <3> QED  BY <2>2
  <2> HIDE DEF it
  <2> QED  BY <2>3
<1> HIDE DEF N
<1>4. Cardinality(S) \in N
  BY <1>1, <1>2, <1>3, AllNumbers
<1>5. Small(Cardinality(S)) = SUBSET S
  BY <1>1, FS_Subset
<1> QED  BY <1>4, <1>5 DEF N, Adds

LEMMA SumIs ==
  ASSUME NEW f, IsFiniteSet(DOMAIN f)
  PROVE  \E it : Adds(it, f, DOMAIN f) /\ Sum(f) = it[DOMAIN f]
<1> DEFINE it == CHOOSE g : g = [s \in SUBSET DOMAIN f |->
                   IF s = {} THEN 0
                   ELSE f[CHOOSE x \in s : TRUE] + g[s \ {CHOOSE x \in s : TRUE}]]
<1>1. Sum(f) = it[DOMAIN f]
  BY DEF Sum, MapThenSumSet, MapThenFoldSet
<1>2. Adds(it, f, DOMAIN f)
  <2> DEFINE P(g) == g = [s \in SUBSET DOMAIN f |->
                       IF s = {} THEN 0
                       ELSE f[CHOOSE x \in s : TRUE] + g[s \ {CHOOSE x \in s : TRUE}]]
  <2>1. \A g : P(g) <=> Adds(g, f, DOMAIN f)
    BY DEF Adds, OneMore, Chosen
  <2>2. \E g : P(g)
    <3>1. \E g : Adds(g, f, DOMAIN f)
      BY SomethingAdds
    <3> HIDE DEF P
    <3> QED  BY <2>1, <3>1
  <2>3. it = CHOOSE g : P(g)
    OBVIOUS
  <2> HIDE DEF P, it
  <2> QED  BY <2>1, <2>2, <2>3
<1> QED  BY <1>1, <1>2

\* Whichever element is chosen, the sum is the same.
AddsAnyhow(it, f, S) ==
  \A s \in SUBSET S : it[s] \in Int /\ \A x \in s : it[s] = f[x] + it[s \ {x}]

LEMMA AnyIsChosen ==
  ASSUME NEW S, IsFiniteSet(S), NEW f, \A x \in S : f[x] \in Int, NEW it, Adds(it, f, S)
  PROVE  AddsAnyhow(it, f, S)
<1> DEFINE Fine(s) == it[s] \in Int /\ \A x \in s : it[s] = f[x] + it[s \ {x}]
           N == {n \in Nat : \A s \in SUBSET S : Cardinality(s) <= n => Fine(s)}
<1>1. \A s \in SUBSET S : IsFiniteSet(s) /\ Cardinality(s) \in Nat
  BY FS_Subset, FS_CardinalityType
<1>2. 0 \in N
  <2> SUFFICES ASSUME NEW s \in SUBSET S, Cardinality(s) <= 0 PROVE Fine(s)
    OBVIOUS
  <2>1. s = {}
    BY <1>1, FS_EmptySet
  <2>2. it[s] = 0
    BY <2>1 DEF Adds, OneMore
  <2> QED  BY <2>1, <2>2
<1>3. ASSUME NEW n \in Nat, n \in N PROVE n + 1 \in N
  <2> SUFFICES ASSUME NEW s \in SUBSET S, Cardinality(s) = n + 1 PROVE Fine(s)
    <3> HIDE DEF Fine
    <3>1. \A s \in SUBSET S : Cardinality(s) <= n => Fine(s)
      BY <1>3
    <3>2. \A s \in SUBSET S : Cardinality(s) <= n + 1 => Cardinality(s) <= n \/ Cardinality(s) = n + 1
      BY <1>1
    <3> QED  BY <3>1, <3>2
  <2> DEFINE p == Chosen(s)
  <2>1. p \in s
    <3>1. Cardinality({}) = 0 /\ n + 1 # 0
      BY FS_EmptySet
    <3> QED  BY <3>1 DEF Chosen
  <2>2. \A x \in s : s \ {x} \in SUBSET S /\ Cardinality(s \ {x}) = n
    <3>1. \A x \in s : Cardinality(s \ {x}) = Cardinality(s) - 1
      BY <1>1, FS_RemoveElement
    <3> QED  BY <3>1
  <2> HIDE DEF p
  <2>3. \A r \in SUBSET S : Cardinality(r) <= n => Fine(r)
    BY <1>3
  <2>4. it[s] = f[p] + it[s \ {p}]
    BY <2>1 DEF Adds, OneMore, p
  <2>5. it[s \ {p}] \in Int /\ f[p] \in Int
    BY <1>3, <2>1, <2>2, <2>3
  <2>6. ASSUME NEW x \in s, x # p PROVE it[s] = f[x] + it[s \ {x}]
    <3> DEFINE r == (s \ {p}) \ {x}
    <3>1. r = (s \ {x}) \ {p}
      OBVIOUS
    <3>2. it[s \ {p}] = f[x] + it[r]
      <4>1. x \in s \ {p} /\ s \ {p} \in SUBSET S /\ Cardinality(s \ {p}) <= n
        BY <1>3, <2>1, <2>2, <2>6
      <4>2. Fine(s \ {p})
        <5> HIDE DEF Fine
        <5> QED  BY <2>3, <4>1
      <4> QED  BY <4>1, <4>2
    <3>3. it[s \ {x}] = f[p] + it[r]
      <4>1. p \in s \ {x} /\ s \ {x} \in SUBSET S /\ Cardinality(s \ {x}) <= n
        BY <1>3, <2>1, <2>2, <2>6
      <4>2. Fine(s \ {x})
        <5> HIDE DEF Fine
        <5> QED  BY <2>3, <4>1
      <4> QED  BY <3>1, <4>1, <4>2
    <3>4. r \in SUBSET S /\ Cardinality(r) <= n
      <4>1. s \ {p} \in SUBSET S /\ r \in SUBSET (s \ {p})
        OBVIOUS
      <4>2. Cardinality(r) <= Cardinality(s \ {p})
        BY <1>1, <4>1, FS_Subset
      <4> QED  BY <2>1, <2>2, <4>1, <4>2
    <3>5. it[r] \in Int /\ f[x] \in Int
      BY <2>3, <2>6, <3>4
    <3> HIDE DEF r
    <3> QED  BY <2>4, <2>5, <3>2, <3>3, <3>5
  <2>7. it[s] \in Int
    BY <2>4, <2>5
  <2> QED  BY <2>4, <2>6, <2>7
<1> HIDE DEF N
<1>4. \A n \in Nat : n \in N
  BY <1>2, <1>3, AllNumbers
<1>5. \A s \in SUBSET S : Fine(s)
  BY <1>1, <1>4 DEF N
<1> QED  BY <1>5 DEF AddsAnyhow

\* Functions that agree on a set have the same sum over it.
LEMMA SameSum ==
  ASSUME NEW S, IsFiniteSet(S), NEW f, \A x \in S : f[x] \in Int, NEW it, Adds(it, f, S),
         NEW R, IsFiniteSet(R), NEW g, \A x \in R : g[x] \in Int, NEW jt, Adds(jt, g, R),
         NEW Z \in SUBSET (S \cap R), \A x \in Z : f[x] = g[x]
  PROVE  it[Z] = jt[Z]
<1> DEFINE T == {s \in SUBSET Z : it[s] = jt[s]}
<1>1. IsFiniteSet(Z)
  BY FS_Subset
<1>2. {} \in T
  <2>1. it[{}] = 0 /\ jt[{}] = 0
    BY DEF Adds, OneMore
  <2> QED  BY <2>1
<1>3. ASSUME NEW s \in SUBSET Z, NEW x \in Z \ s, s \in T PROVE s \cup {x} \in T
  <2>1. s \cup {x} \in SUBSET S /\ s \cup {x} \in SUBSET R /\ (s \cup {x}) \ {x} = s
    BY <1>3
  <2>2. it[s \cup {x}] = f[x] + it[s]
    BY <2>1, AnyIsChosen DEF AddsAnyhow
  <2>3. jt[s \cup {x}] = g[x] + jt[s]
    BY <2>1, AnyIsChosen DEF AddsAnyhow
  <2> QED  BY <1>3, <2>1, <2>2, <2>3
<1> HIDE DEF T
<1>4. Z \in T
  BY <1>1, <1>2, <1>3, AllSubsets
<1> QED  BY <1>4 DEF T

-----------------------------------------------------------------------------
(* Sums over the subsets of a finite set. *)

\* The sum of f over s.
SumOver(f, s) == Sum([x \in s |-> f[x]])

LEMMA SumSteps ==
  ASSUME NEW S, IsFiniteSet(S), NEW f, \A x \in S : f[x] \in Int
  PROVE  /\ SumOver(f, {}) = 0
         /\ \A s \in SUBSET S : SumOver(f, s) \in Int
         /\ \A s \in SUBSET S : \A x \in s : SumOver(f, s) = f[x] + SumOver(f, s \ {x})
<1>1. PICK it : Adds(it, f, S)
  BY SomethingAdds
<1>2. ASSUME NEW s \in SUBSET S PROVE SumOver(f, s) = it[s]
  <2> DEFINE g == [x \in s |-> f[x]]
  <2>1. IsFiniteSet(s) /\ DOMAIN g = s /\ \A x \in s : g[x] \in Int /\ f[x] = g[x]
    BY FS_Subset
  <2> HIDE DEF g
  <2>2. PICK jt : Adds(jt, g, s) /\ Sum(g) = jt[s]
    BY <2>1, SumIs
  <2>3. s \in SUBSET (S \cap s)
    OBVIOUS
  <2>4. it[s] = jt[s]
    BY <1>1, <2>1, <2>2, <2>3, SameSum
  <2> QED  BY <2>2, <2>4 DEF SumOver, g
<1>3. \A s \in SUBSET S : it[s] \in Int /\ \A x \in s : it[s] = f[x] + it[s \ {x}]
  <2>1. AddsAnyhow(it, f, S)
    BY <1>1, AnyIsChosen
  <2> QED  BY <2>1 DEF AddsAnyhow
<1>4. it[{}] = 0
  BY <1>1 DEF Adds, OneMore
<1>5. \A s \in SUBSET S : \A x \in s : s \ {x} \in SUBSET S
  OBVIOUS
<1> QED  BY <1>2, <1>3, <1>4, <1>5

\* Adding one element.
LEMMA SumAdd ==
  ASSUME NEW S, IsFiniteSet(S), NEW f, \A x \in S : f[x] \in Int,
         NEW s \in SUBSET S, NEW x \in S \ s
  PROVE  SumOver(f, s \cup {x}) = f[x] + SumOver(f, s)
<1>1. s \cup {x} \in SUBSET S /\ x \in s \cup {x} /\ (s \cup {x}) \ {x} = s
  OBVIOUS
<1> QED  BY <1>1, SumSteps

LEMMA SumIsOver == ASSUME NEW S, NEW f, f = [x \in S |-> f[x]] PROVE Sum(f) = SumOver(f, S)
BY DEF SumOver

\* A larger function has a larger sum.
LEMMA SumMonotonic ==
  ASSUME NEW S, IsFiniteSet(S), NEW f, \A x \in S : f[x] \in Int,
         NEW g, \A x \in S : g[x] \in Int /\ f[x] <= g[x]
  PROVE  SumOver(f, S) <= SumOver(g, S)
<1> DEFINE T == {s \in SUBSET S : SumOver(f, s) <= SumOver(g, s)}
<1>1. {} \in T
  <2>1. SumOver(f, {}) = 0 /\ SumOver(g, {}) = 0
    BY SumSteps
  <2> QED  BY <2>1
<1>2. ASSUME NEW s \in SUBSET S, NEW x \in S \ s, s \in T PROVE s \cup {x} \in T
  <2>1. SumOver(f, s \cup {x}) = f[x] + SumOver(f, s)
    BY SumAdd
  <2>2. SumOver(g, s \cup {x}) = g[x] + SumOver(g, s)
    BY SumAdd
  <2>3. SumOver(f, s) \in Int /\ SumOver(g, s) \in Int
    BY SumSteps
  <2> QED  BY <1>2, <2>1, <2>2, <2>3
<1> HIDE DEF T
<1>3. S \in T
  BY <1>1, <1>2, AllSubsets
<1> QED  BY <1>3 DEF T

\* Equal functions have equal sums.
LEMMA SumEqual ==
  ASSUME NEW S, NEW f, NEW g, \A x \in S : f[x] = g[x]
  PROVE  SumOver(f, S) = SumOver(g, S)
<1>1. [x \in S |-> f[x]] = [x \in S |-> g[x]]
  OBVIOUS
<1> QED  BY <1>1 DEF SumOver

\* The sum of nothing but zeros.
LEMMA SumZero ==
  ASSUME NEW S, IsFiniteSet(S), NEW f, \A x \in S : f[x] = 0
  PROVE  SumOver(f, S) = 0
<1> DEFINE T == {s \in SUBSET S : SumOver(f, s) = 0}
<1>1. {} \in T
  BY SumSteps
<1>2. ASSUME NEW s \in SUBSET S, NEW x \in S \ s, s \in T PROVE s \cup {x} \in T
  <2>1. SumOver(f, s \cup {x}) = f[x] + SumOver(f, s)
    BY SumAdd
  <2> QED  BY <1>2, <2>1
<1> HIDE DEF T
<1>3. S \in T
  BY <1>1, <1>2, AllSubsets
<1> QED  BY <1>3 DEF T

\* The sum of natural numbers is one, and not less than each of them.
LEMMA SumNat ==
  ASSUME NEW S, IsFiniteSet(S), NEW f, \A x \in S : f[x] \in Nat
  PROVE  SumOver(f, S) \in Nat /\ \A x \in S : f[x] <= SumOver(f, S)
<1> DEFINE z == [x \in S |-> 0]
<1>1. \A s \in SUBSET S : SumOver(f, s) \in Nat
  <2> SUFFICES ASSUME NEW s \in SUBSET S PROVE SumOver(f, s) \in Nat
    OBVIOUS
  <2>1. IsFiniteSet(s) /\ \A x \in s : z[x] = 0 /\ f[x] \in Nat /\ 0 <= f[x]
    BY FS_Subset
  <2> HIDE DEF z
  <2>2. SumOver(z, s) = 0 /\ SumOver(z, s) <= SumOver(f, s)
    BY <2>1, SumZero, SumMonotonic
  <2>3. SumOver(f, s) \in Int
    BY SumSteps
  <2> QED  BY <2>2, <2>3
<1>2. ASSUME NEW x \in S PROVE f[x] <= SumOver(f, S)
  <2>1. SumOver(f, S) = f[x] + SumOver(f, S \ {x})
    BY SumSteps
  <2>2. SumOver(f, S \ {x}) \in Nat /\ f[x] \in Nat
    BY <1>1
  <2> QED  BY <2>1, <2>2
<1> QED  BY <1>1, <1>2

\* Where one value changes, the sum changes by as much.
LEMMA SumChange ==
  ASSUME NEW S, IsFiniteSet(S), NEW f, \A x \in S : f[x] \in Int,
         NEW g, NEW y \in S, g[y] \in Int, \A x \in S : x # y => g[x] = f[x]
  PROVE  SumOver(g, S) = SumOver(f, S) - f[y] + g[y]
<1>1. \A x \in S : g[x] \in Int
  OBVIOUS
<1>2. SumOver(f, S) = f[y] + SumOver(f, S \ {y}) /\ SumOver(f, S \ {y}) \in Int
  BY SumSteps
<1>3. SumOver(g, S) = g[y] + SumOver(g, S \ {y})
  BY <1>1, SumSteps
<1>4. \A x \in S \ {y} : g[x] = f[x]
  OBVIOUS
<1>5. SumOver(g, S \ {y}) = SumOver(f, S \ {y})
  BY <1>4, SumEqual
<1> QED  BY <1>2, <1>3, <1>5

\* The sum of sums.
LEMMA SumPlus ==
  ASSUME NEW S, IsFiniteSet(S), NEW f, \A x \in S : f[x] \in Int,
         NEW g, \A x \in S : g[x] \in Int, NEW h, \A x \in S : h[x] = f[x] + g[x]
  PROVE  SumOver(h, S) = SumOver(f, S) + SumOver(g, S)
<1> DEFINE T == {s \in SUBSET S : SumOver(h, s) = SumOver(f, s) + SumOver(g, s)}
<1>0. \A x \in S : h[x] \in Int
  OBVIOUS
<1>1. {} \in T
  <2>1. SumOver(f, {}) = 0 /\ SumOver(g, {}) = 0 /\ SumOver(h, {}) = 0
    BY <1>0, SumSteps
  <2> QED  BY <2>1
<1>2. ASSUME NEW s \in SUBSET S, NEW x \in S \ s, s \in T PROVE s \cup {x} \in T
  <2>1. SumOver(f, s \cup {x}) = f[x] + SumOver(f, s)
    BY SumAdd
  <2>2. SumOver(g, s \cup {x}) = g[x] + SumOver(g, s)
    BY SumAdd
  <2>3. SumOver(h, s \cup {x}) = h[x] + SumOver(h, s)
    BY <1>0, SumAdd
  <2>4. SumOver(f, s) \in Int /\ SumOver(g, s) \in Int
    BY SumSteps
  <2> QED  BY <1>2, <2>1, <2>2, <2>3, <2>4
<1> HIDE DEF T
<1>3. S \in T
  BY <1>1, <1>2, AllSubsets
<1> QED  BY <1>3 DEF T

\* A subset of the numbers that are added has no larger sum.
LEMMA SumSubset ==
  ASSUME NEW S, IsFiniteSet(S), NEW f, \A x \in S : f[x] \in Nat, NEW t \in SUBSET S
  PROVE  SumOver(f, t) <= SumOver(f, S)
<1> DEFINE T == {s \in SUBSET S : SumOver(f, t \cap s) <= SumOver(f, s)}
<1>0. \A s \in SUBSET S : SumOver(f, s) \in Int
  BY SumSteps
<1>1. {} \in T
  <2>1. SumOver(f, {}) = 0 /\ t \cap {} = {}
    BY SumSteps
  <2> QED  BY <2>1
<1>2. ASSUME NEW s \in SUBSET S, NEW x \in S \ s, s \in T PROVE s \cup {x} \in T
  <2>1. SumOver(f, s \cup {x}) = f[x] + SumOver(f, s)
    BY SumAdd
  <2>2. /\ SumOver(f, s) \in Int /\ SumOver(f, t \cap s) \in Int /\ f[x] \in Nat
        /\ SumOver(f, t \cap s) <= SumOver(f, s)
    BY <1>0, <1>2
  <2>3. CASE x \in t
    <3>1. t \cap (s \cup {x}) = (t \cap s) \cup {x} /\ t \cap s \in SUBSET S /\ x \in S \ (t \cap s)
      BY <2>3
    <3>2. SumOver(f, (t \cap s) \cup {x}) = f[x] + SumOver(f, t \cap s)
      BY <3>1, SumAdd
    <3> QED  BY <2>1, <2>2, <3>1, <3>2
  <2>4. CASE x \notin t
    <3>1. t \cap (s \cup {x}) = t \cap s
      BY <2>4
    <3>2. SumOver(f, t \cap (s \cup {x})) = SumOver(f, t \cap s)
      BY <3>1
    <3>3. SumOver(f, s) <= SumOver(f, s \cup {x})
      BY <2>1, <2>2
    <3>4. SumOver(f, t \cap (s \cup {x})) <= SumOver(f, s \cup {x})
      BY <1>0, <2>2, <3>2, <3>3
    <3> QED  BY <3>4
  <2> QED  BY <2>3, <2>4
<1> HIDE DEF T
<1>3. S \in T
  BY <1>1, <1>2, AllSubsets
<1>4. t \cap S = t
  OBVIOUS
<1> QED  BY <1>3, <1>4 DEF T

\* Numbers may be added under other names.
LEMMA SumImage ==
  ASSUME NEW S, IsFiniteSet(S), NEW f, \A x, y \in S : f[x] = f[y] => x = y,
         NEW g, \A x \in S : g[f[x]] \in Int, NEW h, \A x \in S : h[x] = g[f[x]]
  PROVE  SumOver(g, {f[x] : x \in S}) = SumOver(h, S)
<1> DEFINE image(s) == {f[x] : x \in s}
           T == {s \in SUBSET S : SumOver(g, image(s)) = SumOver(h, s)}
<1>1. IsFiniteSet(image(S)) /\ \A y \in image(S) : g[y] \in Int
  <2> DEFINE m == [x \in S |-> f[x]]
  <2>1. m \in Surjection(S, image(S))
    BY DEF Surjection
  <2> HIDE DEF m
  <2>2. IsFiniteSet(image(S))
    BY <2>1, FS_Surjection
  <2> QED  BY <2>2
<1>2. {} \in T
  <2>1. SumOver(h, {}) = 0
    BY SumSteps
  <2> HIDE DEF image
  <2>2. SumOver(g, {}) = 0
    BY <1>1, SumSteps
  <2>3. image({}) = {}
    BY DEF image
  <2> QED  BY <2>1, <2>2, <2>3
<1>3. ASSUME NEW s \in SUBSET S, NEW x \in S \ s, s \in T PROVE s \cup {x} \in T
  <2>1. SumOver(h, s \cup {x}) = h[x] + SumOver(h, s)
    BY SumAdd
  <2>2. /\ image(s) \in SUBSET image(S) /\ f[x] \in image(S) \ image(s)
        /\ image(s \cup {x}) = image(s) \cup {f[x]}
    OBVIOUS
  <2> HIDE DEF image
  <2>3. SumOver(g, image(s) \cup {f[x]}) = g[f[x]] + SumOver(g, image(s))
    BY <1>1, <2>2, SumAdd
  <2> QED  BY <1>3, <2>1, <2>2, <2>3
<1> HIDE DEF T
<1>4. S \in T
  BY <1>2, <1>3, AllSubsets
<1> QED  BY <1>4 DEF T

-----------------------------------------------------------------------------
(* Sequences of all elements of a finite set, in a strict total order. *)

InOrder(s, R) == \A i, j \in DOMAIN s : i < j => <<s[i], s[j]>> \in R

IsOrder(R, E) ==
  /\ \A d \in E : <<d, d>> \notin R
  /\ \A d, e \in E : d = e \/ <<d, e>> \in R \/ <<e, d>> \in R
  /\ \A d, e, g \in E : <<d, e>> \in R /\ <<e, g>> \in R => <<d, g>> \in R

\* The numbers up to n.
LEMMA UpTo ==
  ASSUME NEW n \in Nat
  PROVE  IsFiniteSet(1 .. n) /\ Cardinality(1 .. n) = n
<1>1. IsFiniteSet(1 .. n) /\ Cardinality(1 .. n) = IF 1 > n THEN 0 ELSE n - 1 + 1
  BY FS_Interval
<1> QED  BY <1>1

\* As many different elements as there are: all of them.
LEMMA AllAreThere ==
  ASSUME NEW E, IsFiniteSet(E), NEW s \in [1 .. Cardinality(E) -> E],
         \A i, j \in 1 .. Cardinality(E) : s[i] = s[j] => i = j
  PROVE  \A e \in E : \E i \in 1 .. Cardinality(E) : s[i] = e
<1> DEFINE n == Cardinality(E)
           P == {s[i] : i \in 1 .. n}
<1>1. n \in Nat
  BY FS_CardinalityType
<1>2. ExistsBijection(1 .. n, P)
  <2>1. s \in Injection(1 .. n, P) /\ s \in Surjection(1 .. n, P)
    BY DEF Injection, Surjection, IsInjective
  <2> QED  BY <2>1 DEF ExistsBijection, Bijection
<1>3. P \subseteq E
  OBVIOUS
<1> HIDE DEF P, n
<1>4. Cardinality(P) = n
  BY <1>1, <1>2, UpTo, FS_Bijection
<1>5. P = E
  BY <1>3, <1>4, FS_Subset DEF n
<1> QED  BY <1>5 DEF P, n

\* The elements of a finite set can be put in order: each is in the place that the
\* number of those before it tells.
LEMMA CanBeSorted ==
  ASSUME NEW E, IsFiniteSet(E), NEW R, IsOrder(R, E)
  PROVE  \E s \in [1 .. Cardinality(E) -> E] : InOrder(s, R)
<1> DEFINE n == Cardinality(E)
           below(e) == {d \in E : <<d, e>> \in R}
           place(e) == Cardinality(below(e)) + 1
<1>1. n \in Nat
  BY FS_CardinalityType
<1>2. \A e \in E : IsFiniteSet(below(e)) /\ below(e) \subseteq E
  BY FS_Subset
<1>3. \A e \in E : place(e) \in 1 .. n
  <2> SUFFICES ASSUME NEW e \in E PROVE Cardinality(below(e)) \in Nat /\ Cardinality(below(e)) < n
    BY <1>1
  <2>1. below(e) # E
    BY DEF IsOrder
  <2> HIDE DEF below
  <2>2. Cardinality(below(e)) <= n /\ Cardinality(below(e)) # n
    BY <1>2, <2>1, FS_Subset
  <2>3. Cardinality(below(e)) \in Nat
    BY <1>2, FS_CardinalityType
  <2> QED  BY <1>1, <2>2, <2>3
<1>4. \A d, e \in E : <<d, e>> \in R => place(d) < place(e)
  <2> SUFFICES ASSUME NEW d \in E, NEW e \in E, <<d, e>> \in R
               PROVE  place(d) < place(e)
    OBVIOUS
  <2>1. below(d) \subseteq below(e) /\ d \in below(e) /\ d \notin below(d)
    BY DEF IsOrder
  <2>2. below(d) # below(e)
    BY <2>1
  <2> HIDE DEF below
  <2>3. Cardinality(below(d)) <= Cardinality(below(e))
        /\ Cardinality(below(d)) # Cardinality(below(e))
    BY <1>2, <2>1, <2>2, FS_Subset
  <2>4. Cardinality(below(d)) \in Nat /\ Cardinality(below(e)) \in Nat
    BY <1>2, FS_CardinalityType
  <2> QED  BY <2>3, <2>4
<1> HIDE DEF place, below
<1>5. \A d, e \in E : place(d) = place(e) => d = e
  <2> SUFFICES ASSUME NEW d \in E, NEW e \in E, place(d) = place(e), d # e PROVE FALSE
    OBVIOUS
  <2>1. <<d, e>> \in R \/ <<e, d>> \in R
    BY DEF IsOrder
  <2>2. place(d) < place(e) \/ place(e) < place(d)
    BY <1>4, <2>1
  <2> QED  BY <1>1, <1>3, <2>2
<1>6. \A i \in 1 .. n : \E e \in E : place(e) = i
  <2> DEFINE P == {place(e) : e \in E}
             p == [e \in E |-> place(e)]
  <2>1. p \in Injection(E, P) /\ p \in Surjection(E, P)
    BY <1>5 DEF Injection, Surjection, IsInjective
  <2>2. ExistsBijection(E, P)
    BY <2>1 DEF ExistsBijection, Bijection
  <2>3. P \subseteq 1 .. n
    BY <1>3
  <2> HIDE DEF P
  <2>4. Cardinality(P) = n
    BY <2>2, FS_Bijection
  <2>5. P = 1 .. n
    BY <1>1, <2>3, <2>4, UpTo, FS_Subset
  <2> QED  BY <2>5 DEF P
<1> DEFINE s == [i \in 1 .. n |-> CHOOSE e \in E : place(e) = i]
<1>7. s \in [1 .. n -> E] /\ \A i \in 1 .. n : place(s[i]) = i
  BY <1>6
<1>8. InOrder(s, R)
  <2> SUFFICES ASSUME NEW i \in 1 .. n, NEW j \in 1 .. n, i < j, <<s[i], s[j]>> \notin R PROVE FALSE
    BY DEF InOrder
  <2> HIDE DEF s
  <2>1. place(s[i]) = i /\ place(s[j]) = j /\ s[i] \in E /\ s[j] \in E
    BY <1>7
  <2>2. s[i] # s[j]
    BY <2>1
  <2>3. <<s[j], s[i]>> \in R
    BY <2>1, <2>2 DEF IsOrder
  <2>4. j < i
    BY <1>4, <2>1, <2>3
  <2> QED  BY <2>4
<1> QED  BY <1>7, <1>8

=============================================================================
