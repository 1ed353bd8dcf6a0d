---------------------------- MODULE LibraryProofs ----------------------------
(***************************************************************************)
(* Theorems about the parts of the library that run on their own, as they  *)
(* stand side by side in Library.  A step of one part leaves the variables *)
(* of the others alone, so what is inductive for a part is for all.        *)
(***************************************************************************)
EXTENDS Library, SumProofs

-----------------------------------------------------------------------------
(* Sharding.  For every number of words and of shards, each word is in       *)
(* exactly one bucket: the buckets are intervals one behind the other,       *)
(* First(j) .. First(j + 1) - 1, the first of which begins with 0, and the   *)
(* last of which ends with v - 1.                                            *)

\* Division with remainder.
LEMMA Division ==
  ASSUME NEW a \in Nat, NEW d \in Nat \ {0}
  PROVE  /\ a \div d \in Nat /\ a % d \in 0 .. d - 1
         /\ a = d * (a \div d) + (a % d)
  BY SMT

\* Multiplication is monotonic.
LEMMA TimesMonotonic ==
  ASSUME NEW a \in Nat, NEW b \in Nat, NEW q \in Nat, a <= b
  PROVE  a * q <= b * q
<1>1. (b - a) * q >= 0
  BY SMT
<1>2. (b - a) * q = b * q - a * q
  BY SMT
<1>3. a * q \in Int /\ b * q \in Int
  BY SMT
<1> QED  BY <1>1, <1>2, <1>3, SMT

\* What the sizes of buckets are: b * q + r = v.
LEMMA Sizes ==
  ASSUME NEW v_ \in Nat \ {0}, NEW s \in Nat \ {0}
  PROVE  /\ S!Buckets(v_, s) \in Nat \ {0} /\ S!Buckets(v_, s) <= s
         /\ S!BucketSize(v_, s) \in Nat \ {0}
         /\ S!ExtendedBuckets(v_, s) \in 0 .. S!Buckets(v_, s) - 1
         /\ v_ = S!Buckets(v_, s) * S!BucketSize(v_, s) + S!ExtendedBuckets(v_, s)
<1> DEFINE b == S!Buckets(v_, s)
<1>1. b \in Nat \ {0} /\ b <= s /\ b <= v_
  BY DEF S!Buckets
<1> HIDE DEF b
<1>2. /\ v_ \div b \in Nat /\ v_ % b \in 0 .. b - 1
      /\ v_ = b * (v_ \div b) + (v_ % b)
  BY <1>1, Division
<1>3. v_ \div b # 0
  <2> SUFFICES ASSUME v_ \div b = 0 PROVE FALSE
    OBVIOUS
  <2>1. b * (v_ \div b) = 0
    BY <1>1, SMT
  <2> QED  BY <1>1, <1>2, <2>1, SMT
<1> QED  BY <1>1, <1>2, <1>3 DEF S!BucketSize, S!ExtendedBuckets, b

\* A bucket ends where the next one begins.
LEMMA Consecutive ==
  ASSUME NEW v_ \in Nat \ {0}, NEW s \in Nat \ {0},
         NEW j \in 0 .. S!Buckets(v_, s) - 1
  PROVE  /\ S!First(v_, s, j) \in Nat /\ S!First(v_, s, j + 1) \in Nat
         /\ S!Bucket(v_, s, j) = S!First(v_, s, j) .. S!First(v_, s, j + 1) - 1
<1> DEFINE b == S!Buckets(v_, s)
           q == S!BucketSize(v_, s)
           r == S!ExtendedBuckets(v_, s)
<1>1. b \in Nat \ {0} /\ q \in Nat \ {0} /\ r \in 0 .. b - 1
  BY Sizes
<1>2. j \in 0 .. b - 1
  OBVIOUS
<1>3. /\ S!First(v_, s, j) = j * q + (IF j < r THEN j ELSE r)
      /\ S!First(v_, s, j + 1) = (j + 1) * q + (IF j + 1 < r THEN j + 1 ELSE r)
      /\ S!Bucket(v_, s, j) = IF j >= b THEN {}
           ELSE S!First(v_, s, j) .. S!First(v_, s, j) + q - (IF j < r THEN 0 ELSE 1)
  BY DEF S!First, S!Bucket
<1> HIDE DEF b, q, r
<1>4. j * q \in Nat /\ (j + 1) * q = j * q + q
  BY <1>1, <1>2, SMT
<1> DEFINE p == j * q
<1>5. p \in Nat /\ S!First(v_, s, j) = p + (IF j < r THEN j ELSE r)
      /\ S!First(v_, s, j + 1) = p + q + (IF j + 1 < r THEN j + 1 ELSE r)
  BY <1>3, <1>4
<1> HIDE DEF p
<1>6. /\ S!First(v_, s, j) \in Nat /\ S!First(v_, s, j + 1) \in Nat
      /\ S!First(v_, s, j + 1) - 1 = S!First(v_, s, j) + q - (IF j < r THEN 0 ELSE 1)
  BY <1>1, <1>2, <1>5
<1> QED  BY <1>2, <1>3, <1>6, <1>1

\* Buckets begin in their order.
LEMMA FirstMonotonic ==
  ASSUME NEW v_ \in Nat \ {0}, NEW s \in Nat \ {0},
         NEW j \in Nat, NEW k \in Nat, j <= k
  PROVE  /\ S!First(v_, s, j) \in Nat /\ S!First(v_, s, k) \in Nat
         /\ S!First(v_, s, j) <= S!First(v_, s, k)
<1> DEFINE q == S!BucketSize(v_, s)
           r == S!ExtendedBuckets(v_, s)
<1>1. q \in Nat /\ r \in Nat
  BY Sizes
<1>2. /\ S!First(v_, s, j) = j * q + (IF j < r THEN j ELSE r)
      /\ S!First(v_, s, k) = k * q + (IF k < r THEN k ELSE r)
  BY DEF S!First
<1> HIDE DEF q, r
<1>3. j * q \in Nat /\ k * q \in Nat /\ j * q <= k * q
  <2>1. j * q \in Nat /\ k * q \in Nat
    BY <1>1, SMT
  <2> QED  BY <2>1, <1>1, TimesMonotonic
<1> DEFINE x == j * q
           y == k * q
<1>4. /\ x \in Nat /\ y \in Nat /\ x <= y
      /\ S!First(v_, s, j) = x + (IF j < r THEN j ELSE r)
      /\ S!First(v_, s, k) = y + (IF k < r THEN k ELSE r)
  BY <1>2, <1>3
<1> HIDE DEF x, y
<1> QED  BY <1>1, <1>4

\* No word is in two buckets.
LEMMA BucketsAreDisjoint ==
  ASSUME NEW v_ \in Nat \ {0}, NEW s \in Nat \ {0},
         NEW j \in 0 .. S!Buckets(v_, s) - 1, NEW k \in 0 .. S!Buckets(v_, s) - 1,
         j < k, NEW w, w \in S!Bucket(v_, s, j)
  PROVE  w \notin S!Bucket(v_, s, k)
<1>1. j \in Nat /\ k \in Nat /\ j + 1 \in Nat /\ j + 1 <= k
  BY Sizes
<1>2. /\ S!Bucket(v_, s, j) = S!First(v_, s, j) .. S!First(v_, s, j + 1) - 1
      /\ S!Bucket(v_, s, k) = S!First(v_, s, k) .. S!First(v_, s, k + 1) - 1
      /\ S!First(v_, s, j) \in Nat /\ S!First(v_, s, k + 1) \in Nat
  BY Consecutive
<1>3. /\ S!First(v_, s, j + 1) \in Nat /\ S!First(v_, s, k) \in Nat
      /\ S!First(v_, s, j + 1) <= S!First(v_, s, k)
  BY <1>1, FirstMonotonic
<1>4. w \in Int /\ w <= S!First(v_, s, j + 1) - 1
  BY <1>2, <1>3
<1>5. SUFFICES ASSUME w \in S!First(v_, s, k) .. S!First(v_, s, k + 1) - 1 PROVE FALSE
  BY <1>2
<1> QED  BY <1>2, <1>3, <1>4, <1>5

\* A word of the extended buckets is in the one that division yields ...
LEMMA InExtendedBucket ==
  ASSUME NEW v_ \in Nat \ {0}, NEW s \in Nat \ {0}, NEW w \in 0 .. v_ - 1,
         w < S!ExtendedBuckets(v_, s) * (S!BucketSize(v_, s) + 1)
  PROVE  \E j \in 0 .. S!Buckets(v_, s) - 1 : w \in S!Bucket(v_, s, j)
<1> DEFINE b == S!Buckets(v_, s)
           q == S!BucketSize(v_, s)
           r == S!ExtendedBuckets(v_, s)
           j == w \div (q + 1)
           m == w % (q + 1)
<1>1. b \in Nat \ {0} /\ q \in Nat \ {0} /\ r \in 0 .. b - 1 /\ w \in Nat
  BY Sizes
<1>2. w < r * (q + 1)
  OBVIOUS
<1> HIDE DEF b, q, r
<1>3. q + 1 \in Nat \ {0}
  BY <1>1
<1>4. j \in Nat /\ m \in 0 .. q /\ w = (q + 1) * j + m
  <2>1. j \in Nat /\ m \in 0 .. (q + 1) - 1 /\ w = (q + 1) * j + m
    BY <1>1, <1>3, Division
  <2> QED  BY <2>1, <1>1
<1> HIDE DEF j, m
<1>5. j < r
  <2> SUFFICES ASSUME r <= j PROVE FALSE
    BY <1>1, <1>4
  <2>1. r * (q + 1) <= j * (q + 1)
    BY <1>1, <1>3, <1>4, TimesMonotonic
  <2>2. j * (q + 1) = (q + 1) * j /\ (q + 1) * j \in Nat /\ r * (q + 1) \in Nat
    BY <1>1, <1>4, SMT
  <2> QED  BY <1>1, <1>2, <1>4, <2>1, <2>2
<1>6. j \in 0 .. b - 1
  BY <1>1, <1>4, <1>5
<1>7. /\ S!First(v_, s, j) = j * q + j
      /\ S!First(v_, s, j + 1) = (j + 1) * q + (j + 1)
  <2>1. /\ S!First(v_, s, j) = j * q + (IF j < r THEN j ELSE r)
        /\ S!First(v_, s, j + 1) = (j + 1) * q + (IF j + 1 < r THEN j + 1 ELSE r)
    BY DEF S!First, q, r
  <2>2. (IF j + 1 < r THEN j + 1 ELSE r) = j + 1
    BY <1>1, <1>4, <1>5
  <2> QED  BY <1>5, <2>1, <2>2
<1>8. j * q + j <= w /\ w < (j + 1) * q + (j + 1)
  BY <1>1, <1>4, SMT
<1>9. /\ S!Bucket(v_, s, j) = S!First(v_, s, j) .. S!First(v_, s, j + 1) - 1
      /\ S!First(v_, s, j) \in Nat /\ S!First(v_, s, j + 1) \in Nat
  BY <1>6, Consecutive DEF b
<1>10. w \in S!Bucket(v_, s, j)
  BY <1>1, <1>7, <1>8, <1>9
<1> QED  BY <1>6, <1>10 DEF b

\* ... and any other word in one behind them.
LEMMA InNormalBucket ==
  ASSUME NEW v_ \in Nat \ {0}, NEW s \in Nat \ {0}, NEW w \in 0 .. v_ - 1,
         ~ w < S!ExtendedBuckets(v_, s) * (S!BucketSize(v_, s) + 1)
  PROVE  \E j \in 0 .. S!Buckets(v_, s) - 1 : w \in S!Bucket(v_, s, j)
<1> DEFINE b == S!Buckets(v_, s)
           q == S!BucketSize(v_, s)
           r == S!ExtendedBuckets(v_, s)
           e == r * (q + 1)
           n == (w - e) \div q
           m == (w - e) % q
           j == r + n
<1>1. /\ b \in Nat \ {0} /\ q \in Nat \ {0} /\ r \in 0 .. b - 1 /\ w \in Nat
      /\ w < v_ /\ v_ = b * q + r
  BY Sizes
<1>2. ~ w < e
  OBVIOUS
<1> HIDE DEF b, q, r
<1>3. e \in Nat /\ e = r * q + r
  BY <1>1, SMT
<1> HIDE DEF e
<1>4. w - e \in Nat
  BY <1>1, <1>2, <1>3
<1>5. n \in Nat /\ m \in 0 .. q - 1 /\ w - e = q * n + m
  BY <1>1, <1>4, Division
<1> HIDE DEF n, m
<1>6. j \in Nat /\ r <= j /\ w = j * q + r + m
  <2>1. j \in Nat /\ r <= j
    BY <1>1, <1>5
  <2>2. j * q = r * q + q * n
    BY <1>1, <1>5, SMT
  <2>3. r * q \in Nat /\ q * n \in Nat
    BY <1>1, <1>5, SMT
  <2> HIDE DEF j
  <2>4. w = j * q + r + m
    BY <1>1, <1>3, <1>5, <2>2, <2>3
  <2> QED  BY <2>1, <2>4
<1> HIDE DEF j
<1>7. j < b
  <2> SUFFICES ASSUME b <= j PROVE FALSE
    BY <1>1, <1>6
  <2>1. b * q <= j * q
    BY <1>1, <1>6, TimesMonotonic
  <2>2. b * q \in Nat /\ j * q \in Nat
    BY <1>1, <1>6, SMT
  <2> QED  BY <1>1, <1>5, <1>6, <2>1, <2>2
<1>8. j \in 0 .. b - 1
  BY <1>1, <1>6, <1>7
<1>9. S!First(v_, s, j) = j * q + r /\ S!First(v_, s, j + 1) = (j + 1) * q + r
  <2>1. /\ S!First(v_, s, j) = j * q + (IF j < r THEN j ELSE r)
        /\ S!First(v_, s, j + 1) = (j + 1) * q + (IF j + 1 < r THEN j + 1 ELSE r)
    BY DEF S!First, q, r
  <2>2. ~ j < r /\ ~ j + 1 < r
    BY <1>1, <1>6
  <2> QED  BY <2>1, <2>2
<1>10. j * q + r <= w /\ w < (j + 1) * q + r
  <2>1. (j + 1) * q = j * q + q /\ j * q \in Nat
    BY <1>1, <1>6, SMT
  <2> QED  BY <1>1, <1>5, <1>6, <2>1
<1>11. /\ S!Bucket(v_, s, j) = S!First(v_, s, j) .. S!First(v_, s, j + 1) - 1
       /\ S!First(v_, s, j) \in Nat /\ S!First(v_, s, j + 1) \in Nat
  BY <1>8, Consecutive DEF b
<1>12. w \in S!Bucket(v_, s, j)
  BY <1>1, <1>9, <1>10, <1>11
<1> QED  BY <1>8, <1>12 DEF b

-----------------------------------------------------------------------------
\* What holds of the variables of Sharding: they are those of a call.
CallOK ==
  /\ v \in Nat \ {0} /\ shards \in Nat \ {0}
  /\ present \subseteq 0 .. v - 1
  /\ maps = S!ShardModel(present, v, shards)

LEMMA CallInvariant == LibrarySpec => []CallOK
<1>1. LibraryInit => CallOK
  BY DEF LibraryInit, S!Init, CallOK
<1>2. CallOK /\ [LibraryNext]_allvars => CallOK'
  <2> SUFFICES ASSUME CallOK, [LibraryNext]_allvars PROVE CallOK'
    OBVIOUS
  <2>1. S!Next \/ UNCHANGED sharding
    BY DEF LibraryNext, allvars
  <2>2. CASE S!Next
    <3> PICK n \in 1 .. MaxWords, s \in 1 .. MaxShards :
               \E p \in SUBSET (0 .. n - 1) : S!Shard(n, s, p)
      BY <2>2 DEF S!Next
    <3> PICK p \in SUBSET (0 .. n - 1) : S!Shard(n, s, p)
      OBVIOUS
    <3>1. n \in Nat \ {0} /\ s \in Nat \ {0}
      OBVIOUS
    <3> QED  BY <3>1 DEF S!Shard, CallOK
  <2>3. CASE UNCHANGED sharding
    BY <2>3 DEF sharding, CallOK
  <2> QED  BY <2>1, <2>2, <2>3
<1> QED  BY <1>1, <1>2, PTL DEF LibrarySpec

\* ShardModel sends each histogram to one shard, for models of any number of words
\* and any number of shards.
THEOREM ModelIsDivided == LibrarySpec => []EveryWordHasOneShard
<1>1. CallOK => EveryWordHasOneShard
  <2> SUFFICES ASSUME CallOK, NEW w \in present
               PROVE  \E j \in DOMAIN maps :
                        w \in maps[j] /\ \A k \in DOMAIN maps : w \in maps[k] => k = j
    BY DEF EveryWordHasOneShard, S!EveryWordHasOneShard
  <2>1. v \in Nat \ {0} /\ shards \in Nat \ {0} /\ w \in 0 .. v - 1
    BY DEF CallOK
  <2>2. /\ DOMAIN maps = 0 .. shards - 1
        /\ \A k \in DOMAIN maps : maps[k] = present \cap S!Bucket(v, shards, k)
    BY DEF CallOK, S!ShardModel
  <2>3. PICK j \in 0 .. S!Buckets(v, shards) - 1 : w \in S!Bucket(v, shards, j)
    BY <2>1, InExtendedBucket, InNormalBucket
  <2>4. S!Buckets(v, shards) \in Nat \ {0} /\ S!Buckets(v, shards) <= shards
    BY <2>1, Sizes
  <2>5. j \in DOMAIN maps /\ w \in maps[j]
    BY <2>1, <2>2, <2>3, <2>4
  <2>6. ASSUME NEW k \in DOMAIN maps, w \in maps[k] PROVE k = j
    <3>1. w \in S!Bucket(v, shards, k) /\ k \in Nat
      BY <2>1, <2>2, <2>6
    <3>2. k \in 0 .. S!Buckets(v, shards) - 1
      BY <2>4, <3>1 DEF S!Bucket
    <3>3. ~ k < j /\ ~ j < k
      BY <2>1, <2>3, <3>1, <3>2, BucketsAreDisjoint
    <3> QED  BY <2>3, <2>4, <3>2, <3>3
  <2> QED  BY <2>5, <2>6
<1> QED  BY <1>1, CallInvariant, PTL

-----------------------------------------------------------------------------
(* Config.  What Validate accepts is what master and squads assume, and       *)
(* look-ups by address find their place, for files of any size.               *)

\* What a file is decoded into.
IsConfig(x) ==
  /\ {"Aggregators", "Squads", "NumVShards"} \subseteq DOMAIN x
  /\ \E Q : x.Aggregators \in Seq(Q)
  /\ \E Q : /\ x.Squads \in Seq(Q)
            /\ \A s \in Q : \A kind \in {"Loaders", "Samplers"} :
                 \E R : s[kind] \in Seq(R)

AllConfigs == \A x \in Files : IsConfig(x)

\* A valid job is whole, and every state has a Config.
ConfigInv == IsConfig(c) /\ ValidJobsAreWhole

LEMMA SameLists ==
  ASSUME NEW x, NEW y, IsConfig(x), NEW n, y = [x EXCEPT !.NumVShards = n]
  PROVE  /\ IsConfig(y) /\ y.Aggregators = x.Aggregators /\ y.Squads = x.Squads
         /\ y.NumVShards = n
<1>1. DOMAIN y = DOMAIN x /\ y.Aggregators = x.Aggregators /\ y.Squads = x.Squads
  BY DEF IsConfig
<1>2. y.NumVShards = n
  BY DEF IsConfig
<1>3. IsConfig(y)
  BY <1>1, Zenon DEF IsConfig
<1> QED  BY <1>1, <1>2, <1>3

LEMMA NonEmpty == ASSUME NEW Q, NEW s \in Seq(Q), s # <<>> PROVE Len(s) > 0 /\ Len(s) \in Nat
OBVIOUS

LEMMA ValidateConfigInv == ASSUME ConfigInv, C!Validate PROVE ConfigInv'
<1>1. CASE c.Aggregators = <<>> /\ c.Squads = <<>>
  <2>1. UNCHANGED c /\ outcome' # "valid"
    BY <1>1 DEF C!Validate, C!AllocateSquadsAndAggregators
  <2> QED  BY <2>1 DEF ConfigInv, ValidJobsAreWhole, C!ValidJobsAreWhole
<1>2. CASE ~ (c.Aggregators = <<>> /\ c.Squads = <<>>) /\ (c.Aggregators = <<>> \/ c.Squads = <<>>)
  <2>1. UNCHANGED c /\ outcome' # "valid"
    BY <1>2 DEF C!Validate
  <2> QED  BY <2>1 DEF ConfigInv, ValidJobsAreWhole, C!ValidJobsAreWhole
<1>3. CASE c.Aggregators # <<>> /\ c.Squads # <<>>
  <2>1. /\ c' = [c EXCEPT !.NumVShards = Len(c.Aggregators)]
        /\ outcome' = IF \A i \in DOMAIN c.Squads :
                           /\ c.Squads[i].Coordinator # Nil
                           /\ C!Matches(c.Squads[i])
                      THEN "valid" ELSE "invalid"
    BY <1>3 DEF C!Validate
  <2>2. /\ IsConfig(c') /\ c'.Aggregators = c.Aggregators /\ c'.Squads = c.Squads
        /\ c'.NumVShards = Len(c.Aggregators)
    BY <2>1, SameLists DEF ConfigInv
  <2>3. Len(c.Aggregators) > 0 /\ Len(c.Squads) > 0
    BY <1>3, NonEmpty DEF ConfigInv, IsConfig
  <2>4. ASSUME outcome' = "valid", NEW i \in DOMAIN c.Squads
        PROVE  /\ Len(c.Squads[i].Loaders) = Len(c.Aggregators)
               /\ Len(c.Squads[i].Samplers) = Len(c.Aggregators)
    BY <2>1, <2>4 DEF C!Matches
  <2>5. ValidJobsAreWhole'
    BY <2>2, <2>3, <2>4 DEF ValidJobsAreWhole, C!ValidJobsAreWhole
  <2> QED  BY <2>2, <2>5 DEF ConfigInv
<1> QED  BY <1>1, <1>2, <1>3

LEMMA InitConfigInv == AllConfigs /\ LibraryInit => ConfigInv
<1> SUFFICES ASSUME AllConfigs, LibraryInit PROVE ConfigInv
  OBVIOUS
<1>1. C!Init
  BY DEF LibraryInit, IdleConfig
<1> QED  BY <1>1 DEF AllConfigs, C!Init, ConfigInv, ValidJobsAreWhole, C!ValidJobsAreWhole

LEMMA NextConfigInv == ConfigInv /\ [LibraryNext]_allvars => ConfigInv'
<1> SUFFICES ASSUME ConfigInv, [LibraryNext]_allvars PROVE ConfigInv'
  OBVIOUS
<1>1. C!Validate \/ UNCHANGED config
  BY DEF LibraryNext, allvars, config, C!Next, C!Stopped, C!vars
<1>2. CASE C!Validate
  BY <1>2, ValidateConfigInv
<1>3. CASE UNCHANGED config
  BY <1>3 DEF config, ConfigInv, ValidJobsAreWhole, C!ValidJobsAreWhole
<1> QED  BY <1>1, <1>2, <1>3

-----------------------------------------------------------------------------
\* A job that starts has aggregators and squads, and for each vshard a loader
\* and a sampler in each squad.
THEOREM ValidIsWhole == AllConfigs => (LibrarySpec => []ValidJobsAreWhole)
<1>1. AllConfigs /\ LibraryInit => ConfigInv
  BY InitConfigInv
<1>2. ConfigInv /\ [LibraryNext]_allvars => ConfigInv'
  BY NextConfigInv
<1>3. ConfigInv => ValidJobsAreWhole
  BY DEF ConfigInv
<1> QED  BY <1>1, <1>2, <1>3, PTL DEF LibrarySpec

-----------------------------------------------------------------------------
(* Look-up of addresses. *)

LEMMA FindsTheFirst ==
  ASSUME NEW Q, NEW s \in Seq(Q), NEW i \in DOMAIN s, C!Distinct(s)
  PROVE  C!FirstIndex(s, s[i]) = i /\ i > 0
<1>1. i > 0 /\ i \in Nat
  OBVIOUS
<1>2. \A j \in DOMAIN s : s[j] = s[i] => j = i
  BY DEF C!Distinct
<1>3. s[i] = s[i] /\ \A j \in DOMAIN s : s[j] = s[i] => i <= j
  BY <1>1, <1>2
<1>4. \A k \in DOMAIN s : s[k] = s[i] /\ (\A j \in DOMAIN s : s[j] = s[i] => k <= j) => k = i
  BY <1>2
<1> QED  BY <1>1, <1>3, <1>4 DEF C!FirstIndex

\* First the squad is found, then the worker in it.
LEMMA WorkersAreFound ==
  ASSUME IsConfig(c), C!Distinct([i \in DOMAIN c.Squads |-> c.Squads[i].Coordinator])
  PROVE  WorkersFindTheirPlace
<1> SUFFICES ASSUME NEW s \in DOMAIN c.Squads, NEW kind \in {"Loaders", "Samplers"},
                    C!Distinct(c.Squads[s][kind]), NEW i \in DOMAIN c.Squads[s][kind]
             PROVE  C!WorkerId(c.Squads[s].Coordinator, c.Squads[s][kind][i], kind) = <<s, i>>
  BY DEF WorkersFindTheirPlace, C!WorkersFindTheirPlace
<1> DEFINE coords == [j \in DOMAIN c.Squads |-> c.Squads[j].Coordinator]
<1>1. PICK Q : /\ c.Squads \in Seq(Q)
               /\ \A t \in Q : \A k \in {"Loaders", "Samplers"} : \E R : t[k] \in Seq(R)
  BY DEF IsConfig
<1>2. PICK R : c.Squads[s][kind] \in Seq(R)
  BY <1>1
<1>3. coords \in Seq({coords[j] : j \in DOMAIN c.Squads}) /\ DOMAIN coords = DOMAIN c.Squads
  <2>1. Len(c.Squads) \in Nat /\ DOMAIN c.Squads = 1 .. Len(c.Squads)
    BY <1>1
  <2>2. DOMAIN coords = 1 .. Len(c.Squads)
    BY <2>1
  <2>3. coords \in [1 .. Len(c.Squads) -> {coords[j] : j \in DOMAIN c.Squads}]
    BY <2>1
  <2>4. \A n \in Nat : \A squadIds : \A f \in [1 .. n -> squadIds] : f \in Seq(squadIds)
    OBVIOUS
  <2> HIDE DEF coords
  <2> QED  BY <2>1, <2>2, <2>3, <2>4
<1>4. C!SquadId(c.Squads[s].Coordinator) = s /\ s > 0
  BY <1>3, FindsTheFirst DEF C!SquadId
<1>5. C!FirstIndex(c.Squads[s][kind], c.Squads[s][kind][i]) = i /\ i > 0
  BY <1>2, FindsTheFirst
<1> QED  BY <1>4, <1>5 DEF C!WorkerId

\* In a valid job a worker finds the squad and the place that it was started for,
\* if coordinators have addresses of their own, as have the workers of its squad.
THEOREM PlacesAreFound == AllConfigs => (LibrarySpec => []WorkersFindTheirPlace)
<1>1. AllConfigs /\ LibraryInit => ConfigInv
  BY InitConfigInv
<1>2. ConfigInv /\ [LibraryNext]_allvars => ConfigInv'
  BY NextConfigInv
<1>3. ConfigInv => WorkersFindTheirPlace
  <2> SUFFICES ASSUME ConfigInv PROVE WorkersFindTheirPlace
    OBVIOUS
  <2>1. CASE C!Distinct([i \in DOMAIN c.Squads |-> c.Squads[i].Coordinator])
    BY <2>1, WorkersAreFound DEF ConfigInv
  <2>2. CASE ~ C!Distinct([i \in DOMAIN c.Squads |-> c.Squads[i].Coordinator])
    BY <2>2 DEF WorkersFindTheirPlace, C!WorkersFindTheirPlace
  <2> QED  BY <2>1, <2>2
<1> QED  BY <1>1, <1>2, <1>3, PTL DEF LibrarySpec

-----------------------------------------------------------------------------
(* OrderedSparse.  Entries stay ordered, so that the first entry of a topic  *)
(* is its only one, and what is cut off behind a zero is nothing but it.     *)

\* Whoever changes the histogram of a document changes it by one (document.go 30,
\* interpreter.go 65 and 69, sampler.go 144 and 153).
ByOne == Amounts \subseteq {1}

IsOrdered(s) ==
  /\ s \in Seq(H!Entry)
  /\ \A i, j \in 1 .. Len(s) : i < j => s[i].count >= s[j].count
  /\ \A i, j \in 1 .. Len(s) : i # j => s[i].topic # s[j].topic
  /\ \A i \in 1 .. Len(s) : s[i].count > 0

EntriesOf(s) == {s[i] : i \in 1 .. Len(s)}

LEMMA HistFacts ==
  /\ HistTopics \in Nat /\ MaxInt \in Nat /\ HistTopics <= MaxInt
  /\ H!Topics = 0 .. HistTopics - 1
  /\ Amounts \subseteq 1 .. MaxInt
  /\ Others \subseteq [H!Topics -> 0 .. MaxInt]
BY LibraryAssumption DEF H!OrderedSparseAssumption, H!Topics

LEMMA EntryFacts ==
  ASSUME NEW s, IsOrdered(s)
  PROVE  /\ Len(s) \in Nat /\ DOMAIN s = 1 .. Len(s)
         /\ \A i \in 1 .. Len(s) :
              /\ s[i] \in H!Entry
              /\ s[i].topic \in H!Topics /\ s[i].count \in 1 .. MaxInt
              /\ s[i] = [topic |-> s[i].topic, count |-> s[i].count]
<1>1. s \in Seq(H!Entry) /\ \A i \in 1 .. Len(s) : s[i].count > 0
  BY DEF IsOrdered
<1>2. Len(s) \in Nat /\ DOMAIN s = 1 .. Len(s) /\ \A i \in 1 .. Len(s) : s[i] \in H!Entry
  BY <1>1
<1>3. \A x \in H!Entry : /\ x.topic \in H!Topics /\ x.count \in -MaxInt - 1 .. MaxInt
                         /\ x = [topic |-> x.topic, count |-> x.count]
  BY DEF H!Entry
<1> QED  BY <1>1, <1>2, <1>3, HistFacts

\* The searches find the entry of a topic.
LEMMA Found ==
  ASSUME NEW s, IsOrdered(s), NEW i \in 1 .. Len(s)
  PROVE  /\ H!Has(s, s[i].topic) /\ H!Find(s, s[i].topic) = i
         /\ H!At(s, s[i].topic) = s[i].count
<1> DEFINE t == s[i].topic
           P(j) == /\ j <= Len(s) => s[j].topic = t
                   /\ \A k \in 1 .. j - 1 : s[k].topic # t
<1>1. Len(s) \in Nat /\ \A k \in 1 .. Len(s) : k # i => s[k].topic # t
  BY EntryFacts DEF IsOrdered
<1>2. P(i) /\ \A j \in 1 .. Len(s) + 1 : P(j) => j = i
  BY <1>1
<1>3. H!Find(s, t) = i
  BY <1>1, <1>2 DEF H!Find
<1>4. H!Has(s, t)
  BY DEF H!Has
<1> QED  BY <1>3, <1>4 DEF H!At

LEMMA NotFound ==
  ASSUME NEW s, Len(s) \in Nat, NEW t, ~ H!Has(s, t)
  PROVE  H!Find(s, t) = Len(s) + 1 /\ H!At(s, t) = 0
<1> DEFINE P(j) == /\ j <= Len(s) => s[j].topic = t
                   /\ \A k \in 1 .. j - 1 : s[k].topic # t
<1>1. \A k \in 1 .. Len(s) : s[k].topic # t
  BY DEF H!Has
<1>2. P(Len(s) + 1) /\ \A j \in 1 .. Len(s) + 1 : P(j) => j = Len(s) + 1
  BY <1>1
<1>3. H!Find(s, t) = Len(s) + 1
  BY <1>2 DEF H!Find
<1> QED  BY <1>3 DEF H!At

\* So a histogram is what its entries are.
LEMMA AtOfEntries ==
  ASSUME NEW s, IsOrdered(s), NEW t
  PROVE  /\ \A x \in EntriesOf(s) : x.topic = t => H!At(s, t) = x.count /\ H!Has(s, t)
         /\ (\A x \in EntriesOf(s) : x.topic # t) => H!At(s, t) = 0 /\ ~ H!Has(s, t)
         /\ H!At(s, t) \in 0 .. MaxInt
<1>1. ASSUME NEW x \in EntriesOf(s), x.topic = t
      PROVE  H!At(s, t) = x.count /\ H!Has(s, t) /\ H!At(s, t) \in 0 .. MaxInt
  <2>1. PICK i \in 1 .. Len(s) : x = s[i]
    BY DEF EntriesOf
  <2>2. H!Has(s, s[i].topic) /\ H!At(s, s[i].topic) = s[i].count
    BY Found
  <2>3. s[i].count \in 1 .. MaxInt
    BY EntryFacts
  <2>4. s[i].count \in 0 .. MaxInt
    BY <2>3, HistFacts
  <2> QED  BY <1>1, <2>1, <2>2, <2>4
<1>2. ASSUME \A x \in EntriesOf(s) : x.topic # t
      PROVE  H!At(s, t) = 0 /\ ~ H!Has(s, t) /\ H!At(s, t) \in 0 .. MaxInt
  <2>1. ~ H!Has(s, t)
    BY <1>2 DEF H!Has, EntriesOf
  <2> QED  BY <2>1, NotFound, EntryFacts, HistFacts
<1> QED  BY <1>1, <1>2

LEMMA AtChanged ==
  ASSUME NEW s, IsOrdered(s), NEW m, IsOrdered(m), NEW t,
         \A x : x.topic # t => (x \in EntriesOf(m) <=> x \in EntriesOf(s))
  PROVE  \A u : u # t => H!At(m, u) = H!At(s, u)
<1> SUFFICES ASSUME NEW u, u # t PROVE H!At(m, u) = H!At(s, u)
  OBVIOUS
<1>1. CASE \E x \in EntriesOf(s) : x.topic = u
  BY <1>1, AtOfEntries
<1>2. CASE \A x \in EntriesOf(s) : x.topic # u
  <2>1. \A x \in EntriesOf(m) : x.topic # u
    BY <1>2
  <2> QED  BY <1>2, <2>1, AtOfEntries
<1> QED  BY <1>1, <1>2

\* The loops stop where the entry keeps the order.
LEMMA FrontStops ==
  ASSUME NEW a, NEW i \in Nat, i > 0, NEW n \in Int, \A k \in 1 .. i : a[k].count \in Int
  PROVE  /\ H!FrontStop(a, i, n) \in 1 .. i
         /\ \A k \in H!FrontStop(a, i, n) .. i - 1 : n > a[k].count
         /\ H!FrontStop(a, i, n) > 1 => n <= a[H!FrontStop(a, i, n) - 1].count
<1> DEFINE P(j) == /\ \A k \in j .. i - 1 : n > a[k].count
                   /\ j > 1 => n <= a[j - 1].count
           T == {j \in 1 .. i : \A k \in j .. i - 1 : n > a[k].count}
<1>1. T \in SUBSET Nat /\ i \in T
  OBVIOUS
<1>2. PICK m \in T : \A k \in T : m <= k
  <2> HIDE DEF T
  <2> QED  BY <1>1, LeastNumber
<1>3. m \in 1 .. i /\ \A k \in m .. i - 1 : n > a[k].count
  BY <1>2
<1>4. ASSUME m > 1 PROVE n <= a[m - 1].count
  <2> SUFFICES ASSUME n > a[m - 1].count PROVE FALSE
    BY <1>3, <1>4
  <2>1. \A k \in m - 1 .. i - 1 : n > a[k].count
    BY <1>3, <1>4
  <2>2. m - 1 \in T
    BY <1>3, <1>4, <2>1
  <2> QED  BY <1>2, <1>3, <2>2
<1>5. \E j \in 1 .. i : P(j)
  BY <1>3, <1>4
<1>6. H!FrontStop(a, i, n) = CHOOSE j \in 1 .. i : P(j)
  BY DEF H!FrontStop
<1> HIDE DEF P
<1>7. H!FrontStop(a, i, n) \in 1 .. i /\ P(H!FrontStop(a, i, n))
  BY <1>5, <1>6
<1> QED  BY <1>7 DEF P

LEMMA BackStops ==
  ASSUME NEW a, Len(a) \in Nat, NEW i \in 1 .. Len(a), NEW n \in Int,
         \A k \in i + 1 .. Len(a) : a[k].count \in Int
  PROVE  /\ H!BackStop(a, i, n) \in i .. Len(a)
         /\ \A k \in i + 1 .. H!BackStop(a, i, n) : n < a[k].count
         /\ H!BackStop(a, i, n) < Len(a) => n >= a[H!BackStop(a, i, n) + 1].count
<1> DEFINE z == Len(a)
           P(j) == /\ \A k \in i + 1 .. j : n < a[k].count
                   /\ j < z => n >= a[j + 1].count
           T == {d \in 0 .. z - i : \A k \in i + 1 .. z - d : n < a[k].count}
<1>1. T \in SUBSET Nat /\ z - i \in T
  OBVIOUS
<1>2. PICK d \in T : \A k \in T : d <= k
  <2> HIDE DEF T
  <2> QED  BY <1>1, LeastNumber
<1>3. d \in 0 .. z - i /\ \A k \in i + 1 .. z - d : n < a[k].count
  BY <1>2
<1>4. ASSUME d > 0 PROVE n >= a[z - d + 1].count
  <2> SUFFICES ASSUME n < a[z - d + 1].count PROVE FALSE
    BY <1>3, <1>4
  <2>1. \A k \in i + 1 .. z - (d - 1) : n < a[k].count
    BY <1>3, <1>4
  <2>2. d - 1 \in T
    BY <1>3, <1>4, <2>1
  <2>3. d <= d - 1
    <3> HIDE DEF T
    <3> QED  BY <1>2, <2>2
  <2> QED  BY <1>3, <2>3
<1>5. z - d \in i .. z /\ P(z - d)
  BY <1>3, <1>4
<1>6. H!BackStop(a, i, n) = CHOOSE j \in i .. z : P(j)
  BY DEF H!BackStop
<1> HIDE DEF P, z
<1>7. H!BackStop(a, i, n) \in i .. z /\ P(H!BackStop(a, i, n))
  BY <1>5, <1>6
<1> QED  BY <1>7 DEF P, z

\* The entries but the one at i are ordered.
OrderedBut(a, i) ==
  /\ Len(a) \in Nat /\ i \in 1 .. Len(a)
  /\ \A k \in 1 .. Len(a) : k # i => a[k] \in H!Entry /\ a[k].count > 0
  /\ \A k, l \in 1 .. Len(a) : k < l /\ k # i /\ l # i => a[k].count >= a[l].count
  /\ \A k, l \in 1 .. Len(a) : k # l /\ k # i /\ l # i => a[k].topic # a[l].topic

OthersOf(a, i) == {a[k] : k \in {l \in 1 .. Len(a) : l # i}}

\* A sequence that has the entry e at j, and the others in their order.
LEMMA MovedIsOrdered ==
  ASSUME NEW a, NEW i, OrderedBut(a, i),
         NEW e \in H!Entry, e.count > 0,
         \A k \in 1 .. Len(a) : k # i => a[k].topic # e.topic,
         NEW j \in 1 .. Len(a), NEW m,
         (m = H!ToFront(a, i, j, e) /\ j <= i) \/ (m = H!ToBack(a, i, j, e) /\ i <= j),
         \A k \in 1 .. Len(a) : k # i /\ k < i /\ k < j => e.count <= a[k].count,
         \A k \in 1 .. Len(a) : k # i /\ k > i /\ k <= j => e.count <= a[k].count,
         \A k \in 1 .. Len(a) : k # i /\ k < i /\ k >= j => e.count >= a[k].count,
         \A k \in 1 .. Len(a) : k # i /\ k > i /\ k > j => e.count >= a[k].count
  PROVE  IsOrdered(m) /\ Len(m) = Len(a) /\ EntriesOf(m) = OthersOf(a, i) \cup {e}
<1> DEFINE n == Len(a)
           was(k) == IF j <= i THEN IF j < k /\ k <= i THEN k - 1 ELSE k
                     ELSE IF i <= k /\ k < j THEN k + 1 ELSE k
<1>1. n \in Nat /\ i \in 1 .. n
  BY DEF OrderedBut
<1>2. m = [k \in 1 .. n |-> IF k = j THEN e ELSE a[was(k)]]
  BY <1>1 DEF H!ToFront, H!ToBack
<1>3. \A k \in 1 .. n : k # j => was(k) \in 1 .. n /\ was(k) # i
  BY <1>1
<1>4. \A k, l \in 1 .. n : k # j /\ l # j /\ k < l => was(k) < was(l)
  BY <1>1
<1>5. \A l \in 1 .. n : l # i => \E k \in 1 .. n : k # j /\ was(k) = l
  <2> SUFFICES ASSUME NEW l \in 1 .. n, l # i PROVE \E k \in 1 .. n : k # j /\ was(k) = l
    OBVIOUS
  <2> DEFINE k == IF j <= i THEN IF j <= l /\ l < i THEN l + 1 ELSE l
                  ELSE IF i < l /\ l <= j THEN l - 1 ELSE l
  <2>1. k \in 1 .. n /\ k # j /\ was(k) = l
    BY <1>1
  <2> QED  BY <2>1
<1>6. \A k \in 1 .. n : /\ k < j => (was(k) < i /\ was(k) < j) \/ (was(k) > i /\ was(k) <= j)
                        /\ k > j => (was(k) < i /\ was(k) >= j) \/ (was(k) > i /\ was(k) > j)
  BY <1>1
<1> HIDE DEF was
<1>7. \A k \in 1 .. n : m[k] = IF k = j THEN e ELSE a[was(k)]
  BY <1>2
<1>8. \A k \in 1 .. n : k # j => /\ a[was(k)] \in H!Entry /\ a[was(k)].count > 0
                                 /\ a[was(k)].topic # e.topic
  BY <1>3 DEF OrderedBut
<1>9. m \in Seq(H!Entry) /\ Len(m) = n
  <2>1. \A k \in 1 .. n : m[k] \in H!Entry
    BY <1>7, <1>8
  <2> QED  BY <1>1, <1>2, <2>1
<1>10. \A k, l \in 1 .. n : k < l => m[k].count >= m[l].count
  <2> SUFFICES ASSUME NEW k \in 1 .. n, NEW l \in 1 .. n, k < l
               PROVE  m[k].count >= m[l].count
    OBVIOUS
  <2>1. CASE k = j
    BY <1>3, <1>6, <1>7, <2>1
  <2>2. CASE l = j
    BY <1>3, <1>6, <1>7, <2>2
  <2>3. CASE k # j /\ l # j
    BY <1>3, <1>4, <1>7, <2>3 DEF OrderedBut
  <2> QED  BY <2>1, <2>2, <2>3
<1>11. \A k, l \in 1 .. n : k # l => m[k].topic # m[l].topic
  <2> SUFFICES ASSUME NEW k \in 1 .. n, NEW l \in 1 .. n, k < l
               PROVE  m[k].topic # m[l].topic
    BY <1>1
  <2>1. CASE k = j \/ l = j
    BY <1>7, <1>8, <2>1
  <2>2. CASE k # j /\ l # j
    <3>1. was(k) \in 1 .. n /\ was(l) \in 1 .. n /\ was(k) # i /\ was(l) # i /\ was(k) # was(l)
      BY <1>3, <1>4, <2>2
    <3> QED  BY <1>7, <2>2, <3>1 DEF OrderedBut
  <2> QED  BY <2>1, <2>2
<1>12. \A k \in 1 .. n : m[k].count > 0
  BY <1>7, <1>8
<1>13. EntriesOf(m) = OthersOf(a, i) \cup {e}
  BY <1>3, <1>5, <1>7, <1>9 DEF EntriesOf, OthersOf
<1> QED  BY <1>9, <1>10, <1>11, <1>12, <1>13 DEF IsOrdered

\* The entries of other topics.
Beside(s, t) == {x \in EntriesOf(s) : x.topic # t}

\* The effect of changing the entry of one topic, and of cutting it off.
LEMMA OneChanged ==
  ASSUME NEW s, IsOrdered(s), NEW m, IsOrdered(m), NEW e,
         EntriesOf(m) = Beside(s, e.topic) \cup {e}
  PROVE  \A u : H!At(m, u) = IF u = e.topic THEN e.count ELSE H!At(s, u)
<1>1. H!At(m, e.topic) = e.count
  BY AtOfEntries
<1>2. \A x : x.topic # e.topic => (x \in EntriesOf(m) <=> x \in EntriesOf(s))
  BY DEF Beside
<1>3. \A u : u # e.topic => H!At(m, u) = H!At(s, u)
  BY <1>2, AtChanged
<1> QED  BY <1>1, <1>3

LEMMA OneCut ==
  ASSUME NEW s, IsOrdered(s), NEW m, IsOrdered(m), NEW t, EntriesOf(m) = Beside(s, t)
  PROVE  \A u : H!At(m, u) = IF u = t THEN 0 ELSE H!At(s, u)
<1>1. H!At(m, t) = 0
  BY AtOfEntries DEF Beside
<1>2. \A x : x.topic # t => (x \in EntriesOf(m) <=> x \in EntriesOf(s))
  BY DEF Beside
<1>3. \A u : u # t => H!At(m, u) = H!At(s, u)
  BY <1>2, AtChanged
<1> QED  BY <1>1, <1>3

\* The entry of a topic, where there is one.
LEMMA Position ==
  ASSUME NEW s, IsOrdered(s), NEW t, H!Has(s, t)
  PROVE  /\ H!Find(s, t) \in 1 .. Len(s) /\ OrderedBut(s, H!Find(s, t))
         /\ s[H!Find(s, t)].topic = t /\ s[H!Find(s, t)].count = H!At(s, t)
         /\ \A k \in 1 .. Len(s) : k # H!Find(s, t) => s[k].topic # t
         /\ OthersOf(s, H!Find(s, t)) = Beside(s, t)
<1>1. PICK i \in 1 .. Len(s) : s[i].topic = t
  BY DEF H!Has
<1>2. H!Find(s, t) = i /\ H!At(s, t) = s[i].count
  BY <1>1, Found
<1>3. \A k \in 1 .. Len(s) : k # i => s[k].topic # t
  BY <1>1 DEF IsOrdered
<1>4. OrderedBut(s, i)
  BY EntryFacts DEF IsOrdered, OrderedBut
<1>5. OthersOf(s, i) = Beside(s, t)
  BY <1>1, <1>3 DEF OthersOf, EntriesOf, Beside
<1> QED  BY <1>1, <1>2, <1>3, <1>4, <1>5

\* Inc keeps the order and counts for one topic.
LEMMA IncreasedFacts ==
  ASSUME NEW s, IsOrdered(s), NEW t \in H!Topics, NEW n \in Nat, n > 0,
         H!At(s, t) + n <= MaxInt
  PROVE  /\ IsOrdered(H!Increased(s, t, n))
         /\ \A u : H!At(H!Increased(s, t, n), u) = IF u = t THEN H!At(s, t) + n ELSE H!At(s, u)
<1> DEFINE new == H!At(s, t) + n
           e == [topic |-> t, count |-> new]
           i == H!Find(s, t)
           a == IF H!Has(s, t) THEN s ELSE Append(s, e)
           j == H!FrontStop(a, i, new)
           m == H!ToFront(a, i, j, e)
<1>1. new \in 1 .. MaxInt /\ H!At(s, t) \in 0 .. MaxInt
  BY AtOfEntries, HistFacts
<1>2. H!Wrap(new) = new
  BY <1>1, HistFacts DEF H!Wrap
<1>3. H!Increased(s, t, n) = m
  BY <1>2 DEF H!Increased
<1> HIDE DEF new
<1>4. e \in H!Entry /\ e.topic = t /\ e.count = new /\ new > 0
  BY <1>1, HistFacts DEF H!Entry
<1>5. /\ OrderedBut(a, i) /\ OthersOf(a, i) = Beside(s, t)
      /\ \A k \in 1 .. Len(a) : k # i => a[k].topic # t
      /\ \A k \in 1 .. Len(a) : k > i => new >= a[k].count
      /\ \A k \in 1 .. i : a[k].count \in Int
  <2>1. CASE H!Has(s, t)
    <3>1. a = s
      BY <2>1
    <3>2. i \in 1 .. Len(s) /\ s[i].count = H!At(s, t)
      BY <2>1, Position
    <3>3. \A k \in 1 .. Len(s) : k > i => H!At(s, t) >= s[k].count
      BY <3>2 DEF IsOrdered
    <3>4. \A k \in 1 .. Len(s) : s[k].count \in 1 .. MaxInt
      BY EntryFacts
    <3>5. \A k \in 1 .. Len(s) : k > i => new >= s[k].count
      BY <1>1, <3>3, <3>4, HistFacts DEF new
    <3>6. \A k \in 1 .. i : s[k].count \in Int
      BY <3>2, <3>4, EntryFacts, HistFacts
    <3> QED  BY <2>1, <3>1, <3>5, <3>6, Position
  <2>2. CASE ~ H!Has(s, t)
    <3> HIDE DEF e
    <3>1. a = Append(s, e) /\ i = Len(s) + 1
      BY <2>2, NotFound, EntryFacts
    <3>2. s \in Seq(H!Entry) /\ Len(s) \in Nat
      BY EntryFacts DEF IsOrdered
    <3>3. Len(a) = Len(s) + 1 /\ a[i] = e /\ \A k \in 1 .. Len(s) : a[k] = s[k]
      BY <1>4, <3>1, <3>2
    <3>4. \A k \in 1 .. Len(s) : s[k].topic # t
      BY <2>2 DEF H!Has
    <3>5. \A k \in 1 .. i : a[k].count \in Int
      <4>1. \A k \in 1 .. Len(s) : a[k].count \in 1 .. MaxInt
        BY <3>3, EntryFacts
      <4>2. a[i].count \in 1 .. MaxInt
        BY <1>1, <1>4, <3>3
      <4>3. \A k \in 1 .. i : k = i \/ k \in 1 .. Len(s)
        BY <3>1, <3>2
      <4>4. 1 .. MaxInt \subseteq Int
        BY HistFacts
      <4> QED  BY <4>1, <4>2, <4>3, <4>4
    <3>6. OrderedBut(a, i)
      BY <3>1, <3>2, <3>3 DEF OrderedBut, IsOrdered
    <3>7. OthersOf(a, i) = Beside(s, t)
      BY <3>1, <3>2, <3>3, <3>4 DEF OthersOf, EntriesOf, Beside
    <3> QED  BY <3>1, <3>2, <3>3, <3>4, <3>5, <3>6, <3>7
  <2> QED  BY <2>1, <2>2
<1> HIDE DEF a, i, e, j, m
<1>6. Len(a) \in Nat /\ i \in 1 .. Len(a)
  BY <1>5 DEF OrderedBut
<1>7. /\ j \in 1 .. i /\ \A k \in j .. i - 1 : new > a[k].count
      /\ j > 1 => new <= a[j - 1].count
  <2>1. i \in Nat /\ i > 0 /\ new \in Int
    BY <1>1, <1>6, HistFacts
  <2> QED  BY <1>5, <2>1, FrontStops DEF j
<1>8. /\ \A k \in 1 .. Len(a) : k # i /\ k < i /\ k < j => new <= a[k].count
      /\ \A k \in 1 .. Len(a) : k # i /\ k < i /\ k >= j => new >= a[k].count
  <2>1. ASSUME NEW k \in 1 .. Len(a), k < i, k < j PROVE new <= a[k].count
    <3>1. j - 1 \in 1 .. Len(a) /\ j - 1 # i /\ (k = j - 1 \/ k < j - 1)
      BY <1>6, <1>7, <2>1
    <3>2. new <= a[j - 1].count
      BY <1>7, <3>1
    <3>3. k < j - 1 => a[k].count >= a[j - 1].count
      BY <1>5, <2>1, <3>1 DEF OrderedBut
    <3>4. a[k].count \in Int /\ a[j - 1].count \in Int
      BY <1>5, <1>6, <1>7, <2>1, <3>1
    <3> QED  BY <1>1, <3>1, <3>2, <3>3, <3>4, HistFacts
  <2>2. ASSUME NEW k \in 1 .. Len(a), k < i, k >= j PROVE new >= a[k].count
    <3>1. new > a[k].count /\ a[k].count \in Int
      BY <1>5, <1>6, <1>7, <2>2
    <3> QED  BY <1>1, <3>1, HistFacts
  <2> QED  BY <2>1, <2>2
<1>9. j \in 1 .. Len(a) /\ j <= i
  BY <1>6, <1>7
<1>10. /\ \A k \in 1 .. Len(a) : k # i /\ k > i /\ k <= j => e.count <= a[k].count
       /\ \A k \in 1 .. Len(a) : k # i /\ k > i /\ k > j => e.count >= a[k].count
  BY <1>4, <1>5, <1>6, <1>9
<1>11. IsOrdered(m) /\ EntriesOf(m) = OthersOf(a, i) \cup {e}
  <2>1. m = H!ToFront(a, i, j, e) /\ j <= i
    BY <1>9 DEF m
  <2>2. \A k \in 1 .. Len(a) : k # i => a[k].topic # e.topic
    BY <1>4, <1>5
  <2>3. /\ \A k \in 1 .. Len(a) : k # i /\ k < i /\ k < j => e.count <= a[k].count
        /\ \A k \in 1 .. Len(a) : k # i /\ k < i /\ k >= j => e.count >= a[k].count
    BY <1>4, <1>8
  <2>4. OrderedBut(a, i) /\ e \in H!Entry /\ e.count > 0
    BY <1>4, <1>5
  <2>5. j \in 1 .. Len(a)
    BY <1>9
  <2> QED  BY <1>10, <2>1, <2>2, <2>3, <2>4, <2>5, MovedIsOrdered
<1>12. \A u : H!At(m, u) = IF u = t THEN new ELSE H!At(s, u)
  <2>1. EntriesOf(m) = Beside(s, e.topic) \cup {e}
    BY <1>4, <1>5, <1>11
  <2>2. \A u : H!At(m, u) = IF u = e.topic THEN e.count ELSE H!At(s, u)
    BY <1>11, <2>1, OneChanged
  <2> QED  BY <1>4, <2>2
<1> QED  BY <1>3, <1>11, <1>12 DEF new

\* So does Dec, also where it cuts off what has become zero.
LEMMA DecreasedFacts ==
  ASSUME NEW s, IsOrdered(s), NEW t \in H!Topics, NEW n \in Nat, n > 0,
         H!Has(s, t), H!At(s, t) >= n
  PROVE  /\ IsOrdered(H!Decreased(s, t, n))
         /\ \A u : H!At(H!Decreased(s, t, n), u) = IF u = t THEN H!At(s, t) - n ELSE H!At(s, u)
<1> DEFINE new == H!At(s, t) - n
           e == [topic |-> t, count |-> new]
           i == H!Find(s, t)
           j == H!BackStop(s, i, new)
           m == H!ToBack(s, i, j, e)
           z == Len(s)
<1>1. new \in 0 .. MaxInt /\ H!At(s, t) \in 0 .. MaxInt
  BY AtOfEntries, HistFacts
<1>2. H!Decreased(s, t, n) = IF new = 0 THEN SubSeq(m, 1, j - 1) ELSE m
  BY DEF H!Decreased
<1>3. new < H!At(s, t)
  BY <1>1, HistFacts
<1> HIDE DEF new
<1>4. e \in H!Entry /\ e.topic = t /\ e.count = new
  BY <1>1, HistFacts DEF H!Entry
<1>5. /\ i \in 1 .. z /\ OrderedBut(s, i) /\ s[i].count = H!At(s, t)
      /\ \A k \in 1 .. z : k # i => s[k].topic # t
      /\ OthersOf(s, i) = Beside(s, t)
  BY Position
<1> HIDE DEF i, e, j, m
<1>6. z \in Nat /\ \A k \in 1 .. z : s[k].count \in 1 .. MaxInt /\ s[k].count \in Int
  <2>1. z \in Nat /\ \A k \in 1 .. z : s[k].count \in 1 .. MaxInt
    BY EntryFacts
  <2>2. 1 .. MaxInt \subseteq Int
    BY HistFacts
  <2> QED  BY <2>1, <2>2
<1>7. /\ j \in i .. z /\ \A k \in i + 1 .. j : new < s[k].count
      /\ j < z => new >= s[j + 1].count
  <2>1. new \in Int /\ \A k \in i + 1 .. z : s[k].count \in Int
    BY <1>1, <1>5, <1>6, HistFacts
  <2> QED  BY <1>5, <1>6, <2>1, BackStops DEF j
<1>8. CASE new > 0
  <2>1. /\ \A k \in 1 .. z : k # i /\ k < i /\ k < j => new <= s[k].count
        /\ \A k \in 1 .. z : k # i /\ k < i /\ k >= j => new >= s[k].count
    <3>1. \A k \in 1 .. z : k < i => s[k].count >= s[i].count
      BY <1>5 DEF IsOrdered
    <3> QED  BY <1>1, <1>3, <1>5, <1>6, <1>7, <3>1, HistFacts
  <2>2. \A k \in 1 .. z : k # i /\ k > i /\ k <= j => new <= s[k].count
    BY <1>1, <1>5, <1>6, <1>7, HistFacts
  <2>3. \A k \in 1 .. z : k # i /\ k > i /\ k > j => new >= s[k].count
    <3> SUFFICES ASSUME NEW k \in 1 .. z, k > j PROVE new >= s[k].count
      OBVIOUS
    <3>1. j + 1 \in 1 .. z /\ (k = j + 1 \/ j + 1 < k) /\ new >= s[j + 1].count
      BY <1>5, <1>6, <1>7
    <3>2. j + 1 < k => s[j + 1].count >= s[k].count
      BY <3>1 DEF IsOrdered
    <3> QED  BY <1>1, <1>6, <3>1, <3>2, HistFacts
  <2>4. j \in 1 .. z /\ i <= j
    BY <1>5, <1>6, <1>7
  <2>5. IsOrdered(m) /\ EntriesOf(m) = OthersOf(s, i) \cup {e}
    BY <1>4, <1>5, <1>8, <2>1, <2>2, <2>3, <2>4, MovedIsOrdered DEF m
  <2>6. H!Decreased(s, t, n) = m
    BY <1>1, <1>2, <1>8
  <2>7. \A u : H!At(m, u) = IF u = t THEN new ELSE H!At(s, u)
    <3>1. EntriesOf(m) = Beside(s, e.topic) \cup {e}
      BY <1>4, <1>5, <2>5
    <3>2. \A u : H!At(m, u) = IF u = e.topic THEN e.count ELSE H!At(s, u)
      BY <2>5, <3>1, OneChanged
    <3> QED  BY <1>4, <3>2
  <2> QED  BY <2>5, <2>6, <2>7 DEF new
<1>9. CASE new = 0
  <2>1. j = z
    BY <1>5, <1>6, <1>7, <1>9
  <2> DEFINE q == SubSeq(m, 1, z - 1)
             was(k) == IF i <= k THEN k + 1 ELSE k
  <2>2. m = [k \in 1 .. z |-> IF k = z THEN e ELSE s[was(k)]]
    BY <1>5, <1>6, <2>1 DEF H!ToBack, m
  <2>3. q = [k \in 1 .. z - 1 |-> s[was(k)]]
    <3>1. s \in Seq(H!Entry)
      BY DEF IsOrdered
    <3>2. \A k \in 1 .. z : m[k] \in H!Entry
      BY <1>4, <1>5, <1>6, <2>2, <3>1
    <3>3. m \in Seq(H!Entry) /\ Len(m) = z
      BY <1>6, <2>2, <3>2
    <3>4. q = [k \in 1 .. z - 1 |-> m[k]]
      BY <1>5, <1>6, <3>3
    <3> QED  BY <1>6, <2>2, <3>4
  <2>4. \A k \in 1 .. z - 1 : was(k) \in 1 .. z /\ was(k) # i
    BY <1>5, <1>6
  <2>5. \A k, l \in 1 .. z - 1 : k < l => was(k) < was(l)
    BY <1>5, <1>6
  <2>6. \A l \in 1 .. z : l # i => \E k \in 1 .. z - 1 : was(k) = l
    <3> SUFFICES ASSUME NEW l \in 1 .. z, l # i PROVE \E k \in 1 .. z - 1 : was(k) = l
      OBVIOUS
    <3>1. was(IF i < l THEN l - 1 ELSE l) = l /\ (IF i < l THEN l - 1 ELSE l) \in 1 .. z - 1
      BY <1>5, <1>6
    <3> QED  BY <3>1
  <2> HIDE DEF was, q
  <2>7. IsOrdered(q)
    <3>1. \A k \in 1 .. z : s[k] \in H!Entry
      BY EntryFacts
    <3>2. q \in Seq(H!Entry) /\ Len(q) = z - 1
      <4>1. \A k \in 1 .. z - 1 : s[was(k)] \in H!Entry
        BY <2>4, <3>1
      <4>2. z - 1 \in Nat
        BY <1>5, <1>6
      <4> HIDE DEF z
      <4> QED  BY <2>3, <4>1, <4>2
    <3>3. \A k, l \in 1 .. z - 1 : k # l => was(k) # was(l)
      BY <1>6, <2>4, <2>5
    <3>4. \A k \in 1 .. z - 1 : q[k] = s[was(k)]
      BY <2>3
    <3>5. \A k, l \in 1 .. z - 1 : k < l => q[k].count >= q[l].count
      BY <2>4, <2>5, <3>4 DEF IsOrdered
    <3>6. \A k, l \in 1 .. z - 1 : k # l => q[k].topic # q[l].topic
      BY <2>4, <3>3, <3>4 DEF IsOrdered
    <3>7. \A k \in 1 .. z - 1 : q[k].count > 0
      BY <2>4, <3>4 DEF IsOrdered
    <3> QED  BY <3>2, <3>5, <3>6, <3>7 DEF IsOrdered
  <2>8. EntriesOf(q) = OthersOf(s, i)
    <3>1. Len(q) = z - 1 /\ \A k \in 1 .. z - 1 : q[k] = s[was(k)]
      <4>1. z - 1 \in Nat
        BY <1>5, <1>6
      <4> HIDE DEF z
      <4> QED  BY <2>3, <4>1
    <3>2. EntriesOf(q) = {q[k] : k \in 1 .. z - 1}
      BY <3>1 DEF EntriesOf
    <3>3. EntriesOf(q) \subseteq OthersOf(s, i)
      BY <2>4, <3>1, <3>2 DEF OthersOf
    <3>4. OthersOf(s, i) \subseteq EntriesOf(q)
      BY <2>6, <3>1, <3>2 DEF OthersOf
    <3> QED  BY <3>3, <3>4
  <2>9. H!Decreased(s, t, n) = q
    BY <1>2, <1>9, <2>1 DEF q
  <2>10. \A u : H!At(q, u) = IF u = t THEN new ELSE H!At(s, u)
    <3>1. EntriesOf(q) = Beside(s, t)
      BY <1>5, <2>8
    <3> QED  BY <1>9, <2>7, <3>1, OneCut
  <2> QED  BY <2>7, <2>9, <2>10 DEF new
<1> QED  BY <1>1, <1>8, <1>9

\* The cardinality that the instance inherits is the usual one.
LEMMA SameCardinality == \A S_ : H!Cardinality(S_) = Cardinality(S_)
BY DEF H!Cardinality, Cardinality, H!IsFiniteSet, IsFiniteSet

\* Assign takes over the counts: as many entries as there are non-zeros, all
\* different, are all of them.
LEMMA AssignedFacts ==
  ASSUME NEW h \in [H!Topics -> 0 .. MaxInt], NEW q \in H!Sorted(h)
  PROVE  IsOrdered(q) /\ \A u \in H!Topics : H!At(q, u) = h[u]
<1> DEFINE ent(t) == [topic |-> t, count |-> h[t]]
           E == H!Nonzeros(h)
           z == Cardinality(E)
           topicOf == [x \in E |-> x.topic]
<1>0. E = {ent(t) : t \in {u \in H!Topics : h[u] # 0}}
  BY DEF H!Nonzeros
<1>1. \A x \in E : x \in H!Entry /\ x.count > 0 /\ x.topic \in H!Topics /\ x.count = h[x.topic]
  BY <1>0, HistFacts DEF H!Entry
<1>2. \A x, y \in E : x.topic = y.topic => x = y
  BY <1>0
<1>3. q \in [1 .. z -> E] /\ \A i, j \in 1 .. z : i < j => H!Less(q[i], q[j])
  <2> HIDE DEF E
  <2>1. q \in [1 .. z -> E] /\ \A i, j \in DOMAIN q : i < j => H!Less(q[i], q[j])
    BY SameCardinality DEF H!Sorted, E
  <2> QED  BY <2>1
<1>4. \A t \in H!Topics : h[t] # 0 => \E x \in E : x.topic = t
  <2> SUFFICES ASSUME NEW t \in H!Topics, h[t] # 0 PROVE \E x \in E : x.topic = t
    OBVIOUS
  <2>1. ent(t) \in E /\ ent(t).topic = t
    BY <1>0
  <2> QED  BY <2>1
<1> HIDE DEF E
<1>5. topicOf \in Injection(E, H!Topics)
  BY <1>1, <1>2 DEF Injection, IsInjective
<1>6. IsFiniteSet(H!Topics)
  BY FS_Interval, HistFacts
<1>7. IsFiniteSet(E)
  BY <1>5, <1>6, FS_Injection
<1>8. z \in Nat
  BY <1>7, FS_CardinalityType
<1> HIDE DEF z
<1>9. \A i, j \in 1 .. z : i < j => q[i].count >= q[j].count /\ q[i] # q[j]
  <2> SUFFICES ASSUME NEW i \in 1 .. z, NEW j \in 1 .. z, i < j
               PROVE  q[i].count >= q[j].count /\ q[i] # q[j]
    OBVIOUS
  <2>1. H!Less(q[i], q[j]) /\ q[i] \in E /\ q[j] \in E
    BY <1>3
  <2>2. /\ q[i].count \in Int /\ q[j].count \in Int
        /\ q[i].topic \in Int /\ q[j].topic \in Int
    BY <1>1, <2>1, HistFacts DEF H!Entry
  <2> QED  BY <2>1, <2>2 DEF H!Less
<1>10. \A i, j \in 1 .. z : i # j => q[i] # q[j]
  BY <1>8, <1>9
<1>11. q \in Injection(1 .. z, E)
  BY <1>3, <1>10 DEF Injection, IsInjective
<1>12. IsFiniteSet(1 .. z) /\ Cardinality(1 .. z) = z
  BY <1>8, FS_Interval
<1>13. q \in Surjection(1 .. z, E)
  BY <1>7, <1>11, <1>12, FS_Injection DEF z
<1>14. \A x \in E : \E i \in 1 .. z : q[i] = x
  BY <1>13 DEF Surjection
<1>15. q \in Seq(H!Entry) /\ Len(q) = z
  BY <1>1, <1>3, <1>8
<1>16. IsOrdered(q)
  <2>1. \A i, j \in 1 .. z : i # j => q[i].topic # q[j].topic
    BY <1>2, <1>3, <1>10
  <2>2. \A i \in 1 .. z : q[i].count > 0
    BY <1>1, <1>3
  <2> QED  BY <1>9, <1>15, <2>1, <2>2 DEF IsOrdered
<1>17. EntriesOf(q) = E
  BY <1>3, <1>14, <1>15 DEF EntriesOf
<1>18. ASSUME NEW u \in H!Topics PROVE H!At(q, u) = h[u]
  <2>1. CASE \E x \in E : x.topic = u
    BY <1>1, <1>16, <1>17, <2>1, AtOfEntries
  <2>2. CASE \A x \in E : x.topic # u
    BY <1>4, <1>16, <1>17, <2>2, AtOfEntries
  <2> QED  BY <2>1, <2>2
<1> QED  BY <1>16, <1>18

-----------------------------------------------------------------------------
(* OrderedSparse as a state machine. *)

LEMMA Ordered ==
  /\ H!EntriesAreOrdered => IsOrdered(o)
  /\ IsOrdered(o') /\ panicked' \in BOOLEAN => H!EntriesAreOrdered'
BY DEF H!EntriesAreOrdered, IsOrdered

\* The abstract histogram.
Counts == [t \in H!Topics |-> H!At(o, t)]

LEMMA IncStep ==
  ASSUME IsOrdered(o), NEW t \in H!Topics, 1 \in Amounts, H!Inc(t, 1)
  PROVE  /\ IsOrdered(o') /\ panicked' \in BOOLEAN
         /\ \/ Counts[t] + 1 <= MaxInt /\ Counts' = [Counts EXCEPT ![t] = @ + 1] /\ panicked' = FALSE
            \/ Counts[t] + t + 1 >= MaxInt /\ Counts' = Counts /\ panicked' = TRUE
<1>1. H!At(o, t) \in 0 .. MaxInt /\ Counts[t] = H!At(o, t) /\ t \in 0 .. HistTopics - 1
  BY AtOfEntries, HistFacts DEF Counts
<1>2. CASE H!Has(o, t) /\ H!At(o, t) >= MaxInt - t
  <2>1. panicked' = TRUE /\ o' = o
    BY <1>2 DEF H!Inc
  <2>2. Counts' = Counts
    BY <2>1 DEF Counts, H!At, H!Has, H!Find
  <2> QED  BY <1>1, <1>2, <2>1, <2>2, HistFacts
<1>3. CASE ~ (H!Has(o, t) /\ H!At(o, t) >= MaxInt - t)
  <2>1. panicked' = FALSE /\ o' = H!Increased(o, t, 1)
    BY <1>3 DEF H!Inc
  <2>2. H!At(o, t) + 1 <= MaxInt
    <3>1. CASE H!Has(o, t)
      BY <1>1, <1>3, <3>1, HistFacts
    <3>2. CASE ~ H!Has(o, t)
      BY <3>2, NotFound, EntryFacts, HistFacts
    <3> QED  BY <3>1, <3>2
  <2>3. /\ IsOrdered(H!Increased(o, t, 1))
        /\ \A u : H!At(H!Increased(o, t, 1), u) = IF u = t THEN H!At(o, t) + 1 ELSE H!At(o, u)
    BY <2>2, IncreasedFacts
  <2>4. IsOrdered(o') /\ \A u : H!At(o', u) = IF u = t THEN H!At(o, t) + 1 ELSE H!At(o, u)
    BY <2>1, <2>3
  <2>5. Counts' = [u \in H!Topics |-> H!At(o', u)]
    BY DEF Counts
  <2>6. Counts' = [Counts EXCEPT ![t] = @ + 1]
    BY <2>4, <2>5 DEF Counts
  <2> QED  BY <1>1, <2>1, <2>2, <2>4, <2>6
<1> QED  BY <1>2, <1>3

LEMMA DecStep ==
  ASSUME IsOrdered(o), NEW t \in H!Topics, NEW n \in Amounts, H!Dec(t, n)
  PROVE  /\ IsOrdered(o') /\ panicked' \in BOOLEAN
         /\ \/ Counts[t] >= n /\ Counts' = [Counts EXCEPT ![t] = @ - n] /\ panicked' = FALSE
            \/ Counts[t] < n /\ Counts' = Counts /\ panicked' = TRUE
<1>1. H!At(o, t) \in 0 .. MaxInt /\ Counts[t] = H!At(o, t) /\ n \in Nat /\ n > 0
  BY AtOfEntries, HistFacts DEF Counts
<1>2. CASE ~ H!Has(o, t) \/ H!At(o, t) < n
  <2>1. panicked' = TRUE /\ o' = o
    BY <1>2 DEF H!Dec
  <2>2. Counts' = Counts
    BY <2>1 DEF Counts, H!At, H!Has, H!Find
  <2>3. ~ H!Has(o, t) => H!At(o, t) = 0
    BY DEF H!At
  <2>4. H!At(o, t) < n
    BY <1>1, <1>2, <2>3
  <2> QED  BY <1>1, <2>1, <2>2, <2>4
<1>3. CASE ~ (~ H!Has(o, t) \/ H!At(o, t) < n)
  <2>1. panicked' = FALSE /\ o' = H!Decreased(o, t, n)
    BY <1>3 DEF H!Dec
  <2>2. H!Has(o, t) /\ H!At(o, t) >= n
    BY <1>1, <1>3, HistFacts
  <2>3. /\ IsOrdered(H!Decreased(o, t, n))
        /\ \A u : H!At(H!Decreased(o, t, n), u) = IF u = t THEN H!At(o, t) - n ELSE H!At(o, u)
    BY <1>1, <2>2, DecreasedFacts
  <2>4. IsOrdered(o') /\ \A u : H!At(o', u) = IF u = t THEN H!At(o, t) - n ELSE H!At(o, u)
    BY <2>1, <2>3
  <2>5. Counts' = [u \in H!Topics |-> H!At(o', u)]
    BY DEF Counts
  <2>6. Counts' = [Counts EXCEPT ![t] = @ - n]
    BY <2>4, <2>5 DEF Counts
  <2> QED  BY <1>1, <2>1, <2>2, <2>4, <2>6
<1> QED  BY <1>2, <1>3

LEMMA AssignStep ==
  ASSUME NEW h \in [H!Topics -> 0 .. MaxInt], H!Assign(h)
  PROVE  IsOrdered(o') /\ panicked' = FALSE /\ Counts' = h
<1>1. o' \in H!Sorted(h) /\ panicked' = FALSE
  BY DEF H!Assign
<1>2. IsOrdered(o') /\ \A u \in H!Topics : H!At(o', u) = h[u]
  BY <1>1, AssignedFacts
<1>3. Counts' = [u \in H!Topics |-> H!At(o', u)]
  BY DEF Counts
<1> QED  BY <1>1, <1>2, <1>3

\* A call keeps the order, and is one of the abstract histogram.
LEMMA HistStep ==
  ASSUME ByOne, H!EntriesAreOrdered, H!Next
  PROVE  H!EntriesAreOrdered' /\ H!Abstract!Next
<1>0. IsOrdered(o)
  BY Ordered
<1>1. ASSUME NEW t \in H!Topics, NEW n \in Amounts, H!Inc(t, n)
      PROVE  H!EntriesAreOrdered' /\ (H!Abstract!Inc(t, n) \/ H!Abstract!Panic(t, n))
  <2>1. n = 1
    BY DEF ByOne
  <2>2. /\ IsOrdered(o') /\ panicked' \in BOOLEAN
        /\ \/ Counts[t] + 1 <= MaxInt /\ Counts' = [Counts EXCEPT ![t] = @ + 1] /\ panicked' = FALSE
           \/ Counts[t] + t + 1 >= MaxInt /\ Counts' = Counts /\ panicked' = TRUE
    BY <1>1, <1>0, <2>1, IncStep
  <2>3. CASE Counts[t] + 1 <= MaxInt /\ Counts' = [Counts EXCEPT ![t] = @ + 1] /\ panicked' = FALSE
    <3>1. H!Abstract!Inc(t, n)
      BY <2>1, <2>3 DEF H!Abstract!Inc, Counts
    <3> QED  BY <2>2, <3>1, Ordered
  <2>4. CASE Counts[t] + t + 1 >= MaxInt /\ Counts' = Counts /\ panicked' = TRUE
    <3>1. H!Abstract!Panic(t, n)
      BY <2>1, <2>4 DEF H!Abstract!Panic, Counts
    <3> QED  BY <2>2, <3>1, Ordered
  <2> QED  BY <2>2, <2>3, <2>4
<1>2. ASSUME NEW t \in H!Topics, NEW n \in Amounts, H!Dec(t, n)
      PROVE  H!EntriesAreOrdered' /\ (H!Abstract!Dec(t, n) \/ H!Abstract!Panic(t, n))
  <2>1. /\ IsOrdered(o') /\ panicked' \in BOOLEAN
        /\ \/ Counts[t] >= n /\ Counts' = [Counts EXCEPT ![t] = @ - n] /\ panicked' = FALSE
           \/ Counts[t] < n /\ Counts' = Counts /\ panicked' = TRUE
    BY <1>0, <1>2, DecStep
  <2>2. CASE Counts[t] >= n /\ Counts' = [Counts EXCEPT ![t] = @ - n] /\ panicked' = FALSE
    <3>1. H!Abstract!Dec(t, n)
      BY <2>2 DEF H!Abstract!Dec, Counts
    <3> QED  BY <2>1, <3>1, Ordered
  <2>3. CASE Counts[t] < n /\ Counts' = Counts /\ panicked' = TRUE
    <3>1. H!Abstract!Panic(t, n)
      BY <2>3 DEF H!Abstract!Panic, Counts
    <3> QED  BY <2>1, <3>1, Ordered
  <2> QED  BY <2>1, <2>2, <2>3
<1>3. ASSUME NEW h \in Others, H!Assign(h)
      PROVE  H!EntriesAreOrdered' /\ H!Abstract!Assign(h)
  <2>1. IsOrdered(o') /\ panicked' = FALSE /\ Counts' = h
    BY <1>3, AssignStep, HistFacts
  <2>2. H!Abstract!Assign(h)
    BY <2>1 DEF H!Abstract!Assign, Counts
  <2>3. panicked' \in BOOLEAN
    BY <2>1
  <2> QED  BY <2>1, <2>2, <2>3, Ordered
<1>4. ASSUME NEW m \in Others, NEW s \in Others, H!AddDiff(m, s)
      PROVE  H!EntriesAreOrdered' /\ H!Abstract!AddDiff(m, s)
  <2> DEFINE sum_ == [t \in H!Topics |-> H!At(o, t) + m[t] - s[t]]
  <2>1. (\A t \in H!Topics : sum_[t] \in 0 .. MaxInt) /\ H!Assign(sum_)
    BY <1>4 DEF H!AddDiff
  <2>2. sum_ \in [H!Topics -> 0 .. MaxInt]
    BY <2>1
  <2>3. IsOrdered(o') /\ panicked' = FALSE /\ Counts' = sum_
    BY <2>1, <2>2, AssignStep
  <2>4. sum_ = [t \in H!Topics |-> Counts[t] + m[t] - s[t]]
    BY DEF Counts
  <2>5. \A t \in H!Topics : Counts[t] + m[t] - s[t] \in 0 .. MaxInt
    BY <2>1 DEF Counts
  <2> HIDE DEF sum_
  <2>6. H!Abstract!AddDiff(m, s)
    BY <2>3, <2>4, <2>5 DEF H!Abstract!AddDiff, H!Abstract!Assign, H!Abstract!Topics, H!Topics, Counts
  <2>7. panicked' \in BOOLEAN
    BY <2>3
  <2> QED  BY <2>3, <2>6, <2>7, Ordered
<1> QED  BY <1>1, <1>2, <1>3, <1>4
         DEF H!Next, H!Abstract!Next, H!Abstract!Topics, H!Topics

LEMMA HistInit == LibraryInit => H!EntriesAreOrdered /\ H!Abstract!Init
<1> SUFFICES ASSUME LibraryInit PROVE H!EntriesAreOrdered /\ H!Abstract!Init
  OBVIOUS
<1>1. o = <<>> /\ panicked = FALSE
  BY DEF LibraryInit, H!Init
<1>2. H!EntriesAreOrdered
  <2>1. o \in Seq(H!Entry) /\ 1 .. Len(o) = {}
    BY <1>1
  <2> QED  BY <1>1, <2>1 DEF H!EntriesAreOrdered
<1>3. \A t : H!At(o, t) = 0
  BY <1>1 DEF H!At, H!Has
<1>4. H!Abstract!Init
  BY <1>1, <1>3 DEF H!Abstract!Init, H!Abstract!Topics, H!Topics
<1> QED  BY <1>2, <1>4

\* The other parts leave the histogram alone.
LEMMA LibraryHistStep ==
  ASSUME ByOne, H!EntriesAreOrdered, [LibraryNext]_allvars
  PROVE  H!EntriesAreOrdered' /\ [H!Abstract!Next]_<<Counts, panicked>>
<1>1. CASE H!Next
  BY <1>1, HistStep
<1>2. CASE UNCHANGED histogram
  <2>1. o' = o /\ panicked' = panicked
    BY <1>2 DEF histogram
  <2>2. H!EntriesAreOrdered'
    BY <2>1 DEF H!EntriesAreOrdered
  <2>3. UNCHANGED <<Counts, panicked>>
    BY <2>1 DEF Counts, H!At, H!Has, H!Find
  <2> QED  BY <2>2, <2>3
<1>3. H!Next \/ UNCHANGED histogram
  BY DEF LibraryNext, allvars
<1> QED  BY <1>1, <1>2, <1>3

\* Whatever calls are made, each by one: the counts in the histogram of a document
\* descend and are positive, and a topic has one entry (ordered_sparse_histogram.go
\* 9-12), which is what its searches and its cut rely on.
THEOREM EntriesStayOrdered == ByOne => (LibrarySpec => []EntriesAreOrdered)
<1> SUFFICES ASSUME ByOne PROVE LibrarySpec => []EntriesAreOrdered
  OBVIOUS
<1>1. LibraryInit => H!EntriesAreOrdered
  BY HistInit
<1>2. H!EntriesAreOrdered /\ [LibraryNext]_allvars => H!EntriesAreOrdered'
  BY LibraryHistStep
<1>3. H!EntriesAreOrdered <=> EntriesAreOrdered
  BY DEF EntriesAreOrdered
<1> QED  BY <1>1, <1>2, <1>3, PTL DEF LibrarySpec

\* And it is a Hist: an Inc or Dec changes the count of its topic and no other,
\* or panics and changes nothing; Assign and AddDiff give each topic its count.
THEOREM OrderedSparseIsHist == ByOne => (LibrarySpec => IsHist)
<1> SUFFICES ASSUME ByOne PROVE LibrarySpec => IsHist
  OBVIOUS
<1>1. LibraryInit => H!EntriesAreOrdered /\ H!Abstract!Init
  BY HistInit
<1>2. H!EntriesAreOrdered /\ [LibraryNext]_allvars
        => H!EntriesAreOrdered' /\ [H!Abstract!Next]_<<Counts, panicked>>
  BY LibraryHistStep
<1> QED  BY <1>1, <1>2, PTL DEF LibrarySpec, IsHist, H!IsHist, H!Abstract!Spec, Counts

-----------------------------------------------------------------------------
(* Evaluator.  What the model defines: distributions and frequencies. *)

HistsType == hists \in [Words -> {Nil} \cup [Topics -> 0 .. MaxCount]]

LEMMA Finite ==
  /\ IsFiniteSet(Topics) /\ IsFiniteSet(Words)
  /\ Cardinality(Words) = VocabSize
<1>1. NumTopics \in Nat /\ VocabSize \in Nat
  BY EvaluatorAssumption
<1>2. 0 \in Int /\ NumTopics - 1 \in Int /\ VocabSize - 1 \in Int
  BY <1>1
<1>3. /\ IsFiniteSet(0 .. NumTopics - 1) /\ IsFiniteSet(0 .. VocabSize - 1)
      /\ Cardinality(0 .. VocabSize - 1) = IF 0 > VocabSize - 1 THEN 0 ELSE VocabSize - 1 - 0 + 1
  BY <1>2, FS_Interval
<1> QED  BY <1>1, <1>3 DEF Topics, Words

LEMMA CountType ==
  ASSUME HistsType, NEW w \in Words, NEW t \in Topics
  PROVE  Count(w, t) \in Nat /\ (hists[w] = Nil => Count(w, t) = 0)
<1>1. hists[w] \in {Nil} \cup [Topics -> 0 .. MaxCount]
  BY DEF HistsType
<1> QED  BY <1>1 DEF Count

LEMMA TotalType ==
  ASSUME HistsType
  PROVE  /\ \A t \in Topics : N(t) \in Nat
         /\ \A w \in Words : Freq(w) \in Nat
<1>1. ASSUME NEW t \in Topics PROVE N(t) \in Nat
  <2> DEFINE f == [w \in Words |-> Count(w, t)]
  <2>1. \A w \in Words : f[w] \in Nat
    BY CountType
  <2>2. Sum(f) = SumOver(f, Words)
    BY SumIsOver
  <2> HIDE DEF f
  <2>3. Sum(f) \in Nat
    BY <2>1, <2>2, Finite, SumNat
  <2> QED  BY <2>3 DEF N, f
<1>2. ASSUME NEW w \in Words PROVE Freq(w) \in Nat
  <2> DEFINE f == [t \in Topics |-> Count(w, t)]
  <2>1. \A t \in Topics : f[t] \in Nat
    BY CountType
  <2>2. Sum(f) = SumOver(f, Topics)
    BY SumIsOver
  <2> HIDE DEF f
  <2>3. Sum(f) \in Nat
    BY <2>1, <2>2, Finite, SumNat
  <2> QED  BY <2>3 DEF Freq, f
<1> QED  BY <1>1, <1>2

\* A quotient is a natural number when there are words.
LEMMA OverType ==
  ASSUME HistsType, Words # {}, NEW n \in Nat, NEW t \in Topics
  PROVE  Over(n, WordPriorSum + N(t)) \in Nat
<1>1. VocabSize \in Nat /\ VocabSize > 0
  BY EvaluatorAssumption DEF Words
<1>2. WordPriorSum \in Nat /\ WordPriorSum > 0
  BY <1>1, EvaluatorAssumption, SMT DEF WordPriorSum
<1>3. WordPriorSum + N(t) \in Nat \ {0}
  BY <1>2, TotalType
<1>4. Scale * n \in Nat
  BY EvaluatorAssumption, SMT
<1> QED  BY <1>3, <1>4, Division DEF Over

LEMMA PhiType ==
  ASSUME HistsType, NEW w \in Words
  PROVE  Phi(w) \in [Topics -> Nat] /\ Phi(w) # Nil
<1>1. \A t \in Topics : WordPrior + Count(w, t) \in Nat
  BY CountType, EvaluatorAssumption
<1>2. Phi(w) \in [Topics -> Nat]
  BY <1>1, OverType DEF Phi
<1> QED  BY <1>2, EvaluatorAssumption

\* A topic without the word has the smoothing-only part, and that is all of it.
LEMMA PosteriorIsPhi ==
  ASSUME HistsType, NEW w \in Words
  PROVE  cumulatePosterior(SmoothingOnly, w) = Phi(w)
<1>1. ASSUME NEW t \in Topics
      PROVE  cumulatePosterior(SmoothingOnly, w)[t] = Phi(w)[t]
  <2>1. Count(w, t) \in Nat /\ (hists[w] = Nil => Count(w, t) = 0) /\ WordPrior \in Nat
    BY CountType, EvaluatorAssumption
  <2>2. CASE hists[w] # Nil /\ Count(w, t) > 0
    <3>1. Count(w, t) + WordPrior = WordPrior + Count(w, t)
      BY <2>1
    <3> QED  BY <2>2, <3>1 DEF cumulatePosterior, Phi
  <2>3. CASE ~ (hists[w] # Nil /\ Count(w, t) > 0)
    <3>1. WordPrior + Count(w, t) = WordPrior
      BY <2>1, <2>3
    <3> QED  BY <2>3, <3>1 DEF cumulatePosterior, Phi, SmoothingOnly
  <2> QED  BY <2>2, <2>3
<1>2. DOMAIN cumulatePosterior(SmoothingOnly, w) = Topics /\ DOMAIN Phi(w) = Topics
  BY DEF cumulatePosterior, Phi
<1>3. cumulatePosterior(SmoothingOnly, w) = [t \in Topics |-> cumulatePosterior(SmoothingOnly, w)[t]]
  BY DEF cumulatePosterior
<1>4. Phi(w) = [t \in Topics |-> Phi(w)[t]]
  BY DEF Phi
<1> HIDE DEF cumulatePosterior
<1> QED  BY <1>1, <1>3, <1>4

\* All of this depends on the histograms, which the evaluator reads only.
LEMMA SameHists ==
  ASSUME hists' = hists
  PROVE  /\ HistsType => HistsType'
         /\ \A w : Phi(w)' = Phi(w) /\ Freq(w)' = Freq(w) /\ Exact(w)' = Exact(w)
<1>1. \A w : Phi(w)' = Phi(w) /\ Freq(w)' = Freq(w)
  BY DEF Phi, Freq, N, Count
<1>2. \A w : Exact(w)' = Exact(w)
  BY <1>1 DEF Exact
<1> QED  BY <1>1, <1>2 DEF HistsType

-----------------------------------------------------------------------------
(* Evaluator: the invariant. *)

EvaluatorType ==
  /\ HistsType /\ cached \in Int
  /\ todo \in 0 .. VocabSize /\ heap \in SUBSET Words
  /\ phase \in {"scan", "fill", "evaluate"}
  /\ dists \in [Words -> {Nil} \cup [Topics -> Nat]]
  /\ smoothing \in [len : BOOLEAN, array : BOOLEAN]
  /\ reader \in [Goroutines -> [pc : {"idle", "got", "check", "store", "storeLen",
                                     "storeArray", "copy", "crashed"},
                                word : Words \cup {0}, dist : {Nil} \cup [Topics -> Nat]]]
  /\ \A g \in Goroutines : reader[g].pc # "idle" => phase = "evaluate" /\ reader[g].word \in Words

\* The words with a distribution.
Kept == {w \in Words : dists[w] # Nil}

\* The words in T are the most frequent of those in A, as many as the cache has
\* memory for.
AreTop(T, A) ==
  /\ T \subseteq A
  /\ Cardinality(T) = IF cached <= 0 THEN 0
                      ELSE IF cached < Cardinality(A) THEN cached ELSE Cardinality(A)
  /\ \A w \in T, x \in A \ T : Freq(w) >= Freq(x)

\* While words are scanned the heap has the most frequent so far; then they are
\* in the heap or have their distributions already.
TopWordsKept ==
  /\ phase = "scan" => Kept = {} /\ AreTop(heap, 0 .. todo - 1)
  /\ phase = "fill" => AreTop(heap \cup Kept, Words)
  /\ phase = "evaluate" => AreTop(Kept, Words)

\* With memory for a word there is one in the heap until the smoothing-only part
\* is there, and that is before any goroutine looks for it.
SmoothingInTime ==
  cached > 0 =>
    /\ Words # {} => /\ phase = "scan" /\ todo > 0 => heap # {}
                     /\ phase = "fill" => heap # {} \/ (smoothing.len /\ smoothing.array)
                     /\ phase = "evaluate" => smoothing.len /\ smoothing.array
    /\ \A g \in Goroutines : reader[g].pc \in {"idle", "got", "check", "copy"}

EvaluatorInv == EvaluatorType /\ DistsArePosteriors /\ CoefficientIsExact

LEMMA InitEvaluator ==
  ASSUME Init PROVE EvaluatorInv /\ TopWordsKept /\ SmoothingInTime
<1>1. /\ hists \in [Words -> {Nil} \cup [Topics -> 0 .. MaxCount]]
      /\ todo = 0 /\ heap = {} /\ phase = "scan" /\ dists = [w \in Words |-> Nil]
      /\ smoothing = [len |-> FALSE, array |-> FALSE] /\ cached \in Int
      /\ reader = [g \in Goroutines |-> [pc |-> "idle", word |-> 0, dist |-> Nil]]
  BY EvaluatorAssumption DEF Init
<1>2. EvaluatorType
  BY <1>1, EvaluatorAssumption DEF EvaluatorType, HistsType
<1>3. DistsArePosteriors /\ CoefficientIsExact
  BY <1>1 DEF DistsArePosteriors, CoefficientIsExact
<1>4. TopWordsKept
  <2>1. Kept = {} /\ 0 .. todo - 1 = {} /\ heap = {}
    BY <1>1 DEF Kept
  <2>2. Cardinality({}) = 0
    BY FS_EmptySet
  <2> QED  BY <1>1, <2>1, <2>2 DEF TopWordsKept, AreTop
<1>5. SmoothingInTime
  BY <1>1 DEF SmoothingInTime
<1> QED  BY <1>2, <1>3, <1>4, <1>5 DEF EvaluatorInv

\* Distributions and coefficients are right, whoever computes them.
LEMMA StepEvaluator == ASSUME EvaluatorInv, Next PROVE EvaluatorInv'
<1> USE DEF given
<1>0. EvaluatorType /\ DistsArePosteriors /\ CoefficientIsExact /\ HistsType
  BY DEF EvaluatorInv, EvaluatorType
<1>1. hists' = hists /\ cached' = cached /\ sampler' = sampler
  BY DEF Next, ScanWord, ScanEnds, FillWord, NewEvaluator, Get, CheckSmoothing,
         StoreSmoothing, CopySmoothing
<1>2. HistsType' /\ \A w : Phi(w)' = Phi(w) /\ Exact(w)' = Exact(w)
  BY <1>0, <1>1, SameHists
<1>3. CASE ScanWord \/ ScanEnds
  <2>a. /\ phase' \in {"scan", "fill"} /\ phase = "scan"
        /\ dists' = dists /\ smoothing' = smoothing /\ reader' = reader
    BY <1>0, <1>3 DEF ScanWord, ScanEnds
  <2>b. /\ VocabSize \in Nat /\ todo \in 0 .. VocabSize /\ heap \subseteq Words
        /\ todo < VocabSize => todo \in Words
    BY <1>0, EvaluatorAssumption DEF EvaluatorType, Words
  <2>c. todo' \in 0 .. VocabSize /\ heap' \in SUBSET Words
    <3>1. CASE ScanEnds
      BY <2>b, <3>1 DEF ScanEnds
    <3>2. CASE ScanWord
      <4>1. todo' = todo + 1 /\ todo < VocabSize
        BY <3>2 DEF ScanWord
      <4>2. heap' \subseteq heap \cup {todo}
        BY <3>2 DEF ScanWord
      <4> QED  BY <2>b, <4>1, <4>2
    <3> QED  BY <1>3, <3>1, <3>2
  <2>1. /\ todo' \in 0 .. VocabSize /\ heap' \in SUBSET Words
        /\ phase' \in {"scan", "fill", "evaluate"} /\ phase' # "evaluate"
        /\ phase # "evaluate"
        /\ dists' = dists /\ smoothing' = smoothing /\ reader' = reader
    BY <2>a, <2>c
  <2>2. EvaluatorType'
    BY <1>0, <1>1, <1>2, <2>1 DEF EvaluatorType
  <2>3. DistsArePosteriors'
    BY <1>0, <1>2, <2>1 DEF DistsArePosteriors
  <2>4. CoefficientIsExact'
    BY <2>1 DEF CoefficientIsExact
  <2> QED  BY <2>2, <2>3, <2>4 DEF EvaluatorInv
<1>4. CASE FillWord
  <2>1. PICK w \in Least : /\ heap' = heap \ {w}
                           /\ dists' = [dists EXCEPT ![w] = cumulatePosterior(SmoothingOnly, w)]
    BY <1>4 DEF FillWord
  <2>2. w \in Words
    BY <1>0 DEF Least, EvaluatorType
  <2>3. dists' = [dists EXCEPT ![w] = Phi(w)] /\ Phi(w) \in [Topics -> Nat]
    BY <1>0, <2>1, <2>2, PosteriorIsPhi, PhiType
  <2>4. /\ todo' = todo /\ phase' = phase /\ phase = "fill" /\ reader' = reader
        /\ smoothing' = [len |-> TRUE, array |-> TRUE]
    BY <1>4 DEF FillWord
  <2>5. EvaluatorType'
    BY <1>0, <1>1, <1>2, <2>1, <2>2, <2>3, <2>4 DEF EvaluatorType
  <2>6. DistsArePosteriors'
    <3>1. \A x \in Words : dists'[x] # Nil => dists'[x] = Phi(x)
      BY <1>0, <2>2, <2>3 DEF DistsArePosteriors, EvaluatorType
    <3> QED  BY <1>0, <1>2, <2>4, <3>1 DEF DistsArePosteriors
  <2>7. CoefficientIsExact'
    BY <2>4 DEF CoefficientIsExact
  <2> QED  BY <2>5, <2>6, <2>7 DEF EvaluatorInv
<1>5. CASE NewEvaluator
  <2>1. /\ todo' = todo /\ heap' = heap /\ dists' = dists /\ reader' = reader
        /\ phase' = "evaluate" /\ phase = "fill"
        /\ \/ smoothing' = [len |-> TRUE, array |-> TRUE]
           \/ smoothing' = smoothing
        /\ coeff' = [w \in Words |-> IF hists[w] = Nil THEN 0
                                     ELSE IF sampler THEN CoeffOfSampler(w)
                                     ELSE CoeffOfDist(w)]
    BY <1>5 DEF NewEvaluator
  <2>a. smoothing' \in [len : BOOLEAN, array : BOOLEAN]
    <3>1. smoothing \in [len : BOOLEAN, array : BOOLEAN]
      BY <1>0 DEF EvaluatorType
    <3>2. [len |-> TRUE, array |-> TRUE] \in [len : BOOLEAN, array : BOOLEAN]
      OBVIOUS
    <3> QED  BY <2>1, <3>1, <3>2, Zenon
  <2>b. /\ todo' \in 0 .. VocabSize /\ heap' \in SUBSET Words
        /\ dists' \in [Words -> {Nil} \cup [Topics -> Nat]]
    BY <1>0, <2>1 DEF EvaluatorType
  <2>c. \A g \in Goroutines : reader'[g].pc # "idle" => phase' = "evaluate" /\ reader'[g].word \in Words
    BY <1>0, <2>1 DEF EvaluatorType
  <2>d. reader' \in [Goroutines -> [pc : {"idle", "got", "check", "store", "storeLen",
                                          "storeArray", "copy", "crashed"},
                                    word : Words \cup {0}, dist : {Nil} \cup [Topics -> Nat]]]
    BY <1>0, <2>1 DEF EvaluatorType
  <2>2. EvaluatorType'
    BY <1>0, <1>1, <1>2, <2>1, <2>a, <2>b, <2>c, <2>d DEF EvaluatorType
  <2>3. DistsArePosteriors'
    BY <1>0, <1>2, <2>1 DEF DistsArePosteriors
  <2>4. CoefficientIsExact'
    <3>1. ASSUME NEW w \in Words PROVE CoeffOfDist(w) = Exact(w)
      <4>1. WordTopicDist(w) = Phi(w)
        BY <1>0, PosteriorIsPhi DEF WordTopicDist, DistsArePosteriors
      <4> QED  BY <4>1 DEF CoeffOfDist, Exact
    <3>2. ~ sampler => \A w \in Words : hists[w] # Nil => coeff'[w] = Exact(w)
      BY <2>1, <3>1
    <3> QED  BY <1>1, <1>2, <3>2 DEF CoefficientIsExact
  <2> QED  BY <2>2, <2>3, <2>4 DEF EvaluatorInv
<1>6. ASSUME NEW g \in Goroutines,
             (\E w \in Words : Get(g, w)) \/ CheckSmoothing(g) \/ StoreSmoothing(g)
               \/ CopySmoothing(g)
      PROVE  EvaluatorInv'
  <2> DEFINE Reads == [pc : {"idle", "got", "check", "store", "storeLen",
                             "storeArray", "copy", "crashed"},
                       word : Words \cup {0}, dist : {Nil} \cup [Topics -> Nat]]
  <2>1. /\ todo' = todo /\ heap' = heap /\ dists' = dists /\ phase' = phase /\ coeff' = coeff
    BY <1>6 DEF Get, CheckSmoothing, StoreSmoothing, CopySmoothing
  <2>2. smoothing' \in [len : BOOLEAN, array : BOOLEAN]
    BY <1>0, <1>6 DEF Get, CheckSmoothing, StoreSmoothing, CopySmoothing, EvaluatorType
  <2>3. \E r \in Reads : /\ reader' = [reader EXCEPT ![g] = r]
                         /\ r.word \in Words /\ phase = "evaluate"
                         /\ r.pc = "got" => r.dist = Phi(r.word)
    <3>1. reader \in [Goroutines -> Reads]
      BY <1>0 DEF EvaluatorType
    <3>2. CASE \E w \in Words : Get(g, w)
      <4>1. PICK w \in Words : Get(g, w)
        BY <3>2
      <4> DEFINE r == IF dists[w] # Nil THEN [pc |-> "got", word |-> w, dist |-> dists[w]]
                      ELSE [pc |-> "check", word |-> w, dist |-> Nil]
      <4>2. reader' = [reader EXCEPT ![g] = r] /\ phase = "evaluate"
        BY <4>1 DEF Get
      <4>3. dists[w] \in {Nil} \cup [Topics -> Nat]
        BY <1>0 DEF EvaluatorType
      <4>4. r \in Reads /\ r.word = w /\ (r.pc = "got" => r.dist = Phi(w))
        BY <1>0, <4>3 DEF DistsArePosteriors
      <4> QED  BY <4>2, <4>4
    <3>3. CASE ~ \E w \in Words : Get(g, w)
      <4>1. reader[g].pc \in {"check", "store", "storeLen", "storeArray", "copy"}
        BY <1>6, <3>3 DEF CheckSmoothing, StoreSmoothing, CopySmoothing
      <4>2. phase = "evaluate" /\ reader[g].word \in Words /\ reader[g] \in Reads
        BY <1>0, <3>1, <4>1 DEF EvaluatorType
      <4>3. CASE CopySmoothing(g) /\ smoothing.array
        <5> DEFINE r == [pc |-> "got", word |-> reader[g].word, dist |-> Phi(reader[g].word)]
        <5>1. reader' = [reader EXCEPT ![g] = r]
          BY <1>0, <4>2, <4>3, PosteriorIsPhi DEF CopySmoothing
        <5>2. r \in Reads
          BY <1>0, <4>2, PhiType
        <5> QED  BY <4>2, <5>1, <5>2
      <4>4. CASE ~ (CopySmoothing(g) /\ smoothing.array)
        <5>1. PICK p \in {"check", "store", "storeLen", "storeArray", "copy", "crashed"} :
                reader' = [reader EXCEPT ![g].pc = p]
          BY <1>6, <3>3, <4>4 DEF CheckSmoothing, StoreSmoothing, CopySmoothing
        <5> DEFINE r == [reader[g] EXCEPT !.pc = p]
        <5>2. r \in Reads /\ r.word = reader[g].word /\ r.pc # "got"
          BY <4>2
        <5> QED  BY <4>2, <5>1, <5>2
      <4> QED  BY <4>3, <4>4
    <3> QED  BY <3>2, <3>3
  <2>4. PICK r \in Reads : /\ reader' = [reader EXCEPT ![g] = r]
                           /\ r.word \in Words /\ phase = "evaluate"
                           /\ r.pc = "got" => r.dist = Phi(r.word)
    BY <2>3
  <2>5. EvaluatorType'
    BY <1>0, <1>1, <1>2, <2>1, <2>2, <2>4 DEF EvaluatorType
  <2>6. DistsArePosteriors'
    <3>1. \A k \in Goroutines : reader'[k].pc = "got" => reader'[k].dist = Phi(reader'[k].word)
      BY <1>0, <2>4 DEF DistsArePosteriors, EvaluatorType
    <3> QED  BY <1>0, <1>2, <2>1, <3>1 DEF DistsArePosteriors
  <2>7. CoefficientIsExact'
    BY <1>0, <1>1, <1>2, <2>1 DEF CoefficientIsExact
  <2> QED  BY <2>5, <2>6, <2>7 DEF EvaluatorInv
<1> QED  BY <1>3, <1>4, <1>5, <1>6 DEF Next

\* The smoothing-only part is there in time.
LEMMA StepSmoothing ==
  ASSUME EvaluatorInv, SmoothingInTime, Next PROVE SmoothingInTime'
<1> USE DEF given
<1>0. EvaluatorType
  BY DEF EvaluatorInv
<1>1. cached' = cached /\ cached \in Int
  BY <1>0 DEF Next, ScanWord, ScanEnds, FillWord, NewEvaluator, Get, CheckSmoothing,
         StoreSmoothing, CopySmoothing, EvaluatorType
<1> SUFFICES ASSUME cached > 0
    PROVE  /\ Words # {} => /\ phase' = "scan" /\ todo' > 0 => heap' # {}
                            /\ phase' = "fill" => heap' # {} \/ (smoothing'.len /\ smoothing'.array)
                            /\ phase' = "evaluate" => smoothing'.len /\ smoothing'.array
           /\ \A g \in Goroutines : reader'[g].pc \in {"idle", "got", "check", "copy"}
  BY <1>1 DEF SmoothingInTime
<1>2. /\ Words # {} => /\ phase = "scan" /\ todo > 0 => heap # {}
                       /\ phase = "fill" => heap # {} \/ (smoothing.len /\ smoothing.array)
                       /\ phase = "evaluate" => smoothing.len /\ smoothing.array
      /\ \A g \in Goroutines : reader[g].pc \in {"idle", "got", "check", "copy"}
  BY DEF SmoothingInTime
<1>3. CASE ScanWord
  <2>1. heap' # {}
    BY <1>1, <1>3 DEF ScanWord, Least
  <2> QED  BY <1>2, <1>3, <2>1 DEF ScanWord
<1>4. CASE ScanEnds
  <2>1. Words # {} => todo > 0
    BY <1>4, EvaluatorAssumption DEF ScanEnds, Words
  <2> QED  BY <1>2, <1>4, <2>1 DEF ScanEnds
<1>5. CASE FillWord
  BY <1>2, <1>5 DEF FillWord
<1>6. CASE NewEvaluator
  BY <1>2, <1>6 DEF NewEvaluator
<1>7. ASSUME NEW g \in Goroutines,
             (\E w \in Words : Get(g, w)) \/ CheckSmoothing(g) \/ StoreSmoothing(g)
               \/ CopySmoothing(g)
      PROVE  /\ todo' = todo /\ heap' = heap /\ phase' = phase /\ smoothing' = smoothing
             /\ \A h \in Goroutines : reader'[h].pc \in {"idle", "got", "check", "copy"}
  <2>1. ~ StoreSmoothing(g)
    BY <1>2 DEF StoreSmoothing
  <2>2. /\ todo' = todo /\ heap' = heap /\ phase' = phase /\ smoothing' = smoothing
    BY <1>7, <2>1 DEF Get, CheckSmoothing, CopySmoothing
  <2>3. reader[g].pc \in {"check", "copy"} => smoothing.len /\ smoothing.array
    BY <1>0, <1>2 DEF EvaluatorType
  <2>4. /\ \A h \in Goroutines \ {g} : reader'[h] = reader[h]
        /\ reader'[g].pc \in {"idle", "got", "check", "copy"}
    <3>1. CASE \E w \in Words : Get(g, w)
      BY <1>0, <3>1 DEF Get, EvaluatorType
    <3>2. CASE CheckSmoothing(g)
      BY <1>0, <2>3, <3>2 DEF CheckSmoothing, EvaluatorType
    <3>3. CASE CopySmoothing(g)
      BY <1>0, <2>3, <3>3 DEF CopySmoothing, EvaluatorType
    <3> QED  BY <1>7, <2>1, <3>1, <3>2, <3>3
  <2> QED  BY <1>2, <2>2, <2>4
<1>8. CASE \E g \in Goroutines : (\E w \in Words : Get(g, w)) \/ CheckSmoothing(g)
                                  \/ StoreSmoothing(g) \/ CopySmoothing(g)
  BY <1>2, <1>7, <1>8
<1> QED  BY <1>3, <1>4, <1>5, <1>6, <1>8 DEF Next

\* One more word is looked at.
LEMMA OneMoreWord ==
  ASSUME HistsType, cached \in Int, NEW T, NEW k \in Words, AreTop(T, 0 .. k - 1)
  PROVE  /\ Cardinality(T) < cached => AreTop(T \cup {k}, 0 .. k)
         /\ cached <= 0 => AreTop(T, 0 .. k)
         /\ cached > 0 /\ Cardinality(T) >= cached =>
              \A w \in T : (\A x \in T : Freq(w) <= Freq(x)) =>
                IF Freq(k) > Freq(w) THEN AreTop((T \ {w}) \cup {k}, 0 .. k)
                ELSE AreTop(T, 0 .. k)
<1> DEFINE A == 0 .. k - 1
           B == 0 .. k
<1>0. k \in Nat /\ VocabSize \in Nat /\ k < VocabSize
  BY EvaluatorAssumption DEF Words
<1>1. /\ B = A \cup {k} /\ k \notin A /\ A \subseteq Words /\ B \subseteq Words
  BY <1>0 DEF Words
<1>2. \A w \in Words : Freq(w) \in Nat
  BY TotalType
<1>3. /\ T \subseteq A
      /\ Cardinality(T) = IF cached <= 0 THEN 0
                          ELSE IF cached < Cardinality(A) THEN cached ELSE Cardinality(A)
      /\ \A w \in T, x \in A \ T : Freq(w) >= Freq(x)
  BY DEF AreTop
<1>4. SUFFICES /\ Cardinality(T) < cached => AreTop(T \cup {k}, B)
               /\ cached <= 0 => AreTop(T, B)
               /\ cached > 0 /\ Cardinality(T) >= cached =>
                    \A w \in T : (\A x \in T : Freq(w) <= Freq(x)) =>
                      IF Freq(k) > Freq(w) THEN AreTop((T \ {w}) \cup {k}, B)
                      ELSE AreTop(T, B)
  OBVIOUS
<1> HIDE DEF A, B
<1>5. IsFiniteSet(A) /\ IsFiniteSet(T) /\ Cardinality(A) \in Nat /\ Cardinality(T) \in Nat
      /\ (Cardinality(A) = Cardinality(T) => A = T) /\ Cardinality(T) <= Cardinality(A)
  <2>1. IsFiniteSet(A)
    BY <1>1, Finite, FS_Subset
  <2>2. IsFiniteSet(T) /\ (Cardinality(A) = Cardinality(T) => A = T)
        /\ Cardinality(T) <= Cardinality(A)
    BY <1>3, <2>1, FS_Subset
  <2> QED  BY <2>1, <2>2, FS_CardinalityType
<1>6. Cardinality(B) = Cardinality(A) + 1
  BY <1>1, <1>5, FS_AddElement
<1>7. Cardinality(T) < cached => AreTop(T \cup {k}, B)
  <2> SUFFICES ASSUME Cardinality(T) < cached PROVE AreTop(T \cup {k}, B)
    OBVIOUS
  <2>1. Cardinality(T) = Cardinality(A) /\ cached > 0
    BY <1>3, <1>5
  <2>2. T \cup {k} = B
    BY <1>1, <1>5, <2>1
  <2>3. Cardinality(B) <= cached
    BY <1>5, <1>6, <2>1
  <2>4. Cardinality(B) = IF cached <= 0 THEN 0
                         ELSE IF cached < Cardinality(B) THEN cached ELSE Cardinality(B)
    BY <1>5, <1>6, <2>1, <2>3
  <2> QED  BY <2>2, <2>4 DEF AreTop
<1>8. cached <= 0 => AreTop(T, B)
  <2> SUFFICES ASSUME cached <= 0 PROVE AreTop(T, B)
    OBVIOUS
  <2>1. Cardinality(T) = 0
    BY <1>3
  <2>2. T = {}
    BY <1>5, <2>1, FS_EmptySet
  <2> QED  BY <2>1, <2>2 DEF AreTop
<1>9. cached > 0 /\ Cardinality(T) >= cached =>
        \A w \in T : (\A x \in T : Freq(w) <= Freq(x)) =>
          IF Freq(k) > Freq(w) THEN AreTop((T \ {w}) \cup {k}, B) ELSE AreTop(T, B)
  <2> SUFFICES ASSUME cached > 0, Cardinality(T) >= cached, NEW w \in T,
                      \A x \in T : Freq(w) <= Freq(x)
               PROVE  IF Freq(k) > Freq(w) THEN AreTop((T \ {w}) \cup {k}, B) ELSE AreTop(T, B)
    OBVIOUS
  <2>1. Cardinality(T) = cached /\ cached <= Cardinality(A)
    BY <1>3, <1>5
  <2>2. cached = IF cached <= 0 THEN 0
                 ELSE IF cached < Cardinality(B) THEN cached ELSE Cardinality(B)
    BY <1>5, <1>6, <2>1
  <2>3. \A x \in A \cup {k} : Freq(x) \in Nat
    BY <1>0, <1>1, <1>2
  <2>4. CASE Freq(k) > Freq(w)
    <3> DEFINE R == T \ {w}
               U == R \cup {k}
    <3>1. IsFiniteSet(R) /\ Cardinality(R) = cached - 1
      BY <1>5, <2>1, FS_RemoveElement
    <3>2. k \notin R
      BY <1>1, <1>3
    <3>3. Cardinality(U) = cached - 1 + 1
      BY <3>1, <3>2, FS_AddElement
    <3>4. Cardinality(U) = cached
      BY <1>5, <2>1, <3>3
    <3>5. U \subseteq B
      BY <1>1, <1>3
    <3>6. ASSUME NEW y \in U, NEW x \in B \ U PROVE Freq(y) >= Freq(x)
      <4>1. x \in A /\ (x \in T => x = w)
        BY <1>1
      <4>2. Freq(x) \in Nat /\ Freq(w) \in Nat /\ Freq(k) \in Nat
        BY <1>3, <2>3, <4>1
      <4>3. Freq(w) >= Freq(x)
        BY <1>3, <4>1, <4>2
      <4>4. CASE y = k
        BY <2>4, <4>2, <4>3, <4>4
      <4>5. CASE y \in T /\ y # w
        <5>1. Freq(y) \in Nat /\ Freq(w) <= Freq(y)
          BY <1>3, <2>3, <4>5
        <5> QED  BY <4>2, <4>3, <5>1
      <4> QED  BY <4>4, <4>5
    <3>7. AreTop(U, B)
      <4> HIDE DEF U
      <4> QED  BY <2>2, <3>4, <3>5, <3>6 DEF AreTop
    <3> QED  BY <2>4, <3>7
  <2>5. CASE ~ (Freq(k) > Freq(w))
    <3>1. ASSUME NEW y \in T, NEW x \in B \ T PROVE Freq(y) >= Freq(x)
      <4>1. /\ Freq(x) \in Nat /\ Freq(w) \in Nat /\ Freq(k) \in Nat /\ Freq(y) \in Nat
        BY <1>1, <1>3, <2>3
      <4>2. x \in A \/ x = k
        BY <1>1
      <4>3. CASE x \in A
        BY <1>3, <4>3
      <4>4. CASE x = k
        BY <2>5, <4>1, <4>4
      <4> QED  BY <4>2, <4>3, <4>4
    <3>2. T \subseteq B
      BY <1>1, <1>3
    <3>3. AreTop(T, B)
      BY <2>1, <2>2, <3>1, <3>2 DEF AreTop
    <3> QED  BY <2>5, <3>3
  <2> QED  BY <2>4, <2>5
<1> QED  BY <1>7, <1>8, <1>9

\* The words in the heap, and then those with a distribution, are the most frequent.
LEMMA StepTop ==
  ASSUME EvaluatorInv, TopWordsKept, Next PROVE TopWordsKept'
<1> USE DEF given
<1>0. EvaluatorType /\ HistsType /\ cached \in Int
  BY DEF EvaluatorInv, EvaluatorType
<1>1. hists' = hists /\ cached' = cached
  BY DEF Next, ScanWord, ScanEnds, FillWord, NewEvaluator, Get, CheckSmoothing,
         StoreSmoothing, CopySmoothing
<1>2. \A w : Freq(w)' = Freq(w)
  BY <1>1, SameHists
<1>3. CASE ScanWord
  <2>1. /\ phase = "scan" /\ phase' = "scan" /\ todo' = todo + 1 /\ dists' = dists
        /\ todo < VocabSize
    BY <1>3 DEF ScanWord
  <2>2. todo \in Words /\ todo \in Nat
    BY <1>0, <2>1, EvaluatorAssumption DEF EvaluatorType, Words
  <2>3. Kept' = {} /\ AreTop(heap, 0 .. todo - 1)
    BY <2>1 DEF TopWordsKept, Kept
  <2>4. /\ Cardinality(heap) < cached => AreTop(heap \cup {todo}, 0 .. todo)
        /\ cached <= 0 => AreTop(heap, 0 .. todo)
        /\ cached > 0 /\ Cardinality(heap) >= cached =>
             \A w \in heap : (\A x \in heap : Freq(w) <= Freq(x)) =>
               IF Freq(todo) > Freq(w) THEN AreTop((heap \ {w}) \cup {todo}, 0 .. todo)
               ELSE AreTop(heap, 0 .. todo)
    BY <1>0, <2>2, <2>3, OneMoreWord
  <2>5. AreTop(heap', 0 .. todo)
    <3>1. CASE Cardinality(heap) < cached /\ heap' = heap \cup {todo}
      BY <2>4, <3>1
    <3>2. CASE /\ cached > 0 /\ Cardinality(heap) >= cached
               /\ \E w \in Least : heap' = IF Freq(todo) > Freq(w)
                                           THEN (heap \ {w}) \cup {todo} ELSE heap
      <4>1. PICK w \in Least : heap' = IF Freq(todo) > Freq(w)
                                       THEN (heap \ {w}) \cup {todo} ELSE heap
        BY <3>2
      <4>2. w \in heap /\ \A x \in heap : Freq(w) <= Freq(x)
        BY DEF Least
      <4>3. IF Freq(todo) > Freq(w) THEN AreTop((heap \ {w}) \cup {todo}, 0 .. todo)
            ELSE AreTop(heap, 0 .. todo)
        BY <2>4, <3>2, <4>2
      <4> QED  BY <4>1, <4>3
    <3>3. CASE cached <= 0 /\ heap' = heap
      BY <2>4, <3>3
    <3> QED  BY <1>3, <3>1, <3>2, <3>3 DEF ScanWord
  <2>6. 0 .. todo' - 1 = 0 .. todo
    BY <2>1, <2>2
  <2>7. AreTop(heap, 0 .. todo - 1)'
    <3>1. /\ heap' \subseteq 0 .. todo' - 1
          /\ Cardinality(heap') = IF cached' <= 0 THEN 0
                                  ELSE IF cached' < Cardinality(0 .. todo' - 1)
                                       THEN cached' ELSE Cardinality(0 .. todo' - 1)
      BY <1>1, <2>5, <2>6 DEF AreTop
    <3>2. \A w \in heap', x \in (0 .. todo' - 1) \ heap' : Freq(w)' >= Freq(x)'
      BY <1>2, <2>5, <2>6 DEF AreTop
    <3> QED  BY <3>1, <3>2 DEF AreTop
  <2> QED  BY <2>1, <2>3, <2>7 DEF TopWordsKept
<1>4. CASE ScanEnds
  <2>1. /\ phase = "scan" /\ phase' = "fill" /\ heap' = heap /\ dists' = dists
        /\ 0 .. todo - 1 = Words
    BY <1>4 DEF ScanEnds, Words
  <2>2. Kept' = {} /\ AreTop(heap, Words)
    BY <2>1 DEF TopWordsKept, Kept
  <2>3. heap' \cup Kept' = heap
    BY <2>1, <2>2
  <2>4. AreTop(heap \cup Kept, Words)'
    BY <1>1, <1>2, <2>2, <2>3 DEF AreTop
  <2> QED  BY <2>1, <2>4 DEF TopWordsKept
<1>5. CASE FillWord
  <2>1. PICK w \in Least : /\ heap' = heap \ {w}
                           /\ dists' = [dists EXCEPT ![w] = cumulatePosterior(SmoothingOnly, w)]
    BY <1>5 DEF FillWord
  <2>2. w \in Words /\ w \in heap
    BY <1>0 DEF Least, EvaluatorType
  <2>3. dists' = [dists EXCEPT ![w] = Phi(w)] /\ Phi(w) # Nil
    BY <1>0, <2>1, <2>2, PosteriorIsPhi, PhiType
  <2>4. phase = "fill" /\ phase' = "fill"
    BY <1>5 DEF FillWord
  <2>5. Kept' = Kept \cup {w}
    BY <1>0, <2>2, <2>3 DEF Kept, EvaluatorType
  <2>6. heap' \cup Kept' = heap \cup Kept
    BY <2>1, <2>2, <2>5
  <2>7. AreTop(heap \cup Kept, Words)
    BY <2>4 DEF TopWordsKept
  <2>8. AreTop(heap \cup Kept, Words)'
    BY <1>1, <1>2, <2>6, <2>7 DEF AreTop
  <2> QED  BY <2>4, <2>8 DEF TopWordsKept
<1>6. CASE NewEvaluator
  <2>1. phase = "fill" /\ heap = {} /\ phase' = "evaluate" /\ dists' = dists
    BY <1>6 DEF NewEvaluator
  <2>2. AreTop(Kept, Words) /\ Kept' = Kept
    BY <2>1 DEF TopWordsKept, Kept
  <2>3. AreTop(Kept, Words)'
    BY <1>1, <1>2, <2>2 DEF AreTop
  <2> QED  BY <2>1, <2>3 DEF TopWordsKept
<1>7. CASE \E g \in Goroutines : (\E w \in Words : Get(g, w)) \/ CheckSmoothing(g)
                                  \/ StoreSmoothing(g) \/ CopySmoothing(g)
  <2>1. phase = "evaluate" /\ phase' = phase /\ dists' = dists
    BY <1>0, <1>7 DEF Get, CheckSmoothing, StoreSmoothing, CopySmoothing, EvaluatorType
  <2>2. AreTop(Kept, Words) /\ Kept' = Kept
    BY <2>1 DEF TopWordsKept, Kept
  <2>3. AreTop(Kept, Words)'
    BY <1>1, <1>2, <2>2 DEF AreTop
  <2> QED  BY <2>1, <2>3 DEF TopWordsKept
<1> QED  BY <1>3, <1>4, <1>5, <1>6, <1>7 DEF Next

\* The parts of the library do not disturb each other.
LEMMA LibraryEvaluatorStep ==
  [LibraryNext]_allvars => Next \/ UNCHANGED vars
BY DEF LibraryNext, allvars

LEMMA LibraryEvaluatorInit == LibraryInit => Init
<1> SUFFICES ASSUME LibraryInit PROVE Init
  OBVIOUS
<1>1. CASE part = "evaluator"
  BY <1>1 DEF LibraryInit
<1>2. CASE part # "evaluator"
  BY <1>2 DEF LibraryInit, IdleEvaluator
<1> QED  BY <1>1, <1>2

EvaluatorIsRight == EvaluatorInv /\ TopWordsKept /\ SmoothingInTime

LEMMA LibraryEvaluatorInv == LibrarySpec => []EvaluatorIsRight
<1>1. LibraryInit => EvaluatorIsRight
  BY LibraryEvaluatorInit, InitEvaluator DEF EvaluatorIsRight
<1>2. EvaluatorIsRight /\ [LibraryNext]_allvars => EvaluatorIsRight'
  <2> SUFFICES ASSUME EvaluatorIsRight, [LibraryNext]_allvars PROVE EvaluatorIsRight'
    OBVIOUS
  <2>1. CASE Next
    BY <2>1, StepEvaluator, StepTop, StepSmoothing DEF EvaluatorIsRight
  <2>2. CASE UNCHANGED vars
    <3>1. /\ cached' = cached /\ sampler' = sampler /\ hists' = hists /\ todo' = todo
          /\ heap' = heap /\ phase' = phase /\ dists' = dists
          /\ smoothing' = smoothing /\ coeff' = coeff /\ reader' = reader
      BY <2>2 DEF vars, given
    <3>2. /\ \A w : Phi(w)' = Phi(w) /\ Freq(w)' = Freq(w) /\ Exact(w)' = Exact(w)
          /\ HistsType' = HistsType
      BY <3>1, SameHists DEF HistsType
    <3>3. EvaluatorInv'
      BY <3>1, <3>2 DEF EvaluatorIsRight, EvaluatorInv, EvaluatorType,
                        DistsArePosteriors, CoefficientIsExact
    <3>4. TopWordsKept'
      BY <3>1, <3>2 DEF EvaluatorIsRight, TopWordsKept, AreTop, Kept
    <3>5. SmoothingInTime'
      BY <3>1 DEF EvaluatorIsRight, SmoothingInTime
    <3> QED  BY <3>3, <3>4, <3>5 DEF EvaluatorIsRight
  <2> QED  BY <2>1, <2>2, LibraryEvaluatorStep
<1> QED  BY <1>1, <1>2, PTL DEF LibrarySpec

\* Cached, filled in by NewModelAccessor, or computed by a goroutine on demand: a
\* distribution is (b + n_kt) / (bV + N_t) (model_accessor.go 67-101), whatever
\* the counts are.
THEOREM DistributionsAreExact == LibrarySpec => []DistsArePosteriors
<1>1. EvaluatorIsRight => DistsArePosteriors
  BY DEF EvaluatorIsRight, EvaluatorInv
<1> QED  BY <1>1, LibraryEvaluatorInv, PTL

\* The coefficient of a word is the o(t) of evaluator.go 23-32, when it is not
\* taken from a sampler.
THEOREM CoefficientsAreExact == LibrarySpec => []CoefficientIsExact
<1>1. EvaluatorIsRight => CoefficientIsExact
  BY DEF EvaluatorIsRight, EvaluatorInv
<1> QED  BY <1>1, LibraryEvaluatorInv, PTL

\* The heap of NewModelAccessor leaves the most frequent words in the cache, as
\* many as there is memory for.
THEOREM CacheHasMostFrequent == LibrarySpec => []CachesMostFrequent
<1>1. EvaluatorIsRight => CachesMostFrequent
  <2> SUFFICES ASSUME EvaluatorIsRight, phase = "evaluate" PROVE CachesMostFrequent
    BY DEF CachesMostFrequent
  <2>1. AreTop(Kept, Words)
    BY DEF EvaluatorIsRight, TopWordsKept
  <2> QED  BY <2>1, Finite DEF AreTop, Kept, CachesMostFrequent
<1> QED  BY <1>1, LibraryEvaluatorInv, PTL

\* With memory for a word, however many goroutines evaluate documents: none reads
\* through a slice that is half assigned (model_accessor.go 67-80).
THEOREM ReadersFindTheSlice == LibrarySpec => []NoReaderCrashes
<1>1. EvaluatorIsRight => NoReaderCrashes
  BY DEF EvaluatorIsRight, SmoothingInTime, NoReaderCrashes
<1> QED  BY <1>1, LibraryEvaluatorInv, PTL
-----------------------------------------------------------------------------
(* Vocabularies.  Strings are in a strict total order, by fingerprints and  *)
(* then by themselves, so a slice can be sorted in one way only, although   *)
(* the sort is not stable and fingerprints collide.                         *)

LEMMA LessIsTotal ==
  ASSUME NEW x \in Strings, NEW y \in Strings, NEW z \in Strings
  PROVE  /\ ~ V!Less(x, x)
         /\ V!Less(x, y) \/ V!Less(y, x) \/ x = y
         /\ V!Less(x, y) => ~ V!Less(y, x)
         /\ V!Less(x, y) /\ ~ V!Less(z, y) => V!Less(x, z)
<1>1. /\ x \in Nat /\ y \in Nat /\ z \in Nat
      /\ Fingerprint[x] \in Nat /\ Fingerprint[y] \in Nat /\ Fingerprint[z] \in Nat
  BY LibraryAssumption DEF V!VocabularyAssumption
<1> QED  BY <1>1 DEF V!Less

\* A bijection maps the places of what is up to x in one arrangement to those in
\* the other.
LEMMA AsMany ==
  ASSUME NEW s \in Seq(Strings), NEW f \in Bijection(DOMAIN s, DOMAIN s), NEW x
  PROVE  LET mine == {i \in DOMAIN s : ~ V!Less(x, s[f[i]])}
             all == {i \in DOMAIN s : ~ V!Less(x, s[i])}
         IN  IsFiniteSet(mine) /\ Cardinality(mine) = Cardinality(all)
<1> DEFINE mine == {i \in DOMAIN s : ~ V!Less(x, s[f[i]])}
           all == {i \in DOMAIN s : ~ V!Less(x, s[i])}
           h == [i \in mine |-> f[i]]
<1>1. /\ f \in [DOMAIN s -> DOMAIN s] /\ \A i, j \in DOMAIN s : f[i] = f[j] => i = j
      /\ \A j \in DOMAIN s : \E i \in DOMAIN s : f[i] = j
  BY DEF Bijection, Injection, Surjection, IsInjective
<1>2. h \in [mine -> all] /\ IsInjective(h) /\ \A j \in all : \E i \in mine : h[i] = j
  BY <1>1 DEF IsInjective
<1>3. ExistsBijection(mine, all)
  BY <1>2 DEF ExistsBijection, Bijection, Injection, Surjection
<1>4. IsFiniteSet(mine)
  <2>1. DOMAIN s = 1 .. Len(s) /\ Len(s) \in Nat
    OBVIOUS
  <2>2. IsFiniteSet(1 .. Len(s))
    BY <2>1, FS_Interval
  <2> QED  BY <2>1, <2>2, FS_Subset
<1> HIDE DEF mine, all, h
<1>5. Cardinality(mine) = Cardinality(all)
  BY <1>3, <1>4, FS_Bijection
<1> QED  BY <1>4, <1>5 DEF mine, all

\* In no place does one sorted arrangement have less than the other.
LEMMA NoneIsLess ==
  ASSUME NEW s \in Seq(Strings), NEW r \in V!Sorted(s), NEW q \in V!Sorted(s), NEW i \in DOMAIN s
  PROVE  ~ V!Less(r[i], q[i])
<1>1. PICK f \in Bijection(DOMAIN s, DOMAIN s) : r = [k \in DOMAIN s |-> s[f[k]]]
  BY DEF V!Sorted, V!Bijection, V!Injection, V!Surjection, V!IsInjective,
         Bijection, Injection, Surjection, IsInjective
<1>2. PICK g \in Bijection(DOMAIN s, DOMAIN s) : q = [k \in DOMAIN s |-> s[g[k]]]
  BY DEF V!Sorted, V!Bijection, V!Injection, V!Surjection, V!IsInjective,
         Bijection, Injection, Surjection, IsInjective
<1>3. /\ \A k, j \in DOMAIN s : k < j => ~ V!Less(r[j], r[k])
      /\ \A k, j \in DOMAIN s : k < j => ~ V!Less(q[j], q[k])
  BY <1>1, <1>2 DEF V!Sorted
<1>4. f \in [DOMAIN s -> DOMAIN s] /\ g \in [DOMAIN s -> DOMAIN s]
  BY DEF Bijection, Injection
<1>5. /\ \A k \in DOMAIN s : r[k] = s[f[k]] /\ q[k] = s[g[k]]
      /\ \A k \in DOMAIN s : r[k] \in Strings /\ q[k] \in Strings
  BY <1>1, <1>2, <1>4
<1> SUFFICES ASSUME V!Less(r[i], q[i]) PROVE FALSE
  OBVIOUS
<1> DEFINE x == r[i]
           A == {k \in DOMAIN s : ~ V!Less(x, s[f[k]])}
           B == {k \in DOMAIN s : ~ V!Less(x, s[g[k]])}
           all == {k \in DOMAIN s : ~ V!Less(x, s[k])}
<1>6. IsFiniteSet(A) /\ Cardinality(A) = Cardinality(all) /\ Cardinality(B) = Cardinality(all)
  BY AsMany
<1>7. DOMAIN s = 1 .. Len(s) /\ Len(s) \in Nat /\ i \in Nat /\ i >= 1
  OBVIOUS
<1>8. 1 .. i \subseteq A
  <2> SUFFICES ASSUME NEW k \in 1 .. i PROVE k \in DOMAIN s /\ ~ V!Less(x, r[k])
    BY <1>5
  <2>1. k \in DOMAIN s
    BY <1>7
  <2>2. CASE k = i
    BY <1>5, <2>1, <2>2, LessIsTotal
  <2>3. CASE k < i
    BY <1>3, <2>1, <2>3
  <2> QED  BY <1>7, <2>1, <2>2, <2>3
<1>9. B \subseteq 1 .. i - 1
  <2> SUFFICES ASSUME NEW k \in DOMAIN s, ~ V!Less(x, q[k]), ~ k < i PROVE FALSE
    BY <1>5, <1>7
  <2>1. k # i
    OBVIOUS
  <2>2. k > i
    BY <1>7, <2>1
  <2>3. ~ V!Less(q[k], q[i])
    BY <1>3, <2>2
  <2>4. V!Less(x, q[k])
    BY <1>5, <2>3, LessIsTotal
  <2> QED  BY <2>4
<1> HIDE DEF A, B, all
<1>10. Cardinality(1 .. i) = i /\ IsFiniteSet(1 .. i)
       /\ Cardinality(1 .. i - 1) = i - 1 /\ IsFiniteSet(1 .. i - 1)
  <2>1. i \in Int /\ 1 \in Int /\ i - 1 \in Int
    BY <1>7
  <2>2. /\ IsFiniteSet(1 .. i) /\ Cardinality(1 .. i) = IF 1 > i THEN 0 ELSE i - 1 + 1
        /\ IsFiniteSet(1 .. i - 1)
        /\ Cardinality(1 .. i - 1) = IF 1 > i - 1 THEN 0 ELSE i - 1 - 1 + 1
    BY <2>1, FS_Interval
  <2> QED  BY <1>7, <2>2
<1>11. i <= Cardinality(A)
  BY <1>6, <1>8, <1>10, FS_Subset
<1>12. Cardinality(B) <= i - 1
  BY <1>9, <1>10, FS_Subset
<1>13. Cardinality(A) \in Nat
  BY <1>6, FS_CardinalityType
<1> QED  BY <1>6, <1>7, <1>11, <1>12, <1>13

LEMMA SortedOnce ==
  ASSUME NEW s \in Seq(Strings), NEW r \in V!Sorted(s), NEW q \in V!Sorted(s)
  PROVE  r = q
<1>1. /\ r = [i \in DOMAIN s |-> r[i]] /\ q = [i \in DOMAIN s |-> q[i]]
      /\ \A i \in DOMAIN s : r[i] \in Strings /\ q[i] \in Strings
  <2>1. ASSUME NEW t \in V!Sorted(s)
        PROVE  t = [i \in DOMAIN s |-> t[i]] /\ \A i \in DOMAIN s : t[i] \in Strings
    <3>1. PICK f \in Bijection(DOMAIN s, DOMAIN s) : t = [k \in DOMAIN s |-> s[f[k]]]
      BY DEF V!Sorted, V!Bijection, V!Injection, V!Surjection, V!IsInjective,
             Bijection, Injection, Surjection, IsInjective
    <3>2. f \in [DOMAIN s -> DOMAIN s]
      BY DEF Bijection, Injection
    <3> QED  BY <3>1, <3>2
  <2> QED  BY <2>1
<1>2. \A i \in DOMAIN s : r[i] = q[i]
  BY <1>1, NoneIsLess, LessIsTotal
<1> QED  BY <1>1, <1>2

\* What processes have loaded are arrangements of the one file.
Loaded ==
  /\ file \in Seq(Strings)
  /\ DOMAIN tokens = Processes /\ DOMAIN ids = Processes
  /\ original # <<>> => original \in V!Sorted(file) /\ ids[Reader] = V!buildIdMap(original)
  /\ \A p \in Processes \ {Reader} : tokens[p] # <<>> =>
       tokens[p] \in V!Sorted(file) /\ ids[p] = V!buildIdMap(tokens[p])

LEMMA LoadLoaded ==
  ASSUME Loaded, NEW p \in Processes, V!Load(p) PROVE Loaded'
<1>0. Reader \in Processes
  BY LibraryAssumption DEF V!VocabularyAssumption
<1>1. PICK ts \in V!Sorted(file) :
        /\ tokens' = [tokens EXCEPT ![p] = ts]
        /\ ids' = [ids EXCEPT ![p] = V!buildIdMap(ts)]
        /\ original' = IF p = Reader THEN ts ELSE original
  BY DEF V!Load
<1>2. file' = file
  BY DEF V!Load
<1>3. /\ DOMAIN tokens' = Processes /\ DOMAIN ids' = Processes
      /\ tokens'[p] = ts /\ ids'[p] = V!buildIdMap(ts)
      /\ \A m \in Processes \ {p} : tokens'[m] = tokens[m] /\ ids'[m] = ids[m]
  BY <1>1 DEF Loaded
<1> QED  BY <1>0, <1>1, <1>2, <1>3 DEF Loaded, V!Sorted

LEMMA InitLoaded == LibraryInit => Loaded
<1> SUFFICES ASSUME LibraryInit PROVE Loaded
  OBVIOUS
<1>1. V!Init
  BY DEF LibraryInit, IdleVocabulary
<1>2. VocabFiles \subseteq Seq(Strings)
  BY LibraryAssumption DEF V!VocabularyAssumption
<1> QED  BY <1>1, <1>2 DEF V!Init, Loaded

LEMMA NextLoaded == Loaded /\ [LibraryNext]_allvars => Loaded'
<1> SUFFICES ASSUME Loaded, [LibraryNext]_allvars PROVE Loaded'
  OBVIOUS
<1>1. V!Next \/ UNCHANGED vocabulary
  BY DEF LibraryNext, allvars
<1>2. ASSUME NEW p \in Processes, V!Load(p) PROVE Loaded'
  BY <1>2, LoadLoaded
<1>3. ASSUME NEW tr \in Translations, V!TranslatedVocab(tr) PROVE Loaded'
  <2>1. /\ DOMAIN tokens' = Processes /\ \A p \in Processes \ {Reader} : tokens'[p] = tokens[p]
        /\ UNCHANGED <<file, ids, original>>
    BY <1>3 DEF V!TranslatedVocab, Loaded
  <2> QED  BY <2>1 DEF Loaded, V!Sorted
<1>4. CASE UNCHANGED <<file, tokens, ids, original>>
  BY <1>4 DEF Loaded, V!Sorted
<1>5. ASSUME NEW line \in Lines, V!ReadLine(line) \/ V!Query(line) PROVE Loaded'
  BY <1>4, <1>5 DEF V!ReadLine, V!Query
<1>6. CASE V!ReadRest
  BY <1>4, <1>6 DEF V!ReadRest
<1>7. CASE UNCHANGED vocabulary
  BY <1>4, <1>7 DEF vocabulary
<1> QED  BY <1>1, <1>2, <1>3, <1>5, <1>6, <1>7 DEF V!Next

\* Whatever the fingerprints are, and though the sort is not stable: processes that
\* load a vocabulary file give each string of it the same id.
THEOREM ProcessesLoadTheSame == LibrarySpec => []ProcessesAgree
<1>1. Loaded => ProcessesAgree
  <2> SUFFICES ASSUME Loaded, NEW p \in Processes \ {Reader}, tokens[p] # <<>>, original # <<>>
               PROVE  tokens[p] = original /\ ids[p] = ids[Reader]
    BY DEF ProcessesAgree, V!ProcessesAgree
  <2>1. tokens[p] = original
    BY SortedOnce DEF Loaded
  <2> QED  BY <2>1 DEF Loaded
<1>2. Loaded /\ [LibraryNext]_allvars => Loaded'
  BY NextLoaded
<1> QED  BY <1>1, <1>2, InitLoaded, PTL DEF LibrarySpec

-----------------------------------------------------------------------------
(* Documents.  The loop of InitializeDocument keeps a word for each place of  *)
(* a line whose word is known; a list of such places grows at its end.        *)

\* A list grows at its end.
LEMMA ListGrows ==
  ASSUME NEW m \in Nat, NEW P \in SUBSET (1 .. m), NEW n \in Nat, NEW f \in [1 .. n -> P],
         V!Lists(f, P)
  PROVE  LET g == [i \in 1 .. n + 1 |-> IF i = n + 1 THEN m + 1 ELSE f[i]]
         IN  g \in [1 .. n + 1 -> P \cup {m + 1}] /\ V!Lists(g, P \cup {m + 1})
<1> DEFINE g == [i \in 1 .. n + 1 |-> IF i = n + 1 THEN m + 1 ELSE f[i]]
<1>1. /\ \A x \in P : \E i \in 1 .. n : f[i] = x
      /\ \A i, j \in 1 .. n : i < j => f[i] < f[j]
  BY DEF V!Lists, V!Range
<1>2. /\ \A i \in 1 .. n : i \in 1 .. n + 1 /\ i # n + 1 /\ g[i] = f[i] /\ g[i] \in P /\ g[i] < m + 1
      /\ n + 1 \in 1 .. n + 1 /\ g[n + 1] = m + 1
      /\ \A i \in 1 .. n + 1 : i = n + 1 \/ i \in 1 .. n
  <2>1. \A i \in 1 .. n : i \in 1 .. n + 1 /\ i # n + 1
    OBVIOUS
  <2>2. \A i \in 1 .. n : g[i] = f[i] /\ f[i] \in P /\ f[i] \in 1 .. m
    BY <2>1
  <2>3. n + 1 \in 1 .. n + 1 /\ g[n + 1] = m + 1
    OBVIOUS
  <2>4. \A i \in 1 .. n + 1 : i = n + 1 \/ i \in 1 .. n
    OBVIOUS
  <2> HIDE DEF g
  <2> QED  BY <2>1, <2>2, <2>3, <2>4
<1>3. g \in [1 .. n + 1 -> P \cup {m + 1}]
  BY <1>2
<1> HIDE DEF g
<1>4. V!Range(g) = P \cup {m + 1}
  <2>1. V!Range(g) = {g[i] : i \in 1 .. n + 1}
    BY <1>3 DEF V!Range
  <2>2. \A x \in P : \E i \in 1 .. n + 1 : g[i] = x
    BY <1>1, <1>2
  <2>3. \E i \in 1 .. n + 1 : g[i] = m + 1
    BY <1>2
  <2>4. \A i \in 1 .. n + 1 : g[i] \in P \cup {m + 1}
    BY <1>3
  <2> QED  BY <2>1, <2>2, <2>3, <2>4
<1>5. \A i, j \in 1 .. n + 1 : i < j => g[i] < g[j]
  <2> SUFFICES ASSUME NEW i \in 1 .. n + 1, NEW j \in 1 .. n + 1, i < j PROVE g[i] < g[j]
    OBVIOUS
  <2>1. i \in 1 .. n
    BY <1>2
  <2> QED  BY <1>1, <1>2, <2>1
<1> QED  BY <1>3, <1>4, <1>5 DEF V!Lists, g

\* The recursion of a loop that keeps the values at the places in P.
Selects(d, P, val, n) ==
  d = [i \in 0 .. n |-> IF i = 0 THEN <<>>
                        ELSE IF i \in P THEN Append(d[i - 1], val[i]) ELSE d[i - 1]]

LEMMA LoopRuns ==
  ASSUME NEW P, NEW val, NEW n \in Nat
  PROVE  \E d : Selects(d, P, val, n)
<1> DEFINE M == {m \in Nat : \E d : Selects(d, P, val, m)}
<1>1. 0 \in M
  <2> DEFINE d == [i \in 0 .. 0 |-> <<>>]
  <2>1. Selects(d, P, val, 0)
    BY DEF Selects
  <2> HIDE DEF d
  <2> QED  BY <2>1
<1>2. ASSUME NEW m \in Nat, m \in M PROVE m + 1 \in M
  <2>1. PICK d : Selects(d, P, val, m)
    BY <1>2
  <2> DEFINE e == [i \in 0 .. m + 1 |->
                     IF i = m + 1 THEN IF i \in P THEN Append(d[m], val[i]) ELSE d[m] ELSE d[i]]
             next(r, i) == IF i = 0 THEN <<>>
                           ELSE IF i \in P THEN Append(r[i - 1], val[i]) ELSE r[i - 1]
  <2>2. \A i \in 0 .. m : d[i] = next(d, i)
    BY <2>1 DEF Selects
  <2>3. \A i \in 0 .. m : i \in 0 .. m + 1 /\ i # m + 1 /\ e[i] = d[i]
    OBVIOUS
  <2>4. \A i \in 0 .. m + 1 : e[i] = next(e, i)
    <3> SUFFICES ASSUME NEW i \in 0 .. m + 1 PROVE e[i] = next(e, i)
      OBVIOUS
    <3>1. CASE i = 0
      BY <2>2, <2>3, <3>1
    <3>2. CASE i \in 1 .. m
      <4>1. i - 1 \in 0 .. m /\ i \in 0 .. m
        BY <3>2
      <4>2. e[i] = d[i] /\ e[i - 1] = d[i - 1]
        BY <2>3, <4>1
      <4> HIDE DEF e
      <4> QED  BY <2>2, <4>1, <4>2
    <3>3. CASE i = m + 1
      <4>1. i - 1 = m /\ i # 0 /\ e[m] = d[m]
        BY <2>3, <3>3
      <4>2. e[i] = IF i \in P THEN Append(d[m], val[i]) ELSE d[m]
        BY <3>3
      <4> HIDE DEF e
      <4> QED  BY <4>1, <4>2
    <3> QED  BY <3>1, <3>2, <3>3
  <2>5. e = [i \in 0 .. m + 1 |-> e[i]]
    OBVIOUS
  <2> HIDE DEF e
  <2>6. Selects(e, P, val, m + 1)
    BY <2>4, <2>5 DEF Selects
  <2> QED  BY <2>6
<1> HIDE DEF M
<1>3. n \in M
  BY <1>1, <1>2, AllNumbers
<1> QED  BY <1>3 DEF M

\* One value for each place in P, in the order of the places.
OneForEach(s, P, val, X) ==
  /\ s \in Seq(X) /\ Len(s) = Cardinality(P)
  /\ \E f \in [1 .. Len(s) -> P] :
       V!Lists(f, P) /\ \A j \in 1 .. Len(s) : s[j] = val[f[j]]

\* One more place.
LEMMA OnePlaceMore ==
  ASSUME NEW m \in Nat, NEW P \in SUBSET (1 .. m), NEW X, NEW val, val[m + 1] \in X,
         NEW s, OneForEach(s, P, val, X)
  PROVE  OneForEach(Append(s, val[m + 1]), P \cup {m + 1}, val, X)
<1> DEFINE n == Len(s)
           x == val[m + 1]
           t == Append(s, x)
<1>1. s \in Seq(X) /\ n = Cardinality(P) /\ n \in Nat
  BY DEF OneForEach
<1>2. PICK f \in [1 .. n -> P] : V!Lists(f, P) /\ \A j \in 1 .. n : s[j] = val[f[j]]
  BY DEF OneForEach
<1> DEFINE g == [i \in 1 .. n + 1 |-> IF i = n + 1 THEN m + 1 ELSE f[i]]
<1>3. IsFiniteSet(P) /\ m + 1 \notin P
  <2>1. m + 1 \notin 1 .. m
    OBVIOUS
  <2> QED  BY <2>1, UpTo, FS_Subset
<1>4. Cardinality(P \cup {m + 1}) = n + 1
  BY <1>1, <1>3, FS_AddElement
<1>5. x \in X
  OBVIOUS
<1> HIDE DEF x
<1>6. t \in Seq(X) /\ Len(t) = n + 1 /\ t[n + 1] = x /\ \A j \in 1 .. n : t[j] = s[j]
  BY <1>1, <1>5
<1> HIDE DEF t, n
<1>7. g \in [1 .. n + 1 -> P \cup {m + 1}] /\ V!Lists(g, P \cup {m + 1})
  BY <1>1, <1>2, ListGrows
<1>8. \A j \in 1 .. n + 1 : t[j] = val[g[j]]
  <2> SUFFICES ASSUME NEW j \in 1 .. n + 1 PROVE t[j] = val[g[j]]
    OBVIOUS
  <2>1. CASE j = n + 1
    BY <1>6, <2>1 DEF x
  <2>2. CASE j # n + 1
    <3>1. j \in 1 .. n /\ g[j] = f[j]
      BY <1>1, <2>2
    <3> QED  BY <1>2, <1>6, <3>1
  <2> QED  BY <2>1, <2>2
<1> HIDE DEF g
<1>9. OneForEach(t, P \cup {m + 1}, val, X)
  <2>1. Len(t) = n + 1
    BY <1>6
  <2>2. g \in [1 .. Len(t) -> P \cup {m + 1}] /\ \A j \in 1 .. Len(t) : t[j] = val[g[j]]
    BY <1>7, <1>8, <2>1
  <2>3. \E f_ \in [1 .. Len(t) -> P \cup {m + 1}] :
          V!Lists(f_, P \cup {m + 1}) /\ \A j \in 1 .. Len(t) : t[j] = val[f_[j]]
    BY <1>7, <2>2
  <2>4. t \in Seq(X) /\ Len(t) = Cardinality(P \cup {m + 1})
    BY <1>4, <1>6
  <2> QED  BY <2>3, <2>4 DEF OneForEach
<1> QED  BY <1>9 DEF t, x

\* What the loop makes.
LEMMA LoopKeeps ==
  ASSUME NEW n \in Nat, NEW P \in SUBSET (1 .. n), NEW X, NEW val, \A i \in P : val[i] \in X,
         NEW d, Selects(d, P, val, n)
  PROVE  OneForEach(d[n], P, val, X)
<1> DEFINE upto(m) == P \cap 1 .. m
           M == {m \in Nat : m <= n => OneForEach(d[m], upto(m), val, X)}
<1>0. /\ d[0] = <<>>
      /\ \A m \in 1 .. n : d[m] = IF m \in P THEN Append(d[m - 1], val[m]) ELSE d[m - 1]
  <2> DEFINE r(i) == IF i = 0 THEN <<>>
                     ELSE IF i \in P THEN Append(d[i - 1], val[i]) ELSE d[i - 1]
  <2>1. d = [i \in 0 .. n |-> r(i)]
    BY DEF Selects
  <2> HIDE DEF r
  <2>2. \A i \in 0 .. n : d[i] = r(i)
    BY <2>1
  <2>3. 0 \in 0 .. n /\ \A i \in 1 .. n : i \in 0 .. n /\ i # 0
    OBVIOUS
  <2> QED  BY <2>2, <2>3 DEF r
<1>1. 0 \in M
  <2>1. upto(0) = {}
    OBVIOUS
  <2> DEFINE f == [i \in 1 .. 0 |-> 0]
  <2>2. f \in [1 .. 0 -> {}] /\ V!Lists(f, {})
    BY DEF V!Lists, V!Range
  <2>3. d[0] \in Seq(X) /\ Len(d[0]) = 0
    BY <1>0
  <2>4. Cardinality({}) = 0
    BY FS_EmptySet
  <2> HIDE DEF f, upto
  <2>5. OneForEach(d[0], {}, val, X)
    BY <2>2, <2>3, <2>4 DEF OneForEach
  <2> QED  BY <2>1, <2>5
<1>2. ASSUME NEW m \in Nat, m \in M PROVE m + 1 \in M
  <2>0. SUFFICES ASSUME m + 1 <= n PROVE OneForEach(d[m + 1], upto(m + 1), val, X)
    BY <1>2
  <2>1. OneForEach(d[m], upto(m), val, X)
    BY <1>2, <2>0
  <2>2. m + 1 \in 1 .. n /\ m + 1 - 1 = m
    BY <2>0
  <2>3. CASE m + 1 \notin P
    <3>1. d[m + 1] = d[m]
      BY <1>0, <2>2, <2>3
    <3>2. upto(m + 1) = upto(m)
      BY <2>3
    <3> HIDE DEF upto
    <3> QED  BY <2>1, <3>1, <3>2
  <2>4. CASE m + 1 \in P
    <3>1. d[m + 1] = Append(d[m], val[m + 1])
      <4>1. d[m + 1] = IF m + 1 \in P THEN Append(d[m + 1 - 1], val[m + 1]) ELSE d[m + 1 - 1]
        BY <1>0, <2>2
      <4> QED  BY <2>2, <2>4, <4>1
    <3>2. upto(m + 1) = upto(m) \cup {m + 1} /\ upto(m) \in SUBSET (1 .. m)
      BY <2>4
    <3>3. val[m + 1] \in X
      BY <2>4
    <3> HIDE DEF upto
    <3>4. OneForEach(Append(d[m], val[m + 1]), upto(m) \cup {m + 1}, val, X)
      BY <2>1, <3>2, <3>3, OnePlaceMore
    <3> QED  BY <3>1, <3>2, <3>4
  <2> QED  BY <2>3, <2>4
<1> HIDE DEF M
<1>3. n \in M
  BY <1>1, <1>2, AllNumbers
<1>4. OneForEach(d[n], upto(n), val, X)
  BY <1>3 DEF M
<1>5. upto(n) = P
  OBVIOUS
<1> HIDE DEF upto
<1> QED  BY <1>4, <1>5

\* What V takes from the community modules and from FiniteSets.
LEMMA SameInVocabulary ==
  /\ \A x : V!Cardinality(x) = Cardinality(x)
  /\ \A x : V!Range(x) = {x[i] : i \in DOMAIN x}
<1>1. \A x : V!Cardinality(x) = Cardinality(x)
  BY DEF V!Cardinality, Cardinality
<1>2. \A x : V!Range(x) = {x[i] : i \in DOMAIN x}
  BY DEF V!Range
<1> QED  BY <1>1, <1>2

\* The sorted file has the tokens of the file.
LEMMA SortedHas ==
  ASSUME NEW s \in Seq(Strings), NEW r \in V!Sorted(s)
  PROVE  r \in Seq(Strings) /\ DOMAIN r = DOMAIN s /\ V!Range(r) = V!Range(s)
<1>1. PICK f \in Bijection(DOMAIN s, DOMAIN s) : r = [k \in DOMAIN s |-> s[f[k]]]
  BY DEF V!Sorted, V!Bijection, V!Injection, V!Surjection, V!IsInjective,
         Bijection, Injection, Surjection, IsInjective
<1>2. f \in [DOMAIN s -> DOMAIN s] /\ \A y \in DOMAIN s : \E x \in DOMAIN s : f[x] = y
  BY DEF Bijection, Injection, Surjection
<1>3. DOMAIN s = 1 .. Len(s) /\ Len(s) \in Nat /\ \A k \in DOMAIN s : s[k] \in Strings
  OBVIOUS
<1>4. DOMAIN r = DOMAIN s /\ \A k \in DOMAIN s : r[k] = s[f[k]] /\ r[k] \in Strings
  BY <1>1, <1>2, <1>3
<1>5. r \in Seq(Strings)
  <2>1. r = [k \in 1 .. Len(s) |-> r[k]]
    BY <1>1, <1>3, <1>4
  <2> QED  BY <1>3, <1>4, <2>1
<1>6. \A k \in DOMAIN s : \E i \in DOMAIN r : r[i] = s[k]
  BY <1>2, <1>4
<1>7. \A k \in DOMAIN r : \E i \in DOMAIN s : s[i] = r[k]
  BY <1>2, <1>4
<1>8. V!Range(r) = V!Range(s)
  <2>1. V!Range(r) = {r[i] : i \in DOMAIN r} /\ V!Range(s) = {s[i] : i \in DOMAIN s}
    BY SameInVocabulary
  <2> QED  BY <1>6, <1>7, <2>1
<1> QED  BY <1>4, <1>5, <1>8

\* The last of the places of a token.
LEMMA LastPlace ==
  ASSUME NEW ts \in Seq(Strings), NEW s \in V!Range(ts)
  PROVE  LET i == V!buildIdMap(ts)[s] IN i \in DOMAIN ts /\ ts[i] = s
<1> DEFINE n == Len(ts)
           A == {j \in Nat : n - j \in DOMAIN ts /\ ts[n - j] = s}
           Last(i) == ts[i] = s /\ \A j \in DOMAIN ts : ts[j] = s => j <= i
<1>1. n \in Nat /\ DOMAIN ts = 1 .. n
  OBVIOUS
<1>2. PICK k \in DOMAIN ts : ts[k] = s
  BY SameInVocabulary
<1>3. n - k \in A
  <2>1. k \in 1 .. n /\ n - k \in Nat /\ n - (n - k) = k
    BY <1>1
  <2> HIDE DEF n
  <2> QED  BY <1>2, <2>1
<1>4. A \subseteq Nat /\ A # {}
  BY <1>3
<1>5. PICK m \in A : \A j \in A : m <= j
  <2> HIDE DEF A
  <2> QED  BY <1>4, LeastNumber
<1>6. n - m \in DOMAIN ts /\ Last(n - m)
  <2> HIDE DEF n
  <2>1. m \in Nat /\ n - m \in DOMAIN ts /\ ts[n - m] = s
    BY <1>5
  <2>2. ASSUME NEW j \in DOMAIN ts, ts[j] = s PROVE j <= n - m
    <3>1. n - j \in Nat /\ n - (n - j) = j /\ j \in Nat
      BY <1>1
    <3>2. n - j \in A
      BY <2>2, <3>1
    <3>3. m <= n - j
      BY <1>5, <3>2
    <3> QED  BY <1>1, <2>1, <3>1, <3>3
  <2> QED  BY <2>1, <2>2
<1>7. V!buildIdMap(ts)[s] = CHOOSE i \in DOMAIN ts : Last(i)
  BY DEF V!buildIdMap
<1> HIDE DEF Last
<1>8. V!buildIdMap(ts)[s] \in DOMAIN ts /\ Last(V!buildIdMap(ts)[s])
  BY <1>6, <1>7
<1> QED  BY <1>8 DEF Last

\* What Reader knows are the words of the file, and it finds each of them.
LEMMA IdsAreFound ==
  ASSUME Loaded, original # <<>>
  PROVE  /\ original \in Seq(Strings) /\ DOMAIN ids[Reader] = V!Range(file)
         /\ \A s \in V!Range(file) :
              ids[Reader][s] \in DOMAIN original /\ original[ids[Reader][s]] = s
<1>1. file \in Seq(Strings) /\ original \in V!Sorted(file) /\ ids[Reader] = V!buildIdMap(original)
  BY DEF Loaded
<1>2. original \in Seq(Strings) /\ V!Range(original) = V!Range(file)
  BY <1>1, SortedHas
<1>3. DOMAIN ids[Reader] = V!Range(original)
  BY <1>1 DEF V!buildIdMap
<1>4. \A s \in V!Range(original) :
        ids[Reader][s] \in DOMAIN original /\ original[ids[Reader][s]] = s
  BY <1>1, <1>2, LastPlace
<1> QED  BY <1>2, <1>3, <1>4

\* A document of line: its known words, in their order, each as its one id.
DocumentIs(doc, line) ==
  /\ doc \in Seq(Nat) /\ Len(doc) = Cardinality(V!KnownIn(line))
  /\ V!HasWordsOf(doc, line)
  /\ \A i \in DOMAIN doc : doc[i] = ids[Reader][original[doc[i]]]

\* The loop of InitializeDocument.
LEMMA DocumentLoop ==
  ASSUME Loaded, original # <<>>, NEW line \in Seq(Strings)
  PROVE  OneForEach(V!DocumentOf(line), V!KnownIn(line),
                    [i \in DOMAIN line |-> ids[Reader][line[i]]], DOMAIN original)
<1> DEFINE n == Len(line)
           P == V!KnownIn(line)
           val == [i \in DOMAIN line |-> ids[Reader][line[i]]]
           next(d, i) == IF i = 0 THEN <<>>
                         ELSE IF V!Known(line[i]) THEN Append(d[i - 1], V!Id(line[i])) ELSE d[i - 1]
           step(d, i) == IF i = 0 THEN <<>>
                         ELSE IF i \in P THEN Append(d[i - 1], val[i]) ELSE d[i - 1]
<1>1. n \in Nat /\ DOMAIN line = 1 .. n
  OBVIOUS
<1>2. P \in SUBSET (1 .. n)
  BY <1>1 DEF V!KnownIn
<1>3. \A i \in 1 .. n : (i \in P <=> V!Known(line[i])) /\ V!Id(line[i]) = val[i]
  BY <1>1, IdsAreFound DEF V!KnownIn, V!Known, V!Id
<1>4. \A i \in P : val[i] \in DOMAIN original
  BY <1>1, IdsAreFound DEF V!KnownIn
<1> HIDE DEF n, P, val
<1>5. ASSUME NEW d PROVE [i \in 0 .. n |-> next(d, i)] = [i \in 0 .. n |-> step(d, i)]
  <2>1. \A i \in 0 .. n : i = 0 \/ i \in 1 .. n
    BY <1>1
  <2>2. \A i \in 0 .. n : next(d, i) = step(d, i)
    BY <1>3, <2>1
  <2> HIDE DEF next, step
  <2> QED  BY <2>2
<1>6. V!DocumentOf(line) = (CHOOSE d : d = [i \in 0 .. n |-> next(d, i)])[n]
  BY DEF V!DocumentOf, n
<1>7. PICK e : Selects(e, P, val, n)
  BY <1>1, LoopRuns
<1>8. e = [i \in 0 .. n |-> step(e, i)]
  BY <1>7 DEF Selects
<1> DEFINE u == CHOOSE d : d = [i \in 0 .. n |-> next(d, i)]
<1>9. u = [i \in 0 .. n |-> next(u, i)]
  <2>1. e = [i \in 0 .. n |-> next(e, i)]
    BY <1>5, <1>8
  <2> HIDE DEF next
  <2> QED  BY <2>1
<1> HIDE DEF u, next
<1>10. u = [i \in 0 .. n |-> step(u, i)]
  BY <1>5, <1>9
<1>11. Selects(u, P, val, n)
  BY <1>10 DEF Selects
<1>12. OneForEach(u[n], P, val, DOMAIN original)
  BY <1>1, <1>2, <1>4, <1>11, LoopKeeps
<1> QED  BY <1>6, <1>12 DEF u, P, val

LEMMA DocumentHas ==
  ASSUME Loaded, original # <<>>, NEW line \in Seq(Strings)
  PROVE  DocumentIs(V!DocumentOf(line), line)
<1> DEFINE P == V!KnownIn(line)
           doc == V!DocumentOf(line)
           val == [i \in DOMAIN line |-> ids[Reader][line[i]]]
<1>1. OneForEach(doc, P, val, DOMAIN original)
  BY DocumentLoop
<1>2. \A i \in P : /\ i \in DOMAIN line /\ line[i] \in V!Range(file)
                   /\ val[i] = ids[Reader][line[i]] /\ original[val[i]] = line[i]
  BY IdsAreFound DEF V!KnownIn
<1>3. DOMAIN original \subseteq Nat
  BY IdsAreFound
<1> HIDE DEF P, doc, val
<1>4. doc \in Seq(Nat) /\ Len(doc) = Cardinality(P) /\ DOMAIN doc = 1 .. Len(doc)
  BY <1>1, <1>3 DEF OneForEach
<1>5. PICK f \in [1 .. Len(doc) -> P] : V!Lists(f, P) /\ \A j \in 1 .. Len(doc) : doc[j] = val[f[j]]
  BY <1>1 DEF OneForEach
<1>6. \A i \in DOMAIN doc : original[doc[i]] = line[f[i]] /\ doc[i] = ids[Reader][original[doc[i]]]
  BY <1>2, <1>4, <1>5
<1>7. V!HasWordsOf(doc, line)
  BY <1>4, <1>5, <1>6 DEF V!HasWordsOf, P
<1> QED  BY <1>4, <1>6, <1>7 DEF DocumentIs, doc, P

-----------------------------------------------------------------------------
(* Corpora. *)

Fits(line) ==
  LET n == V!Cardinality(V!KnownIn(line))
  IN  (bounds.min > 0 => n >= bounds.min) /\ (bounds.max > 0 => ~ n > bounds.max)

FittingOf(lines) == {i \in DOMAIN lines : Fits(lines[i])}

\* The corpus docs has a document for each of the lines that fits.
IsCorpusOf(docs, lines) ==
  \E f \in [DOMAIN docs -> FittingOf(lines)] :
    /\ V!Lists(f, FittingOf(lines))
    /\ \A d \in DOMAIN docs : V!HasWordsOf(docs[d], lines[f[d]])

LEMMA NothingRead == IsCorpusOf(<<>>, <<>>)
<1> DEFINE f == [i \in {} |-> 0]
<1>1. f \in [{} -> {}] /\ V!Range(f) = {} /\ DOMAIN <<>> = {}
  BY SameInVocabulary
<1>2. FittingOf(<<>>) = {}
  BY <1>1 DEF FittingOf
<1> HIDE DEF f
<1>3. f \in [DOMAIN <<>> -> FittingOf(<<>>)] /\ V!Lists(f, FittingOf(<<>>))
  BY <1>1, <1>2 DEF V!Lists
<1> QED  BY <1>1, <1>3 DEF IsCorpusOf

\* One line more.
LEMMA CorpusGrows ==
  ASSUME NEW lines \in Seq(Seq(Strings)), NEW docs \in Seq(Seq(Nat)), IsCorpusOf(docs, lines),
         NEW line \in Seq(Strings), NEW doc \in Seq(Nat), V!HasWordsOf(doc, line)
  PROVE  IsCorpusOf(IF Fits(line) THEN Append(docs, doc) ELSE docs, Append(lines, line))
<1> DEFINE m == Len(lines)
           n == Len(docs)
           P == FittingOf(lines)
           more == Append(lines, line)
           Q == FittingOf(more)
<1>1. /\ m \in Nat /\ DOMAIN lines = 1 .. m /\ DOMAIN more = 1 .. m + 1
      /\ more[m + 1] = line /\ \A i \in 1 .. m : more[i] = lines[i]
  OBVIOUS
<1>2. n \in Nat /\ DOMAIN docs = 1 .. n
  OBVIOUS
<1>3. P \in SUBSET (1 .. m)
  BY <1>1 DEF FittingOf
<1>4. PICK f \in [1 .. n -> P] :
        V!Lists(f, P) /\ \A d \in 1 .. n : V!HasWordsOf(docs[d], lines[f[d]])
  BY <1>2 DEF IsCorpusOf
<1>5. \A i : i \in Q <=> i \in P \/ (i = m + 1 /\ Fits(line))
  <2>1. \A i \in 1 .. m + 1 : i \in 1 .. m \/ i = m + 1
    BY <1>1
  <2>2. \A i \in 1 .. m : i \in 1 .. m + 1
    BY <1>1
  <2>3. m + 1 \in 1 .. m + 1
    BY <1>1
  <2>4. /\ \A i : i \in Q <=> i \in 1 .. m + 1 /\ Fits(more[i])
        /\ \A i : i \in P <=> i \in 1 .. m /\ Fits(lines[i])
    BY <1>1 DEF FittingOf
  <2> HIDE DEF Q, P, more, m
  <2> QED  BY <1>1, <2>1, <2>2, <2>3, <2>4
<1> HIDE DEF m, n, P, Q, more
<1>6. CASE ~ Fits(line)
  <2>1. Q = P
    BY <1>5, <1>6
  <2>2. \A d \in 1 .. n : V!HasWordsOf(docs[d], more[f[d]])
    BY <1>1, <1>3, <1>4
  <2>3. IsCorpusOf(docs, more)
    BY <1>2, <1>4, <2>1, <2>2 DEF IsCorpusOf, Q
  <2> QED  BY <1>6, <2>3 DEF more
<1>7. CASE Fits(line)
  <2>1. Q = P \cup {m + 1}
    BY <1>5, <1>7
  <2> DEFINE g == [i \in 1 .. n + 1 |-> IF i = n + 1 THEN m + 1 ELSE f[i]]
             ds == Append(docs, doc)
  <2>2. g \in [1 .. n + 1 -> P \cup {m + 1}] /\ V!Lists(g, P \cup {m + 1})
    BY <1>1, <1>2, <1>3, <1>4, ListGrows
  <2>3. DOMAIN ds = 1 .. n + 1 /\ ds[n + 1] = doc /\ \A d \in 1 .. n : ds[d] = docs[d]
    BY DEF n
  <2>4. g[n + 1] = m + 1 /\ \A d \in 1 .. n : g[d] = f[d]
    BY <1>2
  <2> HIDE DEF g, ds
  <2>5. \A d \in 1 .. n + 1 : V!HasWordsOf(ds[d], more[g[d]])
    <3> SUFFICES ASSUME NEW d \in 1 .. n + 1 PROVE V!HasWordsOf(ds[d], more[g[d]])
      OBVIOUS
    <3>1. CASE d = n + 1
      BY <1>1, <2>3, <2>4, <3>1
    <3>2. CASE d # n + 1
      <4>1. d \in 1 .. n
        BY <1>2, <3>2
      <4>2. more[f[d]] = lines[f[d]]
        BY <1>1, <1>3, <1>4, <4>1
      <4> QED  BY <1>4, <2>3, <2>4, <4>1, <4>2
    <3> QED  BY <3>1, <3>2
  <2>6. IsCorpusOf(ds, more)
    BY <2>1, <2>2, <2>3, <2>5 DEF IsCorpusOf, Q
  <2> QED  BY <1>7, <2>6 DEF ds, more
<1> QED  BY <1>6, <1>7

\* A document is kept when its line fits.
LEMMA AdmittedFits ==
  ASSUME bounds \in [min : Int, max : Int], NEW line, NEW doc, DocumentIs(doc, line)
  PROVE  V!Admitted(Len(doc)) <=> Fits(line)
<1>1. Len(doc) \in Nat /\ V!Cardinality(V!KnownIn(line)) = Len(doc)
  BY SameInVocabulary DEF DocumentIs
<1>2. bounds.min \in Int /\ bounds.max \in Int
  OBVIOUS
<1> QED  BY <1>1, <1>2 DEF V!Admitted, Fits

-----------------------------------------------------------------------------
(* The invariant of Vocabulary. *)

Blank == /\ query = [words |-> <<>>, doc |-> <<>>]
         /\ scan.lines = <<>> /\ corpus = <<>>

DocumentsKept ==
  /\ Loaded
  /\ tokens[Reader] = <<>> <=> original = <<>>
  /\ original = <<>> => Blank
  /\ bounds \in [min : Int, max : Int]
  /\ scan \in [lines : Seq(Seq(Strings)), state : {"open", "done", "fatal"}]
  /\ corpus \in Seq(Seq(Nat))
  /\ query.words \in Seq(Strings) /\ DocumentIs(query.doc, query.words)
  /\ IsCorpusOf(corpus, scan.lines)

\* It says more than the property.
LEMMA KeptIsEnough == DocumentsKept => WordsAreKept
<1> SUFFICES ASSUME DocumentsKept PROVE WordsAreKept
  OBVIOUS
<1>1. \A i, j \in DOMAIN query.doc :
        original[query.doc[i]] = original[query.doc[j]] => query.doc[i] = query.doc[j]
  BY DEF DocumentsKept, DocumentIs
<1>2. V!HasWordsOf(query.doc, query.words)
  BY DEF DocumentsKept, DocumentIs
<1>3. FittingOf(scan.lines) = V!Fitting
  BY DEF FittingOf, Fits, V!Fitting
<1>4. \E f \in [DOMAIN corpus -> V!Fitting] :
        /\ V!Lists(f, V!Fitting)
        /\ \A d \in DOMAIN corpus : V!HasWordsOf(corpus[d], scan.lines[f[d]])
  BY <1>3 DEF DocumentsKept, IsCorpusOf
<1> QED  BY <1>1, <1>2, <1>4 DEF WordsAreKept, V!WordsAreKept

\* Nothing is a document of nothing.
LEMMA BlankDocument == DocumentIs(<<>>, <<>>)
<1> DEFINE f == [i \in {} |-> 0]
<1>1. DOMAIN <<>> = {} /\ Len(<<>>) = 0 /\ <<>> \in Seq(Nat)
  OBVIOUS
<1>2. V!KnownIn(<<>>) = {}
  BY <1>1 DEF V!KnownIn
<1>3. f \in [{} -> {}] /\ V!Range(f) = {}
  BY SameInVocabulary
<1>4. Cardinality({}) = 0
  BY FS_EmptySet
<1> HIDE DEF f
<1>5. V!HasWordsOf(<<>>, <<>>)
  <2>1. f \in [DOMAIN <<>> -> V!KnownIn(<<>>)] /\ V!Lists(f, V!KnownIn(<<>>))
    BY <1>1, <1>2, <1>3 DEF V!Lists
  <2> QED  BY <1>1, <2>1 DEF V!HasWordsOf
<1> QED  BY <1>1, <1>2, <1>4, <1>5 DEF DocumentIs

LEMMA InitKept == LibraryInit => DocumentsKept
<1> SUFFICES ASSUME LibraryInit PROVE DocumentsKept
  OBVIOUS
<1>1. V!Init /\ Loaded
  BY InitLoaded DEF LibraryInit, IdleVocabulary
<1>2. Reader \in Processes /\ Bounds \subseteq [min : Int, max : Int]
  BY LibraryAssumption DEF V!VocabularyAssumption
<1>3. /\ tokens[Reader] = <<>> /\ original = <<>> /\ corpus = <<>>
      /\ scan = [lines |-> <<>>, state |-> "open"] /\ query = [words |-> <<>>, doc |-> <<>>]
      /\ bounds \in [min : Int, max : Int]
  <2>1. bounds \in Bounds \/ bounds = [min |-> 0, max |-> 0]
    BY <1>1 DEF V!Init
  <2> QED  BY <1>1, <1>2, <2>1 DEF V!Init
<1>4. Blank /\ query.words = <<>> /\ query.doc = <<>> /\ scan.lines = <<>>
  BY <1>3 DEF Blank
<1>5. scan \in [lines : Seq(Seq(Strings)), state : {"open", "done", "fatal"}]
      /\ corpus \in Seq(Seq(Nat)) /\ query.words \in Seq(Strings)
  BY <1>3, <1>4
<1> QED  BY <1>1, <1>3, <1>4, <1>5, BlankDocument, NothingRead DEF DocumentsKept

\* What the ids of documents mean does not change with the vocabulary that is shown.
LEMMA SameWords ==
  ASSUME file' = file, original' = original
  PROVE  /\ \A line : V!KnownIn(line)' = V!KnownIn(line)
         /\ \A doc, line : V!HasWordsOf(doc, line)' = V!HasWordsOf(doc, line)
<1>1. ASSUME NEW CONSTANT line PROVE V!KnownIn(line)' = V!KnownIn(line)
  BY DEF V!KnownIn
<1>2. ASSUME NEW CONSTANT line, NEW CONSTANT doc
      PROVE  V!HasWordsOf(doc, line)' = V!HasWordsOf(doc, line)
  BY <1>1 DEF V!HasWordsOf
<1> QED  BY <1>1, <1>2

\* What stays when the corpus, the query and what was loaded stay.
LEMMA SameKept ==
  ASSUME DocumentsKept, Loaded', UNCHANGED <<file, original, ids[Reader], bounds, query, corpus, scan>>,
         tokens'[Reader] = <<>> <=> original = <<>>
  PROVE  DocumentsKept'
<1>1. /\ \A line : V!KnownIn(line)' = V!KnownIn(line)
      /\ \A doc, line : V!HasWordsOf(doc, line)' = V!HasWordsOf(doc, line)
  BY SameWords
<1>2. DocumentIs(query.doc, query.words)'
  BY <1>1 DEF DocumentsKept, DocumentIs
<1>3. FittingOf(scan.lines)' = FittingOf(scan.lines)
  BY <1>1 DEF FittingOf, Fits
<1>4. IsCorpusOf(corpus, scan.lines)'
  BY <1>1, <1>3 DEF DocumentsKept, IsCorpusOf
<1> QED  BY <1>2, <1>4 DEF DocumentsKept, Blank

\* A corpus stays one of the lines.
LEMMA SameCorpus ==
  ASSUME UNCHANGED <<file, original, bounds>>, NEW CONSTANT docs, NEW CONSTANT lines,
         IsCorpusOf(docs, lines)
  PROVE  IsCorpusOf(docs, lines)'
<1>1. /\ \A line : V!KnownIn(line)' = V!KnownIn(line)
      /\ \A doc, line : V!HasWordsOf(doc, line)' = V!HasWordsOf(doc, line)
  BY SameWords
<1>2. FittingOf(lines)' = FittingOf(lines)
  BY <1>1 DEF FittingOf, Fits
<1> QED  BY <1>1, <1>2 DEF IsCorpusOf

LEMMA SameDocument ==
  ASSUME UNCHANGED <<file, original, ids>>, NEW CONSTANT doc, NEW CONSTANT line,
         DocumentIs(doc, line)
  PROVE  DocumentIs(doc, line)'
<1>1. V!KnownIn(line)' = V!KnownIn(line) /\ V!HasWordsOf(doc, line)' = V!HasWordsOf(doc, line)
  BY SameWords
<1> QED  BY <1>1 DEF DocumentIs

LEMMA LoadKept == ASSUME DocumentsKept, NEW p \in Processes, V!Load(p) PROVE DocumentsKept'
<1>0. Loaded'
  BY LoadLoaded DEF DocumentsKept
<1>1. PICK ts \in V!Sorted(file) :
        /\ tokens' = [tokens EXCEPT ![p] = ts]
        /\ original' = IF p = Reader THEN ts ELSE original
  BY DEF V!Load
<1>2. UNCHANGED <<file, bounds, corpus, scan, query>> /\ tokens[p] = <<>>
  BY DEF V!Load
<1>3. Reader \in Processes /\ DOMAIN tokens = Processes
  BY LibraryAssumption DEF V!VocabularyAssumption, DocumentsKept, Loaded
<1>4. CASE p # Reader
  <2>1. tokens'[Reader] = tokens[Reader] /\ original' = original
    BY <1>1, <1>3, <1>4
  <2>2. ids' = [ids EXCEPT ![p] = ids'[p]] /\ DOMAIN ids = Processes
    BY <1>0, <1>3 DEF V!Load, DocumentsKept, Loaded
  <2>3. ids'[Reader] = ids[Reader]
    BY <1>3, <1>4, <2>2
  <2> QED  BY <1>0, <1>2, <2>1, <2>3, SameKept DEF DocumentsKept
<1>5. CASE p = Reader
  <2>1. tokens'[Reader] = ts /\ original' = ts
    BY <1>1, <1>3, <1>5
  <2>2. Blank /\ Blank'
    BY <1>2, <1>5 DEF DocumentsKept, Blank
  <2>3. DocumentIs(<<>>, <<>>)' /\ IsCorpusOf(<<>>, <<>>)'
    BY BlankDocument, NothingRead, PTL
  <2>4. query'.words = <<>> /\ query'.doc = <<>> /\ corpus' = <<>> /\ scan'.lines = <<>>
    BY <2>2 DEF Blank
  <2>5. DocumentIs(query.doc, query.words)' /\ IsCorpusOf(corpus, scan.lines)'
    BY <2>3, <2>4
  <2>6. /\ bounds' \in [min : Int, max : Int] /\ corpus' \in Seq(Seq(Nat))
        /\ scan' \in [lines : Seq(Seq(Strings)), state : {"open", "done", "fatal"}]
        /\ query'.words \in Seq(Strings)
    BY <1>2 DEF DocumentsKept
  <2> QED  BY <1>0, <2>1, <2>2, <2>5, <2>6 DEF DocumentsKept
<1> QED  BY <1>4, <1>5

LEMMA TranslatedKept == ASSUME DocumentsKept, Loaded', NEW tr, V!TranslatedVocab(tr) PROVE DocumentsKept'
<1>1. original # <<>> /\ Reader \in Processes /\ DOMAIN tokens = Processes
  BY LibraryAssumption DEF V!VocabularyAssumption, V!TranslatedVocab, DocumentsKept, Loaded
<1> DEFINE ts == [i \in DOMAIN original |-> IF original[i] \in DOMAIN tr THEN tr[original[i]]
                                            ELSE original[i]]
<1>2. tokens' = [tokens EXCEPT ![Reader] = ts]
      /\ UNCHANGED <<file, ids, bounds, corpus, scan, query, original>>
  BY DEF V!TranslatedVocab
<1>3. original \in Seq(Strings)
  BY <1>1, IdsAreFound DEF DocumentsKept
<1>4. 1 \in DOMAIN original
  BY <1>1, <1>3
<1>5. DOMAIN ts = DOMAIN original
  OBVIOUS
<1> HIDE DEF ts
<1>6. ts # <<>>
  BY <1>4, <1>5
<1>7. tokens'[Reader] = ts
  BY <1>1, <1>2
<1> QED  BY <1>1, <1>2, <1>6, <1>7, SameKept

LEMMA ReadLineKept == ASSUME DocumentsKept, Loaded', NEW line \in Lines, V!ReadLine(line) PROVE DocumentsKept'
<1> DEFINE doc == V!DocumentOf(line)
           lines == scan.lines
<1>1. /\ UNCHANGED <<file, tokens, ids, bounds, query, original>>
      /\ scan' = [scan EXCEPT !.lines = Append(@, line)]
      /\ corpus' = IF V!Admitted(Len(doc)) THEN Append(corpus, doc) ELSE corpus
      /\ tokens[Reader] # <<>>
  BY DEF V!ReadLine
<1>2. line \in Seq(Strings) /\ original # <<>>
  BY LibraryAssumption, <1>1 DEF V!VocabularyAssumption, DocumentsKept
<1>3. DocumentIs(doc, line)
  BY <1>2, DocumentHas DEF DocumentsKept
<1> HIDE DEF doc
<1>4. /\ lines \in Seq(Seq(Strings)) /\ scan'.lines = Append(lines, line)
      /\ scan' \in [lines : Seq(Seq(Strings)), state : {"open", "done", "fatal"}]
  <2>1. scan \in [lines : Seq(Seq(Strings)), state : {"open", "done", "fatal"}]
    BY DEF DocumentsKept
  <2>2. lines \in Seq(Seq(Strings)) /\ Append(lines, line) \in Seq(Seq(Strings))
    BY <1>2, <2>1
  <2> QED  BY <1>1, <2>1, <2>2
<1>5. corpus \in Seq(Seq(Nat)) /\ doc \in Seq(Nat) /\ V!HasWordsOf(doc, line)
      /\ IsCorpusOf(corpus, lines)
  BY <1>3 DEF DocumentsKept, DocumentIs
<1>6. corpus' = (IF Fits(line) THEN Append(corpus, doc) ELSE corpus)
  BY <1>1, <1>3, AdmittedFits DEF DocumentsKept
<1>7. IsCorpusOf(corpus', scan'.lines)
  BY <1>2, <1>4, <1>5, <1>6, CorpusGrows
<1>8. IsCorpusOf(corpus, scan.lines)'
  BY <1>1, <1>7, SameCorpus
<1>9. DocumentIs(query.doc, query.words)'
  BY <1>1, SameDocument DEF DocumentsKept
<1>10. corpus' \in Seq(Seq(Nat))
  BY <1>5, <1>6
<1> QED  BY <1>1, <1>2, <1>4, <1>8, <1>9, <1>10 DEF DocumentsKept

LEMMA QueryKept == ASSUME DocumentsKept, Loaded', NEW line \in Lines, V!Query(line) PROVE DocumentsKept'
<1> DEFINE doc == V!DocumentOf(line)
<1>1. /\ UNCHANGED <<file, tokens, ids, bounds, corpus, scan, original>>
      /\ query' = [words |-> line, doc |-> doc] /\ tokens[Reader] # <<>>
  BY DEF V!Query
<1>2. line \in Seq(Strings) /\ original # <<>>
  BY LibraryAssumption, <1>1 DEF V!VocabularyAssumption, DocumentsKept
<1>3. DocumentIs(doc, line)
  BY <1>2, DocumentHas DEF DocumentsKept
<1> HIDE DEF doc
<1>4. query'.words = line /\ query'.doc = doc
  BY <1>1
<1>5. DocumentIs(query.doc, query.words)'
  BY <1>1, <1>3, <1>4, SameDocument
<1>6. IsCorpusOf(corpus, scan.lines)'
  BY <1>1, SameCorpus DEF DocumentsKept
<1> QED  BY <1>1, <1>2, <1>4, <1>5, <1>6 DEF DocumentsKept

LEMMA ReadRestKept == ASSUME DocumentsKept, Loaded', V!ReadRest PROVE DocumentsKept'
<1>1. /\ UNCHANGED <<file, tokens, ids, bounds, query, corpus, original>>
      /\ scan' = [scan EXCEPT !.state = IF corpus = <<>> THEN "fatal" ELSE "done"]
  BY DEF V!ReadRest
<1>2. scan' \in [lines : Seq(Seq(Strings)), state : {"open", "done", "fatal"}]
      /\ scan'.lines = scan.lines
  BY <1>1 DEF DocumentsKept
<1>3. DocumentIs(query.doc, query.words)'
  BY <1>1, SameDocument DEF DocumentsKept
<1>4. IsCorpusOf(corpus, scan.lines)'
  BY <1>1, <1>2, SameCorpus DEF DocumentsKept
<1>5. Blank => Blank'
  BY <1>1, <1>2 DEF Blank
<1> QED  BY <1>1, <1>2, <1>3, <1>4, <1>5 DEF DocumentsKept

LEMMA NextKept == DocumentsKept /\ [LibraryNext]_allvars => DocumentsKept'
<1> SUFFICES ASSUME DocumentsKept, [LibraryNext]_allvars PROVE DocumentsKept'
  OBVIOUS
<1>1. V!Next \/ UNCHANGED vocabulary
  BY DEF LibraryNext, allvars
<1>2. Loaded'
  BY NextLoaded DEF DocumentsKept
<1>3. CASE UNCHANGED vocabulary
  BY <1>2, <1>3, SameKept DEF vocabulary, DocumentsKept
<1> QED  BY <1>1, <1>2, <1>3, LoadKept, TranslatedKept, ReadLineKept, QueryKept, ReadRestKept
         DEF V!Next

\* Whatever lines are read and whatever is asked for, and though the words of the
\* vocabulary are replaced under way by what is shown for them: a document has the
\* known words of its text in their order, each as its one id, and the corpus has a
\* document for each line that fits, in their order.
THEOREM WordsStayKept == LibrarySpec => []WordsAreKept
<1>1. LibraryInit => DocumentsKept
  BY InitKept
<1>2. DocumentsKept /\ [LibraryNext]_allvars => DocumentsKept'
  BY NextKept
<1>3. DocumentsKept => WordsAreKept
  BY KeptIsEnough
<1> QED  BY <1>1, <1>2, <1>3, PTL DEF LibrarySpec

-----------------------------------------------------------------------------
(* Interpreter.  The histogram of the document follows its topics, so what   *)
(* a round adds are the topics at its end, and as many as there are words.   *)

LEMMA SameOperators ==
  /\ \A x : I!Cardinality(x) = Cardinality(x)
  /\ \A x : I!Min(x) = Min(x)
  /\ \A x : I!Sum(x) = Sum(x)
<1>1. \A x : I!Cardinality(x) = Cardinality(x)
  BY DEF I!Cardinality, Cardinality
<1>2. \A x : I!Min(x) = Min(x)
  BY DEF I!Min, Min
<1>3. \A x : I!Sum(x) = Sum(x)
  BY DEF I!Sum, Sum, I!MapThenSumSet, MapThenSumSet, MapThenFoldSet, I!MapThenFoldSet
<1> QED  BY <1>1, <1>2, <1>3

LEMMA TopicsAreFinite == IsFiniteSet(I!Topics)
<1>1. QueryTopics \in Int /\ 0 \in Int /\ QueryTopics - 1 \in Int
  BY LibraryAssumption DEF I!InterpreterAssumption
<1> QED  BY <1>1, FS_Interval DEF I!Topics

LEMMA PlacesAreFinite ==
  ASSUME NEW ts \in Seq(I!Topics), NEW x
  PROVE  /\ IsFiniteSet(DOMAIN ts) /\ Cardinality(DOMAIN ts) = Len(ts)
         /\ IsFiniteSet({p \in DOMAIN ts : ts[p] = x})
         /\ Cardinality({p \in DOMAIN ts : ts[p] = x}) \in Nat
<1>1. DOMAIN ts = 1 .. Len(ts) /\ Len(ts) \in Nat
  OBVIOUS
<1>2. 1 \in Int /\ Len(ts) \in Int
  BY <1>1
<1>3. IsFiniteSet(1 .. Len(ts)) /\ Cardinality(1 .. Len(ts)) = IF 1 > Len(ts) THEN 0 ELSE Len(ts) - 1 + 1
  BY <1>2, FS_Interval
<1>4. IsFiniteSet(DOMAIN ts) /\ Cardinality(DOMAIN ts) = Len(ts)
  BY <1>1, <1>3
<1>5. IsFiniteSet({p \in DOMAIN ts : ts[p] = x})
  BY <1>4, FS_Subset
<1> QED  BY <1>4, <1>5, FS_CardinalityType

LEMMA HistType ==
  ASSUME NEW ts \in Seq(I!Topics)
  PROVE  /\ I!HistOf(ts) \in [I!Topics -> Nat]
         /\ \A x \in I!Topics : I!HistOf(ts)[x] = Cardinality({p \in DOMAIN ts : ts[p] = x})
BY PlacesAreFinite, SameOperators DEF I!HistOf

\* A histogram has as much as the document has words.
LEMMA HistHasAll ==
  ASSUME NEW ts \in Seq(I!Topics)
  PROVE  I!Sum(I!HistOf(ts)) = Len(ts)
<1> DEFINE h(P) == [x \in I!Topics |-> Cardinality({p \in P : ts[p] = x})]
           T == {P \in SUBSET DOMAIN ts : SumOver(h(P), I!Topics) = Cardinality(P)}
<1>0. IsFiniteSet(DOMAIN ts) /\ IsFiniteSet(I!Topics)
  BY PlacesAreFinite, TopicsAreFinite
<1>1. {} \in T
  <2>1. \A x \in I!Topics : h({})[x] = 0
    <3> SUFFICES ASSUME NEW x \in I!Topics PROVE Cardinality({p \in {} : ts[p] = x}) = 0
      OBVIOUS
    <3>1. {p \in {} : ts[p] = x} = {}
      OBVIOUS
    <3> QED  BY <3>1, FS_EmptySet
  <2> HIDE DEF h
  <2> QED  BY <1>0, <2>1, SumZero, FS_EmptySet
<1>2. ASSUME NEW P \in SUBSET DOMAIN ts, NEW q \in DOMAIN ts \ P, P \in T
      PROVE  P \cup {q} \in T
  <2>1. IsFiniteSet(P) /\ ts[q] \in I!Topics
    BY <1>0, FS_Subset
  <2>2. ASSUME NEW x \in I!Topics
        PROVE  /\ h(P)[x] \in Nat
               /\ x # ts[q] => h(P \cup {q})[x] = h(P)[x]
               /\ x = ts[q] => h(P \cup {q})[x] = h(P)[x] + 1
    <3> DEFINE old == {p \in P : ts[p] = x}
               new == {p \in P \cup {q} : ts[p] = x}
    <3>1. IsFiniteSet(old)
      BY <2>1, FS_Subset
    <3>2. x # ts[q] => new = old
      OBVIOUS
    <3>3. x = ts[q] => new = old \cup {q} /\ q \notin old
      OBVIOUS
    <3>4. h(P)[x] = Cardinality(old) /\ h(P \cup {q})[x] = Cardinality(new)
      OBVIOUS
    <3> HIDE DEF old, new, h
    <3>5. x = ts[q] => Cardinality(new) = Cardinality(old) + 1
      BY <3>1, <3>3, FS_AddElement
    <3>6. Cardinality(old) \in Nat
      BY <3>1, FS_CardinalityType
    <3> QED  BY <3>2, <3>4, <3>5, <3>6
  <2>3. Cardinality(P \cup {q}) = Cardinality(P) + 1 /\ Cardinality(P) \in Nat
    BY <2>1, FS_AddElement, FS_CardinalityType
  <2> HIDE DEF h
  <2> DEFINE y == ts[q]  f == h(P)  g == h(P \cup {q})
  <2>4. /\ y \in I!Topics /\ \A x \in I!Topics : f[x] \in Int /\ (x # y => g[x] = f[x])
        /\ g[y] = f[y] + 1
    <3>1. \A x \in I!Topics : f[x] \in Nat /\ (x # y => g[x] = f[x]) /\ (x = y => g[x] = f[x] + 1)
      BY <2>2
    <3>2. y \in I!Topics
      BY <2>1
    <3> HIDE DEF y, f, g
    <3> QED  BY <3>1, <3>2
  <2>5. SumOver(f, I!Topics) = Cardinality(P)
    BY <1>2
  <2> HIDE DEF y, f, g
  <2>6. SumOver(g, I!Topics) = SumOver(f, I!Topics) - f[y] + g[y]
    <3>1. \A x \in I!Topics : f[x] \in Int
      BY <2>4
    <3>2. \A x \in I!Topics : y # x => g[x] = f[x]
      BY <2>4
    <3>3. g[y] \in Int /\ y \in I!Topics
      BY <2>4
    <3> QED  BY <1>0, <3>1, <3>2, <3>3, SumChange
  <2>7. SumOver(g, I!Topics) = Cardinality(P) + 1
    BY <2>3, <2>4, <2>5, <2>6
  <2> QED  BY <2>3, <2>7 DEF g
<1>3. DOMAIN ts \in T
  <2> HIDE DEF T
  <2>1. \A P \in SUBSET DOMAIN ts : P \in T
    BY <1>0, <1>1, <1>2, AllSubsets
  <2> QED  BY <2>1
<1>4. I!HistOf(ts) = h(DOMAIN ts)
  BY SameOperators DEF I!HistOf
<1>5. Sum(h(DOMAIN ts)) = SumOver(h(DOMAIN ts), I!Topics)
  BY SumIsOver
<1> QED  BY <1>3, <1>4, <1>5, PlacesAreFinite, SameOperators

\* One word gets another topic.
LEMMA HistMoves ==
  ASSUME NEW ts \in Seq(I!Topics), NEW q \in DOMAIN ts, NEW t \in I!Topics
  PROVE  LET others == [I!HistOf(ts) EXCEPT ![ts[q]] = @ - 1]
         IN  /\ [ts EXCEPT ![q] = t] \in Seq(I!Topics)
             /\ I!HistOf([ts EXCEPT ![q] = t]) = [others EXCEPT ![t] = @ + 1]
<1> DEFINE us == [ts EXCEPT ![q] = t]
           others == [I!HistOf(ts) EXCEPT ![ts[q]] = @ - 1]
           all == [others EXCEPT ![t] = @ + 1]
<1>1. us \in Seq(I!Topics) /\ DOMAIN us = DOMAIN ts /\ us[q] = t
      /\ \A p \in DOMAIN ts \ {q} : us[p] = ts[p]
  OBVIOUS
<1>2. ts[q] \in I!Topics /\ I!HistOf(ts) \in [I!Topics -> Nat]
  BY HistType
<1>3. ASSUME NEW x \in I!Topics PROVE I!HistOf(us)[x] = all[x]
  <2> DEFINE old == {p \in DOMAIN ts : ts[p] = x}
             new == {p \in DOMAIN us : us[p] = x}
  <2>1. /\ I!HistOf(us)[x] = Cardinality(new) /\ IsFiniteSet(new)
        /\ I!HistOf(ts)[x] = Cardinality(old) /\ IsFiniteSet(old)
        /\ Cardinality(old) \in Nat /\ Cardinality(new) \in Nat
    <3>1. /\ I!HistOf(ts)[x] = Cardinality(old) /\ IsFiniteSet(old)
          /\ Cardinality(old) \in Nat
      BY HistType, PlacesAreFinite
    <3>2. us \in Seq(I!Topics)
      BY <1>1
    <3> HIDE DEF us, old
    <3>3. /\ I!HistOf(us)[x] = Cardinality(new) /\ IsFiniteSet(new)
          /\ Cardinality(new) \in Nat
      BY <3>2, HistType, PlacesAreFinite
    <3> QED  BY <3>1, <3>3
  <2>2. CASE x = ts[q] /\ x = t
    <3>1. new = old
      BY <1>1, <2>2
    <3> QED  BY <1>2, <2>1, <2>2, <3>1
  <2>3. CASE x = ts[q] /\ x # t
    <3>1. new = old \ {q} /\ q \in old
      BY <1>1, <2>3
    <3> HIDE DEF old, new
    <3>2. Cardinality(new) = Cardinality(old) - 1
      BY <2>1, <3>1, FS_RemoveElement
    <3> QED  BY <1>2, <2>1, <2>3, <3>2
  <2>4. CASE x # ts[q] /\ x = t
    <3>1. new = old \cup {q} /\ q \notin old
      BY <1>1, <2>4
    <3> HIDE DEF old, new
    <3>2. Cardinality(new) = Cardinality(old) + 1
      BY <2>1, <3>1, FS_AddElement
    <3> QED  BY <1>2, <2>1, <2>4, <3>2
  <2>5. CASE x # ts[q] /\ x # t
    <3>1. new = old
      BY <1>1, <2>5
    <3> QED  BY <1>2, <2>1, <2>5, <3>1
  <2> QED  BY <2>2, <2>3, <2>4, <2>5
<1>4. I!HistOf(us) = [x \in I!Topics |-> I!HistOf(us)[x]] /\ all = [x \in I!Topics |-> all[x]]
  BY <1>1, <1>2, HistType
<1> QED  BY <1>1, <1>3, <1>4

KeptHist(x) == [r \in I!Kept |-> I!HistOf(samples[r])[x]]
Countable   == {u \in I!Topics : sum[u] > 0}
Answers     == {[topic |-> t, count |-> sum[t]] : t \in Countable}

Interpreted ==
  /\ times \in [burnin : Nat, iter : Nat]
  /\ topics \in Seq(I!Topics) /\ topicHist = I!HistOf(topics)
  /\ at \in [round : Nat, pos : Nat \ {0}]
  /\ samples \in Seq(Seq(I!Topics)) /\ Len(samples) = at.round
  /\ pc = "called" => samples = <<>> /\ norm = 0
  /\ norm = Len(topics) * Cardinality(I!Kept)
  /\ sum \in [I!Topics -> Nat] /\ \A x \in I!Topics : sum[x] = Sum(KeptHist(x))
  /\ pc = "done" => dist \in I!Sorted(Answers)

LEMMA KeptIsFinite ==
  ASSUME samples \in Seq(Seq(I!Topics)) PROVE IsFiniteSet(I!Kept) /\ Cardinality(I!Kept) \in Nat
<1>1. DOMAIN samples = 1 .. Len(samples) /\ 1 \in Int /\ Len(samples) \in Int
  OBVIOUS
<1>2. IsFiniteSet(DOMAIN samples)
  BY <1>1, FS_Interval
<1>3. IsFiniteSet(I!Kept)
  BY <1>2, FS_Subset DEF I!Kept
<1> QED  BY <1>3, FS_CardinalityType

LEMMA NothingKept ==
  ASSUME samples = <<>> PROVE /\ Cardinality(I!Kept) = 0
                              /\ \A x \in I!Topics : Sum(KeptHist(x)) = 0
<1>1. I!Kept = {}
  BY DEF I!Kept
<1>2. ASSUME NEW x \in I!Topics PROVE Sum(KeptHist(x)) = 0
  <2>1. Sum(KeptHist(x)) = SumOver(KeptHist(x), {})
    BY <1>1, SumIsOver DEF KeptHist
  <2>2. IsFiniteSet({}) /\ \A r \in {} : KeptHist(x)[r] = 0
    BY FS_EmptySet
  <2> QED  BY <2>1, <2>2, SumZero
<1> QED  BY <1>1, <1>2, FS_EmptySet

LEMMA InterpreterStarts == ASSUME I!Init, times \in [burnin : Nat, iter : Nat] PROVE Interpreted
<1>1. <<>> \in Seq(I!Topics) /\ <<>> \in Seq(Seq(I!Topics)) /\ Len(<<>>) = 0
  OBVIOUS
<1>2. topicHist = I!HistOf(topics)
  <2>1. \A x \in I!Topics : Cardinality({p \in DOMAIN <<>> : <<>>[p] = x}) = 0
    <3> SUFFICES ASSUME NEW x \in I!Topics PROVE Cardinality({p \in DOMAIN <<>> : <<>>[p] = x}) = 0
      OBVIOUS
    <3>1. {p \in DOMAIN <<>> : <<>>[p] = x} = {}
      OBVIOUS
    <3> QED  BY <3>1, FS_EmptySet
  <2>2. topicHist = [x \in I!Topics |-> 0] /\ topics = <<>>
    BY DEF I!Init, I!Zero
  <2>3. I!HistOf(<<>>) = [x \in I!Topics |-> Cardinality({p \in DOMAIN <<>> : <<>>[p] = x})]
    BY SameOperators DEF I!HistOf
  <2>4. I!HistOf(<<>>) = [x \in I!Topics |-> 0]
    BY <2>1, <2>3
  <2> QED  BY <2>2, <2>4
<1>3. norm = 0 /\ sum = [x \in I!Topics |-> 0] /\ samples = <<>> /\ topics = <<>>
  BY DEF I!Init, I!Zero
<1>4. at \in [round : Nat, pos : Nat \ {0}] /\ at.round = 0 /\ pc = "called"
  BY DEF I!Init
<1>5. Cardinality(I!Kept) = 0 /\ \A x \in I!Topics : Sum(KeptHist(x)) = 0
  BY <1>3, NothingKept
<1>6. norm = Len(topics) * Cardinality(I!Kept)
  BY <1>1, <1>3, <1>5
<1> QED  BY <1>1, <1>2, <1>3, <1>4, <1>5, <1>6 DEF Interpreted

LEMMA StepInterpret == ASSUME Interpreted, I!Interpret PROVE Interpreted'
<1>0. PICK n \in QueryLengths : \E ts \in [1 .. n -> I!Topics] :
        IF times.iter <= times.burnin
        THEN pc' = "panic" /\ UNCHANGED <<topics, topicHist>>
        ELSE /\ pc' = IF n = 0 THEN "empty" ELSE "sampling"
             /\ topics' = ts /\ topicHist' = I!HistOf(ts)
  BY DEF I!Interpret
<1>1. PICK ts \in [1 .. n -> I!Topics] :
        IF times.iter <= times.burnin
        THEN pc' = "panic" /\ UNCHANGED <<topics, topicHist>>
        ELSE /\ pc' = IF n = 0 THEN "empty" ELSE "sampling"
             /\ topics' = ts /\ topicHist' = I!HistOf(ts)
  BY <1>0
<1>2. n \in Nat
  BY LibraryAssumption DEF I!InterpreterAssumption
<1>3. ts \in Seq(I!Topics)
  BY <1>2
<1>4. /\ topics' \in Seq(I!Topics) /\ topicHist' = I!HistOf(topics')
      /\ pc' \in {"panic", "empty", "sampling"}
  BY <1>1, <1>3 DEF Interpreted
<1>5. UNCHANGED <<times, at, sum, norm, dist, samples>> /\ pc = "called"
  BY DEF I!Interpret
<1>6. samples = <<>> /\ norm = 0
  BY <1>5 DEF Interpreted
<1>7. I!Kept' = I!Kept /\ \A x \in I!Topics : KeptHist(x)' = KeptHist(x)
  BY <1>5 DEF I!Kept, KeptHist
<1>8. norm' = Len(topics') * Cardinality(I!Kept')
  <2>1. Len(topics') \in Nat
    BY <1>4
  <2> QED  BY <1>5, <1>6, <1>7, <2>1, NothingKept
<1> QED  BY <1>4, <1>5, <1>7, <1>8 DEF Interpreted

LEMMA StepSampleTopic == ASSUME Interpreted, I!SampleTopic PROVE Interpreted'
<1> DEFINE q == at.pos
           others == [topicHist EXCEPT ![topics[q]] = @ - 1]
<1>1. PICK t \in I!Sampled(others) :
           /\ topics' = [topics EXCEPT ![q] = t]
           /\ topicHist' = [others EXCEPT ![t] = @ + 1]
  BY DEF I!SampleTopic
<1>2. /\ pc = "sampling" /\ q <= Len(topics) /\ at' = [at EXCEPT !.pos = @ + 1]
      /\ UNCHANGED <<times, pc, sum, norm, dist, samples>>
  BY DEF I!SampleTopic
<1>3. q \in DOMAIN topics /\ topics \in Seq(I!Topics) /\ topicHist = I!HistOf(topics)
  BY <1>2 DEF Interpreted
<1>4. t \in I!Topics
  BY LibraryAssumption DEF I!Sampled, I!InterpreterAssumption, I!Topics
<1>5. topics' \in Seq(I!Topics) /\ topicHist' = I!HistOf(topics') /\ Len(topics') = Len(topics)
  <2>1. /\ [topics EXCEPT ![q] = t] \in Seq(I!Topics)
        /\ I!HistOf([topics EXCEPT ![q] = t])
             = [[I!HistOf(topics) EXCEPT ![topics[q]] = @ - 1] EXCEPT ![t] = @ + 1]
    BY <1>3, <1>4, HistMoves
  <2>2. Len([topics EXCEPT ![q] = t]) = Len(topics)
    BY <1>3
  <2>3. topicHist' = [[I!HistOf(topics) EXCEPT ![topics[q]] = @ - 1] EXCEPT ![t] = @ + 1]
    BY <1>1, <1>3
  <2> QED  BY <1>1, <2>1, <2>2, <2>3
<1>6. at' \in [round : Nat, pos : Nat \ {0}] /\ at'.round = at.round
  BY <1>2 DEF Interpreted
<1>7. I!Kept' = I!Kept /\ \A x \in I!Topics : KeptHist(x)' = KeptHist(x)
  BY <1>2 DEF I!Kept, KeptHist
<1> QED  BY <1>2, <1>5, <1>6, <1>7 DEF Interpreted

LEMMA StepEndRound == ASSUME Interpreted, I!EndRound PROVE Interpreted'
<1> DEFINE n == at.round + 1
<1>1. /\ pc = "sampling" /\ at' = [round |-> n, pos |-> 1] /\ samples' = Append(samples, topics)
      /\ UNCHANGED <<times, pc, topics, topicHist, dist>>
      /\ IF I!Counted(at.round)
         THEN /\ sum' = [t \in I!Topics |-> sum[t] + topicHist[t]]
              /\ norm' = norm + I!Sum(topicHist)
         ELSE UNCHANGED <<sum, norm>>
  BY DEF I!EndRound
<1>2. /\ times \in [burnin : Nat, iter : Nat] /\ at.round \in Nat
      /\ topics \in Seq(I!Topics) /\ topicHist = I!HistOf(topics)
      /\ samples \in Seq(Seq(I!Topics)) /\ Len(samples) = at.round
      /\ norm = Len(topics) * Cardinality(I!Kept)
      /\ sum \in [I!Topics -> Nat] /\ \A x \in I!Topics : sum[x] = Sum(KeptHist(x))
  BY DEF Interpreted
<1>3. /\ samples' \in Seq(Seq(I!Topics)) /\ Len(samples') = n
      /\ at' \in [round : Nat, pos : Nat \ {0}] /\ at'.round = n /\ n \in Nat
      /\ DOMAIN samples' = DOMAIN samples \cup {n} /\ n \notin DOMAIN samples
      /\ samples'[n] = topics /\ \A r \in DOMAIN samples : samples'[r] = samples[r]
  BY <1>1, <1>2
<1>4. I!Counted(at.round) <=> n > times.burnin + 1
  BY <1>2 DEF I!Counted
<1>5. topicHist \in [I!Topics -> Nat] /\ I!Sum(topicHist) = Len(topics) /\ Len(topics) \in Nat
  BY <1>2, HistType, HistHasAll
<1>6. IsFiniteSet(I!Kept) /\ Cardinality(I!Kept) \in Nat
  BY <1>2, KeptIsFinite
<1>7. CASE I!Counted(at.round)
  <2>1. I!Kept' = I!Kept \cup {n} /\ n \notin I!Kept
    BY <1>1, <1>3, <1>4, <1>7 DEF I!Kept
  <2>2. Cardinality(I!Kept') = Cardinality(I!Kept) + 1
    BY <1>6, <2>1, FS_AddElement
  <2>3. norm' = Len(topics') * Cardinality(I!Kept')
    <3>1. norm' = Len(topics) * Cardinality(I!Kept) + Len(topics) /\ topics' = topics
      BY <1>1, <1>2, <1>5, <1>7
    <3> DEFINE a == Len(topics)  b == Cardinality(I!Kept)
    <3>2. a \in Nat /\ b \in Nat
      BY <1>5, <1>6
    <3> HIDE DEF a, b
    <3>3. a * b + a = a * (b + 1)
      BY <3>2
    <3> QED  BY <2>2, <3>1, <3>3 DEF a, b
  <2>4. ASSUME NEW x \in I!Topics
        PROVE  /\ sum'[x] \in Nat /\ sum'[x] = sum[x] + topicHist[x]
               /\ sum'[x] = Sum(KeptHist(x)')
    <3> DEFINE f == KeptHist(x)'
    <3>1. sum'[x] = sum[x] + topicHist[x] /\ sum'[x] \in Nat
      BY <1>1, <1>2, <1>5, <1>7
    <3>2. f = [r \in I!Kept \cup {n} |-> I!HistOf(samples'[r])[x]]
      BY <2>1 DEF KeptHist
    <3>3. \A r \in I!Kept \cup {n} : f[r] \in Nat
      <4> SUFFICES ASSUME NEW r \in I!Kept \cup {n} PROVE I!HistOf(samples'[r])[x] \in Nat
        BY <3>2
      <4>1. samples'[r] \in Seq(I!Topics)
        <5>1. CASE r = n
          BY <1>2, <1>3, <5>1
        <5>2. CASE r \in I!Kept
          BY <1>2, <1>3, <5>2 DEF I!Kept
        <5> QED  BY <5>1, <5>2
      <4> QED  BY <4>1, HistType
    <3>4. f[n] = topicHist[x]
      BY <1>2, <1>3, <3>2
    <3>5. \A r \in I!Kept : f[r] = KeptHist(x)[r]
      BY <1>3, <3>2 DEF KeptHist, I!Kept
    <3> HIDE DEF f
    <3>6. IsFiniteSet(I!Kept \cup {n}) /\ n \in (I!Kept \cup {n}) \ I!Kept
      BY <1>6, <2>1, FS_AddElement
    <3>7. SumOver(f, I!Kept \cup {n}) = f[n] + SumOver(f, I!Kept)
      BY <3>3, <3>6, SumAdd
    <3>8. SumOver(f, I!Kept) = SumOver(KeptHist(x), I!Kept)
      BY <3>5, SumEqual
    <3>9. Sum(f) = SumOver(f, I!Kept \cup {n}) /\ Sum(KeptHist(x)) = SumOver(KeptHist(x), I!Kept)
      <4>1. f = [r \in I!Kept \cup {n} |-> f[r]]
        BY <3>2
      <4>2. KeptHist(x) = [r \in I!Kept |-> KeptHist(x)[r]]
        BY DEF KeptHist
      <4> QED  BY <4>1, <4>2, SumIsOver
    <3>10. Sum(f) = topicHist[x] + sum[x]
      BY <1>2, <3>4, <3>7, <3>8, <3>9
    <3>11. sum[x] \in Nat /\ topicHist[x] \in Nat
      BY <1>2, <1>5
    <3> QED  BY <3>1, <3>10, <3>11 DEF f
  <2>5. sum' \in [I!Topics -> Nat]
    BY <1>1, <1>7, <2>4
  <2>6. (\A x \in I!Topics : sum[x] = Sum(KeptHist(x)))'
    BY <2>4
  <2> QED  BY <1>1, <1>2, <1>3, <2>3, <2>5, <2>6 DEF Interpreted
<1>8. CASE ~ I!Counted(at.round)
  <2>1. I!Kept' = I!Kept
    BY <1>1, <1>3, <1>4, <1>8 DEF I!Kept
  <2>2. \A x \in I!Topics : KeptHist(x)' = KeptHist(x)
    BY <1>3, <2>1 DEF KeptHist, I!Kept
  <2> QED  BY <1>1, <1>2, <1>3, <1>8, <2>1, <2>2 DEF Interpreted
<1> QED  BY <1>7, <1>8

LEMMA StepReturn == ASSUME Interpreted, I!Return PROVE Interpreted'
<1>1. /\ pc' = "done" /\ dist' \in I!Sorted(Answers)
      /\ UNCHANGED <<times, topics, topicHist, at, sum, norm, samples>>
  BY DEF I!Return, Answers, Countable
<1>2. Answers' = Answers
  BY <1>1 DEF Answers, Countable
<1>3. I!Kept' = I!Kept /\ \A x \in I!Topics : KeptHist(x)' = KeptHist(x)
  BY <1>1 DEF I!Kept, KeptHist
<1> QED  BY <1>1, <1>2, <1>3 DEF Interpreted

LEMMA InterpreterUnchanged == ASSUME Interpreted, UNCHANGED interpreter PROVE Interpreted'
<1>1. UNCHANGED <<times, pc, topics, topicHist, at, sum, norm, dist, samples>>
  BY DEF interpreter
<1>2. I!Kept' = I!Kept /\ Answers' = Answers /\ \A x \in I!Topics : KeptHist(x)' = KeptHist(x)
  BY <1>1 DEF I!Kept, KeptHist, Answers, Countable
<1> QED  BY <1>1, <1>2 DEF Interpreted

LEMMA LibraryInterprets == LibrarySpec => []Interpreted
<1>1. LibraryInit => Interpreted
  <2> SUFFICES ASSUME LibraryInit PROVE Interpreted
    OBVIOUS
  <2>1. I!Init
    BY DEF LibraryInit, IdleInterpreter
  <2>2. times \in [burnin : Nat, iter : Nat]
    <3>1. CASE part = "interpreter"
      BY <2>1, LibraryAssumption DEF I!Init, I!InterpreterAssumption
    <3>2. CASE part # "interpreter"
      BY <3>2 DEF LibraryInit, IdleInterpreter
    <3> QED  BY <3>1, <3>2
  <2> QED  BY <2>1, <2>2, InterpreterStarts
<1>2. Interpreted /\ [LibraryNext]_allvars => Interpreted'
  <2> SUFFICES ASSUME Interpreted, [LibraryNext]_allvars PROVE Interpreted'
    OBVIOUS
  <2>1. I!Next \/ UNCHANGED interpreter
    BY DEF LibraryNext, allvars
  <2>2. I!Answered => UNCHANGED interpreter
    BY DEF I!Answered, I!vars, interpreter
  <2> QED  BY <2>1, <2>2, StepInterpret, StepSampleTopic, StepEndRound, StepReturn,
              InterpreterUnchanged DEF I!Next
<1> QED  BY <1>1, <1>2, PTL DEF LibrarySpec

\* As many entries as there are, and no two of them the same: all of them.
LEMMA SortedHasAll ==
  ASSUME NEW E, IsFiniteSet(E), NEW s \in I!Sorted(E)
  PROVE  /\ s \in Seq(E) /\ Len(s) = Cardinality(E)
         /\ \A e \in E : \E i \in DOMAIN s : s[i] = e
         /\ \A i, j \in DOMAIN s : i < j => s[i].count >= s[j].count
<1>1. /\ s \in [1 .. Cardinality(E) -> E]
      /\ \A i, j \in DOMAIN s : i < j => s[i] # s[j] /\ s[i].count >= s[j].count
  BY SameOperators DEF I!Sorted
<1> DEFINE n == Cardinality(E)
<1>2. n \in Nat
  BY FS_CardinalityType
<1>3. s \in Seq(E) /\ Len(s) = n /\ DOMAIN s = 1 .. n
  BY <1>1, <1>2
<1>4. IsInjective(s)
  <2> SUFFICES ASSUME NEW i \in DOMAIN s, NEW j \in DOMAIN s, s[i] = s[j], i # j PROVE FALSE
    BY DEF IsInjective
  <2>1. i \in Int /\ j \in Int
    BY <1>3
  <2>2. i < j \/ j < i
    BY <2>1
  <2> QED  BY <1>1, <2>2
<1>5. {s[i] : i \in DOMAIN s} = E
  <2> DEFINE R == {s[i] : i \in DOMAIN s}
  <2>1. s \in Surjection(DOMAIN s, R)
    BY <1>1 DEF Surjection
  <2>2. s \in Injection(DOMAIN s, R)
    BY <1>1, <1>4 DEF Injection
  <2>3. ExistsBijection(DOMAIN s, R)
    BY <2>1, <2>2 DEF ExistsBijection, Bijection
  <2>4. 1 \in Int /\ n \in Int
    BY <1>2
  <2>5. IsFiniteSet(1 .. n) /\ Cardinality(1 .. n) = IF 1 > n THEN 0 ELSE n - 1 + 1
    BY <2>4, FS_Interval
  <2>6. IsFiniteSet(DOMAIN s) /\ Cardinality(DOMAIN s) = n
    BY <1>2, <1>3, <2>5
  <2>7. R \subseteq E
    BY <1>1
  <2> HIDE DEF R
  <2>8. Cardinality(R) = n
    BY <2>3, <2>6, FS_Bijection
  <2>9. R = E
    BY <2>7, <2>8, FS_Subset
  <2> QED  BY <2>9 DEF R
<1> QED  BY <1>1, <1>3, <1>5

LEMMA LesserOf ==
  ASSUME NEW m \in Nat, NEW n \in Nat
  PROVE  I!Min({m, n}) \in Nat /\ I!Min({m, n}) <= m
<1>1. I!Min({m, n}) = CHOOSE x \in {m, n} : \A y \in {m, n} : x <= y
  BY DEF I!Min
<1>2. \E x \in {m, n} : \A y \in {m, n} : x <= y
  BY m <= n \/ n <= m
<1>3. I!Min({m, n}) \in {m, n} /\ \A y \in {m, n} : I!Min({m, n}) <= y
  BY <1>1, <1>2
<1> QED  BY <1>3

\* The answer is the share of each topic in the rounds that are kept, for every
\* number of topics, words and rounds, although it is made of nothing but the
\* histogram that follows the words one by one (interpreter.go 60-86), and what
\* is shown are topics that no other exceeds.
THEOREM AnswersAreShares == LibrarySpec => []AnswerIsShareOfSamples
<1>1. Interpreted => AnswerIsShareOfSamples
  <2> SUFFICES ASSUME Interpreted, pc = "done" PROVE I!AnswerIsShareOfSamples
    BY DEF AnswerIsShareOfSamples, I!AnswerIsShareOfSamples
  <2>1. /\ norm = Len(topics) * I!Cardinality(I!Kept)
        /\ sum \in [I!Topics -> Nat] /\ \A x \in I!Topics : sum[x] = Sum(KeptHist(x))
        /\ dist \in I!Sorted(Answers)
    BY SameOperators DEF Interpreted
  <2>2. IsFiniteSet(Answers)
    <3>1. IsFiniteSet(Countable)
      BY TopicsAreFinite, FS_Subset DEF Countable
    <3> DEFINE g == [u \in Countable |-> [topic |-> u, count |-> sum[u]]]
    <3>2. g \in Surjection(Countable, Answers)
      BY DEF Surjection, Answers
    <3> HIDE DEF g
    <3> QED  BY <3>1, <3>2, FS_Surjection
  <2>3. /\ dist \in Seq(Answers) /\ \A e \in Answers : \E i \in DOMAIN dist : dist[i] = e
        /\ \A i, j \in DOMAIN dist : i < j => dist[i].count >= dist[j].count
    BY <2>1, <2>2, SortedHasAll
  <2>4. ASSUME NEW x \in I!Topics
        PROVE  LET times_t == I!Sum([r \in I!Kept |-> I!HistOf(samples[r])[x]])
               IN  IF times_t = 0 THEN \A i \in DOMAIN dist : dist[i].topic # x
                   ELSE \E i \in DOMAIN dist :
                          /\ dist[i] = [topic |-> x, count |-> times_t]
                          /\ i > Len(I!Shown) =>
                               \A j \in DOMAIN I!Shown : I!Shown[j].count >= times_t
    <3>1. I!Sum([r \in I!Kept |-> I!HistOf(samples[r])[x]]) = sum[x] /\ sum[x] \in Nat
      BY <2>1, SameOperators DEF KeptHist
    <3>2. CASE sum[x] = 0
      <4> SUFFICES ASSUME NEW i \in DOMAIN dist, dist[i].topic = x PROVE FALSE
        BY <3>1, <3>2
      <4>1. PICK u \in Countable : dist[i] = [topic |-> u, count |-> sum[u]]
        BY <2>3 DEF Answers
      <4>2. u = x
        BY <4>1
      <4> QED  BY <3>2, <4>1, <4>2 DEF Countable
    <3>3. CASE sum[x] # 0
      <4> DEFINE e == [topic |-> x, count |-> sum[x]]
      <4>1. e \in Answers
        BY <3>1, <3>3 DEF Answers, Countable
      <4>2. PICK i \in DOMAIN dist : dist[i] = e
        BY <2>3, <4>1
      <4>3. ASSUME i > Len(I!Shown), NEW j \in DOMAIN I!Shown PROVE I!Shown[j].count >= sum[x]
        <5> DEFINE m == I!Min({Len(dist), MaxShown})
        <5>1. m \in Nat /\ m <= Len(dist) /\ Len(dist) \in Nat
          <6>1. Len(dist) \in Nat /\ MaxShown \in Nat
            BY <2>3, LibraryAssumption DEF I!InterpreterAssumption
          <6> QED  BY <6>1, LesserOf
        <5>2. I!Shown = SubSeq(dist, 1, m)
          BY DEF I!Shown
        <5> HIDE DEF m
        <5>3. Len(I!Shown) = m /\ \A k \in 1 .. m : I!Shown[k] = dist[k]
          <6>1. dist \in Seq(Answers)
            BY <2>3
          <6> HIDE DEF Answers
          <6> QED  BY <6>1, <5>1, <5>2
        <5>4. j \in 1 .. m /\ j < i /\ j \in DOMAIN dist
          BY <2>3, <4>3, <5>1, <5>2, <5>3
        <5>5. dist[j].count >= dist[i].count
          BY <2>3, <5>4
        <5> QED  BY <4>2, <5>3, <5>4, <5>5
      <4> QED  BY <3>1, <3>3, <4>2, <4>3
    <3> QED  BY <3>2, <3>3
  <2> QED  BY <2>1, <2>4 DEF I!AnswerIsShareOfSamples
<1> QED  BY <1>1, LibraryInterprets, PTL

-----------------------------------------------------------------------------
(* Top words.  The words of a topic are put in one order, of descending      *)
(* counts; no set of words weighs more than as many from the front of it.    *)

\* The first m of a sequence of words that none of those behind exceeds weigh no
\* less than any others of that number.
LEMMA FirstAreHeaviest ==
  ASSUME NEW A, IsFiniteSet(A), NEW f, \A w \in A : f[w] \in Nat,
         NEW n \in Nat, NEW word \in [1 .. n -> A],
         \A i, j \in 1 .. n : word[i] = word[j] => i = j,
         \A i, j \in 1 .. n : i < j => f[word[i]] >= f[word[j]],
         \A w \in A : \E i \in 1 .. n : word[i] = w
  PROVE  \A B \in SUBSET A :
           SumOver(f, B) <= SumOver(f, {word[i] : i \in 1 .. Cardinality(B)})
<1> DEFINE front(m) == {word[i] : i \in 1 .. m}
           M == {m \in Nat : \A B \in SUBSET A :
                  Cardinality(B) = m => SumOver(f, B) <= SumOver(f, front(m))}
<1>0. /\ \A B \in SUBSET A : IsFiniteSet(B) /\ Cardinality(B) \in Nat
      /\ \A B \in SUBSET A : SumOver(f, B) \in Int
      /\ \A B \in SUBSET A : \A x \in B : SumOver(f, B) = f[x] + SumOver(f, B \ {x})
  <2>1. \A w \in A : f[w] \in Int
    OBVIOUS
  <2>2. \A B \in SUBSET A : IsFiniteSet(B) /\ Cardinality(B) \in Nat
    BY FS_Subset, FS_CardinalityType
  <2> QED  BY <2>1, <2>2, SumSteps
<1>1. 0 \in M
  <2> SUFFICES ASSUME NEW B \in SUBSET A, Cardinality(B) = 0
               PROVE  SumOver(f, B) <= SumOver(f, front(0))
    OBVIOUS
  <2>1. B = {}
    BY <1>0, FS_EmptySet
  <2>2. front(0) = {}
    OBVIOUS
  <2>3. SumOver(f, {}) = 0
    BY SumSteps
  <2> HIDE DEF front
  <2>4. SumOver(f, B) = 0
    BY <2>1, <2>3
  <2>5. SumOver(f, front(0)) = 0
    BY <2>2, <2>3
  <2> QED  BY <2>4, <2>5
<1>2. ASSUME NEW m \in Nat, m \in M PROVE m + 1 \in M
  <2> SUFFICES ASSUME NEW B \in SUBSET A, Cardinality(B) = m + 1
               PROVE  SumOver(f, B) <= SumOver(f, front(m + 1))
    OBVIOUS
  <2>1. \E x \in B : x \notin front(m)
    <3> SUFFICES ASSUME B \subseteq front(m) PROVE FALSE
      OBVIOUS
    <3> DEFINE p == [i \in 1 .. m |-> word[i]]
    <3>1. p \in Surjection(1 .. m, front(m))
      BY DEF Surjection
    <3> HIDE DEF p, front
    <3>2. IsFiniteSet(front(m)) /\ Cardinality(front(m)) <= m
      BY <3>1, UpTo, FS_Surjection
    <3>3. m + 1 <= Cardinality(front(m)) /\ Cardinality(front(m)) \in Nat
      BY <3>2, FS_Subset, FS_CardinalityType
    <3> QED  BY <3>2, <3>3
  <2>2. PICK x \in B : x \notin front(m)
    BY <2>1
  <2>3. PICK i \in 1 .. n : word[i] = x
    OBVIOUS
  <2>4. ~ i <= m
    BY <2>2, <2>3
  <2>5. m + 1 \in 1 .. n /\ f[x] <= f[word[m + 1]]
    <3>1. m + 1 \in 1 .. n /\ (i = m + 1 \/ m + 1 < i)
      BY <2>4
    <3>2. f[x] \in Nat /\ f[word[m + 1]] \in Nat
      BY <3>1
    <3> QED  BY <2>3, <3>1, <3>2
  <2> DEFINE y == word[m + 1]
  <2>6. /\ front(m + 1) \in SUBSET A /\ y \in front(m + 1) /\ front(m + 1) \ {y} = front(m)
    <3>1. \A j \in 1 .. m + 1 : j \in 1 .. n
      BY <2>5
    <3>2. front(m + 1) \in SUBSET A /\ y \in front(m + 1)
      BY <3>1
    <3>3. \A j \in 1 .. m : j # m + 1 /\ j \in 1 .. n
      BY <3>1
    <3>4. y \notin front(m)
      BY <2>5, <3>3
    <3>5. front(m + 1) = front(m) \cup {y}
      <4>1. \A j \in 1 .. m + 1 : j \in 1 .. m \/ j = m + 1
        OBVIOUS
      <4>2. \A j \in 1 .. m : j \in 1 .. m + 1
        OBVIOUS
      <4> QED  BY <4>1, <4>2
    <3> QED  BY <3>2, <3>4, <3>5
  <2> HIDE DEF front, y
  <2>7. SumOver(f, front(m + 1)) = f[y] + SumOver(f, front(m))
    <3>1. SumOver(f, front(m + 1)) = f[y] + SumOver(f, front(m + 1) \ {y})
      BY <1>0, <2>6
    <3>2. SumOver(f, front(m + 1) \ {y}) = SumOver(f, front(m))
      BY <2>6
    <3> QED  BY <3>1, <3>2
  <2>8. SumOver(f, B) = f[x] + SumOver(f, B \ {x})
    BY <1>0
  <2>9. Cardinality(B \ {x}) = m
    <3>1. Cardinality(B \ {x}) = Cardinality(B) - 1
      BY <1>0, FS_RemoveElement
    <3> QED  BY <3>1
  <2>10. B \ {x} \in SUBSET A
    OBVIOUS
  <2>11. SumOver(f, B \ {x}) <= SumOver(f, front(m))
    BY <1>2, <2>9, <2>10
  <2>12. front(m) \in SUBSET A
    BY <2>6
  <2>13. /\ SumOver(f, B \ {x}) \in Int /\ SumOver(f, front(m)) \in Int
         /\ f[x] \in Nat /\ f[y] \in Nat /\ f[x] <= f[y]
    BY <1>0, <2>5, <2>6, <2>10, <2>12 DEF y
  <2> QED  BY <2>7, <2>8, <2>11, <2>13
<1> HIDE DEF M
<1>3. \A m \in Nat : m \in M
  BY <1>1, <1>2, AllNumbers
<1> QED  BY <1>0, <1>3 DEF M

LEMMA SameInTopWords ==
  /\ \A x : W!Cardinality(x) = Cardinality(x)
  /\ \A x : W!Min(x) = Min(x)
  /\ \A x : W!Sum(x) = Sum(x)
<1>1. \A x : W!Cardinality(x) = Cardinality(x)
  BY DEF W!Cardinality, Cardinality
<1>2. \A x : W!Min(x) = Min(x)
  BY DEF W!Min, Min
<1>3. \A x : W!Sum(x) = Sum(x)
  BY DEF W!Sum, Sum, W!MapThenSumSet, MapThenSumSet, MapThenFoldSet, W!MapThenFoldSet
<1> QED  BY <1>1, <1>2, <1>3

ModelType == words \in [W!Words -> [W!Topics -> 0 .. MaxOccurrences]]

\* Of a topic: the counts of words, and its words as GetTopWords has them.
CountsOf(t)  == [w \in W!Words |-> words[w][t]]
PairsOf(t) == {[word |-> w, count |-> words[w][t]] : w \in W!WordsOf(t)}

LEMMA CountsAreNumbers ==
  ASSUME ModelType, NEW t \in W!Topics
  PROVE  /\ \A w \in W!Words : words[w][t] \in Nat /\ CountsOf(t)[w] = words[w][t]
         /\ IsFiniteSet(W!Words) /\ W!WordsOf(t) \subseteq W!Words
<1>1. VocabSize \in Nat /\ MaxOccurrences \in Nat
  BY LibraryAssumption DEF W!TopWordsAssumption
<1>2. 0 \in Int /\ VocabSize - 1 \in Int
  BY <1>1
<1>3. IsFiniteSet(W!Words)
  BY <1>2, FS_Interval DEF W!Words
<1> QED  BY <1>1, <1>3 DEF ModelType, CountsOf, W!WordsOf

\* GetTopWords is what its comment says: there is such a sequence, and it has all
\* words of the topic.
LEMMA TopWordsAreSorted ==
  ASSUME ModelType, NEW t \in W!Topics
  PROVE  LET s == W!GetTopWords(t)
             n == Cardinality(W!WordsOf(t))
         IN  /\ n \in Nat /\ s \in [1 .. n -> PairsOf(t)]
             /\ \A i \in 1 .. n : /\ s[i].word \in W!WordsOf(t)
                                  /\ s[i].count = words[s[i].word][t]
             /\ \A i, j \in 1 .. n : i < j => s[i].count >= s[j].count
             /\ \A i, j \in 1 .. n : s[i].word = s[j].word => i = j
             /\ \A w \in W!WordsOf(t) : \E i \in 1 .. n : s[i].word = w
<1> DEFINE s == W!GetTopWords(t)
           A == W!WordsOf(t)
           E == PairsOf(t)
           n == Cardinality(A)
           R == {p \in E \X E : W!Before(p[1], p[2])}
           e == [w \in A |-> [word |-> w, count |-> words[w][t]]]
<1>1. IsFiniteSet(A) /\ n \in Nat
  BY CountsAreNumbers, FS_Subset, FS_CardinalityType
<1>2. IsFiniteSet(E) /\ Cardinality(E) = n
  <2>1. e \in Injection(A, E) /\ e \in Surjection(A, E)
    BY DEF Injection, Surjection, IsInjective, PairsOf
  <2>2. ExistsBijection(A, E)
    BY <2>1 DEF ExistsBijection, Bijection
  <2> HIDE DEF E, A
  <2> QED  BY <1>1, <2>2, FS_Bijection
<1>3. \A x \in E : /\ x.word \in A /\ x.count = words[x.word][t] /\ x.count \in Nat
                   /\ x.word \in Int /\ x = [word |-> x.word, count |-> x.count]
  <2>1. VocabSize \in Nat
    BY LibraryAssumption DEF W!TopWordsAssumption
  <2> QED  BY <2>1, CountsAreNumbers DEF PairsOf, W!WordsOf, W!Words
<1> HIDE DEF E
<1>4. IsOrder(R, E)
  <2>1. ASSUME NEW x \in E, NEW y \in E PROVE x = y \/ W!Before(x, y) \/ W!Before(y, x)
    <3>1. x.count \in Int /\ y.count \in Int /\ x.word \in Int /\ y.word \in Int
      BY <1>3
    <3>2. x.word = y.word => x = y
      BY <1>3
    <3> QED  BY <3>1, <3>2 DEF W!Before
  <2>2. ASSUME NEW x \in E PROVE ~ W!Before(x, x)
    BY <1>3 DEF W!Before
  <2>3. ASSUME NEW x \in E, NEW y \in E, NEW z \in E, W!Before(x, y), W!Before(y, z)
        PROVE  W!Before(x, z)
    <3>1. /\ x.count \in Int /\ y.count \in Int /\ x.word \in Int /\ y.word \in Int
          /\ z.count \in Int /\ z.word \in Int
      BY <1>3
    <3> QED  BY <2>3, <3>1 DEF W!Before
  <2> QED  BY <2>1, <2>2, <2>3 DEF IsOrder
<1>5. \E r \in [1 .. Cardinality(E) -> E] : InOrder(r, R)
  BY <1>2, <1>4, CanBeSorted
<1>6. \E r \in [1 .. n -> E] : \A i, j \in DOMAIN r : i < j => W!Before(r[i], r[j])
  BY <1>2, <1>5 DEF InOrder
<1>7. s = CHOOSE r \in [1 .. n -> E] : \A i, j \in DOMAIN r : i < j => W!Before(r[i], r[j])
  <2>1. E = {[word |-> w, count |-> words[w][t]] : w \in {u \in W!Words : words[u][t] > 0}}
    BY DEF E, PairsOf, W!WordsOf
  <2>2. W!Cardinality(E) = n
    BY <1>2, SameInTopWords
  <2> QED  BY <2>1, <2>2 DEF W!GetTopWords
<1>8. s \in [1 .. n -> E] /\ \A i, j \in 1 .. n : i < j => W!Before(s[i], s[j])
  <2> HIDE DEF s, n
  <2>1. s \in [1 .. n -> E] /\ \A i, j \in DOMAIN s : i < j => W!Before(s[i], s[j])
    BY <1>6, <1>7
  <2> QED  BY <2>1
<1> HIDE DEF s, R, A
<1>9. \A i \in 1 .. n : s[i] \in E /\ s[i].word \in A /\ s[i].count = words[s[i].word][t] /\ s[i].count \in Nat
  BY <1>3, <1>8
<1>10. \A i, j \in 1 .. n : s[i].word = s[j].word => i = j
  <2> SUFFICES ASSUME NEW i \in 1 .. n, NEW j \in 1 .. n, s[i].word = s[j].word, i < j PROVE FALSE
    BY <1>1
  <2>1. s[i].count = s[j].count /\ s[i].count \in Nat /\ s[i].word \in Int
    BY <1>3, <1>9
  <2>2. W!Before(s[i], s[j])
    BY <1>8
  <2> QED  BY <2>1, <2>2 DEF W!Before
<1>11. \A i, j \in 1 .. n : i < j => s[i].count >= s[j].count
  BY <1>8, <1>9 DEF W!Before
<1>12. \A w \in A : \E i \in 1 .. n : s[i].word = w
  <2> DEFINE word == [i \in 1 .. n |-> s[i].word]
  <2>1. word \in [1 .. n -> A] /\ \A i, j \in 1 .. n : word[i] = word[j] => i = j
    BY <1>9, <1>10
  <2>2. \A w \in A : \E i \in 1 .. n : word[i] = w
    <3> HIDE DEF word
    <3> QED  BY <1>1, <2>1, AllAreThere
  <2> QED  BY <2>2
<1> QED  BY <1>1, <1>8, <1>9, <1>10, <1>11, <1>12 DEF E, A, s

\* The words in the first m places.
FrontOf(t, m) == {W!GetTopWords(t)[i].word : i \in 1 .. m}

\* What the loop of GetTopNWords adds up is what the words of the front weigh.
LEMMA FrontWeighs ==
  ASSUME ModelType, NEW t \in W!Topics, NEW m \in Nat, m <= Cardinality(W!WordsOf(t))
  PROVE  LET q == SubSeq(W!GetTopWords(t), 1, m)
         IN  /\ q \in Seq(PairsOf(t)) /\ Len(q) = m
             /\ \A i \in 1 .. m : q[i] = W!GetTopWords(t)[i]
             /\ W!WordsIn(q) = FrontOf(t, m)
             /\ W!Weight(q) = SumOver(CountsOf(t), FrontOf(t, m))
<1> DEFINE s == W!GetTopWords(t)
           n == Cardinality(W!WordsOf(t))
           q == SubSeq(s, 1, m)
           E == PairsOf(t)
           word == [i \in 1 .. m |-> s[i].word]
           h == [i \in 1 .. m |-> s[i].count]
<1>1. /\ n \in Nat /\ s \in [1 .. n -> E]
      /\ \A i \in 1 .. n : s[i].word \in W!WordsOf(t) /\ s[i].count = words[s[i].word][t]
      /\ \A i, j \in 1 .. n : s[i].word = s[j].word => i = j
  BY TopWordsAreSorted
<1> HIDE DEF s, E
<1>2. s \in Seq(E) /\ Len(s) = n
  BY <1>1
<1>3. q \in Seq(E) /\ Len(q) = m /\ \A i \in 1 .. m : q[i] = s[i]
  BY <1>1, <1>2
<1>4. \A i \in 1 .. m : i \in 1 .. n
  BY <1>1
<1>5. \A i \in 1 .. m : word[i] = s[i].word /\ h[i] = s[i].count /\ CountsOf(t)[word[i]] = h[i]
                        /\ CountsOf(t)[word[i]] \in Int
  BY <1>1, <1>4, CountsAreNumbers
<1>6. W!WordsIn(q) = FrontOf(t, m)
  <2>1. DOMAIN q = 1 .. m
    BY <1>3
  <2> HIDE DEF q
  <2> QED  BY <1>3, <2>1 DEF W!WordsIn, FrontOf, s
<1>7. FrontOf(t, m) = {word[i] : i \in 1 .. m}
  BY DEF FrontOf, s
<1>8. \A i, j \in 1 .. m : word[i] = word[j] => i = j
  BY <1>1, <1>4
<1> HIDE DEF word
<1>9. SumOver(CountsOf(t), {word[i] : i \in 1 .. m}) = SumOver(h, 1 .. m)
  <2> DEFINE P == 1 .. m
             g == CountsOf(t)
  <2>1. IsFiniteSet(P)
    BY UpTo
  <2>2. /\ \A i, j \in P : word[i] = word[j] => i = j
        /\ \A i \in P : g[word[i]] \in Int
        /\ \A i \in P : h[i] = g[word[i]]
    BY <1>5, <1>8
  <2> HIDE DEF h, g, P
  <2>3. SumOver(g, {word[i] : i \in P}) = SumOver(h, P)
    BY <2>1, <2>2, SumImage
  <2> QED  BY <2>3 DEF g, P
<1>10. W!Weight(q) = SumOver(h, 1 .. m)
  <2>1. [i \in DOMAIN q |-> q[i].count] = h
    <3>1. DOMAIN q = 1 .. m
      BY <1>3
    <3> HIDE DEF q
    <3> QED  BY <1>3, <3>1
  <2>2. W!Weight(q) = Sum(h)
    BY <2>1, SameInTopWords DEF W!Weight
  <2>3. h = [i \in 1 .. m |-> h[i]]
    OBVIOUS
  <2> HIDE DEF h
  <2> QED  BY <2>2, <2>3, SumIsOver
<1> QED  BY <1>3, <1>6, <1>7, <1>9, <1>10 DEF s, E

\* The place at which the loop stops.
LEMMA LoopStops ==
  ASSUME ModelType, NEW t \in W!Topics, NEW p
  PROVE  \E k \in 0 .. Cardinality(W!WordsOf(t)) :
           /\ W!GetTopNWords(t, p) = SubSeq(W!GetTopWords(t), 1, k)
           /\ \A m \in 1 .. Cardinality(W!WordsOf(t)) :
                SumOver(CountsOf(t), FrontOf(t, m)) >= W!Enough(t, p) => k <= m
           /\ \/ k = Cardinality(W!WordsOf(t))
              \/ SumOver(CountsOf(t), FrontOf(t, k)) >= W!Enough(t, p)
<1> DEFINE s == W!GetTopWords(t)
           n == Cardinality(W!WordsOf(t))
           E == PairsOf(t)
           weight(m) == SumOver(CountsOf(t), FrontOf(t, m))
           cuts == {m \in DOMAIN s : W!Weight(SubSeq(s, 1, m)) >= W!Enough(t, p)}
<1>1. n \in Nat /\ s \in [1 .. n -> E] /\ DOMAIN s = 1 .. n
  BY TopWordsAreSorted
<1>2. cuts = {m \in 1 .. n : weight(m) >= W!Enough(t, p)}
  <2>1. \A m \in 1 .. n : W!Weight(SubSeq(s, 1, m)) = weight(m)
    BY <1>1, FrontWeighs
  <2> HIDE DEF s, weight
  <2> QED  BY <1>1, <2>1
<1>3. W!GetTopNWords(t, p) = IF cuts = {} THEN s ELSE SubSeq(s, 1, W!Min(cuts))
  BY DEF W!GetTopNWords
<1> HIDE DEF cuts, s, weight, E
<1>4. s \in Seq(E) /\ Len(s) = n
  BY <1>1
<1>5. CASE cuts = {}
  <2>1. \A m \in 1 .. n : ~ weight(m) >= W!Enough(t, p)
    BY <1>2, <1>5
  <2>2. SubSeq(s, 1, n) = s
    BY <1>1, <1>4
  <2>3. n \in 0 .. n /\ W!GetTopNWords(t, p) = SubSeq(s, 1, n)
    BY <1>1, <1>3, <1>5, <2>2
  <2> QED  BY <2>1, <2>3 DEF s, weight
<1>6. CASE cuts # {}
  <2>1. cuts \in SUBSET Nat
    BY <1>1, <1>2
  <2>2. \E m \in cuts : \A k \in cuts : m <= k
    BY <1>6, <2>1, LeastNumber
  <2>3. Min(cuts) = CHOOSE m \in cuts : \A k \in cuts : m <= k
    BY DEF Min
  <2>4. W!Min(cuts) \in cuts /\ \A k \in cuts : W!Min(cuts) <= k
    BY <2>2, <2>3, SameInTopWords
  <2>5. /\ W!Min(cuts) \in 0 .. n /\ weight(W!Min(cuts)) >= W!Enough(t, p)
        /\ \A m \in 1 .. n : weight(m) >= W!Enough(t, p) => W!Min(cuts) <= m
    BY <1>1, <1>2, <2>4
  <2>6. W!GetTopNWords(t, p) = SubSeq(s, 1, W!Min(cuts))
    BY <1>3, <1>6
  <2> QED  BY <2>5, <2>6 DEF s, weight
<1> QED  BY <1>5, <1>6

\* No other word is more frequent than one of the front.
LEMMA FrontIsHeavier ==
  ASSUME ModelType, NEW t \in W!Topics, NEW k \in 0 .. Cardinality(W!WordsOf(t))
  PROVE  W!HeavierThanOthers(FrontOf(t, k), t)
<1> DEFINE s == W!GetTopWords(t)
           n == Cardinality(W!WordsOf(t))
<1> SUFFICES ASSUME NEW i \in 1 .. k, NEW u \in W!Words, u \notin FrontOf(t, k)
             PROVE  words[s[i].word][t] >= words[u][t]
  BY DEF W!HeavierThanOthers, FrontOf
<1>1. /\ n \in Nat
      /\ \A j \in 1 .. n : s[j].word \in W!WordsOf(t) /\ s[j].count = words[s[j].word][t]
      /\ \A j, l \in 1 .. n : j < l => s[j].count >= s[l].count
      /\ \A w \in W!WordsOf(t) : \E j \in 1 .. n : s[j].word = w
  BY TopWordsAreSorted
<1>2. i \in 1 .. n
  BY <1>1
<1>3. words[s[i].word][t] \in Nat /\ words[u][t] \in Nat
  BY <1>1, <1>2, CountsAreNumbers
<1>4. CASE u \in W!WordsOf(t)
  <2>1. PICK j \in 1 .. n : s[j].word = u
    BY <1>1, <1>4
  <2>2. j \notin 1 .. k
    BY <2>1 DEF FrontOf
  <2>3. i < j
    BY <1>1, <2>2
  <2> HIDE DEF s
  <2> QED  BY <1>1, <1>2, <2>1, <2>3
<1>5. CASE u \notin W!WordsOf(t)
  BY <1>3, <1>5 DEF W!WordsOf
<1> QED  BY <1>4, <1>5

\* What PrintTopics shows of a topic.
LEMMA FewestAreShown ==
  ASSUME ModelType, NEW t \in W!Topics, NEW p \in Percentages, global[t] \in Nat,
         SumOver(CountsOf(t), W!Words) <= global[t]
  PROVE  LET shown == W!WordsIn(W!GetTopNWords(t, p))
             weigh(B) == W!Sum([w \in B |-> words[w][t]])
         IN  /\ p = <<1, 1>> => shown = W!WordsOf(t)
             /\ shown = W!WordsOf(t) \/ weigh(shown) >= W!Enough(t, p)
             /\ \A B \in SUBSET W!WordsOf(t) : B # {} /\ weigh(B) >= W!Enough(t, p) =>
                  W!Cardinality(B) >= W!Cardinality(shown)
             /\ W!HeavierThanOthers(shown, t)
<1> DEFINE s == W!GetTopWords(t)
           A == W!WordsOf(t)
           n == Cardinality(A)
           f == CountsOf(t)
           weigh(B) == W!Sum([w \in B |-> words[w][t]])
           shown == W!WordsIn(W!GetTopNWords(t, p))
<1>1. PICK k \in 0 .. n :
        /\ W!GetTopNWords(t, p) = SubSeq(s, 1, k)
        /\ \A m \in 1 .. n : SumOver(f, FrontOf(t, m)) >= W!Enough(t, p) => k <= m
        /\ k = n \/ SumOver(f, FrontOf(t, k)) >= W!Enough(t, p)
  BY LoopStops
<1>2. /\ n \in Nat /\ \A i \in 1 .. n : s[i].word \in A
      /\ \A i \in 1 .. n : s[i].count = words[s[i].word][t]
      /\ \A i, j \in 1 .. n : i < j => s[i].count >= s[j].count
      /\ \A i, j \in 1 .. n : s[i].word = s[j].word => i = j
      /\ \A w \in A : \E i \in 1 .. n : s[i].word = w
  BY TopWordsAreSorted
<1>3. shown = FrontOf(t, k)
  BY <1>1, <1>2, FrontWeighs
<1>4. /\ \A w \in W!Words : words[w][t] \in Nat /\ f[w] = words[w][t]
      /\ IsFiniteSet(W!Words) /\ A \subseteq W!Words /\ IsFiniteSet(A)
  BY CountsAreNumbers, FS_Subset
<1>5. \A B \in SUBSET W!Words : weigh(B) = SumOver(f, B)
  <2> SUFFICES ASSUME NEW B \in SUBSET W!Words PROVE weigh(B) = SumOver(f, B)
    OBVIOUS
  <2>1. [w \in B |-> words[w][t]] = [w \in B |-> f[w]]
    BY <1>4
  <2> QED  BY <2>1, SameInTopWords DEF SumOver
<1> DEFINE word == [i \in 1 .. n |-> s[i].word]
<1>6. /\ word \in [1 .. n -> A]
      /\ \A i, j \in 1 .. n : word[i] = word[j] => i = j
      /\ \A i, j \in 1 .. n : i < j => f[word[i]] >= f[word[j]]
      /\ \A w \in A : \E i \in 1 .. n : word[i] = w
  BY <1>2, <1>4
<1>7. \A m \in 0 .. n : FrontOf(t, m) = {word[i] : i \in 1 .. m}
  <2> SUFFICES ASSUME NEW m \in 0 .. n PROVE FrontOf(t, m) = {word[i] : i \in 1 .. m}
    OBVIOUS
  <2>1. \A i \in 1 .. m : i \in 1 .. n
    BY <1>2
  <2> QED  BY <2>1 DEF FrontOf
<1> HIDE DEF word, f, A, s, weigh, shown
<1>0. W!Enough(t, p) \in Int /\ \A B \in SUBSET A : SumOver(f, B) \in Int
  <2>1. p[1] \in Nat /\ p[2] \in Nat \ {0}
    BY LibraryAssumption DEF W!TopWordsAssumption
  <2>2. global[t] * p[1] \in Nat
    BY <2>1
  <2>3. W!Enough(t, p) \in Int
    BY <2>1, <2>2 DEF W!Enough
  <2>4. \A w \in A : f[w] \in Int
    BY <1>4
  <2> QED  BY <1>4, <2>3, <2>4, SumSteps
<1>8. \A B \in SUBSET A : SumOver(f, B) <= SumOver(f, {word[i] : i \in 1 .. Cardinality(B)})
  <2>1. \A w \in A : f[w] \in Nat
    BY <1>4
  <2>2. n \in Nat /\ IsFiniteSet(A)
    BY <1>2, <1>4
  <2> HIDE DEF n
  <2> QED  BY <1>6, <2>1, <2>2, FirstAreHeaviest
<1>9. shown \subseteq A /\ IsFiniteSet(shown) /\ Cardinality(shown) <= k /\ Cardinality(shown) \in Nat
  <2>1. \A i \in 1 .. k : i \in 1 .. n
    BY <1>2
  <2> DEFINE g == [i \in 1 .. k |-> word[i]]
  <2>2. shown = {word[i] : i \in 1 .. k}
    BY <1>3, <1>7
  <2>3. g \in Surjection(1 .. k, shown)
    BY <2>2 DEF Surjection
  <2> HIDE DEF g
  <2>4. shown \subseteq A
    BY <1>6, <2>1, <2>2
  <2> QED  BY <2>3, <2>4, UpTo, FS_Surjection, FS_CardinalityType
<1>10. ASSUME NEW B \in SUBSET A, B # {}, weigh(B) >= W!Enough(t, p)
       PROVE  W!Cardinality(B) >= W!Cardinality(shown)
  <2> DEFINE m == Cardinality(B)
  <2>1. IsFiniteSet(B) /\ m \in Nat /\ m <= n
    BY <1>4, FS_Subset, FS_CardinalityType
  <2>0. m # 0
    BY <1>10, <2>1, FS_EmptySet
  <2>2. m \in 1 .. n /\ m \in 0 .. n
    BY <1>2, <2>0, <2>1
  <2>3. SumOver(f, B) <= SumOver(f, FrontOf(t, m))
    BY <1>7, <1>8, <2>2
  <2>4. SumOver(f, FrontOf(t, m)) >= W!Enough(t, p)
    <3>1. FrontOf(t, m) \in SUBSET A
      <4>1. \A i \in 1 .. m : i \in 1 .. n
        BY <2>1, <1>2
      <4> QED  BY <1>6, <1>7, <2>2, <4>1
    <3>2. SumOver(f, B) \in Int /\ SumOver(f, FrontOf(t, m)) \in Int
      BY <1>0, <3>1
    <3>3. weigh(B) = SumOver(f, B)
      BY <1>4, <1>5
    <3> QED  BY <1>0, <1>10, <2>3, <3>2, <3>3
  <2>5. k <= m
    BY <1>1, <2>2, <2>4 DEF A, f, s
  <2> QED  BY <1>9, <2>1, <2>5, SameInTopWords
<1>11. ASSUME p = <<1, 1>> PROVE shown = A
  <2> SUFFICES ASSUME NEW x \in A, x \notin shown PROVE FALSE
    BY <1>9
  <2>1. SumOver(f, shown) >= global[t]
    <3>1. k # n
      <4> SUFFICES ASSUME k = n PROVE FALSE
        OBVIOUS
      <4>1. shown = {word[i] : i \in 1 .. n}
        BY <1>2, <1>3, <1>7
      <4> QED  BY <1>6, <4>1
    <3>2. SumOver(f, FrontOf(t, k)) >= W!Enough(t, p)
      BY <1>1, <3>1 DEF f, A, s
    <3>3. W!Enough(t, p) = global[t]
      BY <1>11 DEF W!Enough
    <3> QED  BY <1>3, <3>2, <3>3
  <2>2. SumOver(f, shown \cup {x}) = f[x] + SumOver(f, shown)
    <3>1. shown \in SUBSET A /\ x \in A \ shown
      BY <1>9
    <3>2. \A w \in A : f[w] \in Int
      BY <1>4
    <3> QED  BY <1>4, <3>1, <3>2, SumAdd
  <2>3. SumOver(f, shown \cup {x}) <= SumOver(f, W!Words)
    <3>1. shown \cup {x} \in SUBSET W!Words
      BY <1>4, <1>9
    <3>2. \A w \in W!Words : f[w] \in Nat
      BY <1>4
    <3> QED  BY <1>4, <3>1, <3>2, SumSubset
  <2>4. f[x] \in Nat /\ f[x] > 0
    BY <1>4 DEF A, W!WordsOf
  <2>5. SumOver(f, shown) \in Int /\ SumOver(f, W!Words) \in Int
    <3>1. \A w \in W!Words : f[w] \in Int
      BY <1>4
    <3>2. SumOver(f, W!Words) \in Int
      BY <1>4, <3>1, SumSteps
    <3> QED  BY <1>0, <1>9, <3>2
  <2>6. SumOver(f, W!Words) <= global[t]
    BY DEF f
  <2> QED  BY <2>1, <2>2, <2>3, <2>4, <2>5, <2>6
<1>12. shown = A \/ weigh(shown) >= W!Enough(t, p)
  <2>1. CASE k = n
    <3>1. shown = {word[i] : i \in 1 .. n}
      BY <1>2, <1>3, <1>7, <2>1
    <3> QED  BY <1>6, <3>1
  <2>2. CASE SumOver(f, FrontOf(t, k)) >= W!Enough(t, p)
    BY <1>3, <1>4, <1>5, <1>9, <2>2
  <2> QED  BY <1>1, <2>1, <2>2 DEF f, A, s
<1>13. W!HeavierThanOthers(shown, t)
  BY <1>3, FrontIsHeavier DEF A
<1> QED  BY <1>10, <1>11, <1>12, <1>13 DEF shown, weigh, A

GlobalSumsWords ==
  \E more \in Surplus :
    global = [t \in W!Topics |-> more + W!Sum([w \in W!Words |-> words[w][t]])]

\* What was printed or described is of the model that was loaded.
ShownIsOfModel ==
  /\ ModelType /\ GlobalSumsWords
  /\ percent # <<>> =>
       percent \in Percentages /\ top = [t \in W!Topics |-> W!GetTopNWords(t, percent)]
  /\ descs # <<>> => \E n \in TopLengths : \A t \in W!Topics :
       /\ W!GetTopWords(t) # <<>>
       /\ descs[t] = SubSeq(W!GetTopWords(t), 1, W!Min({n, Len(W!GetTopWords(t))}))

LEMMA InitTopWords == LibraryInit => ShownIsOfModel
<1> SUFFICES ASSUME LibraryInit PROVE ShownIsOfModel
  OBVIOUS
<1>1. W!Init
  BY DEF LibraryInit, IdleTopWords
<1> QED  BY <1>1 DEF W!Init, ShownIsOfModel, ModelType, GlobalSumsWords

LEMMA NextTopWords == ShownIsOfModel /\ [LibraryNext]_allvars => ShownIsOfModel'
<1> SUFFICES ASSUME ShownIsOfModel, [LibraryNext]_allvars PROVE ShownIsOfModel'
  OBVIOUS
<1>1. W!Next \/ UNCHANGED topwords
  BY DEF LibraryNext, allvars
<1>2. words' = words /\ global' = global
  BY <1>1 DEF W!Next, W!PrintTopics, W!DescribeTopics, topwords
<1>3. ModelType' /\ GlobalSumsWords'
  BY <1>2 DEF ShownIsOfModel, ModelType, GlobalSumsWords
<1>4. \A t, p : W!GetTopNWords(t, p)' = W!GetTopNWords(t, p)
  BY <1>2 DEF W!GetTopNWords, W!GetTopWords, W!Enough, W!Weight
<1>5. \A t : W!GetTopWords(t)' = W!GetTopWords(t)
  BY <1>2 DEF W!GetTopWords
<1>6. ASSUME NEW p \in Percentages, W!PrintTopics(p) PROVE ShownIsOfModel'
  BY <1>3, <1>4, <1>5, <1>6 DEF W!PrintTopics, ShownIsOfModel
<1>7. ASSUME NEW n \in TopLengths, W!DescribeTopics(n) PROVE ShownIsOfModel'
  <2>1. UNCHANGED <<percent, top>>
    BY <1>7 DEF W!DescribeTopics
  <2>2. ASSUME descs' # <<>>
        PROVE  \A t \in W!Topics :
                 /\ W!GetTopWords(t) # <<>>
                 /\ descs'[t] = SubSeq(W!GetTopWords(t), 1, W!Min({n, Len(W!GetTopWords(t))}))
    BY <1>7, <2>2 DEF W!DescribeTopics
  <2> QED  BY <1>3, <1>4, <1>5, <2>1, <2>2 DEF ShownIsOfModel
<1>8. CASE UNCHANGED topwords
  BY <1>3, <1>4, <1>5, <1>8 DEF topwords, ShownIsOfModel
<1> QED  BY <1>1, <1>6, <1>7, <1>8 DEF W!Next

LEMMA LesserLength ==
  ASSUME NEW m \in Nat \ {0}, NEW n \in Nat \ {0}
  PROVE  W!Min({m, n}) \in 1 .. n
<1>1. Min({m, n}) = CHOOSE x \in {m, n} : \A y \in {m, n} : x <= y
  BY DEF Min
<1>2. \E x \in {m, n} : \A y \in {m, n} : x <= y
  BY m <= n \/ n <= m
<1>3. W!Min({m, n}) \in {m, n} /\ \A y \in {m, n} : W!Min({m, n}) <= y
  BY <1>1, <1>2, SameInTopWords
<1> QED  BY <1>3

\* For every model, also part of one, and every percentage: the words shown of a
\* topic have the percentage of it that was asked for if any have, no fewer words
\* have it, and none that is left out is more frequent (model.go 108-124), because
\* the words are sorted and their counts added up until it is reached.
THEOREM FewWordsAreShown == LibrarySpec => []FewestHeaviestWords
<1>1. ShownIsOfModel => FewestHeaviestWords
  <2> SUFFICES ASSUME ShownIsOfModel PROVE W!FewestHeaviestWords
    BY DEF FewestHeaviestWords
  <2>0. ModelType
    BY DEF ShownIsOfModel
  <2>1. ASSUME NEW t \in W!Topics
        PROVE  global[t] \in Nat /\ SumOver(CountsOf(t), W!Words) <= global[t]
    <3>1. PICK more \in Surplus : global[t] = more + W!Sum([w \in W!Words |-> words[w][t]])
      BY DEF ShownIsOfModel, GlobalSumsWords
    <3>2. more \in Nat
      BY LibraryAssumption DEF W!TopWordsAssumption
    <3>3. W!Sum([w \in W!Words |-> words[w][t]]) = SumOver(CountsOf(t), W!Words)
      BY SameInTopWords, SumIsOver DEF CountsOf
    <3>4. IsFiniteSet(W!Words) /\ \A w \in W!Words : CountsOf(t)[w] \in Nat
      BY <2>0, CountsAreNumbers
    <3>5. SumOver(CountsOf(t), W!Words) \in Nat
      BY <3>4, SumNat
    <3> QED  BY <3>1, <3>2, <3>3, <3>5
  <2>2. ASSUME percent # <<>>, NEW t \in W!Topics
        PROVE  LET shown == W!WordsIn(top[t])
                   weigh(B) == W!Sum([w \in B |-> words[w][t]])
               IN  /\ percent = <<1, 1>> => shown = W!WordsOf(t)
                   /\ shown = W!WordsOf(t) \/ weigh(shown) >= W!Enough(t, percent)
                   /\ \A B \in SUBSET W!WordsOf(t) : B # {} /\ weigh(B) >= W!Enough(t, percent) =>
                        W!Cardinality(B) >= W!Cardinality(shown)
                   /\ W!HeavierThanOthers(shown, t)
    <3>1. percent \in Percentages /\ top[t] = W!GetTopNWords(t, percent)
      BY <2>2 DEF ShownIsOfModel
    <3> QED  BY <2>0, <2>1, <3>1, FewestAreShown
  <2>3. ASSUME descs # <<>>, NEW t \in W!Topics
        PROVE  descs[t] # <<>> /\ W!HeavierThanOthers(W!WordsIn(descs[t]), t)
    <3> DEFINE s == W!GetTopWords(t)
               l == Cardinality(W!WordsOf(t))
    <3>1. PICK n \in TopLengths : s # <<>> /\ descs[t] = SubSeq(s, 1, W!Min({n, Len(s)}))
      BY <2>3 DEF ShownIsOfModel
    <3>2. l \in Nat /\ s \in [1 .. l -> PairsOf(t)]
      BY <2>0, TopWordsAreSorted
    <3> HIDE DEF s
    <3>3. Len(s) = l /\ l # 0
      BY <3>1, <3>2
    <3>4. n \in Nat \ {0}
      BY LibraryAssumption DEF W!TopWordsAssumption
    <3>5. W!Min({n, l}) \in 1 .. l
      BY <3>2, <3>3, <3>4, LesserLength
    <3> DEFINE k == W!Min({n, l})
    <3>6. k \in Nat /\ k <= l /\ k # 0 /\ k \in 0 .. l
      BY <3>2, <3>5
    <3>7. descs[t] = SubSeq(W!GetTopWords(t), 1, k)
      BY <3>1, <3>3 DEF s
    <3> HIDE DEF k
    <3>8. Len(descs[t]) = k /\ W!WordsIn(descs[t]) = FrontOf(t, k)
      BY <2>0, <3>6, <3>7, FrontWeighs
    <3>9. W!HeavierThanOthers(FrontOf(t, k), t)
      BY <2>0, <3>6, FrontIsHeavier
    <3>10. descs[t] # <<>>
      BY <3>6, <3>8
    <3> QED  BY <3>8, <3>9, <3>10
  <2> QED  BY <2>2, <2>3 DEF W!FewestHeaviestWords
<1> QED  BY <1>1, InitTopWords, NextTopWords, PTL DEF LibrarySpec

=============================================================================
