------------------------------- MODULE Sharder -------------------------------
(***************************************************************************)
(* core/gibbs/sharder.go: words 0 .. v - 1 are divided into consecutive    *)
(* buckets of almost the same size.  Loaders send bucket i of the model of *)
(* a shard to aggregator i; cmd/multithread makes one bucket of a diff.    *)
(***************************************************************************)
EXTENDS Integers

Buckets(v, shards) == IF v < shards THEN v ELSE shards

BucketSize(v, shards)      == v \div Buckets(v, shards)
ExtendedBuckets(v, shards) == v % Buckets(v, shards)

\* As First below, but as if all buckets before were of the normal size.
FirstUnextended(v, shards, j) == j * BucketSize(v, shards)

\* The first word of bucket j: of the buckets before it, the first ones are
\* extended.
First(v, shards, j) ==
  j * BucketSize(v, shards) +
    (IF j < ExtendedBuckets(v, shards) THEN j ELSE ExtendedBuckets(v, shards))

Bucket(v, shards, j) ==
  IF j >= Buckets(v, shards) THEN {}
  ELSE First(v, shards, j) ..
       First(v, shards, j) + BucketSize(v, shards)
         - (IF j < ExtendedBuckets(v, shards) THEN 0 ELSE 1)

\* The words in the map of each bucket: those of the bucket that have a
\* histogram.  A model has at least one word (model.go 24).
ShardModel(present, v, shards) ==
  [j \in 0 .. shards - 1 |-> present \cap Bucket(v, shards, j)]
=============================================================================
