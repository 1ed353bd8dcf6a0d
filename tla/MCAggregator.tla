---------------------------- MODULE MCAggregator ----------------------------
(* Instances of Aggregator for TLC. *)
EXTENDS Aggregator, TLC

CONSTANTS a1, a2, l1, l2, w1, w2

OneLoader  == {l1}
TwoLoaders == {l1, l2}
\* The second loader's shard has more of w1 and none of w2.
InShards(l, w) == IF l = l1 THEN 1 ELSE IF w = w1 THEN 2 ELSE 0
Shards == [l \in Loaders |-> [w \in Words |-> InShards(l, w)]]

AggregatorSymmetry == Permutations(Aggregators)
=============================================================================
