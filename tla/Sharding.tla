------------------------------ MODULE Sharding ------------------------------
(* The calls that loaders and trainers make of a Sharder.                    *)
EXTENDS Sharder

CONSTANTS
  MaxWords,  \* bound: words of a model
  MaxShards  \* bound: aggregators, or shards asked for

VARIABLES
  v,       \* the length of the slice of histograms
  shards,  \* Sharder.Shards
  present, \* words that have a histogram
  maps     \* what ShardModel returned

Init ==
  /\ v = 1 /\ shards = 1 /\ present = {}
  /\ maps = ShardModel(present, v, shards)

Shard(n, s, p) ==
  /\ v' = n /\ shards' = s /\ present' = p
  /\ maps' = ShardModel(p, n, s)

Next == \E n \in 1 .. MaxWords, s \in 1 .. MaxShards :
          \E p \in SUBSET (0 .. n - 1) : Shard(n, s, p)

Spec == Init /\ [][Next]_<<v, shards, present, maps>>

-----------------------------------------------------------------------------
\* Each histogram goes to one shard, whether there are more words than shards,
\* as many or fewer, and whether or not they divide evenly.
EveryWordHasOneShard ==
  \A w \in present :
    \E j \in DOMAIN maps : w \in maps[j] /\ \A k \in DOMAIN maps : w \in maps[k] => k = j
=============================================================================
