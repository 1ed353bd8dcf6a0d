------------------------------ MODULE MCLibrary ------------------------------
(* Instances of Library for TLC. *)
EXTENDS Library, MCEvaluator, TLC

\* A tie, and two histograms whose difference has both signs.
SomeOthers == {(0 :> 1) @@ (1 :> 1) @@ (2 :> 2), (0 :> 0) @@ (1 :> 2) @@ (2 :> 0),
               (0 :> 0) @@ (1 :> 0) @@ (2 :> 0)}

\* Strings 1 and 3 have the same hash; 2 is twice in the second file.  4 is a
\* translation, and a string that no file has.
SomeFingerprint == (1 :> 5) @@ (2 :> 4) @@ (3 :> 5) @@ (4 :> 0)
SomeTranslations == {(2 :> 4)}
SomeFiles == {<<1, 2, 3>>, <<2, 3, 2>>}
SomeLines == {<<>>, <<3>>, <<4, 2, 1>>, <<2, 3, 2>>}
SomeBounds == [min : {0, 2}, max : {0, 1, 2}]

SomePercentages == {<<1, 1>>, <<1, 2>>, <<1, 3>>}

\* Rounds after the burn-in: none, one, two; and a call that panics.
SomeRounds == {[burnin |-> 1, iter |-> 1], [burnin |-> 0, iter |-> 1],
               [burnin |-> 1, iter |-> 2], [burnin |-> 0, iter |-> 2],
               [burnin |-> 1, iter |-> 4]}

SomeSquads == [Coordinator : {Nil, "c1", "c2"},
               Loaders  : {<<"l1">>, <<"l1", "l2">>, <<"l2", "l1">>, <<"l1", "l1">>},
               Samplers : {<<>>, <<"s1">>, <<"s1", "s2">>}]
SomeConfigs ==
  [Aggregators : {<<>>, <<"a1">>, <<"a1", "a2">>},
   Squads      : {<<>>} \cup {<<s>> : s \in SomeSquads} \cup (SomeSquads \X SomeSquads),
   Machines    : {{"m1"}}, NumVShards : {1}] \cup
  [Aggregators : {<<>>}, Squads : {<<>>}, Machines : {{}, {"m1"}}, NumVShards : {0, 1}]
=============================================================================
