------------------------------- MODULE Loading -------------------------------
(***************************************************************************)
(* What a squad promises to the master, whatever dies: a task is done when *)
(* each of its shards has been accumulated, tasks are done one by one, and *)
(* no shard is accumulated more often than the coordinator was started.    *)
(***************************************************************************)
EXTENDS Naturals, Sequences

CONSTANTS
  Chunks,  \* numbers of shards in the tasks
  Retry    \* restarts of the coordinator

VARIABLES
  task,    \* the task to be done
  loaded,  \* loaded[c][i]: times that shard i of task c was accumulated
  lives    \* starts of the coordinator

Init ==
  /\ task = 1 /\ lives = 1
  /\ loaded = [c \in DOMAIN Chunks |-> [i \in 1 .. Chunks[c] |-> 0]]

Restart == lives <= Retry /\ lives' = lives + 1 /\ UNCHANGED <<task, loaded>>

\* A shard of a task that has been given, though it may be done already.
Load(c, i) ==
  /\ c <= task /\ loaded[c][i] < lives
  /\ loaded' = [loaded EXCEPT ![c][i] = @ + 1]
  /\ UNCHANGED <<task, lives>>

Complete ==
  /\ task \in DOMAIN Chunks /\ \A i \in 1 .. Chunks[task] : loaded[task][i] >= 1
  /\ task' = task + 1
  /\ UNCHANGED <<loaded, lives>>

Next ==
  \/ Restart \/ Complete
  \/ \E c \in DOMAIN Chunks : \E i \in 1 .. Chunks[c] : Load(c, i)

Spec == Init /\ [][Next]_<<task, loaded, lives>>
=============================================================================
