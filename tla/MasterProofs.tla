---------------------------- MODULE MasterProofs ----------------------------
(***************************************************************************)
(* Theorems about Master: its types, and the checkpoints in the job        *)
(* directory, for any number of squads, aggregators, files and crashes.    *)
(*                                                                         *)
(* CheckpointsAreDense is not inductive.  IInv adds to the types who holds *)
(* the mutex (TurnInv) and that the checkpoint before the iteration of the *)
(* master, and before the iteration of each Save call in flight, is there  *)
(* (DiskInv).  One lemma per action shows that it keeps IInv.              *)
(*                                                                         *)
(* With one master, the files of a checkpoint are of different             *)
(* aggregators: everyone is registered before anyone works, and files and  *)
(* Save calls are of whom the entry with their number says (WhoInv).       *)
(* A turnover that has saved goes on to the next iteration, as each file   *)
(* of this one is there or is waited for (SavedWhen).                      *)
(***************************************************************************)
EXTENDS Master, FiniteSetTheorems, TLAPS

SquadStates == {"down", "starting", "RegisterSquad", "working", "CompleteTask", "orphan"}

\* There is a vshard, since there is an aggregator.
LEMMA VShardsNonempty == NumVShards \in Nat /\ NumVShards > 0 /\ 1 \in VShards
<1>1. NumVShards \in Nat
  BY MasterAssumption, FS_CardinalityType DEF NumVShards
<1>2. NumVShards # 0
  BY MasterAssumption, FS_EmptySet DEF NumVShards
<1>3. QED
  BY <1>1, <1>2 DEF VShards

\* Each task of an iteration gets at least one file of the corpus
\* (initializeTasks).
LEMMA ChunkType ==
  \A i \in 1 .. NumTasks : Chunk(i) \in Seq(STRING) /\ Chunk(i) # <<>>
<1>1. NumVShards \in Nat /\ NumVShards > 0
  BY VShardsNonempty
<1>2. Len(Corpus) \in Nat /\ Len(Corpus) > 0 /\ Corpus \in Seq(STRING)
  <2>1. Corpus \in Seq(STRING) /\ Corpus # <<>>
    BY MasterAssumption
  <2>2. QED
    BY <2>1
<1> DEFINE L == Len(Corpus)
           V == NumVShards
<1>3. ASSUME NEW i \in 1 .. NumTasks
      PROVE  /\ i * V \in Int /\ i * V >= V /\ i * V - V < L
  <2>1. i \in Int /\ i >= 1 /\ i <= (L + V - 1) \div V
    BY <1>1, <1>2 DEF NumTasks
  <2>2. V * ((L + V - 1) \div V) <= L + V - 1
    BY <1>1, <1>2
  <2>3. V * i <= V * ((L + V - 1) \div V)
    BY <1>1, <1>2, <2>1
  <2>4. i * V = V * i /\ i * V >= V
    BY <1>1, <2>1
  <2>5. QED
    BY <1>1, <1>2, <2>2, <2>3, <2>4
<1>4. ASSUME NEW i \in 1 .. NumTasks
      PROVE  Chunk(i) \in Seq(STRING) /\ Chunk(i) # <<>>
  <2> DEFINE lo == i * V - V + 1
             hi == IF i * V < L THEN i * V ELSE L
  <2>1. lo \in 1 .. L /\ hi \in 1 .. L /\ lo <= hi
    BY <1>1, <1>2, <1>3
  <2>2. Chunk(i) = SubSeq(Corpus, lo, hi)
    BY DEF Chunk
  <2> HIDE DEF lo, hi
  <2>3. SubSeq(Corpus, lo, hi) \in Seq(STRING) /\ Len(SubSeq(Corpus, lo, hi)) = hi - lo + 1
    BY <1>2, <2>1
  <2>4. QED
    BY <2>1, <2>2, <2>3
<1>5. QED
  BY <1>4

\* What the code does to a Task gives a Task: assign it, decode it, report it.
LEMMA TaskTypes ==
  /\ ZeroTask \in Task
  /\ NoTask \notin Task
  /\ \A t \in Task, c \in Coordinators : [t EXCEPT !.coord = c] \in Task
  /\ \A t, u \in Task : Decode(t, u) \in Task
  /\ \A t \in Task : Work(t) \in [shards : Seq(STRING), iteration : Nat,
                                  action : {INIT, GIBBS, LOGLL}]
<1>1. ZeroTask \in Task
  BY DEF ZeroTask, Task, INIT
<1>2. NoTask \notin Task
  BY DEF NoTask, Task
<1>3. \A t \in Task, c \in Coordinators : [t EXCEPT !.coord = c] \in Task
  BY DEF Task
<1>4. \A t, u \in Task : Decode(t, u) \in Task
  BY DEF Decode, Task
<1>5. \A t \in Task : Work(t) \in [shards : Seq(STRING), iteration : Nat,
                                   action : {INIT, GIBBS, LOGLL}]
  BY DEF Work, Task
<1>6. QED
  BY <1>1, <1>2, <1>3, <1>4, <1>5

\* What initializeTasks plans after iteration fi, and that only a new job
\* is initialised.
LEMMA AfterType ==
  ASSUME NEW fi \in Int, fi >= -1
  PROVE  /\ ActionAfter(fi) \in {INIT, GIBBS, LOGLL}
         /\ IterationAfter(fi) \in Nat
         /\ ActionAfter(fi) = INIT <=> fi = -1
         /\ IterationAfter(fi) \in {fi, fi + 1}
<1>1. MasterAssumption
  BY MasterAssumption
<1>2. LogllPeriod \in Nat
  BY <1>1 DEF MasterAssumption
<1>3. ActionAfter(fi) \in {INIT, GIBBS, LOGLL} /\ (ActionAfter(fi) = INIT <=> fi = -1)
  BY <1>2 DEF ActionAfter, INIT, GIBBS, LOGLL
<1>4. ActionAfter(fi) = LOGLL => fi >= 0
  BY <1>2 DEF ActionAfter, INIT, GIBBS, LOGLL
<1>5. QED
  BY <1>3, <1>4 DEF IterationAfter

\* initializeTasks fills the queue with NumTasks unassigned tasks.
LEMMA TasksAfterType ==
  ASSUME NEW fi \in Int, fi >= -1
  PROVE  /\ TasksAfter(fi) \in Seq(Task)
         /\ NumTasks \in Nat
         /\ Len(TasksAfter(fi)) = NumTasks
         /\ \A i \in 1 .. NumTasks :
              TasksAfter(fi)[i] = [shards |-> Chunk(i), coord |-> NoCoord,
                                   iteration |-> IterationAfter(fi),
                                   action |-> ActionAfter(fi)]
<1>1. NumTasks \in Nat
  <2>1. Corpus \in Seq(STRING)
    BY MasterAssumption
  <2>2. Len(Corpus) \in Nat
    BY <2>1
  <2>3. QED
    BY <2>2, VShardsNonempty DEF NumTasks
<1>2. \A i \in 1 .. NumTasks :
        [shards |-> Chunk(i), coord |-> NoCoord, iteration |-> IterationAfter(fi),
         action |-> ActionAfter(fi)] \in Task
  BY ChunkType, AfterType DEF Task
<1>3. QED
  BY <1>1, <1>2 DEF TasksAfter

\* Squads that exit keep the types of the squads.
LEMMA SquadsExitType ==
  ASSUME TypeOK, NEW cs, SquadsExit(cs)
  PROVE  /\ squad' \in [Coordinators -> SquadStates]
         /\ task' \in [Coordinators -> Task]
         /\ restarts' \in [Coordinators -> Nat]
BY DEF TypeOK, SquadsExit, SquadStates

\* A reply or an error keeps the types of the squads.
LEMMA ReplyType ==
  ASSUME TypeOK, NEW k, k.coord \in Coordinators, NEW t \in Task,
         Reply(k, t) \/ ReplyError(k)
  PROVE  /\ squad' \in [Coordinators -> SquadStates]
         /\ task' \in [Coordinators -> Task]
         /\ restarts' \in [Coordinators -> Nat]
<1>1. CASE ~ k.live
  BY <1>1 DEF TypeOK, Reply, ReplyError, SquadStates, squadVars
<1>2. CASE k.live /\ Reply(k, t)
  <2>1. \A u \in Task : Decode(u, t) \in Task
    BY TaskTypes
  <2>2. /\ squad' = [squad EXCEPT ![k.coord] = "working"]
        /\ task' = [task EXCEPT ![k.coord] = Decode(task[k.coord], t)]
        /\ restarts' = restarts
    BY <1>2 DEF Reply
  <2>3. task[k.coord] \in Task /\ task \in [Coordinators -> Task]
    BY DEF TypeOK
  <2>4. Decode(task[k.coord], t) \in Task
    BY <2>1, <2>3
  <2>5. task' \in [Coordinators -> Task]
    BY <2>2, <2>3, <2>4
  <2>6. QED
    BY <2>2, <2>5 DEF TypeOK, SquadStates
<1>3. CASE k.live /\ ReplyError(k)
  BY <1>3, SquadsExitType DEF ReplyError
<1>4. QED
  BY <1>1, <1>2, <1>3

\* distributeTask on a non-empty queue keeps the types of queue and squads.
LEMMA AssignType ==
  ASSUME TypeOK, NEW k, k.coord \in Coordinators, NEW queue \in Seq(Task),
         Assign(k, queue)
  PROVE  /\ squad' \in [Coordinators -> SquadStates]
         /\ task' \in [Coordinators -> Task]
         /\ restarts' \in [Coordinators -> Nat]
         /\ pending' \in Seq(Task)
         /\ working' \in [Coordinators -> Task \cup {NoTask}]
<1> DEFINE t == [Head(queue) EXCEPT !.coord = k.coord]
<1>1. queue # <<>> /\ pending' = Tail(queue) /\ Reply(k, t)
      /\ working' = [working EXCEPT ![k.coord] = t]
  BY DEF Assign
<1>2. Head(queue) \in Task /\ Tail(queue) \in Seq(Task)
  BY <1>1
<1>3. t \in Task
  BY <1>2, TaskTypes
<1> HIDE DEF t
<1>4. QED
  BY <1>1, <1>2, <1>3, ReplyType DEF TypeOK

-----------------------------------------------------------------------------
(* The parts of TypeOK, by what changes together. *)

QueueType ==
  /\ pending \in Seq(Task)
  /\ working \in [Coordinators -> Task \cup {NoTask}]

TurnType ==
  /\ turn \in [step : {"idle", "aggregate", "save", "saving"},
               coord : Coordinators \cup {NoCoord}, live : BOOLEAN,
               failed : BOOLEAN]

MasterType ==
  /\ masterUp \in BOOLEAN
  /\ iteration \in -1 .. MaxIteration
  /\ crashes \in [master : Nat, aggregator : Nat]

AggrType ==
  /\ aggregators \in Seq(Client)
  /\ aggrLaunched \in BOOLEAN
  /\ aggr \in [Aggregators -> {"down", "starting", "up"}]
  /\ aggrRetried \subseteq Aggregators

DiskType ==
  /\ saves \subseteq Save
  /\ dirs \subseteq Iterations
  /\ files \in [Iterations -> [VShards -> FileState]]

SquadType ==
  /\ squad \in [Coordinators -> SquadStates]
  /\ task \in [Coordinators -> Task]
  /\ restarts \in [Coordinators -> Nat]

CallType ==
  /\ stale \subseteq StaleCall
  /\ done \subseteq [shards : Seq(STRING), iteration : Nat,
                     action : {INIT, GIBBS, LOGLL}]

Types == /\ QueueType /\ TurnType /\ MasterType /\ AggrType /\ DiskType
         /\ SquadType /\ CallType

\* TypeOK is the conjunction of its parts.
LEMMA TypeParts == TypeOK <=> Types
  BY DEF TypeOK, Types, QueueType, TurnType, MasterType, AggrType, DiskType,
         SquadType, CallType, SquadStates

\* A part of TypeOK holds on when its variables do not change.
LEMMA TypeFrames ==
  ASSUME Types
  PROVE  /\ UNCHANGED <<pending, working>> => QueueType'
         /\ UNCHANGED turn => TurnType'
         /\ UNCHANGED <<masterUp, iteration, crashes>> => MasterType'
         /\ UNCHANGED <<aggregators, aggrLaunched, aggr, aggrRetried>> => AggrType'
         /\ UNCHANGED <<saves, dirs, files>> => DiskType'
         /\ UNCHANGED <<squad, task, restarts>> => SquadType'
         /\ UNCHANGED <<stale, done>> => CallType'
<1>1. UNCHANGED <<pending, working>> => QueueType'
  BY DEF Types, QueueType
<1>2. UNCHANGED turn => TurnType'
  BY DEF Types, TurnType
<1>3. UNCHANGED <<masterUp, iteration, crashes>> => MasterType'
  BY DEF Types, MasterType
<1>4. UNCHANGED <<aggregators, aggrLaunched, aggr, aggrRetried>> => AggrType'
  BY DEF Types, AggrType
<1>5. UNCHANGED <<saves, dirs, files>> => DiskType'
  BY DEF Types, DiskType
<1>6. UNCHANGED <<squad, task, restarts>> => SquadType'
  BY DEF Types, SquadType
<1>7. UNCHANGED <<stale, done>> => CallType'
  BY DEF Types, CallType
<1>8. QED
  BY <1>1, <1>2, <1>3, <1>4, <1>5, <1>6, <1>7

-----------------------------------------------------------------------------
(* The inductive invariant. *)

\* The mutex: who holds it, and what cannot change while it is held.
TurnInv ==
  /\ turn.step = "idle" => turn = Idle
  /\ turn.step # "idle" => /\ masterUp /\ pending = <<>>
                           /\ iteration < MaxIteration
                           /\ turn.coord \in Coordinators
  /\ masterUp => iteration >= 0
  /\ \A s \in saves : s.iteration < MaxIteration
  /\ \A s \in saves : s.waited => turn.step = "saving"

\* The disk: the iteration before that of the master, and before that of each
\* Save call in flight, is on it.
DiskInv ==
  /\ \A v \in VShards : files[MaxIteration][v] = NoFile
  /\ CheckpointsAreDense
  /\ masterUp /\ iteration > 0 => Completed(iteration - 1) /\ Numbered(iteration - 1)
  /\ \A s \in saves : s.iteration > 0 => Completed(s.iteration - 1)

IInv == Types /\ TurnInv /\ DiskInv

\* A call the master may serve carries a coordinator and a Task.
LEMMA CallTypes ==
  ASSUME TypeOK
  PROVE  /\ \A k \in LiveCalls \cup stale :
              /\ k.method \in {"RegisterSquad", "CompleteTask"}
              /\ k.coord \in Coordinators
              /\ k.task \in Task
              /\ k.live \in BOOLEAN
         /\ \A cs : LateCalls(cs) \subseteq StaleCall
<1>1. \A k \in LiveCalls :
        /\ k.method \in {"RegisterSquad", "CompleteTask"}
        /\ k.coord \in Coordinators
        /\ k.task \in Task
        /\ k.live \in BOOLEAN
        /\ k = [method |-> k.method, coord |-> k.coord, task |-> k.task, live |-> TRUE]
  <2>1. TAKE k \in LiveCalls
  <2>2. PICK c \in Coordinators :
          /\ squad[c] \in {"RegisterSquad", "CompleteTask"}
          /\ k = [method |-> squad[c], coord |-> c, task |-> task[c], live |-> TRUE]
    BY <2>1 DEF LiveCalls, Call
  <2>3. task[c] \in Task
    BY DEF TypeOK
  <2>4. QED
    BY <2>2, <2>3
<1>2. \A k \in stale :
        /\ k.method \in {"RegisterSquad", "CompleteTask"}
        /\ k.coord \in Coordinators
        /\ k.task \in Task
        /\ k.live \in BOOLEAN
  BY DEF StaleCall, TypeOK
<1>3. ASSUME NEW cs, NEW k \in LateCalls(cs)
      PROVE  k \in StaleCall
  <2>1. PICK x \in LiveCalls : k = [x EXCEPT !.live = FALSE]
    BY <1>3 DEF LateCalls
  <2>2. k = [method |-> x.method, coord |-> x.coord, task |-> x.task, live |-> FALSE]
    BY <1>1, <2>1
  <2>3. QED
    BY <1>1, <2>2 DEF StaleCall
<1>4. QED
  BY <1>1, <1>2, <1>3

\* FindMostRecentCompletedIteration finds an iteration below the bound, for
\* the last one is never saved.
LEMMA CompletedBelowMax ==
  ASSUME IInv, NEW fi \in -1 .. MaxIteration, MostRecentCompleted(fi)
  PROVE  fi + 1 \in Iterations /\ (fi >= 0 => Completed(fi) /\ Numbered(fi))
<1>1. fi = -1 \/ (Completed(fi) /\ Numbered(fi))
  BY DEF MostRecentCompleted
<1>2. Completed(fi) => fi # MaxIteration
  BY VShardsNonempty DEF Completed, IInv, DiskInv
<1>3. MaxIteration \in Nat
  BY MasterAssumption
<1>4. QED
  BY <1>1, <1>2, <1>3 DEF Iterations

\* The inductive invariant holds at first.
LEMMA InitIInv == Init => IInv
<1> SUFFICES ASSUME Init PROVE IInv
  OBVIOUS
<1>1. MaxIteration \in Nat
  BY MasterAssumption
<1>2. TypeOK
  <2>1. files \in [Iterations -> [VShards -> FileState]]
    BY DEF Init, FileState
  <2>2. turn \in [step : {"idle", "aggregate", "save", "saving"},
                 coord : Coordinators \cup {NoCoord}, live : BOOLEAN,
                 failed : BOOLEAN]
    BY DEF Init, Idle
  <2>3. task \in [Coordinators -> Task]
    BY TaskTypes DEF Init
  <2>4. /\ pending \in Seq(Task) /\ aggregators \in Seq(Client)
        /\ working \in [Coordinators -> Task \cup {NoTask}]
        /\ squad \in [Coordinators -> SquadStates]
        /\ restarts \in [Coordinators -> Nat]
        /\ iteration \in -1 .. MaxIteration
        /\ aggr \in [Aggregators -> {"down", "starting", "up"}]
        /\ crashes \in [master : Nat, aggregator : Nat]
    BY <1>1 DEF Init, SquadStates
  <2>5. QED
    BY <2>1, <2>2, <2>3, <2>4 DEF Init, TypeOK, SquadStates
<1>3. TurnInv
  BY DEF Init, TurnInv, Idle
<1>4. DiskInv
  BY <1>1 DEF Init, DiskInv, CheckpointsAreDense, Completed, Iterations
<1>5. QED
  BY <1>2, <1>3, <1>4, TypeParts DEF IInv

\* A step that neither touches the disk nor begins an iteration keeps DiskInv.
LEMMA DiskFrame ==
  ASSUME DiskInv, UNCHANGED <<masterUp, iteration, files, dirs>>,
         \A s \in saves' : \E r \in saves : r.iteration = s.iteration
  PROVE  DiskInv'
<1>1. \A k : Completed(k)' = Completed(k) /\ Numbered(k)' = Numbered(k)
  BY DEF Completed, Numbered
<1>2. CheckpointsAreDense'
  BY DEF DiskInv, CheckpointsAreDense
<1>3. \A s \in saves' : s.iteration > 0 => Completed(s.iteration - 1)'
  BY <1>1 DEF DiskInv
<1>4. QED
  BY <1>1, <1>2, <1>3 DEF DiskInv

\* RegisterSquad and CompleteTask keep the inductive invariant.
LEMMA HandlerIInv ==
  ASSUME IInv, NEW k \in LiveCalls \cup stale, RegisterSquad(k) \/ CompleteTask(k)
  PROVE  IInv'
<1>1. k.coord \in Coordinators /\ k.task \in Task /\ k.live \in BOOLEAN
  BY CallTypes, TypeParts DEF IInv
<1>2. /\ masterUp /\ turn = Idle /\ stale' = stale \ {k}
      /\ UNCHANGED <<masterUp, iteration, aggregators, aggrVars, saves, diskVars, crashes>>
  BY DEF RegisterSquad, CompleteTask
<1>3. \/ /\ pending' \in Seq(Task) /\ turn' = turn
         /\ working' \in [Coordinators -> Task \cup {NoTask}]
         /\ squad' \in [Coordinators -> SquadStates]
         /\ task' \in [Coordinators -> Task]
         /\ restarts' \in [Coordinators -> Nat]
      \/ /\ pending' = pending /\ pending = <<>> /\ iteration < MaxIteration
         /\ turn' = [step |-> "aggregate", coord |-> k.coord, live |-> k.live,
                     failed |-> FALSE]
         /\ working' \in [Coordinators -> Task \cup {NoTask}]
         /\ UNCHANGED squadVars
  <2>1. pending \in Seq(Task) /\ working \in [Coordinators -> Task \cup {NoTask}]
    BY DEF IInv, Types, QueueType
  <2>2. CASE RegisterSquad(k) /\ working[k.coord] # NoTask
    <3>1. Reply(k, working[k.coord]) /\ UNCHANGED <<pending, working, turn>>
      BY <2>2 DEF RegisterSquad, Assign
    <3>2. working[k.coord] \in Task
      BY <1>1, <2>1, <2>2
    <3>3. QED
      BY <1>1, <2>1, <3>1, <3>2, ReplyType, TypeParts DEF IInv
  <2>3. CASE Assign(k, pending) /\ UNCHANGED turn
    BY <1>1, <2>1, <2>3, AssignType, TypeParts DEF IInv
  <2>4. CASE /\ BeginTurnover(k)
             /\ \/ UNCHANGED working
                \/ \E c : working' = [working EXCEPT ![c] = NoTask]
             /\ UNCHANGED <<pending, squadVars>>
    BY <2>1, <2>4 DEF BeginTurnover
  <2>5. CASE RefuseCompletion(k)
    <3>1. ReplyError(k) /\ UNCHANGED <<pending, working, turn>>
      BY <2>5 DEF RefuseCompletion
    <3>2. QED
      BY <1>1, <2>1, <3>1, ReplyType, TaskTypes, TypeParts DEF IInv
  <2>6. RegisterSquad(k) /\ working[k.coord] = NoTask =>
          \/ Assign(k, pending) /\ UNCHANGED turn
          \/ BeginTurnover(k) /\ UNCHANGED <<pending, working, squadVars>>
    BY DEF RegisterSquad
  <2>7. CompleteTask(k) =>
          \/ RefuseCompletion(k)
          \/ Assign(k, pending) /\ UNCHANGED turn
          \/ /\ BeginTurnover(k) /\ UNCHANGED <<pending, squadVars>>
             /\ \E c : working' = [working EXCEPT ![c] = NoTask]
    BY DEF CompleteTask, AcceptCompletion
  <2>8. QED
    BY <2>2, <2>3, <2>4, <2>5, <2>6, <2>7
<1>4. done' \subseteq done \cup {Work(k.task)}
  BY DEF RegisterSquad, CompleteTask, AcceptCompletion, RefuseCompletion
<1>5. Work(k.task) \in [shards : Seq(STRING), iteration : Nat,
                        action : {INIT, GIBBS, LOGLL}]
  BY <1>1, TaskTypes
<1>6. Types'
  <2>1. QueueType'
    BY <1>3 DEF QueueType, IInv, Types
  <2>2. TurnType'
    <3>1. CASE turn' = turn
      BY <3>1, TypeFrames DEF IInv
    <3>2. CASE turn' = [step |-> "aggregate", coord |-> k.coord, live |-> k.live,
                        failed |-> FALSE]
      BY <1>1, <3>2 DEF TurnType
    <3>3. QED
      BY <1>3, <3>1, <3>2
  <2>3. SquadType'
    BY <1>3, TypeFrames DEF SquadType, IInv, squadVars
  <2>4. CallType'
    BY <1>2, <1>4, <1>5 DEF IInv, Types, CallType
  <2>5. QED
    BY <1>2, <2>1, <2>2, <2>3, <2>4, TypeFrames DEF IInv, Types, aggrVars, diskVars
<1>7. TurnInv'
  BY <1>1, <1>2, <1>3 DEF IInv, TurnInv, Idle
<1>8. DiskInv'
  BY <1>2, DiskFrame DEF IInv, diskVars
<1>9. QED
  BY <1>6, <1>7, <1>8 DEF IInv

\* The turnover's failure: the mutex is released and the caller refused.
LEMMA FailTurnType ==
  ASSUME IInv, turn.step # "idle", FailTurn
  PROVE  TurnType' /\ SquadType' /\ turn' = Idle
<1>1. ReplyError(turn) /\ turn' = Idle /\ turn.coord \in Coordinators
  BY DEF FailTurn, IInv, TurnInv
<1>2. SquadType'
  BY <1>1, ReplyType, TaskTypes, TypeParts DEF SquadType, IInv
<1>3. QED
  BY <1>1, <1>2 DEF TurnType, Idle

\* aggregateGlobalHists keeps the inductive invariant.
LEMMA AggregateIInv == ASSUME IInv, AggregateGlobalHists PROVE IInv'
<1>1. /\ turn.step = "aggregate"
      /\ UNCHANGED <<masterVars, aggregators, aggrVars, saves, diskVars, stale,
                     crashes, done>>
      /\ \/ turn' = [turn EXCEPT !.step = "save"] /\ UNCHANGED squadVars
         \/ FailTurn
  BY DEF AggregateGlobalHists
<1>2. TurnType' /\ SquadType' /\ (turn' = Idle \/ turn' = [turn EXCEPT !.step = "save"])
  <2>1. CASE turn' = [turn EXCEPT !.step = "save"] /\ UNCHANGED squadVars
    BY <2>1, TypeFrames DEF IInv, Types, TurnType, squadVars
  <2>2. CASE FailTurn
    BY <1>1, <2>2, FailTurnType
  <2>3. QED
    BY <1>1, <2>1, <2>2
<1>3. Types'
  BY <1>1, <1>2, TypeFrames DEF IInv, Types, masterVars, aggrVars, diskVars
<1>4. TurnInv'
  BY <1>1, <1>2 DEF IInv, Types, TurnType, TurnInv, masterVars, Idle
<1>5. DiskInv'
  BY <1>1, DiskFrame DEF IInv, masterVars, diskVars
<1>6. QED
  BY <1>3, <1>4, <1>5 DEF IInv

\* The calls of saveModel keep the inductive invariant.
LEMMA SaveModelIInv == ASSUME IInv, SaveModel PROVE IInv'
<1> DEFINE live == {j \in DOMAIN aggregators \cap VShards : aggregators[j].live}
<1>1. /\ turn.step = "save"
      /\ saves' = saves \cup {SaveCall(i) : i \in live}
      /\ turn' = [turn EXCEPT !.step = "saving",
                   !.failed = \E i \in DOMAIN aggregators : ~ aggregators[i].live]
      /\ UNCHANGED <<masterVars, aggregators, aggrVars, diskVars, squadVars, stale,
                     crashes, done>>
  BY DEF SaveModel
<1>2. masterUp /\ iteration \in Iterations /\ iteration < MaxIteration
  <2>1. MaxIteration \in Nat
    BY MasterAssumption
  <2>2. masterUp /\ iteration < MaxIteration /\ iteration >= 0
    BY <1>1 DEF IInv, TurnInv
  <2>3. QED
    BY <2>1, <2>2 DEF IInv, Types, MasterType, Iterations
<1>3. \A i \in live : /\ SaveCall(i) \in Save
                      /\ SaveCall(i).iteration = iteration
  <2>1. \A i \in DOMAIN aggregators : aggregators[i].addr \in Aggregators
    <3>1. \A i \in DOMAIN aggregators : aggregators[i] \in Client
      BY DEF IInv, Types, AggrType
    <3>2. QED
      BY <3>1 DEF Client
  <2>2. QED
    BY <1>2, <2>1 DEF SaveCall, Save
<1>4. TurnType' /\ turn'.step = "saving" /\ turn'.coord = turn.coord
  <2> DEFINE f == \E i \in DOMAIN aggregators : ~ aggregators[i].live
  <2>1. f \in BOOLEAN
    OBVIOUS
  <2>2. turn' = [[turn EXCEPT !.step = "saving"] EXCEPT !.failed = f]
    BY <1>1 DEF IInv, Types, TurnType
  <2> HIDE DEF f
  <2>3. QED
    BY <2>1, <2>2 DEF IInv, Types, TurnType
<1>5. Types'
  <2>1. DiskType'
    BY <1>1, <1>3 DEF IInv, Types, DiskType, diskVars
  <2>2. QED
    BY <1>1, <1>4, <2>1, TypeFrames DEF IInv, Types, masterVars, aggrVars, squadVars
<1>6. TurnInv'
  BY <1>1, <1>2, <1>3, <1>4 DEF IInv, TurnInv, masterVars
<1>7. DiskInv'
  <2>1. \A k : Completed(k)' = Completed(k) /\ Numbered(k)' = Numbered(k)
    BY <1>1 DEF Completed, Numbered, diskVars
  <2>2. CheckpointsAreDense'
    BY <1>1 DEF IInv, DiskInv, CheckpointsAreDense, diskVars
  <2>3. \A s \in saves' : s.iteration > 0 => Completed(s.iteration - 1)
    BY <1>1, <1>2, <1>3 DEF IInv, DiskInv
  <2>4. QED
    BY <1>1, <2>1, <2>2, <2>3 DEF IInv, DiskInv, masterVars, diskVars
<1>8. QED
  BY <1>5, <1>6, <1>7 DEF IInv

\* The failure of saveModel, or of the look for the checkpoint just saved, keeps
\* the inductive invariant.
LEMMA SaveModelFailsIInv == ASSUME IInv, SaveModelFails \/ PlanningFails PROVE IInv'
<1>1. /\ turn.step = "saving" /\ \A s \in saves : ~ s.waited
      /\ FailTurn
      /\ UNCHANGED <<masterVars, aggregators, aggrVars, saves, diskVars, stale,
                     crashes, done>>
  BY DEF SaveModelFails, PlanningFails, SaveReturned
<1>2. TurnType' /\ SquadType' /\ turn' = Idle
  BY <1>1, FailTurnType
<1>3. Types'
  BY <1>1, <1>2, TypeFrames DEF IInv, Types, masterVars, aggrVars, diskVars
<1>4. TurnInv'
  BY <1>1, <1>2 DEF IInv, TurnInv, masterVars, Idle
<1>5. DiskInv'
  BY <1>1, DiskFrame DEF IInv, masterVars, diskVars
<1>6. QED
  BY <1>3, <1>4, <1>5 DEF IInv

\* Beginning an iteration past a completed one keeps DiskInv, whether its
\* directory could be made or not.
LEMMA PrepareDisk ==
  ASSUME IInv, NEW fi \in -1 .. MaxIteration, MostRecentCompleted(fi),
         PrepareIteration(fi), MakeDirectory(fi) \/ PlanningCut(fi),
         UNCHANGED <<files, saves>>, masterUp'
  PROVE  /\ DiskInv' /\ DiskType'
         /\ iteration' = fi + 1 /\ iteration' \in -1 .. MaxIteration /\ iteration' >= 0
<1>1. /\ fi + 1 \in Iterations
      /\ fi >= 0 => Completed(fi) /\ Numbered(fi)
  BY CompletedBelowMax
<1>2. iteration' = fi + 1 /\ dirs \subseteq dirs' /\ dirs' \subseteq dirs \cup {fi + 1}
  BY DEF PrepareIteration, MakeDirectory, PlanningCut
<1>3. \A k : Completed(k)' = Completed(k) /\ (Numbered(k) => Numbered(k)')
  BY <1>2 DEF Completed, Numbered
<1>4. DiskType'
  BY <1>1, <1>2 DEF IInv, Types, DiskType
<1>5. CheckpointsAreDense'
  BY DEF IInv, DiskInv, CheckpointsAreDense
<1>6. (iteration > 0 => Completed(iteration - 1) /\ Numbered(iteration - 1))'
  <2>1. fi >= 0 => Completed(fi)' /\ Numbered(fi)'
    BY <1>1, <1>3
  <2>2. iteration' - 1 = fi /\ (iteration' > 0 => fi >= 0)
    BY <1>2
  <2>3. QED
    BY <2>1, <2>2 DEF Completed, Numbered
<1>7. \A s \in saves' : s.iteration > 0 => Completed(s.iteration - 1)'
  BY <1>3 DEF IInv, DiskInv
<1>8. \A v \in VShards : files'[MaxIteration][v] = NoFile
  BY DEF IInv, DiskInv
<1>9. DiskInv'
  BY <1>5, <1>6, <1>7, <1>8 DEF DiskInv
<1>10. QED
  BY <1>1, <1>2, <1>4, <1>9 DEF Iterations

\* The planning of the next iteration keeps the inductive invariant: the
\* checkpoint before it was found complete.
LEMMA InitializeTasksIInv ==
  ASSUME IInv, NEW fi \in -1 .. MaxIteration, InitializeTasks(fi)
  PROVE  IInv'
<1>1. /\ turn.step = "saving" /\ \A s \in saves : ~ s.waited
      /\ MostRecentCompleted(fi) /\ PrepareIteration(fi)
      /\ MakeDirectory(fi) \/ PlanningCut(fi)
      /\ done' = {} /\ turn' = Idle
      /\ \/ Assign(turn, pending \o TasksAfter(fi))
         \/ ReplyError(turn) /\ UNCHANGED <<pending, working>>
      /\ UNCHANGED <<masterUp, aggregators, aggrVars, saves, files, stale, crashes>>
  BY DEF InitializeTasks, SaveReturned
<1>2. masterUp /\ turn.coord \in Coordinators
  BY <1>1 DEF IInv, TurnInv
<1>3. DiskInv' /\ DiskType' /\ iteration' \in -1 .. MaxIteration /\ iteration' >= 0
  BY <1>1, <1>2, PrepareDisk
<1>4. SquadType' /\ QueueType'
  <2>1. CASE Assign(turn, pending \o TasksAfter(fi))
    <3>1. pending \in Seq(Task)
      BY DEF IInv, Types, QueueType
    <3>2. TasksAfter(fi) \in Seq(Task)
      BY TasksAfterType
    <3>3. pending \o TasksAfter(fi) \in Seq(Task)
      BY <3>1, <3>2
    <3>4. QED
      BY <1>2, <2>1, <3>3, AssignType, TypeParts DEF IInv, SquadType, QueueType
  <2>2. CASE ReplyError(turn) /\ UNCHANGED <<pending, working>>
    BY <1>2, <2>2, ReplyType, TaskTypes, TypeParts, TypeFrames DEF IInv, SquadType
  <2>3. QED
    BY <1>1, <2>1, <2>2
<1>5. Types'
  <2>1. TurnType'
    BY <1>1 DEF TurnType, Idle
  <2>2. MasterType'
    BY <1>1, <1>3 DEF IInv, Types, MasterType
  <2>3. CallType'
    BY <1>1 DEF IInv, Types, CallType
  <2>4. QED
    BY <1>1, <1>3, <1>4, <2>1, <2>2, <2>3, TypeFrames DEF IInv, Types, aggrVars
<1>6. TurnInv'
  BY <1>1, <1>3 DEF IInv, TurnInv, Idle
<1>7. QED
  BY <1>3, <1>5, <1>6 DEF IInv

\* Writing any content into file (k, v), where checkpoint k - 1 is complete.
LEMMA WriteDisk ==
  ASSUME IInv, NEW k \in Iterations, k < MaxIteration, NEW v \in VShards,
         k > 0 => Completed(k - 1),
         NEW w \in BOOLEAN, NEW a \in Aggregators,
         files' = [files EXCEPT ![k][v] = [by |-> a, whole |-> w]],
         dirs \subseteq dirs', UNCHANGED <<masterUp, iteration>>,
         \A s \in saves' : \E r \in saves : r.iteration = s.iteration
  PROVE  DiskInv' /\ files' \in [Iterations -> [VShards -> FileState]]
<1>1. files \in [Iterations -> [VShards -> FileState]]
  BY DEF IInv, Types, DiskType
<1>2. [by |-> a, whole |-> w] # NoFile /\ [by |-> a, whole |-> w] \in FileState
  BY MasterAssumption DEF NoFile, FileState
<1>3. files' \in [Iterations -> [VShards -> FileState]]
  BY <1>1, <1>2
<1>4. \A j \in Iterations : \A x \in VShards :
        /\ files[j][x] # NoFile => files'[j][x] # NoFile
        /\ j # k => files'[j][x] = files[j][x]
  BY <1>1, <1>2
<1>5. \A j : Completed(j) => Completed(j)'
  BY <1>4 DEF Completed
<1>6. \A j : Numbered(j) => Numbered(j)'
  BY DEF Numbered
<1>7. MaxIteration \in Iterations /\ \A j \in Iterations : j > 0 => j - 1 \in Iterations
  <2>1. MaxIteration \in Nat
    BY MasterAssumption
  <2>2. QED
    BY <2>1 DEF Iterations
<1>8. CheckpointsAreDense'
  <2> SUFFICES ASSUME NEW j \in Iterations, NEW x \in VShards, j > 0,
                      files'[j][x] # NoFile, NEW y \in VShards
               PROVE  files'[j - 1][y] # NoFile
    BY DEF CheckpointsAreDense
  <2>1. files[j - 1][y] # NoFile
    <3>1. CASE j = k
      BY <3>1 DEF Completed
    <3>2. CASE j # k
      BY <1>4, <3>2 DEF IInv, DiskInv, CheckpointsAreDense
    <3>3. QED
      BY <3>1, <3>2
  <2>2. QED
    BY <1>4, <1>7, <2>1
<1>9. \A x \in VShards : files'[MaxIteration][x] = NoFile
  <2>1. MaxIteration # k
    BY <1>7 DEF Iterations
  <2>2. \A x \in VShards : files'[MaxIteration][x] = files[MaxIteration][x]
    BY <1>4, <1>7, <2>1
  <2>3. QED
    BY <2>2 DEF IInv, DiskInv
<1>10. \A s \in saves' : s.iteration > 0 => Completed(s.iteration - 1)'
  BY <1>5 DEF IInv, DiskInv
<1>11. (masterUp /\ iteration > 0 => Completed(iteration - 1) /\ Numbered(iteration - 1))'
  <2>1. masterUp /\ iteration > 0 => Completed(iteration - 1)' /\ Numbered(iteration - 1)'
    BY <1>5, <1>6 DEF IInv, DiskInv
  <2>2. QED
    BY <2>1 DEF Completed, Numbered
<1>12. QED
  BY <1>3, <1>8, <1>9, <1>10, <1>11 DEF DiskInv

\* An aggregator that creates its file keeps the inductive invariant.
LEMMA CreateFileIInv == ASSUME IInv, NEW s \in saves, CreateFile(s) PROVE IInv'
<1>1. /\ s \in Save /\ s.iteration < MaxIteration
      /\ s.iteration > 0 => Completed(s.iteration - 1)
      /\ s.waited => turn.step = "saving"
  BY DEF IInv, Types, DiskType, TurnInv, DiskInv
<1>2. /\ s.iteration \in Iterations /\ s.vshard \in VShards /\ s.by \in Aggregators
      /\ s.waited \in BOOLEAN
  BY <1>1 DEF Save
<1>3. UNCHANGED <<masterVars, aggregators, aggrVars, squadVars, stale, crashes, done>>
  BY DEF CreateFile
<1>4. CASE /\ files' = [files EXCEPT ![s.iteration][s.vshard] =
                           [by |-> s.by, whole |-> FALSE]]
           /\ dirs' = dirs \cup {s.iteration}
           /\ saves' = (saves \ {s}) \cup {[s EXCEPT !.open = TRUE]}
           /\ UNCHANGED turn
  <2>1. /\ [s EXCEPT !.open = TRUE] \in Save
        /\ [s EXCEPT !.open = TRUE].iteration = s.iteration
        /\ [s EXCEPT !.open = TRUE].waited = s.waited
    BY <1>1 DEF Save
  <2>2. \A r \in saves' : \E q \in saves : r.iteration = q.iteration /\ r.waited = q.waited
    BY <1>4, <2>1
  <2>3. DiskInv' /\ files' \in [Iterations -> [VShards -> FileState]]
    BY <1>1, <1>2, <1>3, <1>4, <2>2, WriteDisk DEF masterVars
  <2>4. DiskType'
    BY <1>2, <1>4, <2>1, <2>3 DEF IInv, Types, DiskType
  <2>5. Types'
    BY <1>3, <1>4, <2>4, TypeFrames DEF IInv, Types, masterVars, aggrVars, squadVars
  <2>6. TurnInv'
    BY <1>3, <1>4, <2>2 DEF IInv, TurnInv, masterVars, Idle
  <2>7. QED
    BY <2>3, <2>5, <2>6 DEF IInv
<1>5. CASE /\ saves' = saves \ {s}
           /\ turn' = [turn EXCEPT !.failed = @ \/ s.waited]
           /\ UNCHANGED diskVars
  <2>1. TurnType' /\ turn'.step = turn.step /\ turn'.coord = turn.coord
    <3> DEFINE f == turn.failed \/ s.waited
    <3>1. f \in BOOLEAN /\ turn' = [turn EXCEPT !.failed = f]
      BY <1>5
    <3> HIDE DEF f
    <3>2. QED
      BY <3>1 DEF IInv, Types, TurnType
  <2>2. turn.step = "idle" => turn' = turn
    <3>1. turn.step = "idle" => ~ s.waited /\ turn = Idle
      BY <1>1 DEF IInv, TurnInv
    <3>2. turn.step = "idle" => (turn.failed \/ s.waited) = FALSE
      BY <1>2, <3>1 DEF Idle
    <3>3. turn.step = "idle" => turn' = [Idle EXCEPT !.failed = FALSE]
      BY <1>5, <3>1, <3>2
    <3>4. QED
      BY <3>1, <3>3 DEF Idle
  <2>3. DiskType'
    BY <1>5 DEF IInv, Types, DiskType, diskVars
  <2>4. Types'
    BY <1>3, <2>1, <2>3, TypeFrames DEF IInv, Types, masterVars, aggrVars, squadVars
  <2>5. TurnInv'
    BY <1>3, <1>5, <2>1, <2>2 DEF IInv, TurnInv, masterVars
  <2>6. DiskInv'
    BY <1>3, <1>5, DiskFrame DEF IInv, masterVars, diskVars
  <2>7. QED
    BY <2>4, <2>5, <2>6 DEF IInv
<1>6. QED
  BY <1>4, <1>5 DEF CreateFile

\* An aggregator that completes its file keeps the inductive invariant.
LEMMA WriteFileIInv == ASSUME IInv, NEW s \in saves, WriteFile(s) PROVE IInv'
<1>1. /\ s \in Save /\ s.iteration < MaxIteration
      /\ s.iteration > 0 => Completed(s.iteration - 1)
  BY DEF IInv, Types, DiskType, TurnInv, DiskInv
<1>2. s.iteration \in Iterations /\ s.vshard \in VShards /\ s.by \in Aggregators
  BY <1>1 DEF Save
<1>3. /\ files' = [files EXCEPT ![s.iteration][s.vshard] = [by |-> s.by, whole |-> TRUE]]
      /\ saves' = saves \ {s}
      /\ UNCHANGED <<masterVars, aggregators, turn, aggrVars, dirs, squadVars, stale,
                     crashes, done>>
  BY DEF WriteFile
<1>4. DiskInv' /\ files' \in [Iterations -> [VShards -> FileState]]
  BY <1>1, <1>2, <1>3, WriteDisk DEF masterVars
<1>5. DiskType'
  BY <1>3, <1>4 DEF IInv, Types, DiskType
<1>6. Types'
  BY <1>3, <1>5, TypeFrames DEF IInv, Types, masterVars, aggrVars, squadVars
<1>7. TurnInv'
  BY <1>3 DEF IInv, TurnInv, masterVars, Idle
<1>8. QED
  BY <1>4, <1>6, <1>7 DEF IInv

\* The death of an aggregator keeps the inductive invariant.
LEMMA AggregatorCrashIInv ==
  ASSUME IInv, NEW a \in Aggregators, AggregatorCrash(a) PROVE IInv'
<1> DEFINE f == turn.failed \/ \E s \in saves : s.by = a /\ s.waited
<1>1. /\ AggregatorExits(a)
      /\ crashes' = [crashes EXCEPT !.aggregator = @ + 1]
      /\ aggregators' = [i \in DOMAIN aggregators |->
                           IF aggregators[i].addr = a
                           THEN [aggregators[i] EXCEPT !.live = FALSE]
                           ELSE aggregators[i]]
      /\ saves' = {s \in saves : s.by # a}
      /\ turn' = [turn EXCEPT !.failed = f]
      /\ UNCHANGED <<masterVars, diskVars, squadVars, stale, done>>
  BY DEF AggregatorCrash
<1>2. f \in BOOLEAN
  BY DEF IInv, Types, TurnType
<1>3. TurnType' /\ turn'.step = turn.step /\ turn'.coord = turn.coord
  <2> HIDE DEF f
  <2>1. QED
    BY <1>1, <1>2 DEF IInv, Types, TurnType
<1>4. turn.step = "idle" => turn' = turn
  <2>1. turn.step = "idle" => turn = Idle /\ \A s \in saves : ~ s.waited
    BY DEF IInv, TurnInv
  <2>2. turn.step = "idle" => f = FALSE
    BY <2>1 DEF Idle
  <2>3. turn.step = "idle" => turn' = [Idle EXCEPT !.failed = FALSE]
    <3> HIDE DEF f
    <3>1. QED
      BY <1>1, <2>1, <2>2
  <2>4. QED
    BY <2>1, <2>3 DEF Idle
<1> HIDE DEF f
<1>5. AggrType'
  <2>1. /\ aggr' \in [Aggregators -> {"down", "starting", "up"}]
        /\ aggrRetried' \subseteq Aggregators /\ aggrLaunched' = aggrLaunched
    BY <1>1 DEF AggregatorExits, IInv, Types, AggrType
  <2>2. aggregators' \in Seq(Client)
    <3>1. Len(aggregators) \in Nat /\ DOMAIN aggregators = 1 .. Len(aggregators)
          /\ \A i \in 1 .. Len(aggregators) : aggregators[i] \in Client
      BY DEF IInv, Types, AggrType
    <3>2. \A i \in 1 .. Len(aggregators) : [aggregators[i] EXCEPT !.live = FALSE] \in Client
      BY <3>1 DEF Client
    <3>3. aggregators' \in [1 .. Len(aggregators) -> Client]
      BY <1>1, <3>1, <3>2
    <3>4. QED
      BY <3>1, <3>3
  <2>3. QED
    BY <2>1, <2>2 DEF IInv, Types, AggrType
<1>6. MasterType'
  BY <1>1 DEF IInv, Types, MasterType, masterVars
<1>7. DiskType'
  BY <1>1 DEF IInv, Types, DiskType, diskVars
<1>8. Types'
  BY <1>1, <1>3, <1>5, <1>6, <1>7, TypeFrames DEF IInv, Types, masterVars, squadVars
<1>9. TurnInv'
  BY <1>1, <1>3, <1>4 DEF IInv, TurnInv, masterVars
<1>10. DiskInv'
  BY <1>1, DiskFrame DEF IInv, masterVars, diskVars
<1>11. QED
  BY <1>8, <1>9, <1>10 DEF IInv

\* Forgetting the caller of the call that holds the mutex.
LEMMA ForgetCaller ==
  ASSUME IInv, NEW b \in BOOLEAN, turn' = [turn EXCEPT !.live = b],
         turn.live = FALSE => b = FALSE
  PROVE  /\ TurnType' /\ turn'.step = turn.step /\ turn'.coord = turn.coord
         /\ turn.step = "idle" => turn' = turn
<1>1. TurnType' /\ turn'.step = turn.step /\ turn'.coord = turn.coord
  BY DEF IInv, Types, TurnType
<1>2. turn.step = "idle" => turn = Idle
  BY DEF IInv, TurnInv
<1>3. turn.step = "idle" => b = FALSE
  BY <1>2 DEF Idle
<1>4. turn.step = "idle" => turn' = [Idle EXCEPT !.live = FALSE]
  BY <1>2, <1>3
<1>5. QED
  BY <1>1, <1>2, <1>4 DEF Idle

\* An aggregator that exits, for want of a master, keeps the inductive invariant.
LEMMA RegistrationFailsIInv ==
  ASSUME IInv, NEW a \in Aggregators, RegistrationFails(a) PROVE IInv'
<1>1. /\ AggregatorExits(a)
      /\ UNCHANGED <<masterVars, aggregators, turn, saves, diskVars, squadVars, stale,
                     crashes, done>>
  BY DEF RegistrationFails
<1>2. AggrType'
  BY <1>1 DEF AggregatorExits, IInv, Types, AggrType
<1>3. Types'
  BY <1>1, <1>2, TypeFrames DEF IInv, Types, masterVars, diskVars, squadVars
<1>4. TurnInv'
  BY <1>1 DEF IInv, TurnInv, masterVars
<1>5. DiskInv'
  BY <1>1, DiskFrame DEF IInv, masterVars, diskVars
<1>6. QED
  BY <1>3, <1>4, <1>5 DEF IInv

\* RegisterAggregator keeps the inductive invariant, whether it launches the
\* squads or fails to.
LEMMA RegisterAggregatorIInv ==
  ASSUME IInv, NEW a \in Aggregators, RegisterAggregator(a) PROVE IInv'
<1>1. UNCHANGED <<masterVars, saves, diskVars, crashes, done>>
  BY DEF RegisterAggregator
<1>2. /\ \E l \in BOOLEAN : aggregators' = Append(aggregators, [addr |-> a, live |-> l])
      /\ \/ AggregatorExits(a)
         \/ aggr' = [aggr EXCEPT ![a] = "up"] /\ UNCHANGED <<aggrLaunched, aggrRetried>>
  BY DEF RegisterAggregator
<1>3. \/ UNCHANGED <<squadVars, stale, turn>>
      \/ /\ LaunchSquads \/ KillSquads
         /\ stale' = stale \cup LateCalls(Coordinators)
         /\ turn' = [turn EXCEPT !.live = FALSE]
  BY DEF RegisterAggregator
<1>4. AggrType'
  <2>1. PICK l \in BOOLEAN : aggregators' = Append(aggregators, [addr |-> a, live |-> l])
    BY <1>2
  <2>2. [addr |-> a, live |-> l] \in Client
    BY DEF Client
  <2>3. aggregators' \in Seq(Client)
    BY <2>1, <2>2 DEF IInv, Types, AggrType
  <2>4. QED
    BY <1>2, <2>3 DEF AggregatorExits, IInv, Types, AggrType
<1>5. TurnType' /\ turn'.step = turn.step /\ turn'.coord = turn.coord
      /\ (turn.step = "idle" => turn' = turn)
  <2>1. CASE UNCHANGED turn
    BY <2>1, TypeFrames DEF IInv
  <2>2. CASE turn' = [turn EXCEPT !.live = FALSE]
    BY <2>2, ForgetCaller
  <2>3. QED
    BY <1>3, <2>1, <2>2
<1>6. SquadType' /\ CallType'
  <2>1. CASE UNCHANGED <<squadVars, stale, turn>>
    BY <1>1, <2>1, TypeFrames DEF IInv, squadVars
  <2>2. CASE (LaunchSquads \/ KillSquads) /\ stale' = stale \cup LateCalls(Coordinators)
    <3>1. SquadType'
      BY <2>2 DEF LaunchSquads, KillSquads, IInv, Types, SquadType, SquadStates
    <3>2. LateCalls(Coordinators) \subseteq StaleCall
      BY CallTypes, TypeParts DEF IInv
    <3>3. CallType'
      BY <1>1, <2>2, <3>2 DEF IInv, Types, CallType
    <3>4. QED
      BY <3>1, <3>3
  <2>3. QED
    BY <1>3, <2>1, <2>2
<1>7. Types'
  BY <1>1, <1>4, <1>5, <1>6, TypeFrames DEF IInv, Types, masterVars, diskVars
<1>8. TurnInv'
  BY <1>1, <1>5 DEF IInv, TurnInv, masterVars
<1>9. DiskInv'
  BY <1>1, DiskFrame DEF IInv, masterVars, diskVars
<1>10. QED
  BY <1>7, <1>8, <1>9 DEF IInv

\* The steps of Coordinator.run keep the inductive invariant.
LEMMA SquadStepIInv ==
  ASSUME IInv, NEW c \in Coordinators, DialMaster(c) \/ FinishTask(c) PROVE IInv'
<1>1. UNCHANGED <<masterVars, aggregators, turn, aggrVars, saves, diskVars, stale,
                  crashes, done>>
  BY DEF DialMaster, FinishTask
<1>2. \/ SquadsExit({c})
      \/ /\ \/ squad' = [squad EXCEPT ![c] = "RegisterSquad"]
            \/ squad' = [squad EXCEPT ![c] = "CompleteTask"]
         /\ \/ task' = [task EXCEPT ![c] = ZeroTask]
            \/ task' = [task EXCEPT ![c] = [task[c] EXCEPT !.coord = c]]
         /\ UNCHANGED restarts
  BY DEF DialMaster, FinishTask, IInv, Types, SquadType
<1>3. SquadType'
  <2>1. CASE SquadsExit({c})
    BY <2>1, SquadsExitType, TypeParts DEF IInv, SquadType
  <2>2. CASE ~ SquadsExit({c})
    <3>1. ZeroTask \in Task /\ [task[c] EXCEPT !.coord = c] \in Task
      BY TaskTypes DEF IInv, Types, SquadType
    <3>2. task' \in [Coordinators -> Task]
      BY <1>2, <2>2, <3>1 DEF IInv, Types, SquadType
    <3>3. squad' \in [Coordinators -> SquadStates] /\ restarts' = restarts
      BY <1>2, <2>2 DEF IInv, Types, SquadType, SquadStates
    <3>4. QED
      BY <3>2, <3>3 DEF IInv, Types, SquadType
  <2>3. QED
    BY <2>1, <2>2
<1>4. Types'
  BY <1>1, <1>3, TypeFrames DEF IInv, Types, masterVars, aggrVars, diskVars
<1>5. TurnInv'
  BY <1>1 DEF IInv, TurnInv, masterVars, Idle
<1>6. DiskInv'
  BY <1>1, DiskFrame DEF IInv, masterVars, diskVars
<1>7. QED
  BY <1>4, <1>5, <1>6 DEF IInv

\* The death of a squad keeps the inductive invariant.
LEMMA SquadCrashIInv ==
  ASSUME IInv, NEW c \in Coordinators, SquadCrash(c) PROVE IInv'
<1>1. /\ SquadsExit({c})
      /\ stale' = stale \cup LateCalls({c})
      /\ turn' = [turn EXCEPT !.live = @ /\ turn.coord # c]
      /\ UNCHANGED <<masterVars, aggregators, aggrVars, saves, diskVars, crashes, done>>
  BY DEF SquadCrash
<1>2. TurnType' /\ turn'.step = turn.step /\ turn'.coord = turn.coord
      /\ (turn.step = "idle" => turn' = turn)
  <2> DEFINE b == turn.live /\ turn.coord # c
  <2>1. turn.live \in BOOLEAN
    BY DEF IInv, Types, TurnType
  <2>2. b \in BOOLEAN /\ turn' = [turn EXCEPT !.live = b] /\ (turn.live = FALSE => b = FALSE)
    BY <1>1, <2>1
  <2> HIDE DEF b
  <2>3. QED
    BY <2>2, ForgetCaller
<1>3. SquadType'
  BY <1>1, SquadsExitType, TypeParts DEF IInv, SquadType
<1>4. CallType'
  <2>1. LateCalls({c}) \subseteq StaleCall
    BY CallTypes, TypeParts DEF IInv
  <2>2. QED
    BY <1>1, <2>1 DEF IInv, Types, CallType
<1>5. Types'
  BY <1>1, <1>2, <1>3, <1>4, TypeFrames DEF IInv, Types, masterVars, aggrVars, diskVars
<1>6. TurnInv'
  BY <1>1, <1>2 DEF IInv, TurnInv, masterVars
<1>7. DiskInv'
  BY <1>1, DiskFrame DEF IInv, masterVars, diskVars
<1>8. QED
  BY <1>5, <1>6, <1>7 DEF IInv

\* A master that starts from the disk establishes the inductive invariant.
LEMMA MasterStartIInv ==
  ASSUME IInv, NEW fi \in -1 .. MaxIteration, MasterStart(fi) PROVE IInv'
<1>1. /\ ~ masterUp /\ masterUp' = TRUE
      /\ MostRecentCompleted(fi) /\ PrepareIteration(fi) /\ MakeDirectory(fi)
      /\ pending' = TasksAfter(fi) /\ aggrLaunched' = FALSE
      /\ UNCHANGED <<working, aggregators, turn, aggr, aggrRetried, saves, files,
                     squadVars, stale, crashes, done>>
  BY DEF MasterStart
<1>2. DiskInv' /\ DiskType' /\ iteration' \in -1 .. MaxIteration /\ iteration' >= 0
  BY <1>1, PrepareDisk
<1>3. turn = Idle /\ turn.step = "idle"
  BY <1>1 DEF IInv, TurnInv, Idle
<1>4. QueueType'
  BY <1>1, TasksAfterType DEF IInv, Types, QueueType
<1>5. MasterType' /\ AggrType'
  BY <1>1, <1>2 DEF IInv, Types, MasterType, AggrType
<1>6. Types'
  BY <1>1, <1>2, <1>4, <1>5, TypeFrames DEF IInv, Types, squadVars
<1>7. TurnInv'
  BY <1>1, <1>2, <1>3 DEF IInv, TurnInv
<1>8. QED
  BY <1>2, <1>6, <1>7 DEF IInv

\* A master that cannot plan, and ends, keeps the inductive invariant: it may have
\* made the directory of the next iteration.
LEMMA MasterStartFailsIInv ==
  ASSUME IInv, NEW fi \in -1 .. MaxIteration, MasterStartFails(fi) PROVE IInv'
<1>1. /\ ~ masterUp
      /\ \/ UNCHANGED dirs
         \/ MostRecentCompleted(fi) /\ PlanningCut(fi)
      /\ squad' = [c \in Coordinators |-> "down"] /\ UNCHANGED <<task, restarts>>
      /\ aggr' = [a \in Aggregators |-> "down"]
      /\ aggrLaunched' = FALSE /\ aggrRetried' = {} /\ saves' = {}
      /\ UNCHANGED <<masterVars, aggregators, turn, files, stale, crashes, done>>
  BY DEF MasterStartFails, KillSquads, KillAggregators
<1>2. dirs' \subseteq Iterations
  <2>1. dirs \subseteq Iterations
    BY DEF IInv, Types, DiskType
  <2>2. CASE UNCHANGED dirs
    BY <2>1, <2>2
  <2>3. CASE MostRecentCompleted(fi) /\ PlanningCut(fi)
    <3>1. fi + 1 \in Iterations
      BY <2>3, CompletedBelowMax
    <3> QED  BY <2>1, <2>3, <3>1 DEF PlanningCut, MakeDirectory
  <2> QED  BY <1>1, <2>2, <2>3
<1>3. DiskType' /\ AggrType' /\ SquadType'
  BY <1>1, <1>2 DEF IInv, Types, DiskType, AggrType, SquadType, SquadStates
<1>4. Types'
  BY <1>1, <1>3, TypeFrames DEF IInv, Types, masterVars
<1>5. TurnInv'
  BY <1>1 DEF IInv, TurnInv, masterVars, Idle
<1>6. DiskInv'
  BY <1>1 DEF IInv, DiskInv, CheckpointsAreDense, masterVars
<1>7. QED
  BY <1>4, <1>5, <1>6 DEF IInv

\* The launch of the aggregators, which may fail a Save call in flight, keeps the
\* inductive invariant.
LEMMA LaunchAggregatorsIInv == ASSUME IInv, LaunchAggregators PROVE IInv'
<1> DEFINE f == turn.failed \/ \E s \in saves : s.waited
<1>1. /\ aggrLaunched' = TRUE
      /\ aggr' = [a \in Aggregators |-> "starting"]
      /\ aggrRetried' = {} /\ saves' = {}
      /\ aggregators' = [i \in DOMAIN aggregators |->
                           [aggregators[i] EXCEPT !.live = FALSE]]
      /\ turn' = [turn EXCEPT !.failed = f]
      /\ UNCHANGED <<masterVars, diskVars, squadVars, stale, crashes, done>>
  BY DEF LaunchAggregators
<1>2. f \in BOOLEAN
  BY DEF IInv, Types, TurnType
<1>3. TurnType' /\ turn'.step = turn.step /\ turn'.coord = turn.coord
  <2> HIDE DEF f
  <2>1. QED
    BY <1>1, <1>2 DEF IInv, Types, TurnType
<1>4. turn.step = "idle" => turn' = turn
  <2>1. turn.step = "idle" => turn = Idle /\ \A s \in saves : ~ s.waited
    BY DEF IInv, TurnInv
  <2>2. turn.step = "idle" => f = FALSE
    BY <2>1 DEF Idle
  <2>3. turn.step = "idle" => turn' = [Idle EXCEPT !.failed = FALSE]
    <3> HIDE DEF f
    <3>1. QED
      BY <1>1, <2>1, <2>2
  <2>4. QED
    BY <2>1, <2>3 DEF Idle
<1> HIDE DEF f
<1>5. aggregators' \in Seq(Client)
  <2>1. Len(aggregators) \in Nat /\ DOMAIN aggregators = 1 .. Len(aggregators)
        /\ \A i \in 1 .. Len(aggregators) : aggregators[i] \in Client
    BY DEF IInv, Types, AggrType
  <2>2. \A i \in 1 .. Len(aggregators) : [aggregators[i] EXCEPT !.live = FALSE] \in Client
    BY <2>1 DEF Client
  <2>3. aggregators' \in [1 .. Len(aggregators) -> Client]
    BY <1>1, <2>1, <2>2
  <2>4. QED
    BY <2>1, <2>3
<1>6. AggrType' /\ DiskType'
  BY <1>1, <1>5 DEF IInv, Types, AggrType, DiskType, diskVars
<1>7. Types'
  BY <1>1, <1>3, <1>6, TypeFrames DEF IInv, Types, masterVars, squadVars
<1>8. TurnInv'
  BY <1>1, <1>3, <1>4 DEF IInv, TurnInv, masterVars
<1>9. DiskInv'
  BY <1>1, DiskFrame DEF IInv, masterVars, diskVars
<1>10. QED
  BY <1>7, <1>8, <1>9 DEF IInv

\* The end of the master keeps the inductive invariant: the Save calls it sent
\* are still for an iteration whose predecessor is complete.
LEMMA MasterEndsIInv ==
  ASSUME IInv, MasterEnds, AggrType', crashes' \in [master : Nat, aggregator : Nat],
         \A s \in saves' : /\ s \in Save /\ ~ s.waited
                           /\ \E r \in saves : r.iteration = s.iteration
  PROVE  IInv'
<1>1. /\ masterUp' = FALSE /\ pending' = <<>> /\ iteration' = -1
      /\ working' = [c \in Coordinators |-> NoTask]
      /\ turn' = Idle
      /\ stale' = {} /\ done' = {}
      /\ UNCHANGED <<task, diskVars>>
  BY DEF MasterEnds
<1>2. SquadType'
  BY DEF MasterEnds, IInv, Types, SquadType, SquadStates
<1>3. DiskType'
  BY <1>1 DEF IInv, Types, DiskType, diskVars
<1>4. MasterType'
  <2>1. MaxIteration \in Nat
    BY MasterAssumption
  <2>2. -1 \in -1 .. MaxIteration
    BY <2>1
  <2>3. iteration' = -1 /\ masterUp' = FALSE
    BY <1>1
  <2>4. masterUp' \in BOOLEAN
    BY <2>3
  <2>5. iteration' \in -1 .. MaxIteration
    BY <2>2, <2>3
  <2>6. QED
    BY <2>4, <2>5 DEF MasterType
<1>5. TurnType' /\ QueueType' /\ CallType'
  BY <1>1 DEF TurnType, QueueType, CallType, Idle
<1>6. Types'
  BY <1>2, <1>3, <1>4, <1>5 DEF Types
<1>7. TurnInv'
  BY <1>1 DEF IInv, TurnInv, Idle
<1>8. DiskInv'
  <2>1. \A k : Completed(k)' = Completed(k)
    BY <1>1 DEF Completed, diskVars
  <2>2. CheckpointsAreDense'
    BY <1>1 DEF IInv, DiskInv, CheckpointsAreDense, diskVars
  <2>3. \A s \in saves' : s.iteration > 0 => Completed(s.iteration - 1)'
    BY <2>1 DEF IInv, DiskInv
  <2>4. QED
    BY <1>1, <2>2, <2>3 DEF IInv, DiskInv, diskVars
<1>9. QED
  BY <1>6, <1>7, <1>8 DEF IInv

LEMMA MasterCrashIInv == ASSUME IInv, MasterCrash PROVE IInv'
<1>1. /\ crashes' = [crashes EXCEPT !.master = @ + 1]
      /\ saves' = {[s EXCEPT !.waited = FALSE] : s \in saves}
      /\ MasterEnds /\ aggregators' = <<>>
      /\ UNCHANGED aggrVars
  BY DEF MasterCrash, MasterEnds
<1>2. \A s \in saves' : /\ s \in Save /\ ~ s.waited
                        /\ \E r \in saves : r.iteration = s.iteration
  <2>1. \A s \in saves : /\ [s EXCEPT !.waited = FALSE] \in Save
                         /\ [s EXCEPT !.waited = FALSE].iteration = s.iteration
                         /\ [s EXCEPT !.waited = FALSE].waited = FALSE
    BY DEF IInv, Types, DiskType, Save
  <2>2. QED
    BY <1>1, <2>1
<1>3. AggrType'
  BY <1>1 DEF IInv, Types, AggrType, aggrVars
<1>4. crashes' \in [master : Nat, aggregator : Nat]
  BY <1>1 DEF IInv, Types, MasterType
<1> QED  BY <1>1, <1>2, <1>3, <1>4, MasterEndsIInv

LEMMA LaunchAggregatorsFailsIInv == ASSUME IInv, LaunchAggregatorsFails PROVE IInv'
<1>1. /\ saves' = {} /\ MasterEnds /\ aggregators' = <<>>
      /\ UNCHANGED crashes
  BY DEF LaunchAggregatorsFails, KillAggregators, MasterEnds
<1>2. AggrType'
  <2>1. /\ aggr' = [a \in Aggregators |-> "down"]
        /\ aggrLaunched' = FALSE /\ aggrRetried' = {}
    BY DEF LaunchAggregatorsFails, KillAggregators
  <2>2. aggr' \in [Aggregators -> {"down", "starting", "up"}]
    BY <2>1
  <2>3. aggrLaunched' \in BOOLEAN /\ aggrRetried' \subseteq Aggregators
    BY <2>1
  <2>4. aggregators' \in Seq(Client)
    BY <1>1
  <2> QED  BY <2>2, <2>3, <2>4 DEF AggrType
<1>3. crashes' \in [master : Nat, aggregator : Nat]
  BY <1>1 DEF IInv, Types, MasterType
<1> QED  BY <1>1, <1>2, <1>3, MasterEndsIInv

\* A stuttering step keeps the inductive invariant.
LEMMA StutterIInv == ASSUME IInv, UNCHANGED vars PROVE IInv'
<1> USE DEF vars, masterVars, aggrVars, diskVars, squadVars
<1>1. Types'
  BY TypeFrames DEF IInv, Types
<1>2. TurnInv'
  BY DEF IInv, TurnInv, Idle
<1>3. DiskInv'
  BY DiskFrame DEF IInv
<1>4. QED
  BY <1>1, <1>2, <1>3 DEF IInv

\* Every step keeps the inductive invariant.
LEMMA StepIInv == IInv /\ [Next]_vars => IInv'
<1> SUFFICES ASSUME IInv, [Next]_vars PROVE IInv'
  OBVIOUS
<1>1. CASE Handler
  BY <1>1, HandlerIInv DEF Handler
<1>2. CASE Turnover
  BY <1>2, AggregateIInv, SaveModelIInv, SaveModelFailsIInv, InitializeTasksIInv DEF Turnover
<1>3. CASE \E s \in saves : CreateFile(s) \/ WriteFile(s)
  BY <1>3, CreateFileIInv, WriteFileIInv
<1>4. CASE \E a \in Aggregators :
             RegisterAggregator(a) \/ RegistrationFails(a) \/ AggregatorCrash(a)
  BY <1>4, RegisterAggregatorIInv, RegistrationFailsIInv, AggregatorCrashIInv
<1>5. CASE \E c \in Coordinators : DialMaster(c) \/ FinishTask(c) \/ SquadCrash(c)
  BY <1>5, SquadStepIInv, SquadCrashIInv
<1>6. CASE \E fi \in -1 .. MaxIteration : MasterStart(fi) \/ MasterStartFails(fi)
  BY <1>6, MasterStartIInv, MasterStartFailsIInv
<1>7. CASE LaunchAggregators \/ LaunchAggregatorsFails
  BY <1>7, LaunchAggregatorsIInv, LaunchAggregatorsFailsIInv
<1>8. CASE MasterCrash
  BY <1>8, MasterCrashIInv
<1>9. CASE UNCHANGED vars
  BY <1>9, StutterIInv
<1>10. QED
  BY <1>1, <1>2, <1>3, <1>4, <1>5, <1>6, <1>7, <1>8, <1>9 DEF Next

\* The inductive invariant always holds.
LEMMA Inductive == Spec => []IInv
  BY InitIInv, StepIInv, PTL DEF Spec

-----------------------------------------------------------------------------
\* Whatever crashes, restarts and arrives late, in any number, the master's
\* queues, its calls and the job directory keep their shapes, and the master
\* never leaves the iterations of the bound.
THEOREM TypeCorrect == Spec => []TypeOK
<1>1. IInv => TypeOK
  BY TypeParts DEF IInv
<1>2. QED
  BY <1>1, Inductive, PTL

\* A checkpoint file of an iteration exists only if all those of the iteration
\* before it do, for every number of squads, aggregators and corpus files and
\* under every fault of the model: FindMostRecentCompletedIteration resumes
\* from a directory without holes.
THEOREM DenseCheckpoints == Spec => []CheckpointsAreDense
<1>1. IInv => CheckpointsAreDense
  BY DEF IInv, DiskInv
<1>2. QED
  BY <1>1, Inductive, PTL

-----------------------------------------------------------------------------
(* With one master, who writes the files of a checkpoint.  A squad left    *)
(* over from a crashed master may reach the next one before its            *)
(* aggregators do; then a turnover saves what few aggregators there are,   *)
(* or nothing, and the theorems below are false.                           *)

OneMaster == MaxMasterCrashes = 0

Enough == Len(aggregators) >= NumVShards

\* Someone is, or may soon be, at work for the master.
Busy == \/ turn.step # "idle" \/ stale # {}
        \/ \E c \in Coordinators : squad[c] # "down"

\* Before the master starts, nothing has happened.
Fresh ==
  ~ masterUp =>
    /\ ~ aggrLaunched /\ aggregators = <<>> /\ saves = {} /\ ~ Busy
    /\ \A a \in Aggregators : aggr[a] = "down"
    /\ \A k \in Iterations, v \in VShards : files[k][v] = NoFile

\* An entry is live as long as its aggregator runs, and each has one at most.
\* The squads are launched when there are enough.
Registered ==
  /\ ~ aggrLaunched => aggregators = <<>> /\ \A a \in Aggregators : aggr[a] = "down"
  /\ \A i \in DOMAIN aggregators :
       aggregators[i].live => aggr[aggregators[i].addr] = "up"
  /\ \A i, j \in DOMAIN aggregators :
       /\ aggregators[i].live /\ aggregators[j].live
       /\ aggregators[i].addr = aggregators[j].addr
       => i = j
  /\ Busy => Enough

\* The first entries, one for each vshard, are those of different aggregators.
Everyone ==
  /\ Enough
  /\ \A v, w \in VShards : aggregators[v].addr = aggregators[w].addr => v = w

\* A file, and a Save call in flight, is of the aggregator that its number in
\* m.aggregators says.
SavedBy ==
  /\ turn.step \in {"save", "saving"} => Everyone
  /\ \A s \in saves : Everyone /\ s.by = aggregators[s.vshard].addr
  /\ \A k \in Iterations, v \in VShards :
       files[k][v] # NoFile => Everyone /\ files[k][v].by = aggregators[v].addr

WhoInv == Fresh /\ Registered /\ SavedBy

\* Entries are appended, and keep their addresses.
EntriesStay ==
  /\ Len(aggregators') >= Len(aggregators)
  /\ \A i \in DOMAIN aggregators : aggregators'[i].addr = aggregators[i].addr

\* So that the first entries stay those of different aggregators.
LEMMA EveryoneStays ==
  ASSUME IInv, IInv', EntriesStay, Everyone
  PROVE  Everyone' /\ \A v \in VShards : aggregators'[v].addr = aggregators[v].addr
<1>1. NumVShards \in Nat /\ NumVShards' = NumVShards /\ VShards' = VShards
  BY VShardsNonempty DEF NumVShards, VShards
<1>2. Len(aggregators) \in Nat /\ DOMAIN aggregators = 1 .. Len(aggregators)
  BY DEF IInv, Types, AggrType
<1>3. Enough /\ VShards \subseteq DOMAIN aggregators
  BY <1>1, <1>2 DEF Everyone, Enough, VShards
<1>4. \A v \in VShards : aggregators'[v].addr = aggregators[v].addr
  BY <1>3 DEF EntriesStay
<1>5. Len(aggregators') >= NumVShards
  <2>1. Len(aggregators') \in Nat
    BY DEF IInv, Types, AggrType
  <2> QED  BY <1>1, <1>2, <1>3, <2>1 DEF EntriesStay, Enough
<1> QED  BY <1>1, <1>4, <1>5 DEF Everyone, Enough

\* A step that keeps the registrations.
LEMMA RegisteredStays ==
  ASSUME Registered, UNCHANGED <<aggregators, aggr, aggrLaunched>>, Busy' => Busy
  PROVE  Registered'
BY DEF Registered, Enough, NumVShards

\* A step that begins no save and writes no file.
LEMMA SavedByStays ==
  ASSUME IInv, IInv', SavedBy, EntriesStay,
         turn'.step \in {"save", "saving"} => turn.step \in {"save", "saving"},
         \A s \in saves' : \E r \in saves : r.by = s.by /\ r.vshard = s.vshard,
         UNCHANGED files
  PROVE  SavedBy'
<1>1. Everyone => Everyone' /\ \A v \in VShards : aggregators'[v].addr = aggregators[v].addr
  BY EveryoneStays
<1>2. \A s \in saves : s.vshard \in VShards
  BY DEF IInv, Types, DiskType, Save
<1>3. ASSUME NEW s \in saves' PROVE Everyone' /\ s.by = aggregators'[s.vshard].addr
  <2>1. PICK r \in saves : r.by = s.by /\ r.vshard = s.vshard
    OBVIOUS
  <2> QED  BY <1>1, <1>2, <2>1 DEF SavedBy
<1>4. VShards' = VShards /\ Iterations' = Iterations
  BY DEF VShards, NumVShards, Iterations
<1>5. ASSUME NEW n \in Iterations, NEW v \in VShards, files'[n][v] # NoFile
      PROVE  Everyone' /\ files'[n][v].by = aggregators'[v].addr
  BY <1>1, <1>5 DEF SavedBy
<1> QED  BY <1>1, <1>3, <1>4, <1>5 DEF SavedBy

\* The handlers, the turnover's other steps and the squads change neither
\* registrations nor saves.
LEMMA OthersWho ==
  ASSUME IInv, IInv', Registered, SavedBy,
         UNCHANGED <<aggregators, aggr, aggrLaunched, saves, files>>,
         turn'.step \in {"save", "saving"} => turn.step \in {"save", "saving"},
         Busy' => Busy
  PROVE  Registered' /\ SavedBy'
<1>1. EntriesStay
  BY DEF EntriesStay, IInv, Types, AggrType
<1> QED  BY <1>1, RegisteredStays, SavedByStays

LEMMA HandlerWho ==
  ASSUME IInv, IInv', WhoInv, Handler PROVE Registered' /\ SavedBy'
<1>1. PICK k \in LiveCalls \cup stale : RegisterSquad(k) \/ CompleteTask(k)
  BY DEF Handler
<1>2. Busy
  <2>1. k \in LiveCalls => \E c \in Coordinators : squad[c] # "down"
    BY DEF LiveCalls
  <2> QED  BY <2>1 DEF Busy
<1>3. UNCHANGED <<aggregators, aggr, aggrLaunched, saves, files>>
  BY <1>1 DEF RegisterSquad, CompleteTask, aggrVars, diskVars
<1>4. turn' = turn \/ turn'.step = "aggregate"
  BY <1>1 DEF RegisterSquad, CompleteTask, AcceptCompletion, RefuseCompletion, BeginTurnover
<1> QED  BY <1>2, <1>3, <1>4, OthersWho DEF WhoInv

LEMMA AggregateWho ==
  ASSUME IInv, IInv', WhoInv, AggregateGlobalHists PROVE Registered' /\ SavedBy'
<1>1. /\ turn.step = "aggregate" /\ Busy
      /\ UNCHANGED <<aggregators, aggr, aggrLaunched, saves, files>>
  BY DEF AggregateGlobalHists, aggrVars, diskVars, Busy
<1>2. CASE turn' = Idle
  BY <1>1, <1>2, OthersWho DEF WhoInv, Idle
<1>3. CASE \A i \in DOMAIN aggregators : aggregators[i].live
  <2>1. Enough /\ DOMAIN aggregators = 1 .. Len(aggregators) /\ Len(aggregators) \in Nat
    BY <1>1 DEF WhoInv, Registered, IInv, Types, AggrType
  <2>2. VShards \subseteq DOMAIN aggregators
    BY <2>1, VShardsNonempty DEF VShards, Enough
  <2>3. Everyone
    BY <1>3, <2>1, <2>2 DEF Everyone, WhoInv, Registered
  <2>4. EntriesStay
    BY <1>1, <2>1 DEF EntriesStay
  <2>5. Everyone' /\ \A v \in VShards : aggregators'[v].addr = aggregators[v].addr
    BY <2>3, <2>4, EveryoneStays
  <2>6. Iterations' = Iterations /\ VShards' = VShards
    BY DEF Iterations, VShards, NumVShards
  <2>7. SavedBy'
    BY <1>1, <2>5, <2>6 DEF WhoInv, SavedBy
  <2> QED  BY <1>1, <2>7, RegisteredStays DEF WhoInv
<1> QED  BY <1>2, <1>3 DEF AggregateGlobalHists, FailTurn

LEMMA SaveModelWho ==
  ASSUME IInv, IInv', WhoInv, SaveModel PROVE Registered' /\ SavedBy'
<1>1. /\ turn.step = "save" /\ Busy
      /\ saves' = saves \cup {SaveCall(i) : i \in {j \in DOMAIN aggregators \cap VShards :
                                                    aggregators[j].live}}
      /\ UNCHANGED <<aggregators, aggr, aggrLaunched, files>>
  BY DEF SaveModel, aggrVars, diskVars, Busy
<1>2. Everyone
  BY <1>1 DEF WhoInv, SavedBy
<1>3. EntriesStay
  BY <1>1 DEF EntriesStay, IInv, Types, AggrType
<1>4. Everyone' /\ \A v \in VShards : aggregators'[v].addr = aggregators[v].addr
  BY <1>2, <1>3, EveryoneStays
<1>5. ASSUME NEW s \in saves' PROVE s.by = aggregators[s.vshard].addr
  <2>1. CASE s \in saves
    BY <2>1 DEF WhoInv, SavedBy
  <2>2. CASE s \notin saves
    <3>1. PICK i : s = SaveCall(i)
      BY <1>1, <2>2
    <3> QED  BY <3>1 DEF SaveCall
  <2> QED  BY <2>1, <2>2
<1>6. Iterations' = Iterations /\ VShards' = VShards
  BY DEF Iterations, VShards, NumVShards
<1>7. SavedBy'
  BY <1>1, <1>4, <1>5, <1>6 DEF WhoInv, SavedBy
<1> QED  BY <1>1, <1>7, RegisteredStays DEF WhoInv

\* A file is that of the Save call that writes it.
LEMMA WriteWho ==
  ASSUME IInv, IInv', WhoInv, NEW s \in saves, CreateFile(s) \/ WriteFile(s)
  PROVE  Registered' /\ SavedBy'
<1>1. /\ UNCHANGED <<aggregators, aggr, aggrLaunched, squad, stale>>
      /\ turn'.step = turn.step
      /\ s \in Save
  BY DEF CreateFile, WriteFile, aggrVars, squadVars, IInv, Types, TurnType, DiskType
<1>2. Busy' = Busy
  BY <1>1 DEF Busy
<1>3. EntriesStay
  BY <1>1 DEF EntriesStay, IInv, Types, AggrType
<1>4. Everyone /\ s.by = aggregators[s.vshard].addr
  BY DEF WhoInv, SavedBy
<1>5. Everyone' /\ \A v \in VShards : aggregators'[v].addr = aggregators[v].addr
  BY <1>3, <1>4, EveryoneStays
<1>6. \A r \in saves' : r.by = aggregators[r.vshard].addr
  <2>1. [s EXCEPT !.open = TRUE].by = s.by /\ [s EXCEPT !.open = TRUE].vshard = s.vshard
    BY <1>1 DEF Save
  <2>2. \A r \in saves' : r \in saves \/ r = [s EXCEPT !.open = TRUE]
    BY DEF CreateFile, WriteFile
  <2> QED  BY <1>4, <2>1, <2>2 DEF WhoInv, SavedBy
<1>7. ASSUME NEW n \in Iterations, NEW v \in VShards, files'[n][v] # NoFile
      PROVE  files'[n][v].by = aggregators[v].addr
  <2>1. files'[n][v] = files[n][v] \/ (v = s.vshard /\ files'[n][v].by = s.by)
    BY <1>1 DEF CreateFile, WriteFile, diskVars, IInv, Types, DiskType, Save
  <2> QED  BY <1>4, <1>7, <2>1 DEF WhoInv, SavedBy
<1>8. Iterations' = Iterations /\ VShards' = VShards
  BY DEF Iterations, VShards, NumVShards
<1>9. SavedBy'
  BY <1>1, <1>5, <1>6, <1>7, <1>8 DEF SavedBy
<1> QED  BY <1>1, <1>2, <1>9, RegisteredStays DEF WhoInv

LEMMA RegisterWho ==
  ASSUME IInv, IInv', WhoInv, NEW a \in Aggregators, RegisterAggregator(a)
  PROVE  Registered' /\ SavedBy'
<1>1. /\ aggrLaunched /\ aggrLaunched' = aggrLaunched
      /\ aggr[a] = "starting"
      /\ turn'.step = turn.step
      /\ UNCHANGED <<saves, files>>
  BY DEF RegisterAggregator, AggregatorExits, diskVars, IInv, Types, TurnType, WhoInv,
         Registered
<1>2. PICK l \in BOOLEAN :
        /\ aggregators' = Append(aggregators, [addr |-> a, live |-> l])
        /\ l => aggr' = [aggr EXCEPT ![a] = "up"]
  BY DEF RegisterAggregator
<1>3. /\ aggregators \in Seq(Client) /\ Len(aggregators) \in Nat
      /\ DOMAIN aggregators = 1 .. Len(aggregators)
      /\ aggr \in [Aggregators -> {"down", "starting", "up"}]
      /\ \A i \in DOMAIN aggregators : aggregators[i].addr \in Aggregators
  <2>1. /\ aggregators \in Seq(Client)
        /\ aggr \in [Aggregators -> {"down", "starting", "up"}]
    BY DEF IInv, Types, AggrType
  <2>2. Len(aggregators) \in Nat /\ DOMAIN aggregators = 1 .. Len(aggregators)
    BY <2>1
  <2>3. \A i \in DOMAIN aggregators : aggregators[i] \in Client
    BY <2>1, <2>2
  <2> QED  BY <2>1, <2>2, <2>3 DEF Client
<1>4. [addr |-> a, live |-> l] \in Client
  BY DEF Client
<1> DEFINE n == Len(aggregators) + 1
           e == [addr |-> a, live |-> l]
<1>5. /\ Len(aggregators') = n /\ DOMAIN aggregators' = 1 .. n
      /\ aggregators'[n] = e
      /\ \A i \in DOMAIN aggregators : aggregators'[i] = aggregators[i]
  BY <1>2, <1>3, <1>4
<1>6. EntriesStay
  BY <1>3, <1>5 DEF EntriesStay
<1>7. \A i \in DOMAIN aggregators : aggregators[i].live => aggregators[i].addr # a
  BY <1>1 DEF WhoInv, Registered
<1>8. \A b \in Aggregators : b # a => aggr'[b] = aggr[b]
  BY <1>3 DEF RegisterAggregator, AggregatorExits
<1>9. DOMAIN aggregators' = DOMAIN aggregators \cup {n}
  BY <1>3, <1>5
<1>10. e.addr = a /\ (e.live => aggr'[a] = "up")
  BY <1>2, <1>3
<1> HIDE DEF n, e
<1>11. \A i \in DOMAIN aggregators' :
         aggregators'[i].live => aggr'[aggregators'[i].addr] = "up"
  <2>1. ASSUME NEW i \in DOMAIN aggregators, aggregators[i].live
        PROVE  aggr'[aggregators[i].addr] = "up"
    <3>1. aggr[aggregators[i].addr] = "up"
      BY <2>1 DEF WhoInv, Registered
    <3> QED  BY <1>3, <1>7, <1>8, <2>1, <3>1
  <2> QED  BY <1>5, <1>9, <1>10, <2>1
<1>12. \A i, j \in DOMAIN aggregators' :
         /\ aggregators'[i].live /\ aggregators'[j].live
         /\ aggregators'[i].addr = aggregators'[j].addr
         => i = j
  <2>1. \A i, j \in DOMAIN aggregators :
          /\ aggregators[i].live /\ aggregators[j].live
          /\ aggregators[i].addr = aggregators[j].addr
          => i = j
    BY DEF WhoInv, Registered
  <2> SUFFICES ASSUME NEW i \in DOMAIN aggregators', NEW j \in DOMAIN aggregators',
                      aggregators'[i].live, aggregators'[j].live,
                      aggregators'[i].addr = aggregators'[j].addr
               PROVE  i = j
    OBVIOUS
  <2>2. ASSUME NEW k \in DOMAIN aggregators, aggregators'[k].live
        PROVE  aggregators'[k] = aggregators[k] /\ aggregators'[k].addr # a
    BY <1>5, <1>7, <2>2
  <2>3. aggregators'[n].addr = a
    BY <1>5, <1>10
  <2>4. CASE i = n \/ j = n
    BY <1>9, <2>2, <2>3, <2>4
  <2>5. CASE i # n /\ j # n
    BY <1>9, <2>1, <2>2, <2>5
  <2> QED  BY <2>4, <2>5
<1>13. Busy' => Enough'
  <2>1. Enough => Enough'
    BY <1>3, <1>5, VShardsNonempty DEF Enough, NumVShards, n
  <2>2. n >= NumVShards => Enough'
    BY <1>5 DEF Enough, NumVShards
  <2>3. n >= NumVShards \/ UNCHANGED <<squad, stale, turn>>
    BY DEF RegisterAggregator, squadVars, n
  <2>4. UNCHANGED <<squad, stale, turn>> => Busy' = Busy
    BY DEF Busy
  <2> QED  BY <2>1, <2>2, <2>3, <2>4 DEF WhoInv, Registered
<1>14. Registered'
  BY <1>1, <1>11, <1>12, <1>13 DEF Registered
<1> QED  BY <1>1, <1>6, <1>14, SavedByStays DEF WhoInv

\* The live entry of an aggregator that dies goes with it.
LEMMA AggregatorCrashWho ==
  ASSUME IInv, IInv', WhoInv, NEW a \in Aggregators, AggregatorCrash(a)
  PROVE  Registered' /\ SavedBy'
<1>1. /\ aggregators' = [i \in DOMAIN aggregators |->
                           IF aggregators[i].addr = a
                           THEN [aggregators[i] EXCEPT !.live = FALSE]
                           ELSE aggregators[i]]
      /\ saves' \subseteq saves
      /\ turn'.step = turn.step
      /\ UNCHANGED <<aggrLaunched, files, squad, stale>>
  BY DEF AggregatorCrash, AggregatorExits, diskVars, squadVars, IInv, Types, TurnType
<1>2. /\ Len(aggregators) \in Nat /\ DOMAIN aggregators = 1 .. Len(aggregators)
      /\ Len(aggregators') \in Nat /\ DOMAIN aggregators' = 1 .. Len(aggregators')
      /\ aggr \in [Aggregators -> {"down", "starting", "up"}]
  BY DEF IInv, Types, AggrType
<1>3. \A i \in DOMAIN aggregators : aggregators[i] \in Client
  <2>1. aggregators \in Seq(Client)
    BY DEF IInv, Types, AggrType
  <2> QED  BY <1>2, <2>1
<1>4. DOMAIN aggregators' = DOMAIN aggregators
  BY <1>1
<1>5. Len(aggregators') = Len(aggregators)
  <2>1. ASSUME NEW m \in Nat, NEW n \in Nat, 1 .. m = 1 .. n
        PROVE  m = n
    <3>1. m = 0 \/ m \in 1 .. m
      OBVIOUS
    <3>2. n = 0 \/ n \in 1 .. n
      OBVIOUS
    <3> QED  BY <2>1, <3>1, <3>2
  <2> QED  BY <1>2, <1>4, <2>1
<1>6. \A i \in DOMAIN aggregators :
        /\ aggregators'[i].addr = aggregators[i].addr
        /\ aggregators'[i].live => aggregators[i].live /\ aggregators[i].addr # a
  <2> TAKE i \in DOMAIN aggregators
  <2>1. aggregators[i] = [addr |-> aggregators[i].addr, live |-> aggregators[i].live]
    BY <1>3 DEF Client
  <2> QED  BY <1>1, <2>1
<1>7. \A b \in Aggregators : b # a => aggr'[b] = aggr[b]
  BY <1>2 DEF AggregatorCrash, AggregatorExits
<1>8. EntriesStay
  BY <1>2, <1>5, <1>6 DEF EntriesStay
<1>9. Busy' = Busy /\ Enough' = Enough
  BY <1>1, <1>5 DEF Busy, Enough, NumVShards
<1>10. \A i \in DOMAIN aggregators' :
         aggregators'[i].live => aggr'[aggregators'[i].addr] = "up"
  <2>1. ASSUME NEW i \in DOMAIN aggregators, aggregators'[i].live
        PROVE  aggr'[aggregators[i].addr] = "up"
    <3>1. aggr[aggregators[i].addr] = "up" /\ aggregators[i].addr # a
      BY <1>6, <2>1 DEF WhoInv, Registered
    <3>2. aggregators[i].addr \in Aggregators
      BY <1>3 DEF Client
    <3> QED  BY <1>7, <3>1, <3>2
  <2> QED  BY <1>4, <1>6, <2>1
<1>11. \A i, j \in DOMAIN aggregators' :
         /\ aggregators'[i].live /\ aggregators'[j].live
         /\ aggregators'[i].addr = aggregators'[j].addr
         => i = j
  BY <1>4, <1>6 DEF WhoInv, Registered
<1>12. aggrLaunched
  BY DEF AggregatorCrash, WhoInv, Registered
<1>13. Registered'
  BY <1>1, <1>9, <1>10, <1>11, <1>12 DEF WhoInv, Registered
<1> QED  BY <1>1, <1>8, <1>13, SavedByStays DEF WhoInv

\* A squad that takes a step has been launched.
LEMMA SquadStepWho ==
  ASSUME IInv, IInv', WhoInv, NEW c \in Coordinators,
         DialMaster(c) \/ FinishTask(c) \/ SquadCrash(c)
  PROVE  Registered' /\ SavedBy'
<1>1. /\ UNCHANGED <<aggregators, aggr, aggrLaunched, saves, files>>
      /\ turn'.step = turn.step
      /\ squad[c] # "down"
  BY DEF DialMaster, FinishTask, SquadCrash, aggrVars, diskVars, IInv, Types, TurnType
<1>2. Busy
  BY <1>1 DEF Busy
<1> QED  BY <1>1, <1>2, OthersWho DEF WhoInv

\* A master that starts finds nothing at work.
LEMMA MasterStartWho ==
  ASSUME IInv, IInv', WhoInv, NEW fi \in -1 .. MaxIteration, MasterStart(fi)
  PROVE  Registered' /\ SavedBy'
<1>1. /\ ~ masterUp /\ ~ aggrLaunched'
      /\ UNCHANGED <<aggregators, aggr, saves, files, turn, stale, squad>>
  BY DEF MasterStart, squadVars
<1>2. aggregators = <<>> /\ ~ aggrLaunched /\ ~ Busy
  BY <1>1 DEF WhoInv, Fresh
<1>3. UNCHANGED <<aggregators, aggr, aggrLaunched, saves, files>>
  BY <1>1, <1>2 DEF IInv, Types, AggrType
<1>4. Busy' = Busy
  BY <1>1 DEF Busy
<1> QED  BY <1>1, <1>3, <1>4, OthersWho DEF WhoInv

\* There are no entries before the aggregators are launched.
LEMMA LaunchAggregatorsWho ==
  ASSUME IInv, IInv', WhoInv, LaunchAggregators PROVE Registered' /\ SavedBy'
<1>1. /\ aggrLaunched' = TRUE /\ saves' = {}
      /\ ~ aggrLaunched
      /\ turn'.step = turn.step
      /\ UNCHANGED <<files, stale, squad>>
  BY DEF LaunchAggregators, diskVars, squadVars, IInv, Types, TurnType
<1>2. aggregators = <<>> /\ aggregators' = <<>>
  BY <1>1 DEF LaunchAggregators, WhoInv, Registered
<1>3. EntriesStay
  BY <1>1, <1>2 DEF EntriesStay
<1>4. SavedBy'
  BY <1>1, <1>3, SavedByStays DEF WhoInv
<1>5. Busy' = Busy /\ Enough' = Enough
  BY <1>1, <1>2 DEF Busy, Enough, NumVShards
<1>6. Registered'
  BY <1>1, <1>2, <1>5 DEF WhoInv, Registered
<1> QED  BY <1>4, <1>6

\* Before the aggregators are launched, nobody works and nothing is saved.
LEMMA Unlaunched ==
  ASSUME IInv, Registered, SavedBy, ~ aggrLaunched
  PROVE  /\ aggregators = <<>> /\ ~ Busy /\ saves = {}
         /\ turn.step = "idle"
         /\ aggr = [a \in Aggregators |-> "down"]
         /\ \A k \in Iterations, v \in VShards : files[k][v] = NoFile
<1>1. aggregators = <<>> /\ \A a \in Aggregators : aggr[a] = "down"
  BY DEF Registered
<1>2. ~ Enough
  BY <1>1, VShardsNonempty DEF Enough
<1>3. ~ Busy
  BY <1>2 DEF Registered
<1> QED  BY <1>1, <1>2, <1>3 DEF Busy, SavedBy, Everyone, IInv, Types, AggrType

\* So that a master which ends then leaves nothing behind.
LEMMA EndsUnlaunched ==
  ASSUME IInv, IInv', Registered, SavedBy,
         \/ LaunchAggregatorsFails
         \/ ~ aggrLaunched /\ \E fi \in -1 .. MaxIteration : MasterStartFails(fi)
  PROVE  /\ UNCHANGED <<aggregators, aggr, aggrLaunched, saves, files>>
         /\ ~ Busy' /\ turn'.step = "idle"
         /\ Registered' /\ SavedBy'
<1>1. ~ aggrLaunched
  BY DEF LaunchAggregatorsFails
<1>2. /\ aggregators = <<>> /\ ~ Busy /\ saves = {} /\ turn.step = "idle"
      /\ aggr = [a \in Aggregators |-> "down"]
  BY <1>1, Unlaunched
<1>3. /\ aggr' = [a \in Aggregators |-> "down"] /\ aggrLaunched' = FALSE /\ saves' = {}
      /\ UNCHANGED files /\ aggregators' = <<>>
      /\ turn'.step = "idle" /\ stale' = {}
  BY <1>2 DEF LaunchAggregatorsFails, MasterStartFails, KillAggregators, MasterEnds, Idle,
              diskVars, Busy
<1>4. \A c \in Coordinators : squad'[c] = "down"
  <2>1. \A c \in Coordinators : squad[c] = "down"
    BY <1>2 DEF Busy
  <2> QED  BY <2>1 DEF LaunchAggregatorsFails, MasterStartFails, MasterEnds, KillSquads
<1>5. aggrLaunched \in BOOLEAN
  BY DEF IInv, Types, AggrType
<1>6. UNCHANGED <<aggregators, aggr, aggrLaunched, saves, files>> /\ ~ Busy'
  BY <1>1, <1>2, <1>3, <1>4, <1>5 DEF Busy
<1> QED  BY <1>2, <1>3, <1>6, OthersWho

\* The one master does not die: crashes.master < 0 is never true.
LEMMA NoMasterCrash == ASSUME OneMaster, IInv PROVE ~ MasterCrash
<1>1. crashes.master \in Nat
  BY DEF IInv, Types, MasterType
<1> QED  BY <1>1 DEF MasterCrash, OneMaster

\* Nothing happens before the master starts, or when it could not.
LEMMA StepFresh ==
  ASSUME OneMaster, IInv, IInv', WhoInv, [Next]_vars PROVE Fresh'
<1>1. CASE LaunchAggregatorsFails
  <2>1. ~ aggrLaunched
    BY <1>1 DEF LaunchAggregatorsFails
  <2>2. /\ aggregators = <<>> /\ saves = {}
        /\ aggr = [a \in Aggregators |-> "down"]
        /\ \A k \in Iterations, v \in VShards : files[k][v] = NoFile
    BY <2>1, Unlaunched DEF WhoInv
  <2>3. UNCHANGED <<aggregators, aggr, aggrLaunched, saves, files>> /\ ~ Busy'
    BY <1>1, EndsUnlaunched DEF WhoInv
  <2>4. VShards' = VShards /\ Iterations' = Iterations
    BY DEF VShards, NumVShards, Iterations
  <2> QED  BY <2>1, <2>2, <2>3, <2>4 DEF Fresh
<1>2. CASE masterUp /\ ~ LaunchAggregatorsFails
  <2>1. masterUp'
    BY <1>2, NoMasterCrash DEF Next, Handler, RegisterSquad, CompleteTask, Turnover,
       AggregateGlobalHists, SaveModel, SaveModelFails, PlanningFails, InitializeTasks,
       CreateFile, WriteFile, RegisterAggregator, RegistrationFails, AggregatorCrash,
       DialMaster, FinishTask, SquadCrash, MasterStart, MasterStartFails,
       LaunchAggregators, vars, masterVars
  <2> QED  BY <2>1 DEF Fresh
<1>3. CASE ~ masterUp
  <2>1. /\ saves = {} /\ turn.step = "idle" /\ stale = {} /\ ~ aggrLaunched
        /\ \A c \in Coordinators : squad[c] = "down"
        /\ \A a \in Aggregators : aggr[a] = "down"
        /\ \A k \in Iterations, v \in VShards : files[k][v] = NoFile
    BY <1>3 DEF WhoInv, Fresh, Busy
  <2>2. CASE \E fi \in -1 .. MaxIteration : MasterStart(fi)
    BY <2>2 DEF MasterStart, Fresh
  <2>3. CASE \E fi \in -1 .. MaxIteration : MasterStartFails(fi)
    <3>1. /\ UNCHANGED <<aggregators, aggr, aggrLaunched, saves, files>> /\ ~ Busy'
      BY <2>1, <2>3, EndsUnlaunched DEF WhoInv
    <3>2. VShards' = VShards /\ Iterations' = Iterations
      BY DEF VShards, NumVShards, Iterations
    <3> QED  BY <1>3, <2>1, <3>1, <3>2 DEF WhoInv, Fresh
  <2>4. CASE UNCHANGED vars
    BY <2>4 DEF vars, masterVars, aggrVars, diskVars, squadVars, WhoInv, Fresh, Busy,
                VShards, NumVShards, Iterations
  <2>5. /\ ~ Handler /\ ~ LaunchAggregators /\ ~ LaunchAggregatorsFails
        /\ \A a : ~ RegisterAggregator(a)
    BY <1>3 DEF Handler, RegisterSquad, CompleteTask, LaunchAggregators,
                LaunchAggregatorsFails, RegisterAggregator
  <2>6. ~ Turnover
    BY <2>1 DEF Turnover, AggregateGlobalHists, SaveModel, SaveModelFails, PlanningFails,
                InitializeTasks, SaveReturned
  <2>7. \A c \in Coordinators : ~ DialMaster(c) /\ ~ FinishTask(c) /\ ~ SquadCrash(c)
    BY <2>1 DEF DialMaster, FinishTask, SquadCrash
  <2>8. \A a \in Aggregators : ~ AggregatorCrash(a) /\ ~ RegistrationFails(a)
    BY <2>1 DEF AggregatorCrash, RegistrationFails
  <2> QED  BY <2>1, <2>2, <2>3, <2>4, <2>5, <2>6, <2>7, <2>8, NoMasterCrash DEF Next
<1> QED  BY <1>1, <1>2, <1>3

LEMMA StepWho ==
  ASSUME OneMaster, IInv, WhoInv, [Next]_vars PROVE WhoInv'
<1>1. IInv'
  BY StepIInv
<1>2. Fresh'
  BY <1>1, StepFresh
<1>3. CASE Handler
  BY <1>1, <1>2, <1>3, HandlerWho DEF WhoInv
<1>4. CASE AggregateGlobalHists \/ SaveModel
  BY <1>1, <1>2, <1>4, AggregateWho, SaveModelWho DEF WhoInv
<1>5. CASE \/ SaveModelFails \/ PlanningFails
           \/ \E fi \in -1 .. MaxIteration : InitializeTasks(fi)
  <2>1. /\ turn' = Idle /\ turn.step # "idle"
        /\ UNCHANGED <<aggregators, aggr, aggrLaunched, saves, files>>
    BY <1>5 DEF SaveModelFails, PlanningFails, InitializeTasks, FailTurn, SaveReturned, aggrVars, diskVars
  <2>2. Busy
    BY <2>1 DEF Busy
  <2>3. turn'.step = "idle"
    BY <2>1 DEF Idle
  <2> QED  BY <1>1, <1>2, <2>1, <2>2, <2>3, OthersWho DEF WhoInv
<1>6. CASE \E s \in saves : CreateFile(s) \/ WriteFile(s)
  BY <1>1, <1>2, <1>6, WriteWho DEF WhoInv
<1>7. CASE \E a \in Aggregators :
             RegisterAggregator(a) \/ RegistrationFails(a) \/ AggregatorCrash(a)
  <2>1. \A a \in Aggregators : ~ RegistrationFails(a)
    BY DEF RegistrationFails, WhoInv, Fresh
  <2> QED  BY <1>1, <1>2, <1>7, <2>1, RegisterWho, AggregatorCrashWho DEF WhoInv
<1>8. CASE \E c \in Coordinators : DialMaster(c) \/ FinishTask(c) \/ SquadCrash(c)
  BY <1>1, <1>2, <1>8, SquadStepWho DEF WhoInv
<1>9. CASE \E fi \in -1 .. MaxIteration : MasterStart(fi) \/ MasterStartFails(fi)
  <2>1. \A fi : MasterStartFails(fi) => ~ aggrLaunched
    BY DEF MasterStartFails, WhoInv, Fresh
  <2> QED  BY <1>1, <1>2, <1>9, <2>1, MasterStartWho, EndsUnlaunched DEF WhoInv
<1>10. CASE LaunchAggregators \/ LaunchAggregatorsFails
  BY <1>1, <1>2, <1>10, LaunchAggregatorsWho, EndsUnlaunched DEF WhoInv
<1>11. CASE UNCHANGED vars
  <2>1. UNCHANGED <<aggregators, aggr, aggrLaunched, saves, files, turn, stale, squad>>
    BY <1>11 DEF vars, aggrVars, diskVars, squadVars
  <2>2. Busy' = Busy
    BY <2>1 DEF Busy
  <2> QED  BY <1>1, <1>2, <2>1, <2>2, OthersWho DEF WhoInv
<1> QED  BY <1>3, <1>4, <1>5, <1>6, <1>7, <1>8, <1>9, <1>10, <1>11, NoMasterCrash
         DEF Next, Turnover

LEMMA InitWho == Init => WhoInv
BY DEF Init, WhoInv, Fresh, Registered, SavedBy, Busy, Idle

\* As long as the master does not die, the files of a complete checkpoint are of
\* different aggregators, for any number of them, whichever of them die and
\* register anew, and whichever squads die: RegisterAggregator appends a second
\* entry, and saveModel numbers the files by the entries.
THEOREM EveryAggregatorSaves == OneMaster => (Spec => []CheckpointHasEveryAggregator)
<1>1. Init => IInv /\ WhoInv
  BY InitIInv, InitWho
<1>2. OneMaster /\ (IInv /\ WhoInv) /\ [Next]_vars => (IInv /\ WhoInv)'
  BY StepIInv, StepWho
<1>3. IInv /\ WhoInv => CheckpointHasEveryAggregator
  BY VShardsNonempty DEF WhoInv, SavedBy, Everyone, CheckpointHasEveryAggregator, Completed
<1>4. CASE OneMaster
  <2>1. (IInv /\ WhoInv) /\ [Next]_vars => (IInv /\ WhoInv)'
    BY <1>2, <1>4
  <2> QED  BY <1>1, <1>3, <2>1, PTL DEF Spec
<1> QED  BY <1>4

-----------------------------------------------------------------------------
(* With one master, when the files of a checkpoint are written: a turnover *)
(* that saved without an error finds its own iteration to be the last      *)
(* complete one, as long as a directory's name is read back in full.       *)

NumbersFit == \A k \in Iterations : k < 10^Digits

\* Saves are of the iteration or of one before, and one that returned without
\* an error left its file.
SavedWhen ==
  /\ \A s \in saves : s.iteration <= iteration /\ (s.open => s.iteration \in dirs)
  /\ \A k \in Iterations, v \in VShards :
       files[k][v] # NoFile => k <= iteration /\ k \in dirs
  /\ turn.step = "saving" /\ ~ turn.failed =>
       \A v \in VShards :
         \/ files[iteration][v] # NoFile
         \/ \E s \in saves : s.waited /\ s.iteration = iteration /\ s.vshard = v

\* The number of a directory below 10^Digits is read back.
LEMMA NumberRead ==
  ASSUME NumbersFit, NEW k \in Iterations, k \in dirs PROVE Numbered(k)
BY DEF NumbersFit, Numbered, DirNumber

\* initializeTasks finds the iteration it saved: the next one begins.
LEMMA Advance ==
  ASSUME NumbersFit, IInv, SavedWhen, NEW fi \in -1 .. MaxIteration, InitializeTasks(fi)
  PROVE  fi = iteration /\ iteration' = iteration + 1
<1>1. /\ turn.step = "saving" /\ ~ turn.failed /\ \A s \in saves : ~ s.waited
      /\ MostRecentCompleted(fi)
      /\ iteration' = fi + 1
  BY DEF InitializeTasks, SaveReturned, PrepareIteration
<1>2. masterUp /\ iteration \in Iterations
  <2>1. MaxIteration \in Nat
    BY MasterAssumption
  <2> QED  BY <1>1, <2>1 DEF IInv, TurnInv, Types, MasterType, Iterations
<1>3. Completed(iteration) /\ iteration \in dirs
  BY <1>1, <1>2, VShardsNonempty DEF SavedWhen, Completed
<1>4. iteration <= fi
  BY <1>1, <1>2, <1>3, NumberRead DEF MostRecentCompleted
<1>5. fi >= 0 => Completed(fi)
  BY <1>1 DEF MostRecentCompleted
<1>6. fi <= iteration
  BY <1>2, <1>4, <1>5, VShardsNonempty DEF Completed, SavedWhen, Iterations
<1> QED  BY <1>1, <1>2, <1>4, <1>6 DEF Iterations

\* A step that neither begins nor ends an iteration, saves nothing and writes
\* nothing.
LEMMA WhenStays ==
  ASSUME SavedWhen, UNCHANGED <<iteration, dirs, files, saves>>,
         turn'.step = "saving" => turn.step = "saving" /\ turn'.failed = turn.failed
  PROVE  SavedWhen'
BY DEF SavedWhen, Iterations, VShards, NumVShards

\* saveModel asks every vshard's file from an entry, or knows that it fails.
LEMMA SaveModelWhen ==
  ASSUME IInv, WhoInv, SavedWhen, SaveModel PROVE SavedWhen'
<1>1. /\ turn.step = "save"
      /\ saves' = saves \cup {SaveCall(i) : i \in {j \in DOMAIN aggregators \cap VShards :
                                                    aggregators[j].live}}
      /\ turn' = [turn EXCEPT !.step = "saving",
                    !.failed = \E i \in DOMAIN aggregators : ~ aggregators[i].live]
      /\ UNCHANGED <<iteration, dirs, files>>
  BY DEF SaveModel, masterVars, diskVars
<1>2. Enough
  BY <1>1 DEF WhoInv, SavedBy, Everyone
<1>3. VShards \subseteq DOMAIN aggregators
  BY <1>2, VShardsNonempty DEF VShards, Enough, IInv, Types, AggrType
<1>4. \A i : /\ SaveCall(i).iteration = iteration /\ SaveCall(i).vshard = i
             /\ SaveCall(i).waited /\ ~ SaveCall(i).open
  BY DEF SaveCall
<1>5. iteration \in Int
  BY DEF IInv, Types, MasterType
<1>6. ASSUME NEW s \in saves' PROVE s.iteration <= iteration /\ (s.open => s.iteration \in dirs)
  BY <1>1, <1>4, <1>5 DEF SavedWhen
<1>7. ASSUME ~ turn'.failed, NEW v \in VShards
      PROVE  \E s \in saves' : s.waited /\ s.iteration = iteration /\ s.vshard = v
  <2>1. turn'.failed = \E i \in DOMAIN aggregators : ~ aggregators[i].live
    BY <1>1 DEF IInv, Types, TurnType
  <2>2. SaveCall(v) \in saves'
    BY <1>1, <1>3, <1>7, <2>1
  <2> QED  BY <1>4, <2>2
<1>8. VShards' = VShards /\ Iterations' = Iterations
  BY DEF VShards, NumVShards, Iterations
<1> QED  BY <1>1, <1>6, <1>7, <1>8 DEF SavedWhen

\* A Save call creates its file before it writes it, in a directory that exists.
LEMMA WriteWhen ==
  ASSUME IInv, IInv', SavedWhen, NEW s \in saves, CreateFile(s) \/ WriteFile(s)
  PROVE  SavedWhen'
<1>1. /\ s \in Save /\ s.iteration \in Iterations /\ s.vshard \in VShards
      /\ s.by \in Aggregators /\ "" \notin Aggregators
      /\ s.iteration <= iteration
      /\ iteration' = iteration /\ turn'.step = turn.step
  BY MasterAssumption
     DEF CreateFile, WriteFile, masterVars, IInv, Types, TurnType, DiskType, Save, SavedWhen
<1> DEFINE o == [s EXCEPT !.open = TRUE]
<1>2. o.iteration = s.iteration /\ o.vshard = s.vshard /\ o.waited = s.waited
  BY <1>1 DEF Save
<1> DEFINE Wrote == /\ \E b \in BOOLEAN : files' = [files EXCEPT ![s.iteration][s.vshard] =
                                                      [by |-> s.by, whole |-> b]]
                    /\ s.iteration \in dirs' /\ dirs \subseteq dirs'
                    /\ turn' = turn
                    /\ saves' \subseteq saves \cup {o}
                    /\ saves \ {s} \subseteq saves'
           Failed == /\ files' = files /\ dirs' = dirs
                     /\ turn'.failed = (turn.failed \/ s.waited)
                     /\ saves' = saves \ {s}
<1>3. Wrote \/ Failed
  BY DEF CreateFile, WriteFile, diskVars, SavedWhen, IInv, Types, TurnType
<1>4. VShards' = VShards /\ Iterations' = Iterations
  BY DEF VShards, NumVShards, Iterations
<1>5. CASE Wrote
  <2>1. PICK b \in BOOLEAN :
          files' = [files EXCEPT ![s.iteration][s.vshard] = [by |-> s.by, whole |-> b]]
    BY <1>5
  <2>2. [by |-> s.by, whole |-> b] # NoFile
    BY <1>1 DEF NoFile
  <2>3. files \in [Iterations -> [VShards -> FileState]]
    BY DEF IInv, Types, DiskType
  <2>4. files'[s.iteration][s.vshard] # NoFile
    BY <1>1, <2>1, <2>2, <2>3
  <2>5. \A n \in Iterations, v \in VShards :
          files'[n][v] = files[n][v] \/ (n = s.iteration /\ v = s.vshard)
    BY <1>1, <2>1, <2>3
  <2>6. \A n \in Iterations, v \in VShards :
          /\ files[n][v] # NoFile => files'[n][v] # NoFile
          /\ files'[n][v] # NoFile => n <= iteration /\ n \in dirs'
    <3>1. s.iteration \in dirs' /\ dirs \subseteq dirs'
      BY <1>5
    <3>2. \A n \in Iterations, v \in VShards :
            files[n][v] # NoFile => n <= iteration /\ n \in dirs
      BY DEF SavedWhen
    <3>3. TAKE n \in Iterations, v \in VShards
    <3>4. CASE files'[n][v] = files[n][v]
      BY <3>1, <3>2, <3>4
    <3>5. CASE n = s.iteration /\ v = s.vshard
      BY <1>1, <2>4, <3>1, <3>5
    <3> QED  BY <2>5, <3>4, <3>5
  <2>7. \A r \in saves' : r.iteration <= iteration /\ (r.open => r.iteration \in dirs')
    BY <1>1, <1>2, <1>5 DEF SavedWhen
  <2>8. ASSUME turn.step = "saving", ~ turn.failed, NEW v \in VShards
        PROVE  \/ files'[iteration][v] # NoFile
               \/ \E r \in saves' : r.waited /\ r.iteration = iteration /\ r.vshard = v
    <3>1. iteration \in Iterations
      <4>1. MaxIteration \in Nat
        BY MasterAssumption
      <4> QED  BY <2>8, <4>1 DEF IInv, TurnInv, Types, MasterType, Iterations
    <3>2. CASE files[iteration][v] # NoFile
      BY <2>6, <3>1, <3>2
    <3>3. CASE files[iteration][v] = NoFile
      <4>1. PICK r \in saves : r.waited /\ r.iteration = iteration /\ r.vshard = v
        BY <2>8, <3>3 DEF SavedWhen
      <4>2. CASE r = s
        BY <2>4, <4>1, <4>2
      <4>3. CASE r # s
        BY <1>5, <4>1, <4>3
      <4> QED  BY <4>2, <4>3
    <3> QED  BY <3>2, <3>3
  <2> QED  BY <1>1, <1>4, <1>5, <2>6, <2>7, <2>8 DEF SavedWhen
<1>6. CASE Failed
  BY <1>1, <1>4, <1>6 DEF SavedWhen
<1> QED  BY <1>3, <1>5, <1>6

\* A Save call that dies with its aggregator fails the turnover.
LEMMA AggregatorCrashWhen ==
  ASSUME IInv, SavedWhen, NEW a \in Aggregators, AggregatorCrash(a) PROVE SavedWhen'
<1>1. /\ saves' = {s \in saves : s.by # a}
      /\ turn' = [turn EXCEPT !.failed = @ \/ \E s \in saves : s.by = a /\ s.waited]
      /\ UNCHANGED <<iteration, dirs, files>>
  BY DEF AggregatorCrash, masterVars, diskVars
<1>2. /\ turn'.step = turn.step
      /\ turn'.failed = (turn.failed \/ \E s \in saves : s.by = a /\ s.waited)
  BY <1>1 DEF IInv, Types, TurnType
<1>3. VShards' = VShards /\ Iterations' = Iterations
  BY DEF VShards, NumVShards, Iterations
<1> QED  BY <1>1, <1>2, <1>3 DEF SavedWhen

\* Before the aggregators of the master run, nothing is saved.
LEMMA StartWhen ==
  ASSUME IInv, IInv', WhoInv, ~ aggrLaunched, UNCHANGED files, saves' = {},
         turn'.step = turn.step \/ turn'.step = "idle"
  PROVE  SavedWhen'
<1>1. VShards' = VShards /\ Iterations' = Iterations
  BY DEF VShards, NumVShards, Iterations
<1>2. /\ turn.step = "idle"
      /\ \A k \in Iterations, v \in VShards : files[k][v] = NoFile
  BY Unlaunched DEF WhoInv
<1> QED  BY <1>1, <1>2 DEF SavedWhen

LEMMA BeginningWhen ==
  ASSUME IInv, IInv', WhoInv,
         \/ LaunchAggregators \/ LaunchAggregatorsFails
         \/ \E fi \in -1 .. MaxIteration : MasterStart(fi) \/ MasterStartFails(fi)
  PROVE  SavedWhen'
<1>1. ~ aggrLaunched
  BY DEF LaunchAggregators, LaunchAggregatorsFails, MasterStart, MasterStartFails, WhoInv,
         Fresh
<1>2. saves = {}
  BY <1>1, Unlaunched DEF WhoInv
<1>3. /\ UNCHANGED files /\ saves' = {}
      /\ turn'.step = turn.step \/ turn'.step = "idle"
  BY <1>2 DEF LaunchAggregators, LaunchAggregatorsFails, MasterStart, MasterStartFails,
              KillAggregators, MasterEnds, Idle, diskVars, IInv, Types, TurnType
<1> QED  BY <1>1, <1>3, StartWhen

LEMMA StepWhen ==
  ASSUME OneMaster, NumbersFit, IInv, WhoInv, SavedWhen, [Next]_vars PROVE SavedWhen'
<1>1. IInv'
  BY StepIInv
<1>2. CASE Handler
  <2>1. /\ UNCHANGED <<iteration, dirs, files, saves>>
        /\ turn' = turn \/ turn'.step = "aggregate"
    BY <1>2 DEF Handler, RegisterSquad, CompleteTask, AcceptCompletion, RefuseCompletion,
                BeginTurnover, diskVars
  <2> QED  BY <2>1, WhenStays
<1>3. CASE AggregateGlobalHists \/ SaveModelFails \/ PlanningFails
  <2>1. UNCHANGED <<iteration, dirs, files, saves>>
    BY <1>3 DEF AggregateGlobalHists, SaveModelFails, PlanningFails, masterVars, diskVars
  <2>2. turn'.step # "saving"
    BY <1>3 DEF AggregateGlobalHists, SaveModelFails, PlanningFails, FailTurn, Idle, IInv,
                Types, TurnType
  <2> QED  BY <2>1, <2>2, WhenStays
<1>4. CASE SaveModel
  BY <1>4, SaveModelWhen
<1>5. CASE \E fi \in -1 .. MaxIteration : InitializeTasks(fi)
  <2>1. PICK fi \in -1 .. MaxIteration : InitializeTasks(fi)
    BY <1>5
  <2>2. iteration' = iteration + 1
    BY <2>1, Advance
  <2>3. turn' = Idle /\ UNCHANGED <<saves, files>> /\ dirs \subseteq dirs'
    BY <2>1 DEF InitializeTasks, MakeDirectory, PlanningCut
  <2>4. iteration \in Int /\ \A s \in saves : s.iteration \in Int
    BY DEF IInv, Types, MasterType, DiskType, Save, Iterations
  <2>5. VShards' = VShards /\ Iterations' = Iterations
    BY DEF VShards, NumVShards, Iterations
  <2> QED  BY <2>2, <2>3, <2>4, <2>5 DEF SavedWhen, Idle, Iterations
<1>6. CASE \E s \in saves : CreateFile(s) \/ WriteFile(s)
  BY <1>1, <1>6, WriteWhen
<1>7. CASE \E a \in Aggregators : AggregatorCrash(a)
  BY <1>7, AggregatorCrashWhen
<1>8. CASE \/ \E a \in Aggregators : RegisterAggregator(a) \/ RegistrationFails(a)
           \/ \E c \in Coordinators : DialMaster(c) \/ FinishTask(c) \/ SquadCrash(c)
           \/ UNCHANGED vars
  <2>1. /\ UNCHANGED <<iteration, dirs, files, saves>>
        /\ turn'.step = turn.step /\ turn'.failed = turn.failed
    BY <1>8 DEF RegisterAggregator, RegistrationFails, DialMaster, FinishTask, SquadCrash, vars, masterVars,
                diskVars, IInv, Types, TurnType
  <2> QED  BY <2>1, WhenStays
<1>9. CASE \/ LaunchAggregators \/ LaunchAggregatorsFails
           \/ \E fi \in -1 .. MaxIteration : MasterStart(fi) \/ MasterStartFails(fi)
  BY <1>1, <1>9, BeginningWhen
<1> QED  BY <1>2, <1>3, <1>4, <1>5, <1>6, <1>7, <1>8, <1>9, NoMasterCrash DEF Next, Turnover

LEMMA InitWhen == Init => SavedWhen
BY DEF Init, SavedWhen, Idle

\* A turnover that has saved leaves a complete checkpoint.
LEMMA SavedIsComplete ==
  ASSUME IInv, SavedWhen, SaveReturned, ~ turn.failed
  PROVE  masterUp /\ iteration \in Iterations /\ Completed(iteration) /\ iteration \in dirs
<1>1. masterUp /\ iteration \in Iterations
  <2>1. MaxIteration \in Nat
    BY MasterAssumption
  <2> QED  BY <2>1 DEF SaveReturned, IInv, TurnInv, Types, MasterType, Iterations
<1> QED  BY <1>1, VShardsNonempty DEF SaveReturned, SavedWhen, Completed

\* An error is all that a live caller gets when the job directory cannot be read.
LEMMA PlanningFailsSays ==
  ASSUME IInv, PlanningFails
  PROVE  /\ "recover" \in Faults
         /\ UNCHANGED <<iteration, pending, working, dirs, done>>
         /\ turn.live => squad'[turn.coord] \in {"starting", "down"}
<1>1. turn.coord \in Coordinators
  BY DEF PlanningFails, SaveReturned, IInv, TurnInv
<1> QED  BY <1>1 DEF PlanningFails, FailTurn, ReplyError, SquadsExit, masterVars, diskVars

\* How a turnover that has saved may end.
SavedTurnoverEnds ==
  /\ Completed(iteration)
  /\ \/ iteration' = iteration + 1
     \/ /\ "recover" \in Faults
        /\ UNCHANGED <<iteration, pending, working, dirs, done>>
        /\ turn.live => squad'[turn.coord] \in {"starting", "down"}

\* A turnover ends by its own steps only, unless the master ends.
LEMMA StepAdvances ==
  ASSUME OneMaster, NumbersFit, IInv, SavedWhen, [Next]_vars,
         turn.step = "saving", ~ turn.failed, turn'.step = "idle", masterUp'
  PROVE  SavedTurnoverEnds
<1>1. CASE \E fi \in -1 .. MaxIteration : InitializeTasks(fi)
  <2>1. SaveReturned
    BY <1>1 DEF InitializeTasks
  <2> QED  BY <1>1, <2>1, Advance, SavedIsComplete DEF SavedTurnoverEnds
<1>2. CASE PlanningFails
  <2>1. SaveReturned
    BY <1>2 DEF PlanningFails
  <2> QED  BY <1>2, <2>1, PlanningFailsSays, SavedIsComplete DEF SavedTurnoverEnds
<1>3. masterUp
  BY DEF IInv, TurnInv
<1>4. ~ Handler /\ ~ AggregateGlobalHists /\ ~ SaveModel /\ ~ SaveModelFails
  <2>1. turn # Idle
    BY DEF Idle
  <2>2. ~ Handler
    BY <2>1 DEF Handler, RegisterSquad, CompleteTask
  <2>3. ~ AggregateGlobalHists /\ ~ SaveModel /\ ~ SaveModelFails
    BY DEF AggregateGlobalHists, SaveModel, SaveModelFails
  <2> QED  BY <2>2, <2>3
<1>5. \A fi : ~ MasterStart(fi) /\ ~ MasterStartFails(fi)
  BY <1>3 DEF MasterStart, MasterStartFails
<1>6. ~ LaunchAggregatorsFails
  BY DEF LaunchAggregatorsFails, MasterEnds
<1>7. CASE \/ \E s \in saves : CreateFile(s) \/ WriteFile(s)
           \/ \E a \in Aggregators :
                RegisterAggregator(a) \/ RegistrationFails(a) \/ AggregatorCrash(a)
           \/ \E c \in Coordinators : DialMaster(c) \/ FinishTask(c) \/ SquadCrash(c)
           \/ LaunchAggregators \/ UNCHANGED vars
  <2>1. turn'.step = turn.step
    BY <1>7 DEF CreateFile, WriteFile, RegisterAggregator, RegistrationFails,
                AggregatorCrash, DialMaster, FinishTask, SquadCrash, LaunchAggregators,
                vars, IInv, Types, TurnType
  <2> QED  BY <2>1
<1> QED  BY <1>1, <1>2, <1>4, <1>5, <1>6, <1>7, NoMasterCrash DEF Next, Turnover

\* As long as the master does not crash and an iteration's number fits into the
\* name of its directory, a turnover whose saves returned without an error leaves
\* a complete checkpoint and begins the next iteration, for any number of
\* aggregators and squads and whichever of them die:
\* FindMostRecentCompletedIteration finds what was just saved, and no file of a
\* later iteration.  If it fails, which distributeTask does not notice, the
\* iteration stays, with nothing planned and nothing forgotten, and the caller
\* gets an error.
THEOREM SavedTurnoversAdvance == OneMaster /\ NumbersFit => (Spec => TurnoverAdvances)
<1>1. Init => IInv /\ WhoInv /\ SavedWhen
  BY InitIInv, InitWho, InitWhen
<1>2. OneMaster /\ NumbersFit /\ (IInv /\ WhoInv /\ SavedWhen) /\ [Next]_vars
        => (IInv /\ WhoInv /\ SavedWhen)'
  BY StepIInv, StepWho, StepWhen
<1>3. CASE OneMaster /\ NumbersFit
  <2>1. (IInv /\ WhoInv /\ SavedWhen) /\ [Next]_vars => (IInv /\ WhoInv /\ SavedWhen)'
    BY <1>2, <1>3
  <2>2. (IInv /\ WhoInv /\ SavedWhen) /\ [Next]_vars
          => [turn.step = "saving" /\ ~ turn.failed /\ turn'.step = "idle" /\ masterUp'
                => SavedTurnoverEnds]_vars
    BY <1>3, StepAdvances
  <2> QED  BY <1>1, <2>1, <2>2, PTL DEF Spec, TurnoverAdvances, SavedTurnoverEnds
<1> QED  BY <1>3
=============================================================================
