------------------------------- MODULE Master -------------------------------
(***************************************************************************)
(* The Phoenix master (srv/master_service.go), with what it talks to: the  *)
(* coordinators of the squads, the aggregators, and the job directory from *)
(* which a restarted master recovers.                                      *)
(*                                                                         *)
(* The mutex "schedule" is held from the first line of RegisterSquad and   *)
(* CompleteTask to their return.  A call that finds work in the queue is   *)
(* one step.  A call that finds the queue empty turns the iteration over:  *)
(* it aggregates, saves and plans in several steps, and the record "turn"  *)
(* is the mutex held meanwhile.  RegisterAggregator takes another mutex    *)
(* and interleaves with a turnover, and so do crashes.                     *)
(***************************************************************************)
EXTENDS Integers, Sequences, FiniteSets

CONSTANTS
  Coordinators,          \* addresses of the squads' coordinators
  Aggregators,           \* addresses of the aggregators
  Corpus,                \* the corpus directory: the sequence of its files
  LogllPeriod,           \* Config.LogllPeriod, 0 turns log-likelihood off
  Retry,                 \* Config.Retry, how often prism relaunches a squad
  Digits,                \* digits read back from a directory name: 5
  Implemented,           \* actions for which Coordinator.do succeeds
  CreatesParents,        \* does file.Create create a missing directory?
  Faults,                \* which of the faults below may happen
  MaxIteration,          \* bound: no turnover out of this iteration
  MaxMasterCrashes,      \* bound on master crashes
  MaxAggregatorCrashes,  \* bound on aggregator crashes
  NoCoord                \* the empty string as a coordinator's address

INIT  == 0
GIBBS == 1
LOGLL == 2

NumVShards == Cardinality(Aggregators)
FaultKinds == {"crash",    \* a coordinator process dies
               "late",     \* a call of a dead coordinator is still served
               "recover",  \* FindMostRecentCompletedIteration fails
               "mkdir",    \* MkDir of initializeTasks fails
               "listing",  \* its listing of the corpus fails
               "launch"}   \* LaunchWorkers or LaunchSquads fails

ASSUME MasterAssumption ==
  /\ IsFiniteSet(Aggregators) /\ Aggregators # {} /\ "" \notin Aggregators
  /\ Corpus \in Seq(STRING) /\ Corpus # <<>>
  /\ LogllPeriod \in Nat /\ Retry \in Nat /\ Digits \in Nat \ {0}
  /\ Implemented \subseteq {INIT, GIBBS, LOGLL}
  /\ CreatesParents \in BOOLEAN
  /\ Faults \subseteq FaultKinds
  /\ MaxIteration \in Nat
  /\ MaxMasterCrashes \in Nat /\ MaxAggregatorCrashes \in Nat
  /\ NoCoord \notin Coordinators

VARIABLES
  \* the master process
  masterUp, pending, working, iteration, aggregators, turn,
  \* the aggregator processes
  aggrLaunched, aggr, aggrRetried, saves,
  \* the job directory
  dirs, files,
  \* the squads
  squad, task, restarts, stale,
  \* crashes so far, and a history of what was reported done
  crashes, done

masterVars == <<masterUp, pending, working, iteration>>
aggrVars   == <<aggrLaunched, aggr, aggrRetried>>
diskVars   == <<dirs, files>>
squadVars  == <<squad, task, restarts>>
vars == <<masterVars, aggregators, turn, aggrVars, saves, diskVars, squadVars,
          stale, crashes, done>>

-----------------------------------------------------------------------------
(* Tasks.  A task carries up to NumVShards files of the corpus. *)

NumTasks == (Len(Corpus) + NumVShards - 1) \div NumVShards

Chunk(i) ==
  LET upto == i * NumVShards
  IN  SubSeq(Corpus, upto - NumVShards + 1,
             IF upto < Len(Corpus) THEN upto ELSE Len(Corpus))

Task == [shards : Seq(STRING), coord : Coordinators \cup {NoCoord},
         iteration : Nat, action : {INIT, GIBBS, LOGLL}]

\* A Task whose fields are all zero, what "var t Task" declares.
ZeroTask == [shards |-> <<>>, coord |-> NoCoord, iteration |-> 0, action |-> INIT]

\* A nil *Task: a coordinator without an entry in the map m.working.
NoTask == [shards |-> <<>>, coord |-> NoCoord, iteration |-> -1, action |-> INIT]

\* Task.Equal compares shards and action only.
Equal(t, u) == t.shards = u.shards /\ t.action = u.action

\* What gob decodes into a Task that held old: a field whose value is zero is
\* not transmitted, and the receiver's field keeps its old value.
Decode(old, t) ==
  [shards    |-> IF t.shards = <<>> THEN old.shards ELSE t.shards,
   coord     |-> IF t.coord = NoCoord THEN old.coord ELSE t.coord,
   iteration |-> IF t.iteration = 0 THEN old.iteration ELSE t.iteration,
   action    |-> IF t.action = INIT THEN old.action ELSE t.action]

\* What a task is about, whoever it is assigned to.
Work(t) == [shards |-> t.shards, iteration |-> t.iteration, action |-> t.action]

-----------------------------------------------------------------------------
(* The job directory. *)

Iterations == 0 .. MaxIteration
VShards    == 1 .. NumVShards
NoFile     == [by |-> "", whole |-> FALSE]

\* The number Sscanf(name, "%05d") reads from the name of directory d: the
\* first Digits digits of its decimal form.
DirNumber(d) ==
  IF d < 10^Digits THEN d
  ELSE CHOOSE n \in 10^(Digits - 1) .. 10^Digits - 1 :
         \E dropped \in 1 .. d : n = d \div 10^dropped

\* isCompletedIteration: a file exists for every vshard, whole or not.
Completed(k) == k \in Iterations /\ \A v \in VShards : files[k][v] # NoFile

Numbered(k) == \E d \in dirs : DirNumber(d) = k

\* FindMostRecentCompletedIteration returns fi.
MostRecentCompleted(fi) ==
  /\ fi = -1 \/ (Numbered(fi) /\ Completed(fi))
  /\ \A k \in Iterations : Numbered(k) /\ Completed(k) => k <= fi

\* The action, and the Iteration field, of the tasks created after fi.
ActionAfter(fi) ==
  IF fi >= 0 /\ LogllPeriod > 0 /\ fi % LogllPeriod = 0 THEN LOGLL
  ELSE IF fi < 0 THEN INIT ELSE GIBBS

IterationAfter(fi) == IF ActionAfter(fi) = LOGLL THEN fi ELSE fi + 1

TasksAfter(fi) ==
  [i \in 1 .. NumTasks |->
     [shards |-> Chunk(i), coord |-> NoCoord,
      iteration |-> IterationAfter(fi), action |-> ActionAfter(fi)]]

\* The iteration is counted one too far.
PrepareIterationOff(fi) == iteration' = fi + 2

\* A running master does not count its iterations.
PrepareIterationStuck(fi) == iteration' = IF iteration < 0 THEN fi + 1 ELSE iteration

\* initializeTasks sets m.iteration first; no later error undoes it.
PrepareIteration(fi) == iteration' = fi + 1

MakeDirectory(fi) ==
  dirs' = IF ActionAfter(fi) = LOGLL THEN dirs ELSE dirs \cup {fi + 1}

\* An error of initializeTasks after that: of MkDir, or with the directory made.
PlanningCut(fi) ==
  \/ "mkdir" \in Faults /\ ActionAfter(fi) # LOGLL /\ UNCHANGED dirs
  \/ "listing" \in Faults /\ MakeDirectory(fi)

-----------------------------------------------------------------------------
(* Calls of the squads, and what becomes of their callers. *)

Idle == [step |-> "idle", coord |-> NoCoord, live |-> FALSE, failed |-> FALSE]

Call(m, c, t, l) == [method |-> m, coord |-> c, task |-> t, live |-> l]

\* The calls whose callers are waiting, except the one that holds the mutex.
LiveCalls ==
  {Call(squad[c], c, task[c], TRUE) :
     c \in {x \in Coordinators : /\ squad[x] \in {"RegisterSquad", "CompleteTask"}
                                 /\ ~ (turn.live /\ turn.coord = x)}}

\* Calls of coordinators in cs that the master serves after their death.
LateCalls(cs) ==
  IF "late" \in Faults
  THEN {[k EXCEPT !.live = FALSE] : k \in {x \in LiveCalls : x.coord \in cs}}
  ELSE {}

\* The coordinators in cs exit; prism relaunches each at most Retry times.
SquadsExit(cs) ==
  /\ squad' = [c \in Coordinators |->
                 IF c \notin cs THEN squad[c]
                 ELSE IF restarts[c] < Retry THEN "starting" ELSE "down"]
  /\ restarts' = [c \in Coordinators |->
                    IF c \in cs /\ restarts[c] < Retry THEN restarts[c] + 1
                    ELSE restarts[c]]
  /\ UNCHANGED task

\* The reply t reaches the caller of k, if it is still there.
Reply(k, t) ==
  IF k.live
  THEN /\ squad' = [squad EXCEPT ![k.coord] = "working"]
       /\ task' = [task EXCEPT ![k.coord] = Decode(@, t)]
       /\ UNCHANGED restarts
  ELSE UNCHANGED squadVars

\* An error reaches the caller of k: Coordinator.run ends in log.Fatalf.
ReplyError(k) == IF k.live THEN SquadsExit({k.coord}) ELSE UNCHANGED squadVars

-----------------------------------------------------------------------------
(* The handlers that hold "schedule". *)

\* The work of a caller that is gone is not recorded.
AssignUnlessGone(k, queue) ==
  LET t == [Head(queue) EXCEPT !.coord = k.coord]
  IN  /\ queue # <<>>
      /\ pending' = Tail(queue)
      /\ working' = [working EXCEPT ![k.coord] = IF k.live THEN t ELSE NoTask]
      /\ Reply(k, t)

\* The task stays in the queue.
AssignAgain(k, queue) ==
  LET t == [Head(queue) EXCEPT !.coord = k.coord]
  IN  /\ queue # <<>>
      /\ pending' = queue
      /\ working' = [working EXCEPT ![k.coord] = t]
      /\ Reply(k, t)

\* The tail of distributeTask: the head of a non-empty queue goes to the caller.
Assign(k, queue) ==
  LET t == [Head(queue) EXCEPT !.coord = k.coord]
  IN  /\ queue # <<>>
      /\ pending' = Tail(queue)
      /\ working' = [working EXCEPT ![k.coord] = t]
      /\ Reply(k, t)

\* The last task of the queue is not waited for.
BeginTurnoverEarly(k) ==
  /\ Len(pending) <= 1
  /\ iteration < MaxIteration
  /\ turn' = [step |-> "aggregate", coord |-> k.coord, live |-> k.live,
              failed |-> FALSE]

\* The head of distributeTask: an empty queue counts as a completed iteration.
BeginTurnover(k) ==
  /\ pending = <<>>
  /\ iteration < MaxIteration
  /\ turn' = [step |-> "aggregate", coord |-> k.coord, live |-> k.live,
              failed |-> FALSE]

RegisterSquad(k) ==
  /\ masterUp /\ turn = Idle /\ k.method = "RegisterSquad"
  /\ \/ /\ working[k.coord] # NoTask
        /\ Reply(k, working[k.coord])
        /\ UNCHANGED <<pending, working, turn>>
     \/ /\ working[k.coord] = NoTask
        /\ Assign(k, pending)
        /\ UNCHANGED turn
     \/ /\ working[k.coord] = NoTask
        /\ BeginTurnover(k)
        /\ UNCHANGED <<pending, working, squadVars>>
  /\ stale' = stale \ {k}
  /\ UNCHANGED <<masterUp, iteration, aggregators, aggrVars, saves, diskVars,
                 crashes, done>>

\* The coordinators whose entry the loop of CompleteTask may meet first.
Matching(t) == {c \in Coordinators : working[c] # NoTask /\ Equal(working[c], t)}

\* Whoever reports a task completes it.
AcceptFromAnyone(k, c) ==
  /\ done' = done \cup {Work(k.task)}
  /\ \/ Assign(k, pending) /\ UNCHANGED turn
     \/ /\ BeginTurnover(k)
        /\ working' = [working EXCEPT ![c] = NoTask]
        /\ UNCHANGED <<pending, squadVars>>

\* The owner of the matching entry completes it, and gets its next task.
AcceptCompletion(k, c) ==
  /\ k.task.coord = c
  /\ done' = done \cup {Work(k.task)}
  /\ \/ Assign(k, pending) /\ UNCHANGED turn
     \/ /\ BeginTurnover(k)
        /\ working' = [working EXCEPT ![c] = NoTask]
        /\ UNCHANGED <<pending, squadVars>>

\* InvalidReporter, or TaskNotInWorkingQueue.
RefuseCompletion(k) ==
  /\ \/ \E c \in Matching(k.task) : k.task.coord # c
     \/ Matching(k.task) = {}
  /\ ReplyError(k)
  /\ UNCHANGED <<pending, working, turn, done>>

CompleteTask(k) ==
  /\ masterUp /\ turn = Idle /\ k.method = "CompleteTask"
  /\ \/ \E c \in Matching(k.task) : AcceptCompletion(k, c)
     \/ RefuseCompletion(k)
  /\ stale' = stale \ {k}
  /\ UNCHANGED <<masterUp, iteration, aggregators, aggrVars, saves, diskVars,
                 crashes>>

-----------------------------------------------------------------------------
(* A turnover: the rest of distributeTask on an empty queue. *)

\* The mutex is not released on an error.
FailTurnLocked == UNCHANGED turn /\ ReplyError(turn)

\* distributeTask returns an error: the mutex is released.
FailTurn == turn' = Idle /\ ReplyError(turn)

AggregateGlobalHists ==
  /\ turn.step = "aggregate"
  /\ IF \A i \in DOMAIN aggregators : aggregators[i].live
     THEN turn' = [turn EXCEPT !.step = "save"] /\ UNCHANGED squadVars
     ELSE FailTurn
  /\ UNCHANGED <<masterVars, aggregators, aggrVars, saves, diskVars, stale,
                 crashes, done>>

\* The model is filed under the iteration to come.
SaveCallNext(i) ==
  [iteration |-> iteration + 1, vshard |-> i, by |-> aggregators[i].addr,
   open |-> FALSE, waited |-> TRUE]

\* Every file is asked from the first aggregator.
SaveCallFirst(i) ==
  [iteration |-> iteration, vshard |-> i, by |-> aggregators[1].addr,
   open |-> FALSE, waited |-> TRUE]

\* The call of saveModel to the i-th registered aggregator, for the i-th file.
SaveCall(i) ==
  [iteration |-> iteration, vshard |-> i, by |-> aggregators[i].addr,
   open |-> FALSE, waited |-> TRUE]

\* saveModel calls them all.  A file numbered beyond NumVShards, which nothing
\* reads, is not followed.
SaveModel ==
  /\ turn.step = "save"
  /\ saves' = saves \cup
       {SaveCall(i) : i \in {j \in DOMAIN aggregators \cap VShards :
                               aggregators[j].live}}
  /\ turn' = [turn EXCEPT !.step = "saving",
                !.failed = \E i \in DOMAIN aggregators : ~ aggregators[i].live]
  /\ UNCHANGED <<masterVars, aggregators, aggrVars, diskVars, squadVars, stale,
                 crashes, done>>

SaveReturned == turn.step = "saving" /\ \A s \in saves : ~ s.waited

SaveModelFails ==
  /\ SaveReturned /\ turn.failed
  /\ FailTurn
  /\ UNCHANGED <<masterVars, aggregators, aggrVars, saves, diskVars, stale,
                 crashes, done>>

\* FindMostRecentCompletedIteration fails: initializeTasks returns before it
\* changed anything, its error is ignored, and the queue is empty.
PlanningFails ==
  /\ SaveReturned /\ ~ turn.failed
  /\ "recover" \in Faults
  /\ FailTurn
  /\ UNCHANGED <<masterVars, aggregators, aggrVars, saves, diskVars, stale,
                 crashes, done>>

\* initializeTasks and the assignment of the first of its tasks; or a later
\* error of initializeTasks, ignored like the other.
InitializeTasks(fi) ==
  /\ SaveReturned /\ ~ turn.failed
  /\ MostRecentCompleted(fi)
  /\ PrepareIteration(fi)
  /\ done' = {}
  /\ turn' = Idle
  /\ \/ MakeDirectory(fi) /\ Assign(turn, pending \o TasksAfter(fi))
     \/ /\ PlanningCut(fi)
        /\ ReplyError(turn)
        /\ UNCHANGED <<pending, working>>
  /\ UNCHANGED <<masterUp, aggregators, aggrVars, saves, files, stale, crashes>>

-----------------------------------------------------------------------------
(* The aggregators. *)

\* Aggregator.Save creates the file in place, then encodes the model into it.
CreateFile(s) ==
  /\ s \in saves /\ ~ s.open
  /\ IF CreatesParents \/ s.iteration \in dirs
     THEN /\ files' = [files EXCEPT ![s.iteration][s.vshard] =
                         [by |-> s.by, whole |-> FALSE]]
          /\ dirs' = dirs \cup {s.iteration}
          /\ saves' = (saves \ {s}) \cup {[s EXCEPT !.open = TRUE]}
          /\ UNCHANGED turn
     ELSE /\ saves' = saves \ {s}
          /\ turn' = [turn EXCEPT !.failed = @ \/ s.waited]
          /\ UNCHANGED diskVars
  /\ UNCHANGED <<masterVars, aggregators, aggrVars, squadVars, stale, crashes,
                 done>>

WriteFile(s) ==
  /\ s \in saves /\ s.open
  /\ files' = [files EXCEPT ![s.iteration][s.vshard] =
                 [by |-> s.by, whole |-> TRUE]]
  /\ saves' = saves \ {s}
  /\ UNCHANGED <<masterVars, aggregators, turn, aggrVars, dirs, squadVars, stale,
                 crashes, done>>

\* An aggregator process exits; prism relaunches it once.
AggregatorExits(a) ==
  /\ aggr' = [aggr EXCEPT ![a] = IF a \in aggrRetried THEN "down" ELSE "starting"]
  /\ aggrRetried' = aggrRetried \cup {a}
  /\ UNCHANGED aggrLaunched

AggregatorCrash(a) ==
  /\ crashes.aggregator < MaxAggregatorCrashes
  /\ aggr[a] = "up"
  /\ AggregatorExits(a)
  /\ crashes' = [crashes EXCEPT !.aggregator = @ + 1]
  /\ aggregators' = [i \in DOMAIN aggregators |->
                       IF aggregators[i].addr = a
                       THEN [aggregators[i] EXCEPT !.live = FALSE]
                       ELSE aggregators[i]]
  /\ saves' = {s \in saves : s.by # a}
  /\ turn' = [turn EXCEPT !.failed = @ \/ \E s \in saves : s.by = a /\ s.waited]
  /\ UNCHANGED <<masterVars, diskVars, squadVars, stale, done>>

\* LaunchSquads kills what is left of the squads, then launches them all.
LaunchSquads ==
  /\ squad' = [c \in Coordinators |-> "starting"]
  /\ restarts' = [c \in Coordinators |-> 0]
  /\ UNCHANGED task

KillSquads ==
  /\ squad' = [c \in Coordinators |-> "down"]
  /\ UNCHANGED <<task, restarts>>

\* An aggregator that prism relaunched finds no master to dial.
RegistrationFails(a) ==
  /\ ~ masterUp /\ aggr[a] = "starting"
  /\ AggregatorExits(a)
  /\ UNCHANGED <<masterVars, aggregators, turn, saves, diskVars, squadVars, stale,
                 crashes, done>>

\* RegisterAggregator counts registrations, and launches the squads each time
\* the count is at least the number of aggregators.  An aggregator of a crashed
\* master may be the first that registers with the next one.
RegisterAggregator(a) ==
  /\ masterUp /\ aggr[a] = "starting"
  /\ \/ /\ aggregators' = Append(aggregators, [addr |-> a, live |-> TRUE])
        /\ aggr' = [aggr EXCEPT ![a] = "up"]
        /\ UNCHANGED <<aggrLaunched, aggrRetried>>
        /\ IF Len(aggregators) + 1 >= NumVShards
           THEN /\ LaunchSquads
                /\ stale' = stale \cup LateCalls(Coordinators)
                /\ turn' = [turn EXCEPT !.live = FALSE]
           ELSE UNCHANGED <<squadVars, stale, turn>>
     \/ /\ "launch" \in Faults /\ Len(aggregators) + 1 >= NumVShards
        /\ aggregators' = Append(aggregators, [addr |-> a, live |-> FALSE])
        /\ AggregatorExits(a)
        /\ KillSquads
        /\ stale' = stale \cup LateCalls(Coordinators)
        /\ turn' = [turn EXCEPT !.live = FALSE]
  /\ UNCHANGED <<masterVars, saves, diskVars, crashes, done>>

-----------------------------------------------------------------------------
(* The squads, as the master meets them: Coordinator.run. *)

\* run dials the master and calls RegisterSquad with a zero Task to fill.
DialMaster(c) ==
  /\ squad[c] = "starting"
  /\ IF masterUp
     THEN /\ squad' = [squad EXCEPT ![c] = "RegisterSquad"]
          /\ task' = [task EXCEPT ![c] = ZeroTask]
          /\ UNCHANGED restarts
     ELSE SquadsExit({c})
  /\ UNCHANGED <<masterVars, aggregators, turn, aggrVars, saves, diskVars, stale,
                 crashes, done>>

\* do returns: run reports the task, or gives up on an error.  An "orphan"
\* works for a master that is gone, and its report fails.
FinishTask(c) ==
  /\ squad[c] \in {"working", "orphan"}
  /\ IF squad[c] = "working" /\ task[c].action \in Implemented
     THEN /\ squad' = [squad EXCEPT ![c] = "CompleteTask"]
          /\ task' = [task EXCEPT ![c].coord = c]
          /\ UNCHANGED restarts
     ELSE SquadsExit({c})
  /\ UNCHANGED <<masterVars, aggregators, turn, aggrVars, saves, diskVars, stale,
                 crashes, done>>

SquadCrash(c) ==
  /\ "crash" \in Faults
  /\ squad[c] \notin {"starting", "down"}
  /\ SquadsExit({c})
  /\ stale' = stale \cup LateCalls({c})
  /\ turn' = [turn EXCEPT !.live = @ /\ turn.coord # c]
  /\ UNCHANGED <<masterVars, aggregators, aggrVars, saves, diskVars, crashes,
                 done>>

-----------------------------------------------------------------------------
(* The master process. *)

\* cmd/master: serve runs NewMaster, which plans from what the disk holds.
MasterStart(fi) ==
  /\ ~ masterUp
  /\ MostRecentCompleted(fi)
  /\ masterUp' = TRUE
  /\ PrepareIteration(fi) /\ MakeDirectory(fi)
  /\ pending' = TasksAfter(fi)
  /\ aggrLaunched' = FALSE
  /\ UNCHANGED <<working, aggregators, turn, aggr, aggrRetried, saves, files,
                 squadVars, stale, crashes, done>>

\* KillWorkers: the aggregators end, and what they were saving.
KillAggregators ==
  /\ aggr' = [a \in Aggregators |-> "down"]
  /\ aggrLaunched' = FALSE /\ aggrRetried' = {}
  /\ saves' = {}

\* NewMaster returns an error of initializeTasks: the process ends, and kills
\* the squads and the aggregators first.
MasterStartFails(fi) ==
  /\ ~ masterUp
  /\ \/ "recover" \in Faults /\ UNCHANGED dirs
     \/ MostRecentCompleted(fi) /\ PlanningCut(fi)
  /\ KillSquads
  /\ KillAggregators
  /\ UNCHANGED <<masterVars, aggregators, turn, files, stale, crashes, done>>

\* The master process ends, and all it keeps in memory is lost.  Squads with a
\* call in flight exit, those at work go on.
MasterEnds ==
  /\ masterUp' = FALSE
  /\ pending' = <<>>
  /\ working' = [c \in Coordinators |-> NoTask]
  /\ iteration' = -1
  /\ aggregators' = <<>>
  /\ turn' = Idle
  /\ stale' = {}
  /\ done' = {}
  /\ squad' = [c \in Coordinators |->
                 IF squad[c] = "working" THEN "orphan"
                 ELSE IF squad[c] \notin {"RegisterSquad", "CompleteTask"}
                 THEN squad[c]
                 ELSE IF restarts[c] < Retry THEN "starting" ELSE "down"]
  /\ restarts' = [c \in Coordinators |->
                    IF /\ squad[c] \in {"RegisterSquad", "CompleteTask"}
                       /\ restarts[c] < Retry
                    THEN restarts[c] + 1 ELSE restarts[c]]
  /\ UNCHANGED <<task, diskVars>>

\* cmd/master: LaunchWorkers kills old aggregators, those that have registered
\* too, and launches new ones.
LaunchAggregators ==
  /\ masterUp /\ ~ aggrLaunched
  /\ aggrLaunched' = TRUE
  /\ aggr' = [a \in Aggregators |-> "starting"]
  /\ aggrRetried' = {}
  /\ aggregators' = [i \in DOMAIN aggregators |->
                       [aggregators[i] EXCEPT !.live = FALSE]]
  /\ saves' = {}
  /\ turn' = [turn EXCEPT !.failed = @ \/ \E s \in saves : s.waited]
  /\ UNCHANGED <<masterVars, diskVars, squadVars, stale, crashes, done>>

\* An error of LaunchWorkers: main kills what it launched, and log.Fatalf ends
\* the process, whatever squads of an earlier master it has at work.
LaunchAggregatorsFails ==
  /\ masterUp /\ ~ aggrLaunched
  /\ "launch" \in Faults
  /\ KillAggregators
  /\ MasterEnds
  /\ UNCHANGED crashes

\* The aggregators of a master that crashes still serve its Save calls.
MasterCrash ==
  /\ masterUp
  /\ crashes.master < MaxMasterCrashes
  /\ crashes' = [crashes EXCEPT !.master = @ + 1]
  /\ saves' = {[s EXCEPT !.waited = FALSE] : s \in saves}
  /\ MasterEnds
  /\ UNCHANGED aggrVars

-----------------------------------------------------------------------------
Init ==
  /\ masterUp = FALSE
  /\ pending = <<>>
  /\ working = [c \in Coordinators |-> NoTask]
  /\ iteration = -1
  /\ aggregators = <<>>
  /\ turn = Idle
  /\ aggrLaunched = FALSE
  /\ aggr = [a \in Aggregators |-> "down"]
  /\ aggrRetried = {}
  /\ saves = {}
  /\ dirs = {}
  /\ files = [k \in Iterations |-> [v \in VShards |-> NoFile]]
  /\ squad = [c \in Coordinators |-> "down"]
  /\ task = [c \in Coordinators |-> ZeroTask]
  /\ restarts = [c \in Coordinators |-> 0]
  /\ stale = {}
  /\ crashes = [master |-> 0, aggregator |-> 0]
  /\ done = {}

Turnover ==
  \/ AggregateGlobalHists
  \/ SaveModel
  \/ SaveModelFails
  \/ PlanningFails
  \/ \E fi \in -1 .. MaxIteration : InitializeTasks(fi)

Handler == \E k \in LiveCalls \cup stale : RegisterSquad(k) \/ CompleteTask(k)

Next ==
  \/ Handler
  \/ Turnover
  \/ \E s \in saves : CreateFile(s) \/ WriteFile(s)
  \/ \E a \in Aggregators :
       RegisterAggregator(a) \/ RegistrationFails(a) \/ AggregatorCrash(a)
  \/ \E c \in Coordinators : DialMaster(c) \/ FinishTask(c) \/ SquadCrash(c)
  \/ \E fi \in -1 .. MaxIteration : MasterStart(fi) \/ MasterStartFails(fi)
  \/ LaunchAggregators
  \/ LaunchAggregatorsFails
  \/ MasterCrash

Spec == Init /\ [][Next]_vars

\* Processes that are not stopped take their next step: RPC handlers run,
\* parallel.For waits for calls that return, prism launches what it is told to.
Fairness ==
  /\ WF_vars(Handler)
  /\ WF_vars(Turnover)
  /\ WF_vars(\E s \in saves : CreateFile(s) \/ WriteFile(s))
  /\ \A a \in Aggregators : WF_vars(RegisterAggregator(a))
  /\ \A c \in Coordinators : WF_vars(DialMaster(c)) /\ WF_vars(FinishTask(c))
  /\ WF_vars(\E fi \in -1 .. MaxIteration : MasterStart(fi))
  /\ WF_vars(LaunchAggregators)

FairSpec == Spec /\ Fairness

-----------------------------------------------------------------------------
(* Properties. *)

Client == [addr : Aggregators, live : BOOLEAN]
Save   == [iteration : Iterations, vshard : VShards, by : Aggregators,
           open : BOOLEAN, waited : BOOLEAN]
StaleCall == [method : {"RegisterSquad", "CompleteTask"}, coord : Coordinators,
              task : Task, live : {FALSE}]
FileState == {NoFile} \cup [by : Aggregators, whole : BOOLEAN]

\* The shapes of the master's fields, of the disk and of the processes around
\* it, and that an entry of m.working names the coordinator it is filed under.
TypeOK ==
  /\ masterUp \in BOOLEAN
  /\ pending \in Seq(Task)
  /\ working \in [Coordinators -> Task \cup {NoTask}]
  /\ iteration \in -1 .. MaxIteration
  /\ aggregators \in Seq(Client)
  /\ turn \in [step : {"idle", "aggregate", "save", "saving"},
               coord : Coordinators \cup {NoCoord}, live : BOOLEAN,
               failed : BOOLEAN]
  /\ aggrLaunched \in BOOLEAN
  /\ aggr \in [Aggregators -> {"down", "starting", "up"}]
  /\ aggrRetried \subseteq Aggregators
  /\ saves \subseteq Save
  /\ dirs \subseteq Iterations
  /\ files \in [Iterations -> [VShards -> FileState]]
  /\ squad \in [Coordinators -> {"down", "starting", "RegisterSquad", "working",
                                 "CompleteTask", "orphan"}]
  /\ task \in [Coordinators -> Task]
  /\ restarts \in [Coordinators -> Nat]
  /\ stale \subseteq StaleCall
  /\ crashes \in [master : Nat, aggregator : Nat]
  /\ done \subseteq [shards : Seq(STRING), iteration : Nat,
                     action : {INIT, GIBBS, LOGLL}]

\* A file of checkpoint k + 1 exists only when every file of checkpoint k does:
\* initializeTasks plans one past an iteration found complete, so the job
\* directory has no holes, whatever crashes.
CheckpointsAreDense ==
  \A k \in Iterations : \A v \in VShards :
    k > 0 /\ files[k][v] # NoFile =>
      \A w \in VShards : files[k - 1][w] # NoFile

\* What the coordinators of live squads are working on, or report, is what the
\* master has on record for them: same files, same iteration, same action,
\* though the reply was decoded over the previous task and CompleteTask
\* compares neither iterations nor assignees.
SquadsHoldTheirTasks ==
  \A c \in Coordinators :
    squad[c] \in {"working", "CompleteTask"} /\ ~ (turn.live /\ turn.coord = c)
      => working[c] # NoTask /\ task[c] = working[c]

\* No part of the corpus is lost: for the master's iteration, each group of
\* files is in the queue, on record for a squad, or was reported done.
NoTaskLost ==
  masterUp => \A i \in 1 .. NumTasks :
    LET w == Work(TasksAfter(iteration - 1)[i])
    IN  \/ \E j \in DOMAIN pending : Work(pending[j]) = w
        \/ \E c \in Coordinators : working[c] # NoTask /\ Work(working[c]) = w
        \/ w \in done

\* distributeTask's comment (159): when it finds no more pending task, the
\* iteration is completed, each group of files reported done.
TurnoverFollowsWork ==
  turn.step # "idle" =>
    \A i \in 1 .. NumTasks : Work(TasksAfter(iteration - 1)[i]) \in done

\* The files of a complete checkpoint come from different aggregators.
CheckpointHasEveryAggregator ==
  \A k \in Iterations : Completed(k) =>
    \A v, w \in VShards : files[k][v].by = files[k][w].by => v = w

\* A task's outputs exist only when they are complete (comment of type Task): the
\* checkpoint from which a restarted master goes on holds whole models.
RecoversWholeModels ==
  [][~ masterUp /\ masterUp' /\ iteration' > 0 =>
       \A v \in VShards : files[iteration' - 1][v].whole]_vars

\* The report of a squad meets its own entry in m.working, and no equal one of
\* the same iteration, whose owner would have it refused.  Of another iteration
\* it may: Equal compares file names, not "the full path name" that "encodes the
\* current iteration" (233-234).
ReportsAreUnambiguous ==
  \A c \in Coordinators :
    squad[c] = "CompleteTask" /\ ~ (turn.live /\ turn.coord = c) =>
      /\ c \in Matching(task[c])
      /\ \A d \in Matching(task[c]) \ {c} : working[d].iteration # task[c].iteration

\* A turnover that saved the model of iteration k leaves a complete checkpoint k
\* and begins iteration k + 1.  If the job directory cannot be read (the error
\* ignored at master_service.go:174), it stays in k: nothing is planned, nothing
\* forgotten, and the caller gets an error, not a task, so that the next call
\* turns k over once more.
TurnoverAdvances ==
  [][turn.step = "saving" /\ ~ turn.failed /\ turn'.step = "idle" /\ masterUp'
       => /\ Completed(iteration)
          /\ \/ iteration' = iteration + 1
             \/ /\ "recover" \in Faults
                /\ UNCHANGED <<iteration, pending, working, dirs, done>>
                /\ turn.live => squad'[turn.coord] \in {"starting", "down"}]_vars

\* Training goes on to the last iteration of the bound, unless each coordinator
\* has died once more often than prism relaunches it.
ProgressUnlessExhausted ==
  <>[](iteration = MaxIteration
       \/ \A c \in Coordinators : squad[c] = "down" /\ restarts[c] = Retry)
=============================================================================
