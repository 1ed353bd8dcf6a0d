--------------------------- MODULE MasterTaskProofs ---------------------------
(***************************************************************************)
(* Theorems about the tasks of Master: squads work on what the master has  *)
(* on record for them, no task of an iteration is lost, and with one squad *)
(* a turnover follows the work, for every corpus, number of aggregators    *)
(* and squads, and any crashes.  Calls of dead coordinators that are still *)
(* served are excluded, and where tasks could be lost a MkDir or a listing *)
(* that fails in initializeTasks: with them the claims are false.          *)
(*                                                                         *)
(* A reply is decoded over the task before it, and a field that is zero is *)
(* not transmitted.  It arrives as it was sent because iterations only     *)
(* grow: a task with a zero field follows only tasks that have it too.     *)
(* TaskInv adds that to who is where when a turnover begins and ends.      *)
(*                                                                         *)
(* With one master, and a corpus of different files, a report meets its    *)
(* own entry: queue and records never have the same work twice (Apart).    *)
(***************************************************************************)
EXTENDS MasterProofs

Calling == {"RegisterSquad", "CompleteTask"}
AtWork  == {"working", "CompleteTask"}

\* A task of an iteration planned after fi, or of one before.
Known(t, fi) ==
  /\ t.shards # <<>>
  /\ \E k \in -1 .. fi : t.iteration = IterationAfter(k) /\ t.action = ActionAfter(k)

\* A queue of tasks planned after fi.
QueueOf(q, fi) == \A j \in DOMAIN q : \E i \in 1 .. NumTasks : q[j] = TasksAfter(fi)[i]

Records ==
  \A c \in Coordinators :
    working[c] # NoTask => Known(working[c], iteration - 1) /\ working[c].coord = c

SquadTasks ==
  \A c \in Coordinators :
    /\ squad[c] = "RegisterSquad" => task[c] = ZeroTask
    /\ squad[c] \in AtWork => Known(task[c], iteration - 1) /\ task[c].coord = c

\* A caller whose turnover goes on is waiting, or has died since.
Caller ==
  turn.step # "idle" => IF turn.live THEN squad[turn.coord] \in Calling
                        ELSE squad[turn.coord] \notin AtWork

\* Nobody has a task, or asks for one, while there is no master.
Orphans ==
  ~ masterUp => \A c \in Coordinators :
                  working[c] = NoTask /\ squad[c] \notin Calling \cup AtWork

TaskInv ==
  /\ stale = {} /\ QueueOf(pending, iteration - 1) /\ Records /\ SquadTasks
  /\ Caller /\ Orphans /\ SquadsHoldTheirTasks

NoneLate == "late" \notin Faults

-----------------------------------------------------------------------------
\* What is zero in a later plan is zero in an earlier one.
LEMMA LaterPlan ==
  ASSUME NEW k \in Int, NEW fi \in Int, -1 <= k, k <= fi
  PROVE  /\ IterationAfter(fi) = 0 => IterationAfter(k) = 0
         /\ ActionAfter(fi) = INIT => ActionAfter(k) = INIT
<1>1. /\ IterationAfter(k) \in Nat /\ IterationAfter(k) \in {k, k + 1}
      /\ IterationAfter(fi) \in {fi, fi + 1}
      /\ ActionAfter(k) = INIT <=> k = -1
      /\ ActionAfter(fi) = INIT <=> fi = -1
  BY AfterType
<1>2. ActionAfter(fi) = INIT => ActionAfter(k) = INIT
  BY <1>1
<1>3. ASSUME IterationAfter(fi) = 0 PROVE IterationAfter(k) = 0
  <2>1. k = fi \/ k = -1
    BY <1>1, <1>3
  <2>2. CASE k = fi
    BY <1>3, <2>2
  <2>3. CASE k = -1
    BY <1>1, <2>3
  <2> QED  BY <2>1, <2>2, <2>3
<1> QED  BY <1>2, <1>3

\* gob hands over a task whose zero fields were zero before.
LEMMA DecodeNew ==
  ASSUME NEW old \in Task, NEW t \in Task, t.shards # <<>>, t.coord # NoCoord,
         t.iteration = 0 => old.iteration = 0,
         t.action = INIT => old.action = INIT
  PROVE  Decode(old, t) = t
BY DEF Decode, Task

\* So it hands over a task that is not planned before the old one.
LEMMA DecodeLater ==
  ASSUME NEW old \in Task, NEW t \in Task, NEW fi \in Int, NEW last \in Int,
         -1 <= fi, last <= fi,
         t.shards # <<>>, t.coord # NoCoord,
         t.iteration = IterationAfter(fi), t.action = ActionAfter(fi),
         old = ZeroTask \/ Known(old, last)
  PROVE  Decode(old, t) = t
<1>1. CASE old = ZeroTask
  BY <1>1, DecodeNew DEF ZeroTask
<1>2. CASE Known(old, last)
  <2>1. PICK k \in -1 .. last : old.iteration = IterationAfter(k) /\ old.action = ActionAfter(k)
    BY <1>2 DEF Known
  <2>2. k \in Int /\ -1 <= k /\ k <= fi
    BY <2>1
  <2> QED  BY <2>1, <2>2, LaterPlan, DecodeNew
<1> QED  BY <1>1, <1>2

LEMMA KnownLater ==
  ASSUME NEW t, NEW k \in Int, NEW fi \in Int, k <= fi, Known(t, k)
  PROVE  Known(t, fi)
<1>1. -1 .. k \subseteq -1 .. fi
  OBVIOUS
<1> QED  BY <1>1 DEF Known

\* A task of a plan, once it is assigned.
GivenTo(t, c) == [t EXCEPT !.coord = c]

LEMMA Assigned ==
  ASSUME NEW fi \in Int, fi >= -1, NEW i \in 1 .. NumTasks, NEW c \in Coordinators
  PROVE  LET t == GivenTo(TasksAfter(fi)[i], c)
         IN  /\ t \in Task /\ t # NoTask
             /\ t.coord = c
             /\ t.iteration = IterationAfter(fi) /\ t.action = ActionAfter(fi)
             /\ Known(t, fi)
             /\ Work(t) = Work(TasksAfter(fi)[i])
<1> DEFINE t == GivenTo(TasksAfter(fi)[i], c)
<1>1. TasksAfter(fi)[i] = [shards |-> Chunk(i), coord |-> NoCoord,
                           iteration |-> IterationAfter(fi), action |-> ActionAfter(fi)]
  BY TasksAfterType
<1>2. t = [shards |-> Chunk(i), coord |-> c,
           iteration |-> IterationAfter(fi), action |-> ActionAfter(fi)]
  BY <1>1 DEF GivenTo
<1>3. Chunk(i) \in Seq(STRING) /\ Chunk(i) # <<>>
  BY ChunkType
<1> HIDE DEF t
<1>4. t \in Task
  BY <1>2, <1>3, AfterType DEF Task
<1>5. Known(t, fi)
  BY <1>2, <1>3 DEF Known
<1>6. Work(t) = Work(TasksAfter(fi)[i])
  BY <1>1, <1>2 DEF Work
<1>7. t.coord = c /\ t.iteration = IterationAfter(fi) /\ t.action = ActionAfter(fi) /\ t # NoTask
  BY <1>2, <1>4, TaskTypes
<1> QED  BY <1>4, <1>5, <1>6, <1>7 DEF t

\* A call in flight is that of a squad that waits.
LEMMA LiveCall ==
  ASSUME NEW k \in LiveCalls
  PROVE  /\ k.coord \in Coordinators /\ k.live = TRUE
         /\ k.task = task[k.coord] /\ k.method = squad[k.coord]
         /\ squad[k.coord] \in Calling
BY DEF LiveCalls, Call, Calling

\* The types that are needed below.
LEMMA Shapes ==
  ASSUME IInv
  PROVE  /\ DOMAIN squad = Coordinators /\ DOMAIN task = Coordinators
         /\ DOMAIN working = Coordinators /\ DOMAIN restarts = Coordinators
         /\ \A c \in Coordinators : task[c] \in Task /\ working[c] \in Task \cup {NoTask}
         /\ pending \in Seq(Task) /\ iteration \in -1 .. MaxIteration /\ iteration \in Int
         /\ masterUp \in BOOLEAN
<1>1. /\ DOMAIN squad = Coordinators /\ DOMAIN task = Coordinators
      /\ DOMAIN restarts = Coordinators
      /\ \A c \in Coordinators : task[c] \in Task
  BY DEF IInv, Types, SquadType
<1>2. /\ DOMAIN working = Coordinators /\ pending \in Seq(Task)
      /\ \A c \in Coordinators : working[c] \in Task \cup {NoTask}
  BY DEF IInv, Types, QueueType
<1>3. iteration \in -1 .. MaxIteration /\ masterUp \in BOOLEAN
  BY DEF IInv, Types, MasterType
<1>4. MaxIteration \in Nat
  BY MasterAssumption
<1>5. iteration \in Int
  BY <1>3, <1>4
<1> QED  BY <1>1, <1>2, <1>3, <1>5

\* Who leaves, and who stays.
LEMMA ExitOf ==
  ASSUME IInv, NEW cs, SquadsExit(cs)
  PROVE  \A c \in Coordinators :
           /\ task'[c] = task[c]
           /\ c \in cs => squad'[c] \in {"starting", "down"}
           /\ c \notin cs => squad'[c] = squad[c]
BY DEF SquadsExit

-----------------------------------------------------------------------------
\* Steps that leave the records alone, and in which squads only exit; with an
\* empty queue the iteration may have been counted.
LEMMA SquadsLeaveLater ==
  ASSUME IInv, TaskInv, UNCHANGED <<masterUp, pending, working>>, stale' = {},
         iteration' \in Int, iteration <= iteration',
         iteration' = iteration \/ pending = <<>>,
         \A c \in Coordinators : \/ squad'[c] = squad[c] /\ task'[c] = task[c]
                                 \/ squad'[c] \in {"starting", "down"},
         \A c \in Coordinators : turn.live /\ turn.coord = c =>
           squad'[c] \in {"starting", "down"} \/ (turn'.live /\ turn'.coord = c),
         turn'.step # "idle" =>
           /\ turn.step # "idle" /\ turn'.coord = turn.coord /\ turn.coord \in Coordinators
           /\ turn'.live => turn.live /\ squad'[turn.coord] = squad[turn.coord]
           /\ ~ turn'.live /\ turn.live => squad'[turn.coord] \in {"starting", "down"}
  PROVE  TaskInv'
<1>0. \A u : Known(u, iteration - 1) => Known(u, iteration - 1)'
  <2>1. iteration \in Int
    BY Shapes
  <2>2. \A u : Known(u, iteration - 1) => Known(u, iteration' - 1)
    BY <2>1, KnownLater
  <2> QED  BY <2>2 DEF Known
<1>1. QueueOf(pending, iteration - 1)'
  <2>1. NumTasks' = NumTasks /\ \A fi : TasksAfter(fi)' = TasksAfter(fi)
    BY DEF NumTasks, TasksAfter
  <2> QED  BY <2>1 DEF TaskInv, QueueOf
<1>2. Records'
  BY <1>0 DEF TaskInv, Records
<1>3. SquadTasks'
  <2> SUFFICES ASSUME NEW c \in Coordinators
               PROVE  /\ squad'[c] = "RegisterSquad" => task'[c] = ZeroTask
                      /\ squad'[c] \in AtWork =>
                           Known(task[c], iteration - 1)' /\ task'[c].coord = c
    BY DEF SquadTasks
  <2>1. CASE squad'[c] = squad[c] /\ task'[c] = task[c]
    BY <1>0, <2>1 DEF TaskInv, SquadTasks
  <2>2. CASE squad'[c] \in {"starting", "down"}
    BY <2>2 DEF AtWork
  <2> QED  BY <2>1, <2>2
<1>4. Caller'
  <2> SUFFICES ASSUME turn'.step # "idle"
               PROVE  IF turn'.live THEN squad'[turn'.coord] \in Calling
                      ELSE squad'[turn'.coord] \notin AtWork
    BY DEF Caller
  <2>1. CASE turn'.live
    BY <2>1 DEF TaskInv, Caller
  <2>2. CASE ~ turn'.live /\ turn.live
    BY <2>2 DEF AtWork
  <2>3. CASE ~ turn'.live /\ ~ turn.live
    BY <2>3 DEF TaskInv, Caller, AtWork
  <2> QED  BY <2>1, <2>2, <2>3
<1>5. Orphans'
  BY DEF TaskInv, Orphans, AtWork, Calling
<1>6. SquadsHoldTheirTasks'
  <2> SUFFICES ASSUME NEW c \in Coordinators, squad'[c] \in {"working", "CompleteTask"},
                      ~ (turn'.live /\ turn'.coord = c)
               PROVE  working'[c] # NoTask /\ task'[c] = working'[c]
    BY DEF SquadsHoldTheirTasks
  <2>1. squad'[c] = squad[c] /\ task'[c] = task[c] /\ ~ (turn.live /\ turn.coord = c)
    OBVIOUS
  <2> QED  BY <2>1 DEF TaskInv, SquadsHoldTheirTasks
<1> QED  BY <1>1, <1>2, <1>3, <1>4, <1>5, <1>6 DEF TaskInv

LEMMA SquadsLeave ==
  ASSUME IInv, TaskInv, UNCHANGED <<masterUp, pending, working, iteration>>, stale' = {},
         \A c \in Coordinators : \/ squad'[c] = squad[c] /\ task'[c] = task[c]
                                 \/ squad'[c] \in {"starting", "down"},
         \A c \in Coordinators : turn.live /\ turn.coord = c =>
           squad'[c] \in {"starting", "down"} \/ (turn'.live /\ turn'.coord = c),
         turn'.step # "idle" =>
           /\ turn.step # "idle" /\ turn'.coord = turn.coord /\ turn.coord \in Coordinators
           /\ turn'.live => turn.live /\ squad'[turn.coord] = squad[turn.coord]
           /\ ~ turn'.live /\ turn.live => squad'[turn.coord] \in {"starting", "down"}
  PROVE  TaskInv'
<1>1. iteration' \in Int /\ iteration <= iteration'
  BY Shapes
<1> QED  BY <1>1, SquadsLeaveLater

\* A call of a dead coordinator is not served.
LEMMA NoLateCalls == ASSUME NoneLate PROVE \A cs : LateCalls(cs) = {}
BY DEF NoneLate, LateCalls

\* distributeTask returns an error to its caller.
LEMMA FailTurnTasks ==
  ASSUME IInv, TaskInv, FailTurn, UNCHANGED <<masterVars, stale>>, turn.step # "idle"
  PROVE  TaskInv'
<1>1. turn' = Idle /\ ~ turn'.live /\ turn'.step = "idle" /\ turn.coord \in Coordinators
  BY DEF FailTurn, Idle, IInv, TurnInv
<1>2. CASE turn.live
  <2>1. SquadsExit({turn.coord})
    BY <1>2 DEF FailTurn, ReplyError
  <2>2. \A c \in Coordinators : /\ task'[c] = task[c]
                                /\ c = turn.coord => squad'[c] \in {"starting", "down"}
                                /\ c # turn.coord => squad'[c] = squad[c]
    BY <2>1, ExitOf
  <2> QED  BY <1>1, <2>2, SquadsLeave DEF TaskInv, masterVars
<1>3. CASE ~ turn.live
  <2>1. UNCHANGED squadVars
    BY <1>3 DEF FailTurn, ReplyError
  <2> QED  BY <1>1, <1>3, <2>1, SquadsLeave DEF TaskInv, masterVars, squadVars
<1> QED  BY <1>2, <1>3

\* A step of a turnover before its end, and of Save calls.
LEMMA TurnGoesOn ==
  ASSUME IInv, TaskInv, UNCHANGED <<masterVars, squadVars, stale>>,
         turn'.live = turn.live, turn'.coord = turn.coord,
         turn'.step # "idle" => turn.step # "idle"
  PROVE  TaskInv'
<1>1. turn.step # "idle" => turn.coord \in Coordinators
  BY DEF IInv, TurnInv
<1> QED  BY <1>1, SquadsLeave DEF TaskInv, masterVars, squadVars

LEMMA AggregateTasks == ASSUME IInv, TaskInv, AggregateGlobalHists PROVE TaskInv'
<1>1. turn.step = "aggregate" /\ UNCHANGED <<masterVars, stale>>
  BY DEF AggregateGlobalHists
<1>2. CASE FailTurn
  BY <1>1, <1>2, FailTurnTasks
<1>3. CASE turn' = [turn EXCEPT !.step = "save"] /\ UNCHANGED squadVars
  <2>1. turn'.live = turn.live /\ turn'.coord = turn.coord
    BY <1>3 DEF IInv, Types, TurnType
  <2> QED  BY <1>1, <1>3, <2>1, TurnGoesOn
<1> QED  BY <1>2, <1>3 DEF AggregateGlobalHists

LEMMA SaveModelTasks == ASSUME IInv, TaskInv, SaveModel PROVE TaskInv'
<1> DEFINE f == \E i \in DOMAIN aggregators : ~ aggregators[i].live
<1>1. turn.step = "save" /\ UNCHANGED <<masterVars, squadVars, stale>>
  BY DEF SaveModel
<1>2. turn' = [[turn EXCEPT !.step = "saving"] EXCEPT !.failed = f]
  BY DEF SaveModel, IInv, Types, TurnType
<1> HIDE DEF f
<1>3. turn'.live = turn.live /\ turn'.coord = turn.coord
  BY <1>2 DEF IInv, Types, TurnType
<1> QED  BY <1>1, <1>3, TurnGoesOn

LEMMA SaveModelFailsTasks ==
  ASSUME IInv, TaskInv, SaveModelFails \/ PlanningFails PROVE TaskInv'
<1>1. turn.step = "saving" /\ FailTurn /\ UNCHANGED <<masterVars, stale>>
  BY DEF SaveModelFails, PlanningFails, SaveReturned
<1> QED  BY <1>1, FailTurnTasks

\* Save calls, and aggregators that crash.
LEMMA SaveCallTasks ==
  ASSUME IInv, TaskInv,
         \/ \E s \in saves : CreateFile(s) \/ WriteFile(s)
         \/ \E a \in Aggregators : AggregatorCrash(a)
  PROVE  TaskInv'
<1>1. UNCHANGED <<masterVars, squadVars, stale>>
  BY DEF CreateFile, WriteFile, AggregatorCrash
<1>2. turn' = turn \/ \E f : turn' = [turn EXCEPT !.failed = f]
  <2>1. ASSUME NEW s \in saves, CreateFile(s) \/ WriteFile(s)
        PROVE  turn' = turn \/ turn' = [turn EXCEPT !.failed = turn.failed \/ s.waited]
    BY <2>1 DEF CreateFile, WriteFile
  <2>2. ASSUME NEW a \in Aggregators, AggregatorCrash(a)
        PROVE  turn' = [turn EXCEPT !.failed = turn.failed \/ \E s \in saves : s.by = a /\ s.waited]
    BY <2>2 DEF AggregatorCrash
  <2> QED  BY <2>1, <2>2
<1>3. turn'.live = turn.live /\ turn'.coord = turn.coord /\ turn'.step = turn.step
  BY <1>2 DEF IInv, Types, TurnType
<1> QED  BY <1>1, <1>3, TurnGoesOn

\* Squads are launched, or killed, together, and who waits is forgotten.
LEMMA RegisterAggregatorTasks ==
  ASSUME NoneLate, IInv, TaskInv, NEW a \in Aggregators, RegisterAggregator(a)
  PROVE  TaskInv'
<1>1. UNCHANGED masterVars /\ (turn.step # "idle" => turn.coord \in Coordinators)
  BY DEF RegisterAggregator, IInv, TurnInv
<1>2. CASE UNCHANGED <<squadVars, stale, turn>>
  BY <1>1, <1>2, TurnGoesOn DEF squadVars
<1>3. CASE /\ LaunchSquads \/ KillSquads
           /\ stale' = stale \cup LateCalls(Coordinators)
           /\ turn' = [turn EXCEPT !.live = FALSE]
  <2>1. stale' = {}
    BY <1>3, NoLateCalls DEF TaskInv
  <2>2. \A c \in Coordinators : squad'[c] \in {"starting", "down"}
    BY <1>3 DEF LaunchSquads, KillSquads
  <2>3. ~ turn'.live /\ turn'.coord = turn.coord /\ turn'.step = turn.step
    BY <1>3 DEF IInv, Types, TurnType
  <2> QED  BY <1>1, <2>1, <2>2, <2>3, SquadsLeave DEF masterVars
<1> QED  BY <1>2, <1>3 DEF RegisterAggregator

LEMMA SquadCrashTasks ==
  ASSUME NoneLate, IInv, TaskInv, NEW c \in Coordinators, SquadCrash(c)
  PROVE  TaskInv'
<1>1. /\ SquadsExit({c}) /\ stale' = stale \cup LateCalls({c})
      /\ turn' = [turn EXCEPT !.live = turn.live /\ turn.coord # c]
      /\ UNCHANGED masterVars
  BY DEF SquadCrash
<1>2. stale' = {}
  BY <1>1, NoLateCalls DEF TaskInv
<1>3. \A d \in Coordinators : /\ task'[d] = task[d]
                              /\ d = c => squad'[d] \in {"starting", "down"}
                              /\ d # c => squad'[d] = squad[d]
  BY <1>1, ExitOf
<1> DEFINE b == turn.live /\ turn.coord # c
<1>4. turn' = [turn EXCEPT !.live = b]
  BY <1>1
<1>5. /\ turn'.coord = turn.coord /\ turn'.step = turn.step
      /\ turn'.live = b
  <2> HIDE DEF b
  <2> QED  BY <1>4 DEF IInv, Types, TurnType
<1>6. turn.step # "idle" => turn.coord \in Coordinators
  BY DEF IInv, TurnInv
<1> QED  BY <1>1, <1>2, <1>3, <1>5, <1>6, SquadsLeave DEF masterVars

LEMMA LaunchAggregatorsTasks == ASSUME IInv, TaskInv, LaunchAggregators PROVE TaskInv'
<1> DEFINE f == turn.failed \/ \E s \in saves : s.waited
<1>1. turn' = [turn EXCEPT !.failed = f] /\ UNCHANGED <<masterVars, squadVars, stale>>
  BY DEF LaunchAggregators
<1> HIDE DEF f
<1>2. turn'.live = turn.live /\ turn'.coord = turn.coord /\ turn'.step = turn.step
  BY <1>1 DEF IInv, Types, TurnType
<1> QED  BY <1>1, <1>2, TurnGoesOn

LEMMA RegistrationFailsTasks ==
  ASSUME IInv, TaskInv, NEW a \in Aggregators, RegistrationFails(a) PROVE TaskInv'
BY TurnGoesOn DEF RegistrationFails

LEMMA StutterTasks == ASSUME IInv, TaskInv, UNCHANGED vars PROVE TaskInv'
BY TurnGoesOn DEF vars

\* run dials the master with a zero task, or gives up.
LEMMA DialMasterTasks ==
  ASSUME IInv, TaskInv, NEW c \in Coordinators, DialMaster(c) PROVE TaskInv'
<1>1. /\ squad[c] = "starting" /\ UNCHANGED <<masterVars, turn, stale>>
      /\ (turn.step # "idle" => turn.coord \in Coordinators)
  BY DEF DialMaster, IInv, TurnInv
<1>2. CASE SquadsExit({c})
  <2>1. \A d \in Coordinators : /\ task'[d] = task[d]
                                /\ d = c => squad'[d] \in {"starting", "down"}
                                /\ d # c => squad'[d] = squad[d]
    BY <1>2, ExitOf
  <2>2. turn.step # "idle" /\ turn.live => turn.coord # c
    BY <1>1 DEF TaskInv, Caller, Calling
  <2> QED  BY <1>1, <2>1, <2>2, SquadsLeave DEF TaskInv, masterVars
<1>3. CASE /\ masterUp
           /\ squad' = [squad EXCEPT ![c] = "RegisterSquad"]
           /\ task' = [task EXCEPT ![c] = ZeroTask]
  <2>1. /\ squad'[c] = "RegisterSquad" /\ task'[c] = ZeroTask
        /\ \A d \in Coordinators \ {c} : squad'[d] = squad[d] /\ task'[d] = task[d]
    BY <1>3, Shapes
  <2>2. UNCHANGED <<masterUp, pending, working, iteration>> /\ stale' = {}
    BY <1>1 DEF masterVars, TaskInv
  <2>3. QueueOf(pending, iteration - 1)'
    <3>1. NumTasks' = NumTasks /\ \A fi : TasksAfter(fi)' = TasksAfter(fi)
      BY DEF NumTasks, TasksAfter
    <3> QED  BY <2>2, <3>1 DEF TaskInv, QueueOf
  <2>4. Records'
    BY <2>2 DEF TaskInv, Records, Known
  <2>5. SquadTasks'
    BY <2>1, <2>2 DEF TaskInv, SquadTasks, Known, AtWork
  <2>6. Caller'
    <3>1. turn.step # "idle" /\ turn.live => turn.coord # c
      BY <1>1 DEF TaskInv, Caller, Calling
    <3> QED  BY <1>1, <2>1, <3>1 DEF TaskInv, Caller, AtWork
  <2>7. Orphans'
    BY <1>3, <2>2 DEF Orphans
  <2>8. SquadsHoldTheirTasks'
    BY <1>1, <2>1, <2>2 DEF TaskInv, SquadsHoldTheirTasks
  <2> QED  BY <2>2, <2>3, <2>4, <2>5, <2>6, <2>7, <2>8 DEF TaskInv
<1> QED  BY <1>2, <1>3 DEF DialMaster

\* do returns: what is reported is what was on record.
LEMMA FinishTaskTasks ==
  ASSUME IInv, TaskInv, NEW c \in Coordinators, FinishTask(c) PROVE TaskInv'
<1>1. /\ squad[c] \in {"working", "orphan"} /\ UNCHANGED <<masterVars, turn, stale>>
      /\ (turn.step # "idle" => turn.coord \in Coordinators)
  BY DEF FinishTask, IInv, TurnInv
<1>2. turn.step # "idle" /\ turn.live => turn.coord # c
  BY <1>1 DEF TaskInv, Caller, Calling
<1>3. CASE SquadsExit({c})
  <2>1. \A d \in Coordinators : /\ task'[d] = task[d]
                                /\ d = c => squad'[d] \in {"starting", "down"}
                                /\ d # c => squad'[d] = squad[d]
    BY <1>3, ExitOf
  <2> QED  BY <1>1, <1>2, <2>1, SquadsLeave DEF TaskInv, masterVars
<1>4. CASE /\ squad[c] = "working"
           /\ squad' = [squad EXCEPT ![c] = "CompleteTask"]
           /\ task' = [task EXCEPT ![c].coord = c]
  <2>1. task[c] \in Task /\ task[c].coord = c
    BY <1>4, Shapes DEF TaskInv, SquadTasks, AtWork
  <2>2. task' = [task EXCEPT ![c] = [task[c] EXCEPT !.coord = c]]
    BY <1>4
  <2>3. [task[c] EXCEPT !.coord = c] = task[c]
    BY <2>1 DEF Task
  <2>4. /\ squad'[c] = "CompleteTask"
        /\ \A d \in Coordinators : task'[d] = task[d] /\ (d # c => squad'[d] = squad[d])
    BY <1>4, <2>2, <2>3, Shapes
  <2>5. UNCHANGED <<masterUp, pending, working, iteration>> /\ stale' = {}
    BY <1>1 DEF masterVars, TaskInv
  <2>6. QueueOf(pending, iteration - 1)'
    <3>1. NumTasks' = NumTasks /\ \A fi : TasksAfter(fi)' = TasksAfter(fi)
      BY DEF NumTasks, TasksAfter
    <3> QED  BY <2>5, <3>1 DEF TaskInv, QueueOf
  <2>7. Records'
    BY <2>5 DEF TaskInv, Records, Known
  <2>8. SquadTasks'
    BY <1>4, <2>4, <2>5 DEF TaskInv, SquadTasks, Known, AtWork
  <2>9. Caller'
    <3>1. turn.step # "idle" => turn.coord # c
      BY <1>2, <1>4 DEF TaskInv, Caller, AtWork
    <3> QED  BY <1>1, <2>4, <3>1 DEF TaskInv, Caller
  <2>10. Orphans'
    <3>1. masterUp
      BY <1>4 DEF TaskInv, Orphans, AtWork
    <3> QED  BY <2>5, <3>1 DEF Orphans
  <2>11. SquadsHoldTheirTasks'
    BY <1>1, <1>4, <2>4, <2>5 DEF TaskInv, SquadsHoldTheirTasks
  <2> QED  BY <2>5, <2>6, <2>7, <2>8, <2>9, <2>10, <2>11 DEF TaskInv
<1> QED  BY <1>3, <1>4 DEF FinishTask

-----------------------------------------------------------------------------
(* The handlers, and the end of a turnover. *)

\* Nobody is to wait for a turnover that is over.
LEMMA IdleTurn == ~ Idle.live /\ Idle.step = "idle"
BY DEF Idle

\* A reply to the caller of k, of a task t that is on record for it and follows
\* what it had.
LEMMA ReplyTasks ==
  ASSUME IInv, TaskInv, masterUp, masterUp' = masterUp, stale' = {}, turn' = Idle,
         NEW k, k.coord \in Coordinators, k.live \in BOOLEAN,
         k.live => squad[k.coord] \in Calling,
         ~ k.live => squad[k.coord] \notin AtWork,
         turn = Idle \/ turn.coord = k.coord,
         NEW t \in Task, Reply(k, t),
         NEW last \in Int, last >= -1, last >= iteration - 1, iteration' = last + 1,
         Known(t, last), t.coord = k.coord,
         NEW fi \in Int, -1 <= fi, fi <= last,
         t.iteration = IterationAfter(fi), t.action = ActionAfter(fi),
         squad[k.coord] = "CompleteTask" => fi = last,
         QueueOf(pending', last),
         working'[k.coord] = t,
         \A d \in Coordinators \ {k.coord} : working'[d] = working[d]
  PROVE  TaskInv'
<1> DEFINE c == k.coord
<1>1. iteration' - 1 = last /\ iteration - 1 \in Int
  BY Shapes
<1>2. t.shards # <<>> /\ t.coord # NoCoord /\ t # NoTask
  <2>1. NoCoord \notin Coordinators
    BY MasterAssumption
  <2> QED  BY <2>1, TaskTypes DEF Known
<1>3. \A u : Known(u, iteration - 1) => Known(u, last)
  BY <1>1, KnownLater
<1>4. k.live => Decode(task[c], t) = t
  <2> SUFFICES ASSUME k.live PROVE Decode(task[c], t) = t
    OBVIOUS
  <2>1. task[c] \in Task
    BY Shapes
  <2>2. CASE squad[c] = "RegisterSquad"
    BY <1>2, <2>1, <2>2, DecodeLater DEF TaskInv, SquadTasks
  <2>3. CASE squad[c] = "CompleteTask"
    <3>1. Known(task[c], iteration - 1)
      BY <2>3 DEF TaskInv, SquadTasks, AtWork
    <3> QED  BY <1>1, <1>2, <2>1, <2>3, <3>1, DecodeLater
  <2> QED  BY <2>2, <2>3 DEF Calling
<1>5. /\ k.live => squad'[c] = "working" /\ task'[c] = t
      /\ ~ k.live => squad'[c] = squad[c] /\ task'[c] = task[c]
      /\ \A d \in Coordinators \ {c} : squad'[d] = squad[d] /\ task'[d] = task[d]
  <2>1. CASE k.live
    <3>1. squad' = [squad EXCEPT ![c] = "working"] /\ task' = [task EXCEPT ![c] = Decode(@, t)]
      BY <2>1 DEF Reply
    <3> QED  BY <1>4, <2>1, <3>1, Shapes
  <2>2. CASE ~ k.live
    BY <2>2 DEF Reply, squadVars
  <2> QED  BY <2>1, <2>2
<1> HIDE DEF c
<1>6. c \in Coordinators /\ c = k.coord
  BY DEF c
<1>7. QueueOf(pending, iteration - 1)'
  <2>1. NumTasks' = NumTasks /\ \A x : TasksAfter(x)' = TasksAfter(x)
    BY DEF NumTasks, TasksAfter
  <2> QED  BY <1>1, <2>1 DEF QueueOf
<1>8. \A u, x : Known(u, x)' <=> Known(u, x)
  BY DEF Known
<1>9. Records'
  <2> SUFFICES ASSUME NEW d \in Coordinators, working'[d] # NoTask
               PROVE  Known(working'[d], last) /\ working'[d].coord = d
    BY <1>1 DEF Records, Known
  <2>1. CASE d = c
    BY <1>6, <2>1
  <2>2. CASE d # c
    BY <1>3, <1>6, <2>2 DEF TaskInv, Records
  <2> QED  BY <2>1, <2>2
<1>10. SquadTasks'
  <2> SUFFICES ASSUME NEW d \in Coordinators
               PROVE  /\ squad'[d] = "RegisterSquad" => task'[d] = ZeroTask
                      /\ squad'[d] \in AtWork => Known(task'[d], last) /\ task'[d].coord = d
    BY <1>1 DEF SquadTasks, Known
  <2>1. CASE d = c /\ k.live
    BY <1>5, <1>6, <2>1
  <2>2. CASE d # c \/ ~ k.live
    BY <1>3, <1>5, <1>6, <2>2 DEF TaskInv, SquadTasks
  <2> QED  BY <2>1, <2>2
<1>11. Caller' /\ Orphans'
  BY IdleTurn DEF Caller, Orphans
<1>12. SquadsHoldTheirTasks'
  <2> SUFFICES ASSUME NEW d \in Coordinators, squad'[d] \in {"working", "CompleteTask"}
               PROVE  working'[d] # NoTask /\ task'[d] = working'[d]
    BY DEF SquadsHoldTheirTasks
  <2>1. CASE d = c /\ k.live
    BY <1>2, <1>5, <1>6, <2>1
  <2>2. CASE d = c /\ ~ k.live
    BY <1>5, <1>6, <2>2 DEF AtWork
  <2>3. CASE d # c
    <3>1. ~ (turn.live /\ turn.coord = d)
      BY <1>6, <2>3, IdleTurn
    <3> QED  BY <1>5, <1>6, <2>3, <3>1 DEF TaskInv, SquadsHoldTheirTasks
  <2> QED  BY <2>1, <2>2, <2>3
<1> QED  BY <1>7, <1>9, <1>10, <1>11, <1>12 DEF TaskInv

\* distributeTask on a queue of one plan.
LEMMA AssignTasks ==
  ASSUME IInv, TaskInv, masterUp, masterUp' = masterUp, stale' = {}, turn' = Idle,
         NEW k, k.coord \in Coordinators, k.live \in BOOLEAN,
         k.live => squad[k.coord] \in Calling,
         ~ k.live => squad[k.coord] \notin AtWork,
         turn = Idle \/ turn.coord = k.coord,
         NEW last \in Int, last >= -1, last >= iteration - 1, iteration' = last + 1,
         NEW queue \in Seq(Task), QueueOf(queue, last), Assign(k, queue)
  PROVE  TaskInv'
<1> DEFINE t == [Head(queue) EXCEPT !.coord = k.coord]
<1>1. /\ queue # <<>> /\ pending' = Tail(queue) /\ Reply(k, t)
      /\ working' = [working EXCEPT ![k.coord] = t]
  BY DEF Assign
<1>2. PICK i \in 1 .. NumTasks : Head(queue) = TasksAfter(last)[i]
  <2>1. 1 \in DOMAIN queue /\ Head(queue) = queue[1]
    BY <1>1
  <2> QED  BY <2>1 DEF QueueOf
<1>3. t = [TasksAfter(last)[i] EXCEPT !.coord = k.coord]
  BY <1>2
<1> HIDE DEF t
<1>4. /\ t \in Task /\ t.coord = k.coord /\ Known(t, last)
      /\ t.iteration = IterationAfter(last) /\ t.action = ActionAfter(last)
  <2>1. t = GivenTo(TasksAfter(last)[i], k.coord)
    BY <1>3 DEF GivenTo
  <2> QED  BY <2>1, Assigned
<1>5. QueueOf(pending', last)
  <2>1. \A j \in DOMAIN Tail(queue) : j + 1 \in DOMAIN queue /\ Tail(queue)[j] = queue[j + 1]
    BY <1>1
  <2> QED  BY <1>1, <2>1 DEF QueueOf
<1>6. working'[k.coord] = t /\ \A d \in Coordinators \ {k.coord} : working'[d] = working[d]
  BY <1>1, Shapes
<1> QED  BY <1>1, <1>4, <1>5, <1>6, ReplyTasks

\* A turnover begins; whoever asked has no task on record any more.
LEMMA BeginTurnoverTasks ==
  ASSUME IInv, TaskInv, turn = Idle, UNCHANGED <<masterUp, iteration, pending, squadVars>>,
         stale' = {},
         NEW k, k.coord \in Coordinators, k.live = TRUE, squad[k.coord] \in Calling,
         BeginTurnover(k),
         \A d \in Coordinators : working'[d] = working[d] \/ (d = k.coord /\ working'[d] = NoTask)
  PROVE  TaskInv'
<1>1. turn'.live /\ turn'.coord = k.coord
  BY DEF BeginTurnover
<1>2. squad' = squad /\ task' = task
  BY DEF squadVars
<1>3. QueueOf(pending, iteration - 1)'
  <2>1. NumTasks' = NumTasks /\ \A fi : TasksAfter(fi)' = TasksAfter(fi)
    BY DEF NumTasks, TasksAfter
  <2> QED  BY <2>1 DEF TaskInv, QueueOf
<1>4. Records'
  <2> SUFFICES ASSUME NEW d \in Coordinators, working'[d] # NoTask
               PROVE  Known(working'[d], iteration - 1) /\ working'[d].coord = d
    BY DEF Records, Known
  <2> QED  BY DEF TaskInv, Records
<1>5. SquadTasks'
  BY <1>2 DEF TaskInv, SquadTasks, Known
<1>6. Caller'
  BY <1>1, <1>2 DEF Caller
<1>7. Orphans'
  BY <1>2 DEF TaskInv, Orphans
<1>8. SquadsHoldTheirTasks'
  <2> SUFFICES ASSUME NEW d \in Coordinators, squad'[d] \in {"working", "CompleteTask"},
                      ~ (turn'.live /\ turn'.coord = d)
               PROVE  working'[d] # NoTask /\ task'[d] = working'[d]
    BY DEF SquadsHoldTheirTasks
  <2>1. ~ (turn.live /\ turn.coord = d)
    BY IdleTurn
  <2> QED  BY <1>1, <1>2, <2>1 DEF TaskInv, SquadsHoldTheirTasks
<1> QED  BY <1>3, <1>4, <1>5, <1>6, <1>7, <1>8 DEF TaskInv

\* The entry of a squad that reports is its own, and is what it reports.
LEMMA OwnEntry ==
  ASSUME IInv, TaskInv, turn = Idle, NEW k \in LiveCalls, k.method = "CompleteTask",
         NEW c \in Matching(k.task), k.task.coord = c
  PROVE  c = k.coord /\ working[c] = k.task /\ working[c] # NoTask
<1>1. /\ k.coord \in Coordinators /\ k.task = task[k.coord]
      /\ squad[k.coord] = "CompleteTask"
  BY LiveCall
<1>2. task[k.coord].coord = k.coord
  BY <1>1 DEF TaskInv, SquadTasks, AtWork
<1>3. working[k.coord] # NoTask /\ task[k.coord] = working[k.coord]
  BY <1>1, IdleTurn DEF TaskInv, SquadsHoldTheirTasks
<1> QED  BY <1>1, <1>2, <1>3

LEMMA HandlerTasks ==
  ASSUME NoneLate, IInv, TaskInv, NEW k \in LiveCalls, RegisterSquad(k) \/ CompleteTask(k)
  PROVE  TaskInv'
<1>1. /\ masterUp /\ turn = Idle /\ stale' = {}
      /\ UNCHANGED <<masterUp, iteration>>
  BY DEF RegisterSquad, CompleteTask, TaskInv
<1>2. /\ k.coord \in Coordinators /\ k.live = TRUE
      /\ k.task = task[k.coord] /\ k.method = squad[k.coord] /\ squad[k.coord] \in Calling
  BY LiveCall
<1>3. /\ pending \in Seq(Task) /\ QueueOf(pending, iteration - 1)
      /\ iteration \in Int /\ iteration >= 0
  BY <1>1, Shapes DEF TaskInv, IInv, TurnInv
<1>4. CASE Assign(k, pending) /\ UNCHANGED turn
  <2> DEFINE last == iteration - 1
  <2>1. last \in Int /\ last >= -1 /\ last >= iteration - 1 /\ iteration' = last + 1
    BY <1>1, <1>3
  <2> QED  BY <1>1, <1>2, <1>3, <1>4, <2>1, AssignTasks
<1>5. CASE /\ BeginTurnover(k) /\ UNCHANGED <<pending, squadVars>>
           /\ \/ UNCHANGED working
              \/ working' = [working EXCEPT ![k.coord] = NoTask]
  <2>1. \A d \in Coordinators : working'[d] = working[d] \/ (d = k.coord /\ working'[d] = NoTask)
    BY <1>2, <1>5, Shapes
  <2> QED  BY <1>1, <1>2, <1>5, <2>1, BeginTurnoverTasks
<1>6. CASE RegisterSquad(k)
  <2>1. CASE /\ working[k.coord] # NoTask /\ Reply(k, working[k.coord])
             /\ UNCHANGED <<pending, working, turn>>
    <3>1. working[k.coord] \in Task
      BY <1>2, <2>1, Shapes
    <3>2. Known(working[k.coord], iteration - 1) /\ working[k.coord].coord = k.coord
      BY <1>2, <2>1 DEF TaskInv, Records
    <3>3. PICK fi \in -1 .. iteration - 1 :
            /\ working[k.coord].iteration = IterationAfter(fi)
            /\ working[k.coord].action = ActionAfter(fi)
      BY <3>2 DEF Known
    <3>4. squad[k.coord] = "RegisterSquad"
      BY <1>2, <1>6 DEF RegisterSquad
    <3> DEFINE last == iteration - 1
    <3>5. /\ last \in Int /\ last >= -1 /\ last >= iteration - 1 /\ iteration' = last + 1
          /\ fi \in Int /\ -1 <= fi /\ fi <= last
      BY <1>1, <1>3
    <3>6. QueueOf(pending', last) /\ working' = working /\ turn' = Idle
      BY <1>1, <1>3, <2>1
    <3>7. /\ working'[k.coord] = working[k.coord]
          /\ \A d \in Coordinators \ {k.coord} : working'[d] = working[d]
      BY <3>6
    <3>8. /\ Known(working[k.coord], last)
          /\ squad[k.coord] = "CompleteTask" => fi = last
      BY <3>2, <3>4
    <3> HIDE DEF last
    <3> QED  BY <1>1, <1>2, <2>1, <3>1, <3>2, <3>3, <3>5, <3>6, <3>7, <3>8, ReplyTasks
  <2> QED  BY <1>4, <1>5, <1>6, <2>1 DEF RegisterSquad
<1>7. CASE CompleteTask(k)
  <2>1. CASE \E c \in Matching(k.task) : AcceptCompletion(k, c)
    <3>1. PICK c \in Matching(k.task) : AcceptCompletion(k, c)
      BY <2>1
    <3>2. c = k.coord
      BY <1>1, <1>7, <3>1, OwnEntry DEF CompleteTask, AcceptCompletion
    <3> QED  BY <1>4, <1>5, <3>1, <3>2 DEF AcceptCompletion
  <2>2. CASE RefuseCompletion(k)
    <3>1. SquadsExit({k.coord}) /\ UNCHANGED <<pending, working, turn>>
      BY <1>2, <2>2 DEF RefuseCompletion, ReplyError
    <3>2. \A c \in Coordinators : /\ task'[c] = task[c]
                                  /\ c = k.coord => squad'[c] \in {"starting", "down"}
                                  /\ c # k.coord => squad'[c] = squad[c]
      BY <3>1, ExitOf
    <3> QED  BY <1>1, <3>1, <3>2, IdleTurn, SquadsLeave
  <2> QED  BY <1>7, <2>1, <2>2 DEF CompleteTask
<1> QED  BY <1>6, <1>7

\* The next iteration is not before this one: its predecessor is on the disk.
LEMMA NextIsLater ==
  ASSUME IInv, masterUp, NEW fi \in -1 .. MaxIteration, MostRecentCompleted(fi)
  PROVE  fi \in Int /\ fi >= -1 /\ fi >= iteration - 1
<1>1. iteration \in -1 .. MaxIteration /\ MaxIteration \in Nat
  BY MasterAssumption, Shapes
<1>2. CASE iteration <= 0
  BY <1>1, <1>2
<1>3. CASE iteration > 0
  <2>1. Completed(iteration - 1) /\ Numbered(iteration - 1)
    BY <1>3 DEF IInv, DiskInv
  <2>2. iteration - 1 \in Iterations
    BY <1>1, <1>3 DEF Iterations
  <2> QED  BY <1>1, <2>1, <2>2 DEF MostRecentCompleted
<1> QED  BY <1>1, <1>2, <1>3

\* initializeTasks after fi makes a queue of its plan.
LEMMA PlanIsQueue ==
  ASSUME NEW fi \in Int, fi >= -1
  PROVE  /\ TasksAfter(fi) \in Seq(Task) /\ QueueOf(TasksAfter(fi), fi)
         /\ <<>> \o TasksAfter(fi) = TasksAfter(fi)
<1>1. /\ TasksAfter(fi) \in Seq(Task) /\ NumTasks \in Nat /\ Len(TasksAfter(fi)) = NumTasks
  BY TasksAfterType
<1> DEFINE q == TasksAfter(fi)
<1> HIDE DEF q
<1>2. q \in Seq(Task) /\ Len(q) = NumTasks
  BY <1>1 DEF q
<1>3. <<>> \o q = q /\ DOMAIN q = 1 .. NumTasks
  BY <1>1, <1>2
<1> QED  BY <1>1, <1>3 DEF q, QueueOf

LEMMA InitializeTasksTasks ==
  ASSUME IInv, TaskInv, NEW fi \in -1 .. MaxIteration, InitializeTasks(fi)
  PROVE  TaskInv'
<1>1. /\ turn.step = "saving" /\ MostRecentCompleted(fi) /\ iteration' = fi + 1
      /\ turn' = Idle /\ masterUp' = masterUp /\ stale' = {}
  BY DEF InitializeTasks, SaveReturned, PrepareIteration, TaskInv
<1>2. masterUp /\ pending = <<>> /\ turn.coord \in Coordinators
  BY <1>1 DEF IInv, TurnInv
<1>3. fi \in Int /\ fi >= -1 /\ fi >= iteration - 1
  BY <1>1, <1>2, NextIsLater
<1>4. /\ turn.live \in BOOLEAN
      /\ turn.live => squad[turn.coord] \in Calling
      /\ ~ turn.live => squad[turn.coord] \notin AtWork
  BY <1>1 DEF TaskInv, Caller, IInv, Types, TurnType
<1>5. CASE Assign(turn, pending \o TasksAfter(fi))
  <2>1. Assign(turn, TasksAfter(fi))
    BY <1>2, <1>3, <1>5, PlanIsQueue
  <2> DEFINE k == turn
  <2>2. /\ k.coord \in Coordinators /\ k.live \in BOOLEAN
        /\ k.live => squad[k.coord] \in Calling
        /\ ~ k.live => squad[k.coord] \notin AtWork
        /\ turn.coord = k.coord
        /\ Assign(k, TasksAfter(fi))
    BY <1>2, <1>4, <2>1
  <2> HIDE DEF k
  <2>3. TasksAfter(fi) \in Seq(Task) /\ QueueOf(TasksAfter(fi), fi)
    BY <1>3, PlanIsQueue
  <2> QED  BY <1>1, <1>2, <1>3, <2>2, <2>3, AssignTasks
<1>6. CASE ReplyError(turn) /\ UNCHANGED <<pending, working>>
  <2>1. \A c \in Coordinators :
          \/ squad'[c] = squad[c] /\ task'[c] = task[c] /\ ~ (turn.live /\ turn.coord = c)
          \/ squad'[c] \in {"starting", "down"}
    <3>1. CASE turn.live
      <4>1. SquadsExit({turn.coord})
        BY <1>6, <3>1 DEF ReplyError
      <4> QED  BY <4>1, ExitOf
    <3>2. CASE ~ turn.live
      BY <1>6, <3>2 DEF ReplyError, squadVars
    <3> QED  BY <3>1, <3>2
  <2>2. iteration' \in Int /\ iteration <= iteration'
    BY <1>1, <1>3, Shapes
  <2> QED  BY <1>1, <1>2, <1>6, <2>1, <2>2, IdleTurn, SquadsLeaveLater
<1> QED  BY <1>5, <1>6 DEF InitializeTasks

\* A master that starts has the queue of its plan, and nobody has a task.
LEMMA MasterStartTasks ==
  ASSUME IInv, TaskInv, NEW fi \in -1 .. MaxIteration, MasterStart(fi)
  PROVE  TaskInv'
<1>1. /\ ~ masterUp /\ masterUp' /\ iteration' = fi + 1 /\ pending' = TasksAfter(fi)
      /\ UNCHANGED <<working, turn, squadVars, stale>>
  BY DEF MasterStart, PrepareIteration
<1>2. fi \in Int /\ fi >= -1
  <2>1. MaxIteration \in Nat
    BY MasterAssumption
  <2> QED  BY <2>1
<1>3. \A c \in Coordinators : working[c] = NoTask /\ squad[c] \notin Calling \cup AtWork
  BY <1>1 DEF TaskInv, Orphans
<1>4. QueueOf(pending, iteration - 1)'
  <2>1. NumTasks' = NumTasks /\ \A x : TasksAfter(x)' = TasksAfter(x)
    BY DEF NumTasks, TasksAfter
  <2>2. iteration' - 1 = fi
    BY <1>1, <1>2
  <2> QED  BY <1>1, <1>2, <2>1, <2>2, PlanIsQueue DEF QueueOf
<1>5. Records' /\ SquadTasks' /\ Orphans'
  BY <1>1, <1>3 DEF Records, SquadTasks, Orphans, Calling, AtWork, squadVars
<1>6. Caller' /\ SquadsHoldTheirTasks' /\ stale' = {}
  BY <1>1, <1>3 DEF TaskInv, Caller, SquadsHoldTheirTasks, AtWork, squadVars
<1> QED  BY <1>4, <1>5, <1>6 DEF TaskInv

\* One that does not start kills the squads.
LEMMA MasterStartFailsTasks ==
  ASSUME IInv, TaskInv, NEW fi \in -1 .. MaxIteration, MasterStartFails(fi)
  PROVE  TaskInv'
<1>1. UNCHANGED <<masterVars, turn, stale>> /\ KillSquads /\ ~ masterUp
  BY DEF MasterStartFails
<1>2. \A c \in Coordinators : squad'[c] \in {"starting", "down"}
  BY <1>1 DEF KillSquads
<1>3. turn.step = "idle"
  BY <1>1 DEF IInv, TurnInv
<1> QED  BY <1>1, <1>2, <1>3, SquadsLeave DEF TaskInv, masterVars

LEMMA MasterEndsTasks == ASSUME IInv, TaskInv, MasterEnds PROVE TaskInv'
<1>1. /\ ~ masterUp' /\ pending' = <<>> /\ turn' = Idle /\ stale' = {}
      /\ working' = [c \in Coordinators |-> NoTask]
      /\ squad' = [c \in Coordinators |->
                    IF squad[c] = "working" THEN "orphan"
                    ELSE IF squad[c] \notin {"RegisterSquad", "CompleteTask"}
                    THEN squad[c]
                    ELSE IF restarts[c] < Retry THEN "starting" ELSE "down"]
  BY DEF MasterEnds
<1>2. \A c \in Coordinators : working'[c] = NoTask /\ squad'[c] \notin Calling \cup AtWork
  BY <1>1 DEF Calling, AtWork
<1>3. QueueOf(pending, iteration - 1)'
  BY <1>1 DEF QueueOf
<1>4. Records' /\ SquadTasks' /\ Orphans' /\ SquadsHoldTheirTasks'
  BY <1>2 DEF Records, SquadTasks, Orphans, SquadsHoldTheirTasks, Calling, AtWork
<1>5. Caller'
  BY <1>1, IdleTurn DEF Caller
<1> QED  BY <1>1, <1>3, <1>4, <1>5 DEF TaskInv

-----------------------------------------------------------------------------
LEMMA InitTasks == Init => TaskInv
<1> SUFFICES ASSUME Init PROVE TaskInv
  OBVIOUS
<1>1. \A c \in Coordinators : working[c] = NoTask /\ squad[c] = "down"
  BY DEF Init
<1>2. stale = {} /\ pending = <<>> /\ turn = Idle
  BY DEF Init
<1>3. QueueOf(pending, iteration - 1) /\ Caller
  BY <1>2, IdleTurn DEF QueueOf, Caller
<1>4. Records /\ SquadTasks /\ Orphans /\ SquadsHoldTheirTasks
  BY <1>1 DEF Records, SquadTasks, Orphans, SquadsHoldTheirTasks, Calling, AtWork
<1> QED  BY <1>2, <1>3, <1>4 DEF TaskInv

LEMMA StepTasks == ASSUME NoneLate, IInv, TaskInv, [Next]_vars PROVE TaskInv'
<1>1. CASE Handler
  BY <1>1, HandlerTasks DEF Handler, TaskInv
<1>2. CASE Turnover
  BY <1>2, AggregateTasks, SaveModelTasks, SaveModelFailsTasks, InitializeTasksTasks
     DEF Turnover
<1>3. CASE \E s \in saves : CreateFile(s) \/ WriteFile(s)
  BY <1>3, SaveCallTasks
<1>4. CASE \E a \in Aggregators :
             RegisterAggregator(a) \/ RegistrationFails(a) \/ AggregatorCrash(a)
  BY <1>4, RegisterAggregatorTasks, RegistrationFailsTasks, SaveCallTasks
<1>5. CASE \E c \in Coordinators : DialMaster(c) \/ FinishTask(c) \/ SquadCrash(c)
  BY <1>5, DialMasterTasks, FinishTaskTasks, SquadCrashTasks
<1>6. CASE \E fi \in -1 .. MaxIteration : MasterStart(fi) \/ MasterStartFails(fi)
  BY <1>6, MasterStartTasks, MasterStartFailsTasks
<1>7. CASE LaunchAggregators
  BY <1>7, LaunchAggregatorsTasks
<1>8. CASE LaunchAggregatorsFails \/ MasterCrash
  BY <1>8, MasterEndsTasks DEF LaunchAggregatorsFails, MasterCrash
<1>9. CASE UNCHANGED vars
  BY <1>9, StutterTasks
<1> QED  BY <1>1, <1>2, <1>3, <1>4, <1>5, <1>6, <1>7, <1>8, <1>9 DEF Next

\* The squads work on, and report, what the master has on record for them, for
\* every number of squads, aggregators and files and with crashes of all
\* processes at any time, as long as no call outlives its caller: the task of a
\* reply is the one that was sent, whatever it was decoded over.
THEOREM TasksAreHeld == NoneLate => (Spec => []SquadsHoldTheirTasks)
<1>1. NoneLate /\ Init => IInv /\ TaskInv
  BY InitIInv, InitTasks
<1>2. NoneLate /\ (IInv /\ TaskInv) /\ [Next]_vars => (IInv /\ TaskInv)'
  BY StepIInv, StepTasks
<1>3. TaskInv => SquadsHoldTheirTasks
  BY DEF TaskInv
<1>4. CASE NoneLate
  <2>1. Init => IInv /\ TaskInv
    BY <1>1, <1>4
  <2>2. (IInv /\ TaskInv) /\ [Next]_vars => (IInv /\ TaskInv)'
    BY <1>2, <1>4
  <2> QED  BY <1>3, <2>1, <2>2, PTL DEF Spec
<1> QED  BY <1>4

-----------------------------------------------------------------------------
(* No task is lost. *)

NoneFails == NoneLate /\ "mkdir" \notin Faults /\ "listing" \notin Faults

\* Who a task is assigned to does not change what it is about.
LEMMA SameWork == ASSUME NEW t \in Task, NEW c PROVE Work([t EXCEPT !.coord = c]) = Work(t)
BY DEF Work, Task

LEMMA SamePlan == NumTasks' = NumTasks /\ \A fi : TasksAfter(fi)' = TasksAfter(fi)
BY DEF NumTasks, TasksAfter

\* Where a part w of the corpus may be.
InQueue(w)  == \E j \in DOMAIN pending : Work(pending[j]) = w
OnRecord(w) == \E c \in Coordinators : working[c] # NoTask /\ Work(working[c]) = w
Placed(w)   == InQueue(w) \/ OnRecord(w) \/ w \in done

LEMMA PlacedIsNotLost ==
  NoTaskLost <=> (masterUp => \A i \in 1 .. NumTasks : Placed(Work(TasksAfter(iteration - 1)[i])))
BY DEF NoTaskLost, Placed, InQueue, OnRecord

\* Steps that do not concern tasks.
LEMMA OtherWork ==
  ASSUME NoTaskLost, UNCHANGED <<masterVars, done>> PROVE NoTaskLost'
BY SamePlan DEF NoTaskLost, masterVars

\* The head of the queue goes on record.
LEMMA AssignPlaces ==
  ASSUME IInv, NEW k, k.coord \in Coordinators, NEW queue \in Seq(Task), Assign(k, queue)
  PROVE  /\ \A w : (\E j \in DOMAIN queue : Work(queue[j]) = w) => InQueue(w)' \/ OnRecord(w)'
         /\ \A c \in Coordinators : c # k.coord => working'[c] = working[c]
<1> DEFINE t == [Head(queue) EXCEPT !.coord = k.coord]
<1>1. /\ queue # <<>> /\ pending' = Tail(queue)
      /\ working' = [working EXCEPT ![k.coord] = t]
  BY DEF Assign
<1>2. /\ Head(queue) = queue[1] /\ queue[1] \in Task /\ 1 \in DOMAIN queue
      /\ \A j \in DOMAIN queue : j = 1 \/ (j - 1 \in DOMAIN Tail(queue)
                                           /\ Tail(queue)[j - 1] = queue[j])
  BY <1>1
<1>3. t \in Task /\ t # NoTask
  BY <1>2, TaskTypes
<1>4. Work(t) = Work(queue[1])
  BY <1>2, SameWork
<1> HIDE DEF t
<1>5. working'[k.coord] = t /\ \A c \in Coordinators : c # k.coord => working'[c] = working[c]
  BY <1>1, Shapes
<1>6. OnRecord(Work(queue[1]))'
  <2>1. \A u : Work(u)' = Work(u)
    BY DEF Work
  <2>2. working'[k.coord] # NoTask /\ Work(working'[k.coord]) = Work(queue[1])
    BY <1>3, <1>4, <1>5
  <2> QED  BY <2>2 DEF OnRecord, NoTask
<1>7. \A j \in DOMAIN queue : j # 1 => InQueue(Work(queue[j]))'
  BY <1>1, <1>2 DEF InQueue
<1> QED  BY <1>5, <1>6, <1>7

LEMMA HandlerPlaces ==
  ASSUME NoneLate, IInv, TaskInv, NoTaskLost, NEW k \in LiveCalls,
         RegisterSquad(k) \/ CompleteTask(k)
  PROVE  NoTaskLost'
<1>1. /\ masterUp /\ turn = Idle /\ UNCHANGED <<masterUp, iteration>>
      /\ k.coord \in Coordinators /\ k.live = TRUE /\ pending \in Seq(Task)
  BY LiveCall, Shapes DEF RegisterSquad, CompleteTask
<1>2. SUFFICES ASSUME NEW w, Placed(w) PROVE Placed(w)'
  BY <1>1, SamePlan, PlacedIsNotLost DEF NoTaskLost, Placed, InQueue, OnRecord
<1>3. CASE /\ UNCHANGED <<pending, working, done>>
  BY <1>2, <1>3 DEF Placed, InQueue, OnRecord
<1>4. CASE /\ Assign(k, pending) /\ done \subseteq done'
           /\ working[k.coord] # NoTask => Work(working[k.coord]) \in done'
  <2>1. /\ \A x : (\E j \in DOMAIN pending : Work(pending[j]) = x) => InQueue(x)' \/ OnRecord(x)'
        /\ \A c \in Coordinators : c # k.coord => working'[c] = working[c]
    BY <1>1, <1>4, AssignPlaces
  <2>2. CASE InQueue(w)
    BY <2>1, <2>2 DEF InQueue, Placed
  <2>3. CASE OnRecord(w)
    BY <1>4, <2>1, <2>3 DEF OnRecord, Placed
  <2>4. CASE w \in done
    BY <1>4, <2>4 DEF Placed
  <2> QED  BY <1>2, <2>2, <2>3, <2>4 DEF Placed
<1>5. CASE /\ pending' = pending /\ working' = [working EXCEPT ![k.coord] = NoTask]
           /\ done \subseteq done' /\ Work(working[k.coord]) \in done'
  <2>1. \A c \in Coordinators : c # k.coord => working'[c] = working[c]
    BY <1>5, Shapes
  <2> QED  BY <1>2, <1>5, <2>1 DEF Placed, InQueue, OnRecord
<1>6. CASE RegisterSquad(k)
  BY <1>3, <1>4, <1>6 DEF RegisterSquad
<1>7. CASE CompleteTask(k)
  <2>1. CASE RefuseCompletion(k)
    BY <1>3, <2>1 DEF RefuseCompletion
  <2>2. CASE \E c \in Matching(k.task) : AcceptCompletion(k, c)
    <3>1. PICK c \in Matching(k.task) : AcceptCompletion(k, c)
      BY <2>2
    <3>2. c = k.coord /\ working[k.coord] = k.task
      BY <1>1, <1>7, <3>1, OwnEntry DEF CompleteTask, AcceptCompletion
    <3>3. done \subseteq done' /\ Work(working[k.coord]) \in done'
      BY <3>1, <3>2 DEF AcceptCompletion
    <3> QED  BY <1>4, <1>5, <3>1, <3>2, <3>3 DEF AcceptCompletion
  <2> QED  BY <1>7, <2>1, <2>2 DEF CompleteTask
<1> QED  BY <1>6, <1>7

LEMMA InitializeTasksPlaces ==
  ASSUME NoneFails, IInv, NEW fi \in -1 .. MaxIteration, InitializeTasks(fi)
  PROVE  NoTaskLost'
<1>1. /\ turn.step = "saving" /\ MostRecentCompleted(fi) /\ iteration' = fi + 1
      /\ Assign(turn, pending \o TasksAfter(fi))
  BY DEF InitializeTasks, SaveReturned, PrepareIteration, PlanningCut, NoneFails
<1>2. masterUp /\ pending = <<>> /\ turn.coord \in Coordinators
  BY <1>1 DEF IInv, TurnInv
<1>3. fi \in Int /\ fi >= -1
  BY <1>1, <1>2, NextIsLater
<1>4. Assign(turn, TasksAfter(fi))
  BY <1>1, <1>2, <1>3, PlanIsQueue
<1>5. TasksAfter(fi) \in Seq(Task) /\ DOMAIN TasksAfter(fi) = 1 .. NumTasks
  BY <1>3, TasksAfterType
<1>6. \A w : (\E j \in DOMAIN TasksAfter(fi) : Work(TasksAfter(fi)[j]) = w)
               => InQueue(w)' \/ OnRecord(w)'
  BY <1>2, <1>4, <1>5, AssignPlaces
<1>7. iteration' - 1 = fi
  BY <1>1, <1>3
<1> QED  BY <1>5, <1>6, <1>7, SamePlan DEF NoTaskLost, InQueue, OnRecord

LEMMA MasterStartPlaces ==
  ASSUME NEW fi \in -1 .. MaxIteration, MasterStart(fi) PROVE NoTaskLost'
<1>1. iteration' = fi + 1 /\ pending' = TasksAfter(fi)
  BY DEF MasterStart, PrepareIteration
<1>2. fi \in Int /\ fi >= -1
  <2>1. MaxIteration \in Nat
    BY MasterAssumption
  <2> QED  BY <2>1
<1>3. DOMAIN TasksAfter(fi) = 1 .. NumTasks /\ iteration' - 1 = fi
  BY <1>1, <1>2, TasksAfterType
<1> QED  BY <1>1, <1>3, SamePlan DEF NoTaskLost

LEMMA StepPlaces ==
  ASSUME NoneFails, IInv, TaskInv, NoTaskLost, [Next]_vars PROVE NoTaskLost'
<1>1. CASE Handler
  BY <1>1, HandlerPlaces DEF Handler, TaskInv, NoneFails
<1>2. CASE \E fi \in -1 .. MaxIteration : InitializeTasks(fi)
  BY <1>2, InitializeTasksPlaces
<1>3. CASE \E fi \in -1 .. MaxIteration : MasterStart(fi) \/ MasterStartFails(fi)
  <2>1. ASSUME NEW fi, MasterStartFails(fi) PROVE ~ masterUp'
    BY <2>1 DEF MasterStartFails, masterVars
  <2> QED  BY <1>3, <2>1, MasterStartPlaces DEF NoTaskLost
<1>4. CASE LaunchAggregatorsFails \/ MasterCrash
  BY <1>4 DEF LaunchAggregatorsFails, MasterCrash, MasterEnds, NoTaskLost
<1>5. CASE AggregateGlobalHists \/ SaveModel \/ SaveModelFails \/ PlanningFails
           \/ LaunchAggregators \/ UNCHANGED vars
  BY <1>5, OtherWork DEF AggregateGlobalHists, SaveModel, SaveModelFails, PlanningFails,
                         LaunchAggregators, vars
<1>6. CASE \E s \in saves : CreateFile(s) \/ WriteFile(s)
  BY <1>6, OtherWork DEF CreateFile, WriteFile
<1>7. CASE \E a \in Aggregators :
             RegisterAggregator(a) \/ RegistrationFails(a) \/ AggregatorCrash(a)
  BY <1>7, OtherWork DEF RegisterAggregator, RegistrationFails, AggregatorCrash
<1>8. CASE \E c \in Coordinators : DialMaster(c) \/ FinishTask(c) \/ SquadCrash(c)
  BY <1>8, OtherWork DEF DialMaster, FinishTask, SquadCrash
<1> QED  BY <1>1, <1>2, <1>3, <1>4, <1>5, <1>6, <1>7, <1>8 DEF Next, Turnover

\* No part of the corpus is lost in an iteration: each group of files is queued,
\* on record for a squad or reported done, for every corpus and any number of
\* squads and crashes, as long as no call outlives its caller, the directory of
\* the next iteration can be made and that of the corpus listed.
THEOREM WorkIsNotLost == NoneFails => (Spec => []NoTaskLost)
<1>1. Init => IInv /\ TaskInv /\ NoTaskLost
  BY InitIInv, InitTasks DEF Init, NoTaskLost
<1>2. NoneFails /\ (IInv /\ TaskInv /\ NoTaskLost) /\ [Next]_vars
        => (IInv /\ TaskInv /\ NoTaskLost)'
  BY StepIInv, StepTasks, StepPlaces DEF NoneFails
<1>3. CASE NoneFails
  <2>1. (IInv /\ TaskInv /\ NoTaskLost) /\ [Next]_vars => (IInv /\ TaskInv /\ NoTaskLost)'
    BY <1>2, <1>3
  <2> QED  BY <1>1, <2>1, PTL DEF Spec
<1> QED  BY <1>3

-----------------------------------------------------------------------------
(* With one squad, an empty queue means that the work is done. *)

OneSquad == \A c, d \in Coordinators : c = d

\* A turnover begins with nothing queued and nothing on record.
LEMMA TurnoverBegins ==
  ASSUME NoneLate, OneSquad, IInv, TaskInv, NoTaskLost, NEW k \in LiveCalls,
         RegisterSquad(k) \/ CompleteTask(k), turn'.step # "idle"
  PROVE  TurnoverFollowsWork'
<1>1. /\ masterUp /\ turn = Idle /\ iteration' = iteration /\ k.coord \in Coordinators
  BY LiveCall DEF RegisterSquad, CompleteTask
<1>2. turn' # turn
  BY <1>1, IdleTurn
<1>3. CASE /\ pending = <<>> /\ done \subseteq done'
           /\ working[k.coord] # NoTask => Work(working[k.coord]) \in done'
  <2>1. \A w : Placed(w) => w \in done'
    BY <1>1, <1>3 DEF Placed, InQueue, OnRecord, OneSquad
  <2>2. \A i \in 1 .. NumTasks : Work(TasksAfter(iteration - 1)[i]) \in done'
    BY <1>1, <2>1, PlacedIsNotLost
  <2>3. \A t : Work(t)' = Work(t)
    BY DEF Work
  <2> QED  BY <1>1, <2>2, <2>3, SamePlan DEF TurnoverFollowsWork
<1>4. CASE RegisterSquad(k)
  BY <1>2, <1>3, <1>4 DEF RegisterSquad, BeginTurnover
<1>5. CASE CompleteTask(k)
  <2>1. PICK c \in Matching(k.task) : AcceptCompletion(k, c)
    BY <1>2, <1>5 DEF CompleteTask, RefuseCompletion
  <2>2. c = k.coord /\ working[k.coord] = k.task
    BY <1>1, <1>5, <2>1, OwnEntry DEF CompleteTask, AcceptCompletion
  <2>3. pending = <<>> /\ done \subseteq done' /\ Work(working[k.coord]) \in done'
    BY <1>2, <2>1, <2>2 DEF AcceptCompletion, BeginTurnover
  <2> QED  BY <1>3, <2>3
<1> QED  BY <1>4, <1>5

\* Steps of a turnover, and around it, that leave the iteration and its reports.
LEMMA TurnoverContinues ==
  ASSUME TurnoverFollowsWork, UNCHANGED <<iteration, done>>,
         turn'.step # "idle" => turn.step # "idle"
  PROVE  TurnoverFollowsWork'
BY SamePlan DEF TurnoverFollowsWork

\* Steps that end a turnover, or a master.
LEMMA TurnoverEnds == ASSUME turn' = Idle PROVE TurnoverFollowsWork'
BY IdleTurn DEF TurnoverFollowsWork

LEMMA StepFollows ==
  ASSUME NoneFails, OneSquad, IInv, TaskInv, NoTaskLost, TurnoverFollowsWork, [Next]_vars
  PROVE  TurnoverFollowsWork'
<1>1. turn.step = "idle" => turn = Idle
  BY DEF IInv, TurnInv
<1>2. CASE Handler
  BY <1>2, TurnoverBegins DEF Handler, TaskInv, NoneFails, TurnoverFollowsWork
<1>3. CASE \E fi \in -1 .. MaxIteration : InitializeTasks(fi)
  BY <1>3, TurnoverEnds DEF InitializeTasks
<1>4. CASE LaunchAggregatorsFails \/ MasterCrash
  BY <1>4, TurnoverEnds DEF LaunchAggregatorsFails, MasterCrash, MasterEnds
<1>5. CASE \E fi \in -1 .. MaxIteration : MasterStart(fi) \/ MasterStartFails(fi)
  <2>1. turn' = turn /\ ~ masterUp
    BY <1>5 DEF MasterStart, MasterStartFails
  <2>2. turn'.step = "idle"
    BY <2>1 DEF IInv, TurnInv
  <2> QED  BY <2>2 DEF TurnoverFollowsWork
<1>6. CASE SaveModelFails \/ PlanningFails
  BY <1>6, TurnoverEnds DEF SaveModelFails, PlanningFails, FailTurn
<1>7. CASE AggregateGlobalHists \/ SaveModel
  <2>1. UNCHANGED <<iteration, done>> /\ turn.step # "idle"
    BY <1>7 DEF AggregateGlobalHists, SaveModel, masterVars
  <2> QED  BY <2>1, TurnoverContinues
<1>8. CASE LaunchAggregators \/ UNCHANGED vars
  <2>1. UNCHANGED <<iteration, done>>
    BY <1>8 DEF LaunchAggregators, vars, masterVars
  <2>2. turn'.step = turn.step
    BY <1>8 DEF LaunchAggregators, vars, IInv, Types, TurnType
  <2> QED  BY <2>1, <2>2, TurnoverContinues
<1>9. CASE \E s \in saves : CreateFile(s) \/ WriteFile(s)
  <2>1. UNCHANGED <<iteration, done>>
    BY <1>9 DEF CreateFile, WriteFile, masterVars
  <2>2. turn'.step = turn.step
    BY <1>9 DEF CreateFile, WriteFile, IInv, Types, TurnType
  <2> QED  BY <2>1, <2>2, TurnoverContinues
<1>10. CASE \E a \in Aggregators :
              RegisterAggregator(a) \/ RegistrationFails(a) \/ AggregatorCrash(a)
  <2>1. UNCHANGED <<iteration, done>> /\ turn'.step = turn.step
    BY <1>10 DEF RegisterAggregator, RegistrationFails, AggregatorCrash, masterVars, IInv, Types, TurnType
  <2> QED  BY <2>1, TurnoverContinues
<1>11. CASE \E c \in Coordinators : DialMaster(c) \/ FinishTask(c) \/ SquadCrash(c)
  <2>1. UNCHANGED <<iteration, done>> /\ turn'.step = turn.step
    BY <1>11 DEF DialMaster, FinishTask, SquadCrash, masterVars, IInv, Types, TurnType
  <2> QED  BY <2>1, TurnoverContinues
<1> QED  BY <1>2, <1>3, <1>4, <1>5, <1>6, <1>7, <1>8, <1>9, <1>10, <1>11 DEF Next, Turnover

\* With one squad, the master turns an iteration over only after every group of
\* files was reported done in it, for every corpus and with any crashes.  With
\* more squads the first to find the queue empty turns it over.
THEOREM TurnoversFollowWork ==
  NoneFails /\ OneSquad => (Spec => []TurnoverFollowsWork)
<1>1. Init => IInv /\ TaskInv /\ NoTaskLost /\ TurnoverFollowsWork
  <2>1. Init => TurnoverFollowsWork
    BY IdleTurn DEF Init, TurnoverFollowsWork
  <2> QED  BY <2>1, InitIInv, InitTasks DEF Init, NoTaskLost
<1>2. NoneFails /\ OneSquad /\ (IInv /\ TaskInv /\ NoTaskLost /\ TurnoverFollowsWork)
        /\ [Next]_vars => (IInv /\ TaskInv /\ NoTaskLost /\ TurnoverFollowsWork)'
  BY StepIInv, StepTasks, StepPlaces, StepFollows DEF NoneFails
<1>3. CASE NoneFails /\ OneSquad
  <2>1. (IInv /\ TaskInv /\ NoTaskLost /\ TurnoverFollowsWork) /\ [Next]_vars
          => (IInv /\ TaskInv /\ NoTaskLost /\ TurnoverFollowsWork)'
    BY <1>2, <1>3
  <2> QED  BY <1>1, <2>1, PTL DEF Spec
<1> QED  BY <1>3

-----------------------------------------------------------------------------
(* With one master, no two squads have the same work of the same iteration. *)

DistinctFiles == \A i, j \in DOMAIN Corpus : Corpus[i] = Corpus[j] => i = j

\* What a queue holds differs.
Distinct(q) == \A i, j \in DOMAIN q : Work(q[i]) = Work(q[j]) => i = j

\* What squads have on record differs from each other, and from what q holds.
RecordsApart(cs, q) ==
  \A c \in cs : working[c] # NoTask =>
    /\ \A j \in DOMAIN q : Work(working[c]) # Work(q[j])
    /\ \A d \in cs : working[d] # NoTask /\ Work(working[c]) = Work(working[d]) => c = d

Apart == Distinct(pending) /\ RecordsApart(Coordinators, pending)

\* The groups of files of a plan begin with different files.
LEMMA ChunksDiffer ==
  ASSUME DistinctFiles PROVE \A i, j \in 1 .. NumTasks : Chunk(i) = Chunk(j) => i = j
<1>1. NumVShards \in Nat /\ NumVShards > 0
  BY VShardsNonempty
<1>2. Corpus \in Seq(STRING)
  BY MasterAssumption
<1>3. Len(Corpus) \in Nat /\ DOMAIN Corpus = 1 .. Len(Corpus)
  BY <1>2
<1> DEFINE First(i) == i * NumVShards - NumVShards + 1
<1>4. ASSUME NEW i \in 1 .. NumTasks
      PROVE  First(i) \in DOMAIN Corpus /\ Chunk(i)[1] = Corpus[First(i)]
  <2> DEFINE last == IF i * NumVShards < Len(Corpus) THEN i * NumVShards ELSE Len(Corpus)
  <2>1. NumTasks \in Nat /\ i \in Nat /\ i >= 1
    BY TasksAfterType, AfterType
  <2>2. Chunk(i) = SubSeq(Corpus, First(i), last)
    BY DEF Chunk
  <2>3. Chunk(i) # <<>>
    BY ChunkType
  <2>4. i * NumVShards \in Int /\ i * NumVShards >= NumVShards
    <3>1. i * NumVShards = (i - 1) * NumVShards + NumVShards /\ (i - 1) * NumVShards >= 0
      BY <1>1, <2>1
    <3> QED  BY <1>1, <2>1, <3>1
  <2>5. First(i) \in Nat /\ First(i) >= 1 /\ last \in Nat /\ last <= Len(Corpus)
    BY <1>1, <1>3, <2>4
  <2> HIDE DEF last, First
  <2>6. First(i) <= last
    BY <1>2, <1>3, <2>2, <2>3, <2>5
  <2>7. SubSeq(Corpus, First(i), last)[1] = Corpus[First(i)]
    BY <1>2, <1>3, <2>5, <2>6
  <2> QED  BY <1>3, <2>2, <2>5, <2>6, <2>7
<1>5. ASSUME NEW i \in 1 .. NumTasks, NEW j \in 1 .. NumTasks, First(i) = First(j)
      PROVE  i = j
  <2>1. NumTasks \in Nat /\ i \in Nat /\ j \in Nat
    BY TasksAfterType, AfterType
  <2>2. (i - j) * NumVShards = 0
    BY <1>1, <1>5, <2>1
  <2> QED  BY <1>1, <2>1, <2>2
<1> HIDE DEF First
<1> QED  BY <1>4, <1>5 DEF DistinctFiles

\* The iteration and the action of a task tell after which iteration it was
\* planned.
LEMMA PlanOf ==
  ASSUME NEW k \in Int, k >= -1, NEW fi \in Int, fi >= -1,
         IterationAfter(k) = IterationAfter(fi), ActionAfter(k) = ActionAfter(fi)
  PROVE  k = fi
<1>1. /\ ActionAfter(k) = INIT <=> k = -1
      /\ ActionAfter(fi) = INIT <=> fi = -1
  BY AfterType
<1> QED  BY <1>1 DEF IterationAfter

LEMMA WorkOfPlan ==
  ASSUME NEW fi \in Int, fi >= -1, NEW i \in 1 .. NumTasks
  PROVE  Work(TasksAfter(fi)[i]) = [shards |-> Chunk(i), iteration |-> IterationAfter(fi),
                                    action |-> ActionAfter(fi)]
<1>1. TasksAfter(fi)[i] = [shards |-> Chunk(i), coord |-> NoCoord,
                           iteration |-> IterationAfter(fi), action |-> ActionAfter(fi)]
  BY TasksAfterType
<1> QED  BY <1>1 DEF Work

\* What a new plan holds differs.
LEMMA PlanDistinct ==
  ASSUME DistinctFiles, NEW fi \in Int, fi >= -1 PROVE Distinct(TasksAfter(fi))
<1>1. DOMAIN TasksAfter(fi) = 1 .. NumTasks
  BY DEF TasksAfter
<1>2. \A i \in 1 .. NumTasks : Work(TasksAfter(fi)[i]).shards = Chunk(i)
  <2>1. TAKE i \in 1 .. NumTasks
  <2>2. Work(TasksAfter(fi)[i]) = [shards |-> Chunk(i), iteration |-> IterationAfter(fi),
                                   action |-> ActionAfter(fi)]
    BY WorkOfPlan
  <2> QED  BY <2>2
<1> QED  BY <1>1, <1>2, ChunksDiffer DEF Distinct

\* It differs from what was planned before.
LEMMA PlanIsNew ==
  ASSUME NEW fi \in Int, fi >= -1, NEW t, Known(t, fi - 1)
  PROVE  \A i \in 1 .. NumTasks : Work(t) # Work(TasksAfter(fi)[i])
<1>1. PICK k \in -1 .. fi - 1 : t.iteration = IterationAfter(k) /\ t.action = ActionAfter(k)
  BY DEF Known
<1>2. k \in Int /\ k >= -1 /\ k < fi
  BY <1>1
<1>3. ASSUME NEW i \in 1 .. NumTasks, Work(t) = Work(TasksAfter(fi)[i]) PROVE FALSE
  <2>1. /\ Work(TasksAfter(fi)[i]).iteration = IterationAfter(fi)
        /\ Work(TasksAfter(fi)[i]).action = ActionAfter(fi)
    <3>1. Work(TasksAfter(fi)[i]) = [shards |-> Chunk(i), iteration |-> IterationAfter(fi),
                                     action |-> ActionAfter(fi)]
      BY WorkOfPlan
    <3> QED  BY <3>1
  <2>2. Work(t).iteration = t.iteration /\ Work(t).action = t.action
    BY DEF Work
  <2> QED  BY <1>1, <1>2, <1>3, <2>1, <2>2, PlanOf
<1> QED  BY <1>3

\* The head of the queue goes from the queue to the records.
LEMMA AssignApart ==
  ASSUME IInv, NEW k, k.coord \in Coordinators, NEW queue \in Seq(Task), Assign(k, queue),
         Distinct(queue), RecordsApart(Coordinators \ {k.coord}, queue)
  PROVE  Apart'
<1> DEFINE t == [Head(queue) EXCEPT !.coord = k.coord]
           c == k.coord
<1>1. /\ queue # <<>> /\ pending' = Tail(queue)
      /\ working' = [working EXCEPT ![c] = t]
  BY DEF Assign
<1>2. /\ Head(queue) = queue[1] /\ queue[1] \in Task /\ 1 \in DOMAIN queue
      /\ \A j \in DOMAIN Tail(queue) : /\ j + 1 \in DOMAIN queue /\ j \in Nat /\ j + 1 # 1
                                      /\ Tail(queue)[j] = queue[j + 1]
  BY <1>1
<1>3. Work(t) = Work(queue[1])
  BY <1>2, SameWork
<1> HIDE DEF t
<1>4. working'[c] = t /\ \A d \in Coordinators : d # c => working'[d] = working[d]
  BY <1>1, Shapes
<1> HIDE DEF c
<1>5. \A i, j \in DOMAIN pending' : Work(pending'[i]) = Work(pending'[j]) => i = j
  BY <1>1, <1>2 DEF Distinct
<1>6. \A j \in DOMAIN pending' : Work(t) # Work(pending'[j])
  BY <1>1, <1>2, <1>3 DEF Distinct
<1>7. ASSUME NEW d \in Coordinators, d # c, working[d] # NoTask
      PROVE  /\ Work(working[d]) # Work(t)
             /\ \A j \in DOMAIN pending' : Work(working[d]) # Work(pending'[j])
             /\ \A e \in Coordinators : e # c /\ working[e] # NoTask
                                          /\ Work(working[d]) = Work(working[e]) => d = e
  <2>1. d \in Coordinators \ {k.coord}
    BY <1>7 DEF c
  <2> QED  BY <1>1, <1>2, <1>3, <1>7, <2>1 DEF RecordsApart, c
<1>8. \A u : Work(u)' = Work(u)
  BY DEF Work
<1>9. Distinct(pending)'
  BY <1>5, <1>8 DEF Distinct
<1>10. ASSUME NEW d \in Coordinators, working'[d] # NoTask
       PROVE  /\ \A j \in DOMAIN pending' : Work(working'[d]) # Work(pending'[j])
              /\ \A e \in Coordinators : /\ working'[e] # NoTask
                                          /\ Work(working'[d]) = Work(working'[e]) => d = e
  BY <1>4, <1>6, <1>7, <1>10
<1> QED  BY <1>8, <1>9, <1>10 DEF Apart, RecordsApart, NoTask

\* Steps that do not concern the queue and the records.
LEMMA OtherApart == ASSUME Apart, UNCHANGED <<pending, working>> PROVE Apart'
BY DEF Apart, Distinct, RecordsApart, Work, NoTask

\* A record that is cleared, with an empty queue.
LEMMA ClearedApart ==
  ASSUME Apart, NEW c, pending' = pending,
         \A d \in Coordinators : working'[d] = working[d] \/ working'[d] = NoTask
  PROVE  Apart'
<1>1. \A u : Work(u)' = Work(u)
  BY DEF Work
<1>2. NoTask' = NoTask
  BY DEF NoTask
<1>3. Distinct(pending)'
  BY <1>1 DEF Apart, Distinct
<1>4. RecordsApart(Coordinators, pending)'
  BY <1>1, <1>2 DEF Apart, RecordsApart
<1> QED  BY <1>3, <1>4 DEF Apart

LEMMA HandlerApart ==
  ASSUME IInv, TaskInv, Apart, NEW k \in LiveCalls, RegisterSquad(k) \/ CompleteTask(k)
  PROVE  Apart'
<1>1. k.coord \in Coordinators /\ pending \in Seq(Task) /\ turn = Idle
  BY LiveCall, Shapes DEF RegisterSquad, CompleteTask
<1>2. CASE UNCHANGED <<pending, working>>
  BY <1>2, OtherApart
<1>3. CASE Assign(k, pending)
  <2>1. RecordsApart(Coordinators \ {k.coord}, pending)
    BY DEF Apart, RecordsApart
  <2> QED  BY <1>1, <1>3, <2>1, AssignApart DEF Apart
<1>4. CASE pending' = pending /\ \E c : working' = [working EXCEPT ![c] = NoTask]
  <2>1. \A d \in Coordinators : working'[d] = working[d] \/ working'[d] = NoTask
    BY <1>4, Shapes
  <2> QED  BY <1>4, <2>1, ClearedApart
<1> QED  BY <1>2, <1>3, <1>4 DEF RegisterSquad, CompleteTask, RefuseCompletion, AcceptCompletion

\* initializeTasks plans an iteration that no record is of.
LEMMA InitializeTasksApart ==
  ASSUME NumbersFit, DistinctFiles, IInv, TaskInv, SavedWhen, Apart,
         NEW fi \in -1 .. MaxIteration, InitializeTasks(fi)
  PROVE  Apart'
<1>1. CASE UNCHANGED <<pending, working>>
  BY <1>1, OtherApart
<1>2. CASE Assign(turn, pending \o TasksAfter(fi))
  <2>1. fi = iteration /\ fi \in Int /\ fi >= -1
    BY Advance
  <2>2. pending = <<>> /\ turn.coord \in Coordinators
    BY DEF InitializeTasks, SaveReturned, IInv, TurnInv
  <2>3. TasksAfter(fi) \in Seq(Task) /\ <<>> \o TasksAfter(fi) = TasksAfter(fi)
    BY <2>1, PlanIsQueue
  <2>4. Assign(turn, TasksAfter(fi))
    BY <1>2, <2>2, <2>3
  <2>5. Distinct(TasksAfter(fi))
    BY <2>1, PlanDistinct
  <2>6. DOMAIN TasksAfter(fi) = 1 .. NumTasks
    BY DEF TasksAfter
  <2>7. ASSUME NEW c \in Coordinators, working[c] # NoTask
        PROVE  \A j \in DOMAIN TasksAfter(fi) : Work(working[c]) # Work(TasksAfter(fi)[j])
    <3>1. Known(working[c], fi - 1)
      BY <2>1, <2>7 DEF TaskInv, Records
    <3> QED  BY <2>1, <2>6, <3>1, PlanIsNew
  <2>8. RecordsApart(Coordinators \ {turn.coord}, TasksAfter(fi))
    BY <2>7 DEF Apart, RecordsApart
  <2> QED  BY <2>2, <2>3, <2>4, <2>5, <2>8, AssignApart
<1> QED  BY <1>1, <1>2 DEF InitializeTasks

LEMMA StepApart ==
  ASSUME OneMaster, NumbersFit, DistinctFiles, NoneLate, IInv, TaskInv, SavedWhen, Apart,
         [Next]_vars
  PROVE  Apart'
<1>1. CASE Handler
  BY <1>1, HandlerApart DEF Handler, TaskInv
<1>2. CASE \E fi \in -1 .. MaxIteration : InitializeTasks(fi)
  BY <1>2, InitializeTasksApart
<1>3. CASE \E fi \in -1 .. MaxIteration : MasterStart(fi)
  <2>1. PICK fi \in -1 .. MaxIteration : MasterStart(fi)
    BY <1>3
  <2>2. /\ pending' = TasksAfter(fi) /\ working' = working
        /\ \A c \in Coordinators : working[c] = NoTask
    BY <2>1 DEF MasterStart, TaskInv, Orphans
  <2>3. Distinct(TasksAfter(fi))
    BY <2>1, PlanDistinct
  <2>4. \A u : Work(u)' = Work(u)
    BY DEF Work
  <2>5. Distinct(pending)'
    BY <2>2, <2>3, <2>4 DEF Distinct
  <2> QED  BY <2>2, <2>5 DEF Apart, RecordsApart, NoTask
<1>4. CASE \/ AggregateGlobalHists \/ SaveModel \/ SaveModelFails \/ PlanningFails
           \/ LaunchAggregators \/ UNCHANGED vars
           \/ \E fi \in -1 .. MaxIteration : MasterStartFails(fi)
  BY <1>4, OtherApart DEF AggregateGlobalHists, SaveModel, SaveModelFails, PlanningFails,
                          LaunchAggregators, MasterStartFails, vars, masterVars
<1>5. CASE \E s \in saves : CreateFile(s) \/ WriteFile(s)
  BY <1>5, OtherApart DEF CreateFile, WriteFile, masterVars
<1>6. CASE \E a \in Aggregators :
             RegisterAggregator(a) \/ RegistrationFails(a) \/ AggregatorCrash(a)
  BY <1>6, OtherApart DEF RegisterAggregator, RegistrationFails, AggregatorCrash, masterVars
<1>7. CASE \E c \in Coordinators : DialMaster(c) \/ FinishTask(c) \/ SquadCrash(c)
  BY <1>7, OtherApart DEF DialMaster, FinishTask, SquadCrash, masterVars
<1>8. CASE LaunchAggregatorsFails
  <2>1. pending' = <<>> /\ working' = [c \in Coordinators |-> NoTask]
    BY <1>8 DEF LaunchAggregatorsFails, MasterEnds
  <2> QED  BY <2>1 DEF Apart, Distinct, RecordsApart, NoTask
<1> QED  BY <1>1, <1>2, <1>3, <1>4, <1>5, <1>6, <1>7, <1>8, NoMasterCrash DEF Next, Turnover

\* What a squad reports is on record for it, and for no other squad.
LEMMA ApartIsUnambiguous ==
  ASSUME IInv, TaskInv, Apart PROVE ReportsAreUnambiguous
<1> SUFFICES ASSUME NEW c \in Coordinators, squad[c] = "CompleteTask",
                    ~ (turn.live /\ turn.coord = c)
             PROVE  /\ c \in Matching(task[c])
                    /\ \A d \in Matching(task[c]) \ {c} :
                         working[d].iteration # task[c].iteration
  BY DEF ReportsAreUnambiguous
<1>1. working[c] # NoTask /\ task[c] = working[c]
  BY DEF TaskInv, SquadsHoldTheirTasks
<1>2. c \in Matching(task[c])
  BY <1>1 DEF Matching, Equal
<1>3. ASSUME NEW d \in Matching(task[c]) \ {c}, working[d].iteration = task[c].iteration
      PROVE  FALSE
  <2>1. /\ d \in Coordinators /\ working[d] # NoTask
        /\ working[d].shards = working[c].shards /\ working[d].action = working[c].action
    BY <1>1 DEF Matching, Equal
  <2>2. Work(working[d]) = Work(working[c])
    BY <1>1, <1>3, <2>1 DEF Work
  <2> QED  BY <1>1, <2>1, <2>2 DEF Apart, RecordsApart
<1> QED  BY <1>2, <1>3

\* A squad's report meets its own entry in m.working and no equal one of the same
\* iteration, for any number of squads, whichever of them and of the aggregators
\* die, as long as the master does not, no call outlives its caller, and the files
\* of the corpus have different names: Equal compares only files and action.
THEOREM ReportsMeetTheirEntry ==
  OneMaster /\ NumbersFit /\ DistinctFiles /\ NoneLate => (Spec => []ReportsAreUnambiguous)
<1> DEFINE Inv == IInv /\ TaskInv /\ WhoInv /\ SavedWhen /\ Apart
<1>1. Init => Inv
  <2>1. Init => Apart
    BY DEF Init, Apart, Distinct, RecordsApart
  <2> QED  BY <2>1, InitIInv, InitTasks, InitWho, InitWhen
<1>2. OneMaster /\ NumbersFit /\ DistinctFiles /\ NoneLate /\ Inv /\ [Next]_vars => Inv'
  BY StepIInv, StepTasks, StepWho, StepWhen, StepApart
<1>3. Inv => ReportsAreUnambiguous
  BY ApartIsUnambiguous
<1>4. CASE OneMaster /\ NumbersFit /\ DistinctFiles /\ NoneLate
  <2>1. Inv /\ [Next]_vars => Inv'
    BY <1>2, <1>4
  <2> QED  BY <1>1, <1>3, <2>1, PTL DEF Spec
<1> QED  BY <1>4
=============================================================================
