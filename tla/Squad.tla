-------------------------------- MODULE Squad --------------------------------
(***************************************************************************)
(* One squad: a coordinator, its samplers and its loaders, from the launch *)
(* of the processes to the loading of the corpus (coordinator_service.go,  *)
(* loader_service.go, sampler_service.go and proc_mgnt.go of srv).         *)
(*                                                                         *)
(* The coordinator launches the samplers; each registers; with the last    *)
(* registration the coordinator launches the loaders; these connect to the *)
(* samplers and register; with the last registration the coordinator       *)
(* starts to work for the master.  Registrations are counted.  The daemon  *)
(* prism restarts a process that failed, and does not restart one that it  *)
(* killed or that exited normally.                                         *)
(***************************************************************************)
EXTENDS Naturals, Sequences, FiniteSets

CONSTANTS
  NumVShards,   \* loaders, and samplers, of the squad
  Chunks,       \* numbers of shards in the INIT tasks of the master
  Implemented,  \* actions that Coordinator.do implements
  Retry,        \* restarts of a coordinator by prism
  Faults,       \* which of the faults below may happen
  MaxKinds,     \* bound: how many kinds of them do
  MaxCrashes    \* bound: how often each kind does

Slots == 1 .. NumVShards
Kinds == {"sampler", "loader"}
FaultKinds == {"sampler", "loader",  \* a worker dies
               "coordinator",        \* the coordinator process dies
               "interrupt",          \* it gets a signal, and returns
               "launch",             \* prism.Launch of a worker fails
               "shard",              \* Loader.Init fails
               "master"}             \* the master does not answer

ASSUME SquadAssumption ==
  /\ NumVShards \in Nat \ {0} /\ Retry \in Nat
  /\ Chunks \in Seq(Slots)
  /\ Implemented \subseteq {"INIT", "GIBBS"}
  /\ Faults \subseteq FaultKinds
  /\ MaxKinds \in Nat /\ MaxCrashes \in [FaultKinds -> Nat]

VARIABLES
  coord,    \* the coordinator process: up or failed, and restarts left
  launch,   \* launch[k]: LaunchWorkers of kind k: its phase, workers to launch
  clients,  \* Coordinator.samplers and .loaders: slot, and is the process alive
  run,      \* Coordinator.run: where it is, its task, outcome of its calls
  proc,     \* proc[k][i]: the worker of kind k at the i-th address
  retry,    \* retry[k][i]: restarts that prism has left for it
  late,     \* late[k][i]: registrations still to be served, whose callers died
  job,      \* job[i]: the Loader.Init calls that loader i serves
  loaded,   \* loaded[c][i]: times that the i-th shard of chunk c was accumulated
  master,   \* the chunk the master waits for
  crashes   \* how often each kind of fault happened so far

vars == <<coord, launch, clients, run, proc, retry, late, job, loaded, master,
          crashes>>

NoLaunch == [k \in Kinds |-> [phase |-> "no", left |-> {}]]
NoCalls  == [i \in Slots |-> "none"]
NoRun    == [at |-> "none", action |-> "INIT", calls |-> NoCalls]
None     == [k \in Kinds |-> [i \in Slots |-> 0]]

\* RPC connections can be made to a worker in one of these states.
Listening == {"registering", "refused", "serving"}

\* A fault of this kind happens, for the first time or again.
CanCrash(what) ==
  /\ what \in Faults /\ crashes[what] < MaxCrashes[what]
  /\ crashes' = [crashes EXCEPT ![what] = @ + 1]
  /\ Cardinality({f \in FaultKinds : crashes'[f] > 0}) <= MaxKinds

Unharmed == crashes = [f \in FaultKinds |-> 0]

-----------------------------------------------------------------------------
(* The end of processes. *)

\* The workers of kind k in S end; to is what prism makes of it.
EndWorkers(k, S, to) ==
  /\ proc' = [proc EXCEPT ![k] = [i \in Slots |-> IF i \in S THEN to ELSE @[i]]]
  /\ late' = [late EXCEPT ![k] = [i \in Slots |->
                IF i \in S /\ proc[k][i] = "registering" THEN @[i] + 1 ELSE @[i]]]
  /\ clients' = [clients EXCEPT ![k] = [n \in DOMAIN clients[k] |->
                   LET c == clients[k][n]
                   IN  [slot |-> c.slot, alive |-> c.alive /\ c.slot \notin S]]]
  /\ IF k # "loader" THEN UNCHANGED <<job, run>>
     ELSE LET lost == UNION {{j.call : j \in {x \in job[i] : x.heard}} : i \in S}
          IN  /\ job' = [i \in Slots |-> IF i \in S THEN {} ELSE job[i]]
              /\ run' = [run EXCEPT !.calls = [n \in Slots |->
                           IF n \in lost THEN "error" ELSE @[n]]]

\* log.Fatalf in the coordinator: it ends, and its workers do not.  Those that
\* are registering get an error.
CoordinatorExits ==
  /\ coord' = [coord EXCEPT !.state = "failed"]
  /\ launch' = NoLaunch
  /\ clients' = [k \in Kinds |-> <<>>]
  /\ run' = NoRun
  /\ proc' = [k \in Kinds |-> [i \in Slots |->
                IF proc[k][i] = "registering" THEN "refused" ELSE proc[k][i]]]
  /\ late' = None
  /\ job' = [i \in Slots |-> {[j EXCEPT !.heard = FALSE] : j \in job[i]}]

\* RunCoordinator returns: the deferred function kills all workers first.
CoordinatorReturns ==
  /\ coord' = [coord EXCEPT !.state = "failed"]
  /\ launch' = NoLaunch
  /\ clients' = [k \in Kinds |-> <<>>]
  /\ run' = NoRun
  /\ proc' = [k \in Kinds |-> [i \in Slots |-> "down"]]
  /\ late' = None
  /\ job' = [i \in Slots |-> {}]

CoordinatorCrash ==
  /\ coord.state = "up" /\ CanCrash("coordinator")
  /\ CoordinatorExits
  /\ UNCHANGED <<retry, loaded, master>>

CoordinatorInterrupt ==
  /\ coord.state = "up" /\ launch["sampler"].phase = "no" /\ CanCrash("interrupt")
  /\ CoordinatorReturns
  /\ UNCHANGED <<retry, loaded, master>>

\* A worker dies.  A sampler may do so by itself: log.Fatal, when it cannot
\* connect to the aggregators before it registers.
WorkerCrash(k, i) ==
  /\ proc[k][i] \notin {"down", "failed"} /\ CanCrash(k)
  /\ EndWorkers(k, {i}, "failed")
  /\ UNCHANGED <<coord, launch, retry, loaded, master>>

\* prism restarts what failed.
RestartCoordinator ==
  /\ coord.state = "failed" /\ coord.restarts > 0
  /\ coord' = [state |-> "up", restarts |-> coord.restarts - 1]
  /\ launch' = [NoLaunch EXCEPT !["sampler"].phase = "kill"]
  /\ UNCHANGED <<clients, run, proc, retry, late, job, loaded, master, crashes>>

RestartWorker(k, i) ==
  /\ proc[k][i] = "failed" /\ retry[k][i] > 0
  /\ proc' = [proc EXCEPT ![k][i] = "begun"]
  /\ retry' = [retry EXCEPT ![k][i] = @ - 1]
  /\ UNCHANGED <<coord, launch, clients, run, late, job, loaded, master, crashes>>

-----------------------------------------------------------------------------
(* LaunchWorkers, of the samplers by RunCoordinator and of the loaders by a  *)
(* goroutine that RegisterSampler starts.                                    *)

KillWorkers(k) ==
  /\ launch[k].phase = "kill"
  /\ EndWorkers(k, Slots, "down")
  /\ launch' = [launch EXCEPT ![k] = [phase |-> "go", left |-> Slots]]
  /\ UNCHANGED <<coord, retry, loaded, master, crashes>>

Launch(k, i) ==
  /\ launch[k].phase \in {"go", "bad"} /\ i \in launch[k].left
  /\ launch' = [launch EXCEPT ![k].left = @ \ {i}]
  /\ proc' = [proc EXCEPT ![k][i] = "begun"]
  /\ retry' = [retry EXCEPT ![k][i] = 1]
  /\ UNCHANGED <<coord, clients, run, late, job, loaded, master, crashes>>

LaunchFails(k, i) ==
  /\ launch[k].phase \in {"go", "bad"} /\ i \in launch[k].left /\ CanCrash("launch")
  /\ launch' = [launch EXCEPT ![k] = [phase |-> "bad", left |-> @.left \ {i}]]
  /\ UNCHANGED <<coord, clients, run, proc, retry, late, job, loaded, master>>

\* An error makes RunCoordinator return; nobody reads that of the goroutine.
LaunchEnds(k) ==
  /\ launch[k].phase \in {"go", "bad"} /\ launch[k].left = {}
  /\ IF k = "sampler" /\ launch[k].phase = "bad"
     THEN CoordinatorReturns
     ELSE /\ launch' = [launch EXCEPT ![k].phase = "no"]
          /\ UNCHANGED <<coord, clients, run, proc, late, job>>
  /\ UNCHANGED <<retry, loaded, master, crashes>>

LaunchWorkers(k) ==
  \/ KillWorkers(k) \/ LaunchEnds(k)
  \/ \E i \in Slots : Launch(k, i) \/ LaunchFails(k, i)

-----------------------------------------------------------------------------
(* RunLoader and RunSampler, and the handlers of their registrations. *)

\* A loader connects to all samplers, or exits normally.
ConnectToSamplers(i) ==
  /\ proc["loader"][i] = "begun"
  /\ proc' = [proc EXCEPT !["loader"][i] =
                IF \A s \in Slots : proc["sampler"][s] \in Listening
                THEN "connected" ELSE "down"]
  /\ UNCHANGED <<coord, launch, clients, run, retry, late, job, loaded, master, crashes>>

\* A worker whose registration fails exits: a sampler with a failure.
Outcast(k) == IF k = "sampler" THEN "failed" ELSE "down"

DialCoordinator(k, i) ==
  /\ proc[k][i] = IF k = "sampler" THEN "begun" ELSE "connected"
  /\ proc' = [proc EXCEPT ![k][i] =
                IF coord.state = "up" THEN "registering" ELSE Outcast(k)]
  /\ UNCHANGED <<coord, launch, clients, run, retry, late, job, loaded, master, crashes>>

Leave(k, i) ==
  /\ proc[k][i] = "refused"
  /\ EndWorkers(k, {i}, Outcast(k))
  /\ UNCHANGED <<coord, launch, retry, loaded, master, crashes>>

\* A call to register is served: of a worker that waits, or of one that died.
Arrives(k, i, isLate) ==
  /\ coord.state = "up"
  /\ IF isLate THEN late[k][i] > 0 ELSE proc[k][i] = "registering"

Answer(k, i, isLate, reply) ==
  IF isLate THEN late' = [late EXCEPT ![k][i] = @ - 1] /\ UNCHANGED proc
            ELSE proc' = [proc EXCEPT ![k][i] = reply] /\ UNCHANGED late

Registered(k, i) == Append(clients[k], [slot |-> i, alive |-> TRUE])

RegisterSampler(i, isLate) ==
  /\ Arrives("sampler", i, isLate)
  /\ IF Len(clients["sampler"]) >= NumVShards \/ proc["sampler"][i] \notin Listening
     THEN CoordinatorExits
     ELSE /\ clients' = [clients EXCEPT !["sampler"] = Registered("sampler", i)]
          /\ launch' = IF Len(clients'["sampler"]) >= NumVShards
                       THEN [launch EXCEPT !["loader"].phase = "kill"] ELSE launch
          /\ Answer("sampler", i, isLate, "serving")
          /\ UNCHANGED <<coord, run, job>>
  /\ UNCHANGED <<retry, loaded, master, crashes>>

\* The coordinator starts to work one loader early.
RegisterLoaderEarly(i, isLate) ==
  /\ Arrives("loader", i, isLate)
  /\ IF Len(clients["loader"]) >= NumVShards \/ proc["loader"][i] \notin Listening
     THEN Answer("loader", i, isLate, "refused") /\ UNCHANGED <<clients, run>>
     ELSE /\ clients' = [clients EXCEPT !["loader"] = Registered("loader", i)]
          /\ run' = IF Len(clients'["loader"]) + 1 >= NumVShards
                    THEN [run EXCEPT !.at = "register"] ELSE run
          /\ Answer("loader", i, isLate, "serving")
  /\ UNCHANGED <<coord, launch, retry, job, loaded, master, crashes>>

\* Every loader is registered, those after the last one too.
RegisterLoaderUnbounded(i, isLate) ==
  /\ Arrives("loader", i, isLate)
  /\ IF proc["loader"][i] \notin Listening
     THEN Answer("loader", i, isLate, "refused") /\ UNCHANGED <<clients, run>>
     ELSE /\ clients' = [clients EXCEPT !["loader"] = Registered("loader", i)]
          /\ run' = IF Len(clients'["loader"]) >= NumVShards
                    THEN [run EXCEPT !.at = "register"] ELSE run
          /\ Answer("loader", i, isLate, "serving")
  /\ UNCHANGED <<coord, launch, retry, job, loaded, master, crashes>>

RegisterLoader(i, isLate) ==
  /\ Arrives("loader", i, isLate)
  /\ IF Len(clients["loader"]) >= NumVShards \/ proc["loader"][i] \notin Listening
     THEN Answer("loader", i, isLate, "refused") /\ UNCHANGED <<clients, run>>
     ELSE /\ clients' = [clients EXCEPT !["loader"] = Registered("loader", i)]
          /\ run' = IF Len(clients'["loader"]) >= NumVShards
                    THEN [run EXCEPT !.at = "register"] ELSE run
          /\ Answer("loader", i, isLate, "serving")
  /\ UNCHANGED <<coord, launch, retry, job, loaded, master, crashes>>

-----------------------------------------------------------------------------
(* Coordinator.run, and Loader.Init at the other end of its calls. *)

\* The next task of a master that has only this squad.
NextTask(c) == [at |-> "do", calls |-> NoCalls,
                action |-> IF c <= Len(Chunks) THEN "INIT" ELSE "GIBBS"]

RegisterSquad ==
  /\ run.at = "register"
  /\ \/ /\ run' = NextTask(master)
        /\ UNCHANGED <<coord, launch, clients, proc, late, job, crashes>>
     \/ CanCrash("master") /\ CoordinatorExits
  /\ UNCHANGED <<retry, loaded, master>>

\* Coordinator.do, of an action that is not implemented.
DoFails ==
  /\ run.at = "do" /\ run.action \notin Implemented
  /\ CoordinatorExits
  /\ UNCHANGED <<retry, loaded, master, crashes>>

\* A call that takes long is made again.
CallLoaderAgain(n) ==
  /\ run.at = "do" /\ run.action = "INIT" /\ "INIT" \in Implemented
  /\ n <= Chunks[master] /\ run.calls[n] \in {"none", "waiting"}
  /\ LET c == clients["loader"][n]
     IN  IF c.alive
         THEN /\ run' = [run EXCEPT !.calls[n] = "waiting"]
              /\ job' = [job EXCEPT ![c.slot] = @ \cup
                   {[call |-> n, chunk |-> master, sent |-> FALSE, heard |-> TRUE]}]
         ELSE run' = [run EXCEPT !.calls[n] = "error"] /\ UNCHANGED job
  /\ UNCHANGED <<coord, launch, clients, proc, retry, late, loaded, master, crashes>>

\* A call to a loader that is gone does not return.
CallLoaderUnanswered(n) ==
  /\ run.at = "do" /\ run.action = "INIT" /\ "INIT" \in Implemented
  /\ n <= Chunks[master] /\ run.calls[n] = "none"
  /\ LET c == clients["loader"][n]
     IN  /\ run' = [run EXCEPT !.calls[n] = "waiting"]
         /\ IF c.alive
            THEN job' = [job EXCEPT ![c.slot] = @ \cup
                   {[call |-> n, chunk |-> master, sent |-> FALSE, heard |-> TRUE]}]
            ELSE UNCHANGED job
  /\ UNCHANGED <<coord, launch, clients, proc, retry, late, loaded, master, crashes>>

\* Coordinator.init calls the loaders in parallel: the n-th for the n-th shard.
CallLoader(n) ==
  /\ run.at = "do" /\ run.action = "INIT" /\ "INIT" \in Implemented
  /\ n <= Chunks[master] /\ run.calls[n] = "none"
  /\ LET c == clients["loader"][n]
     IN  IF c.alive
         THEN /\ run' = [run EXCEPT !.calls[n] = "waiting"]
              /\ job' = [job EXCEPT ![c.slot] = @ \cup
                   {[call |-> n, chunk |-> master, sent |-> FALSE, heard |-> TRUE]}]
         ELSE run' = [run EXCEPT !.calls[n] = "error"] /\ UNCHANGED job
  /\ UNCHANGED <<coord, launch, clients, proc, retry, late, loaded, master, crashes>>

\* The loader sends the model of the shard to the aggregators, in parallel: what
\* is loaded is followed at any one of them.
Accumulate(i, j) ==
  /\ j \in job[i] /\ ~ j.sent
  /\ loaded' = [loaded EXCEPT ![j.chunk][j.call] = @ + 1]
  /\ job' = [job EXCEPT ![i] = (@ \ {j}) \cup {[j EXCEPT !.sent = TRUE]}]
  /\ UNCHANGED <<coord, launch, clients, run, proc, retry, late, master, crashes>>

\* Loader.Init returns: when all aggregators have the model, or with an error,
\* which does not mean that none has it.
InitReturns(i, j) ==
  /\ j \in job[i]
  /\ job' = [job EXCEPT ![i] = @ \ {j}]
  /\ \E result \in {"ok", "error"} :
       /\ IF result = "ok" THEN j.sent /\ UNCHANGED crashes ELSE CanCrash("shard")
       /\ run' = IF j.heard THEN [run EXCEPT !.calls[j.call] = result] ELSE run
  /\ UNCHANGED <<coord, launch, clients, proc, retry, late, loaded, master>>

\* All calls have returned: an error ends the coordinator, else it reports.
Returned ==
  /\ run.at = "do" /\ run.action \in Implemented
  /\ run.action = "INIT" =>
       \A n \in 1 .. Chunks[master] : run.calls[n] \in {"ok", "error"}

\* The error of a loader is lost on the way.
CompleteAnyway ==
  /\ Returned
  /\ IF run.action = "INIT"
     THEN master' = master + 1 /\ run' = NextTask(master + 1)
     ELSE UNCHANGED <<master, run>>
  /\ UNCHANGED <<coord, launch, clients, proc, retry, late, job, loaded, crashes>>

\* The task is done again: the report does not get through.
CompleteTaskUnreported ==
  /\ Returned
  /\ IF \E n \in Slots : run.calls[n] = "error"
     THEN CoordinatorExits
     ELSE /\ run' = [run EXCEPT !.calls = NoCalls]
          /\ UNCHANGED <<coord, launch, clients, proc, late, job>>
  /\ UNCHANGED <<retry, loaded, master, crashes>>

CompleteTask ==
  /\ Returned
  /\ IF \E n \in Slots : run.calls[n] = "error"
     THEN CoordinatorExits /\ UNCHANGED master
     ELSE /\ IF run.action = "INIT"
             THEN master' = master + 1 /\ run' = NextTask(master + 1)
             ELSE UNCHANGED <<master, run>>
          /\ UNCHANGED <<coord, launch, clients, proc, late, job>>
  /\ UNCHANGED <<retry, loaded, crashes>>

-----------------------------------------------------------------------------
\* RunCoordinator: the service runs, the launch of the samplers is next.
Init ==
  /\ coord = [state |-> "up", restarts |-> Retry]
  /\ launch = [NoLaunch EXCEPT !["sampler"].phase = "kill"]
  /\ clients = [k \in Kinds |-> <<>>]
  /\ run = NoRun
  /\ proc = [k \in Kinds |-> [i \in Slots |-> "down"]]
  /\ retry = None
  /\ late = None
  /\ job = [i \in Slots |-> {}]
  /\ loaded = [c \in DOMAIN Chunks |-> [i \in 1 .. Chunks[c] |-> 0]]
  /\ master = 1
  /\ Unharmed

Coordinator ==
  \/ \E k \in Kinds : LaunchWorkers(k)
  \/ \E i \in Slots, isLate \in BOOLEAN :
       RegisterSampler(i, isLate) \/ RegisterLoader(i, isLate)
  \/ RegisterSquad \/ DoFails \/ CompleteTask
  \/ \E n \in Slots : CallLoader(n)

Worker(k, i) ==
  \/ DialCoordinator(k, i) \/ Leave(k, i)
  \/ k = "loader" /\ (ConnectToSamplers(i)
                      \/ \E j \in job[i] : Accumulate(i, j) \/ InitReturns(i, j))

Prism ==
  \/ RestartCoordinator
  \/ \E k \in Kinds, i \in Slots : RestartWorker(k, i)

Crash ==
  \/ CoordinatorCrash \/ CoordinatorInterrupt
  \/ \E k \in Kinds, i \in Slots : WorkerCrash(k, i)

Next ==
  \/ Coordinator \/ Prism \/ Crash
  \/ \E k \in Kinds, i \in Slots : Worker(k, i)

Spec == Init /\ [][Next]_vars

-----------------------------------------------------------------------------
(* Fairness: every goroutine that can go on does; calls are served; prism    *)
(* restarts what it may restart.                                             *)
FairSpec ==
  /\ Spec
  /\ \A k \in Kinds, i \in Slots :
       /\ WF_vars(Launch(k, i)) /\ WF_vars(RestartWorker(k, i))
       /\ WF_vars(Worker(k, i))
  /\ \A k \in Kinds : WF_vars(KillWorkers(k)) /\ WF_vars(LaunchEnds(k))
  /\ \A i \in Slots, isLate \in BOOLEAN :
       WF_vars(RegisterSampler(i, isLate)) /\ WF_vars(RegisterLoader(i, isLate))
  /\ \A n \in Slots : WF_vars(CallLoader(n))
  /\ WF_vars(RegisterSquad) /\ WF_vars(DoFails) /\ WF_vars(CompleteTask)
  /\ WF_vars(RestartCoordinator)

-----------------------------------------------------------------------------
(* Properties. *)

\* The shapes of the coordinator's state and of the processes it launched, and
\* that no more workers of a kind are registered than there are addresses.
TypeOK ==
  /\ coord \in [state : {"up", "failed"}, restarts : 0 .. Retry]
  /\ launch \in [Kinds -> [phase : {"no", "kill", "go", "bad"}, left : SUBSET Slots]]
  /\ clients \in [Kinds -> Seq([slot : Slots, alive : BOOLEAN])]
  /\ \A k \in Kinds : Len(clients[k]) <= NumVShards
  /\ run \in [at : {"none", "register", "do"}, action : {"INIT", "GIBBS"},
              calls : [Slots -> {"none", "waiting", "ok", "error"}]]
  /\ proc \in [Kinds -> [Slots -> {"down", "failed", "begun", "connected",
                                   "registering", "refused", "serving"}]]
  /\ retry \in [Kinds -> [Slots -> 0 .. 1]]
  /\ late \in [Kinds -> [Slots -> Nat]]
  /\ job \in [Slots -> SUBSET [call : Slots, chunk : DOMAIN Chunks,
                              sent : BOOLEAN, heard : BOOLEAN]]
  /\ DOMAIN loaded = DOMAIN Chunks
  /\ \A c \in DOMAIN Chunks : loaded[c] \in [1 .. Chunks[c] -> Nat]
  /\ master \in 1 .. Len(Chunks) + 1
  /\ crashes \in [FaultKinds -> Nat]

SlotsOf(k) == {clients[k][n].slot : n \in DOMAIN clients[k]}

\* The coordinator starts run() when all expected loaders have registered
\* themselves (coordinator_service.go 86-89).
AllLoadersRegistered == run.at # "none" => SlotsOf("loader") = Slots

\* It launches the loaders when all expected samplers have registered
\* themselves (coordinator_service.go 118-121).
AllSamplersRegistered ==
  launch["loader"].phase # "no" \/ clients["loader"] # <<>>
    => SlotsOf("sampler") = Slots

\* Both hold as long as nothing fails.  The death of one worker can break
\* either: its call to register is counted although its successor calls again.
CountsStandForWorkers ==
  Unharmed => AllLoadersRegistered /\ AllSamplersRegistered

\* Whatever crashes, the master goes on to the next task only when each shard
\* of the task before was accumulated by the aggregators.
CompletedChunksAreLoaded ==
  \A c \in 1 .. master - 1, i \in Slots : i <= Chunks[c] => loaded[c][i] >= 1

\* Without faults no shard is accumulated twice, which the aggregators would
\* count twice.
LoadedOnce ==
  Unharmed =>
    \A c \in DOMAIN Chunks : \A i \in 1 .. Chunks[c] : loaded[c][i] <= 1

Promise == INSTANCE Loading
             WITH task <- master, lives <- Retry - coord.restarts + 1

\* Whatever dies, and though calls of Loader.Init outlive the coordinators that
\* made them: tasks are done in turn, when all their shards are in, and a shard is
\* accumulated at most once for each start of the coordinator.
IsLoading == Promise!Spec

\* The squad gets through the INIT tasks of the master, however often processes
\* of a kind die, or prism gives up the coordinator.  It ends up waiting for
\* registrations that do not come only if prism has given up a worker, or the
\* launch of one failed: nobody tells the coordinator of either.
LoadsOrGivesUp ==
  <>[](\/ master > Len(Chunks)
       \/ coord.state = "failed" /\ coord.restarts = 0
       \/ \E k \in Kinds, i \in Slots : proc[k][i] = "failed" /\ retry[k][i] = 0
       \/ crashes["launch"] > 0)
=============================================================================
