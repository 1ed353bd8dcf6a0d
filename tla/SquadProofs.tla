----------------------------- MODULE SquadProofs -----------------------------
(***************************************************************************)
(* Theorems about Squad, for every number of workers, every sequence of    *)
(* INIT tasks, any faults, in any number: the shapes of its state, and     *)
(* that the master goes on only from tasks whose shards are loaded.        *)
(*                                                                         *)
(* As long as no process has died (Faultless), registrations stand for     *)
(* workers, as those that serve are registered once and the others are not *)
(* launched yet (Places), and a shard is loaded only once (NotTwice).      *)
(*                                                                         *)
(* Whatever dies, the times that a shard was accumulated and the calls     *)
(* that may accumulate it yet are together at most the lives of the        *)
(* coordinator (LifeInv), and so a squad does what Loading says.           *)
(***************************************************************************)
EXTENDS Squad, FiniteSetTheorems, TLAPS

Jobs == [call : Slots, chunk : DOMAIN Chunks, sent : BOOLEAN, heard : BOOLEAN]
Calls == [Slots -> {"none", "waiting", "ok", "error"}]

\* The call of Loader.Init that a loader serves is for a shard of its chunk; what
\* was sent is accumulated; a caller that still listens waits in the task of now.
JobInv ==
  \A i \in Slots : \A j \in job[i] :
    /\ j.call <= Chunks[j.chunk]
    /\ j.sent => loaded[j.chunk][j.call] >= 1
    /\ j.heard => /\ run.at = "do" /\ run.action = "INIT"
                  /\ j.chunk = master /\ run.calls[j.call] = "waiting"

\* No two loaders answer the same call.
OneAnswer ==
  \A i1, i2 \in Slots : \A j1 \in job[i1], j2 \in job[i2] :
    j1.heard /\ j2.heard /\ j1.call = j2.call => i1 = i2 /\ j1 = j2

\* Coordinator.run: nothing is called before there is a task, no loader registers
\* after it started, and a call that returned well was one whose shard is loaded.
RunInv ==
  /\ run.at # "do" => run.calls = NoCalls
  /\ run.at # "none" => Len(clients["loader"]) = NumVShards
  /\ run.at = "do" => (run.action = "INIT" <=> master \in DOMAIN Chunks)
  /\ \A n \in Slots : run.calls[n] = "ok" =>
       /\ run.at = "do" /\ run.action = "INIT"
       /\ n <= Chunks[master] /\ loaded[master][n] >= 1

Core == JobInv /\ OneAnswer /\ RunInv /\ CompletedChunksAreLoaded

\* TypeOK, by what actions change together.
WorkerStates == {"down", "failed", "begun", "connected", "registering", "refused",
                 "serving"}

CoordType ==
  /\ coord \in [state : {"up", "failed"}, restarts : 0 .. Retry]
  /\ launch \in [Kinds -> [phase : {"no", "kill", "go", "bad"}, left : SUBSET Slots]]
  /\ crashes \in [FaultKinds -> Nat]
ClientType ==
  /\ clients \in [Kinds -> Seq([slot : Slots, alive : BOOLEAN])]
  /\ \A k \in Kinds : Len(clients[k]) <= NumVShards
RunType == run \in [at : {"none", "register", "do"}, action : {"INIT", "GIBBS"},
                    calls : Calls]
ProcType ==
  /\ proc \in [Kinds -> [Slots -> WorkerStates]]
  /\ retry \in [Kinds -> [Slots -> 0 .. 1]]
  /\ late \in [Kinds -> [Slots -> Nat]]
JobType == job \in [Slots -> SUBSET Jobs]
LoadType ==
  /\ DOMAIN loaded = DOMAIN Chunks
  /\ \A c \in DOMAIN Chunks : loaded[c] \in [1 .. Chunks[c] -> Nat]
  /\ master \in 1 .. Len(Chunks) + 1

Types == CoordType /\ ClientType /\ RunType /\ ProcType /\ JobType /\ LoadType

\* The inductive invariant.
IInv == Types /\ Core

-----------------------------------------------------------------------------
\* TypeOK is the conjunction of its parts.
LEMMA TypeParts == TypeOK <=> Types
  BY DEF TypeOK, Types, CoordType, ClientType, RunType, ProcType, JobType, LoadType,
         WorkerStates, Jobs, Calls

\* The tasks of the master: each has at least one shard and at most one for each
\* loader.
LEMMA ChunkFacts ==
  /\ NumVShards \in Nat /\ NumVShards > 0 /\ Slots = 1 .. NumVShards
  /\ Len(Chunks) \in Nat /\ DOMAIN Chunks = 1 .. Len(Chunks)
  /\ \A c \in DOMAIN Chunks : Chunks[c] \in Slots
<1>1. NumVShards \in Nat /\ NumVShards > 0 /\ Slots = 1 .. NumVShards
  BY SquadAssumption DEF Slots
<1>2. Chunks \in Seq(Slots)
  BY SquadAssumption
<1>3. QED
  BY <1>1, <1>2

\* A fault that happens is counted.
LEMMA FaultsCount ==
  IInv => \A what : CanCrash(what) => crashes' \in [FaultKinds -> Nat] /\ ~ Unharmed'
<1> SUFFICES ASSUME IInv, NEW what, CanCrash(what)
             PROVE  crashes' \in [FaultKinds -> Nat] /\ ~ Unharmed'
  OBVIOUS
<1>1. crashes \in [FaultKinds -> Nat] /\ what \in FaultKinds
  BY SquadAssumption DEF IInv, Types, CoordType, CanCrash
<1>2. crashes' = [crashes EXCEPT ![what] = crashes[what] + 1]
  BY DEF CanCrash
<1>3. crashes'[what] # 0
  BY <1>1, <1>2
<1> QED  BY <1>1, <1>2, <1>3 DEF Unharmed

\* Steps that touch neither the run nor the loading keep what is known of them.
LEMMA CoreFrame ==
  ASSUME Core, UNCHANGED <<run, job, loaded, master>>,
         Len(clients'["loader"]) = Len(clients["loader"])
  PROVE  Core'
<1>1. JobInv' /\ OneAnswer' /\ CompletedChunksAreLoaded'
  BY DEF Core, JobInv, OneAnswer, CompletedChunksAreLoaded
<1>2. RunInv'
  BY DEF Core, RunInv
<1>3. QED
  BY <1>1, <1>2 DEF Core

\* A run that ends, with the jobs of its loaders dropped or unheard.
LEMMA RunEnds ==
  ASSUME IInv, run' = NoRun, UNCHANGED <<loaded, master>>,
         \A i \in Slots : \A x \in job'[i] :
           \E j \in job[i] : x = [j EXCEPT !.heard = FALSE]
  PROVE  RunType' /\ LoadType' /\ Core'
<1>1. RunType' /\ LoadType'
  BY DEF IInv, Types, RunType, LoadType, NoRun, NoCalls, Calls
<1>2. \A i \in Slots : \A x \in job'[i] :
        ~ x.heard /\ \E j \in job[i] : x.call = j.call /\ x.chunk = j.chunk /\ x.sent = j.sent
  BY DEF IInv, Types, JobType, Jobs
<1>3. JobInv'
  BY <1>2 DEF IInv, Core, JobInv
<1>4. OneAnswer'
  BY <1>2 DEF OneAnswer
<1>5. RunInv' /\ CompletedChunksAreLoaded'
  BY DEF IInv, Core, RunInv, CompletedChunksAreLoaded, NoRun, NoCalls
<1>6. QED
  BY <1>1, <1>3, <1>4, <1>5 DEF Core

\* The coordinator fails and leaves its workers.
LEMMA ExitsKeeps ==
  ASSUME IInv, CoordinatorExits, UNCHANGED <<retry, loaded, master>>, crashes' \in [FaultKinds -> Nat]
  PROVE  IInv'
<1>1. /\ coord' = [coord EXCEPT !.state = "failed"]
      /\ launch' = NoLaunch /\ clients' = [k \in Kinds |-> <<>>]
      /\ run' = NoRun /\ late' = None
      /\ proc' = [k \in Kinds |-> [i \in Slots |->
                    IF proc[k][i] = "registering" THEN "refused" ELSE proc[k][i]]]
      /\ job' = [i \in Slots |-> {[j EXCEPT !.heard = FALSE] : j \in job[i]}]
  BY DEF CoordinatorExits
<1>2. CoordType'
  BY <1>1 DEF IInv, Types, CoordType, NoLaunch
<1>3. ClientType'
  BY <1>1, ChunkFacts DEF ClientType
<1>4. ProcType'
  BY <1>1 DEF IInv, Types, ProcType, WorkerStates, None
<1>5. JobType'
  BY <1>1 DEF IInv, Types, JobType, Jobs
<1>6. RunType' /\ LoadType' /\ Core'
  BY <1>1, RunEnds
<1>7. QED
  BY <1>2, <1>3, <1>4, <1>5, <1>6 DEF IInv, Types

\* RunCoordinator returns and kills its workers.
LEMMA ReturnsKeeps ==
  ASSUME IInv, CoordinatorReturns, UNCHANGED <<retry, loaded, master>>, crashes' \in [FaultKinds -> Nat]
  PROVE  IInv'
<1>1. /\ coord' = [coord EXCEPT !.state = "failed"]
      /\ launch' = NoLaunch /\ clients' = [k \in Kinds |-> <<>>]
      /\ run' = NoRun /\ late' = None
      /\ proc' = [k \in Kinds |-> [i \in Slots |-> "down"]]
      /\ job' = [i \in Slots |-> {}]
  BY DEF CoordinatorReturns
<1>2. CoordType'
  BY <1>1 DEF IInv, Types, CoordType, NoLaunch
<1>3. ClientType'
  BY <1>1, ChunkFacts DEF ClientType
<1>4. ProcType'
  BY <1>1 DEF IInv, Types, ProcType, WorkerStates, None
<1>5. JobType'
  BY <1>1 DEF JobType
<1>6. RunType' /\ LoadType' /\ Core'
  BY <1>1, RunEnds
<1>7. QED
  BY <1>2, <1>3, <1>4, <1>5, <1>6 DEF IInv, Types
\* Workers of one kind end.  The calls that end with loaders become errors.
LEMMA EndWorkersKeeps ==
  ASSUME IInv, NEW k \in Kinds, NEW S \in SUBSET Slots, NEW to \in WorkerStates,
         EndWorkers(k, S, to), UNCHANGED <<retry, loaded, master>>
  PROVE  ClientType' /\ RunType' /\ ProcType' /\ JobType' /\ LoadType' /\ Core'
<1> DEFINE s == [n \in DOMAIN clients[k] |->
                  [slot |-> clients[k][n].slot,
                   alive |-> clients[k][n].alive /\ clients[k][n].slot \notin S]]
<1>1. /\ proc' = [proc EXCEPT ![k] = [i \in Slots |-> IF i \in S THEN to ELSE proc[k][i]]]
      /\ late' = [late EXCEPT ![k] = [i \in Slots |->
            IF i \in S /\ proc[k][i] = "registering" THEN late[k][i] + 1 ELSE late[k][i]]]
      /\ clients' = [clients EXCEPT ![k] = s]
  BY DEF EndWorkers
<1>2. ProcType'
  BY <1>1 DEF IInv, Types, ProcType, WorkerStates
<1>3. ClientType' /\ \A m \in Kinds : Len(clients'[m]) = Len(clients[m])
  <2> DEFINE C == [slot : Slots, alive : BOOLEAN]
  <2>1. clients \in [Kinds -> Seq(C)] /\ \A m \in Kinds : Len(clients[m]) <= NumVShards
    BY DEF IInv, Types, ClientType
  <2>2. clients[k] \in Seq(C)
    BY <2>1
  <2>3. DOMAIN clients[k] = 1 .. Len(clients[k]) /\ Len(clients[k]) \in Nat
        /\ \A n \in DOMAIN clients[k] : clients[k][n] \in C
    <3> HIDE DEF C
    <3>1. QED
      BY <2>2
  <2>4. \A n \in DOMAIN clients[k] : s[n] \in C
    <3>1. TAKE n \in DOMAIN clients[k]
    <3>2. clients[k][n].slot \in Slots
      BY <2>3
    <3>3. (clients[k][n].alive /\ clients[k][n].slot \notin S) \in BOOLEAN
      BY Zenon
    <3>4. QED
      BY <3>2, <3>3, Zenon
  <2>5. s \in Seq(C) /\ Len(s) = Len(clients[k])
    <3>1. DOMAIN s = 1 .. Len(clients[k]) /\ s = [n \in 1 .. Len(clients[k]) |-> s[n]]
      BY <2>3
    <3> HIDE DEF s, C
    <3>2. QED
      BY <3>1, <2>3, <2>4
  <2> HIDE DEF s, C
  <2>6. QED
    BY <2>1, <2>5, <1>1 DEF ClientType, C
<1> HIDE DEF s
<1>4. LoadType'
  BY DEF IInv, Types, LoadType
<1>5. CASE k = "sampler"
  <2>1. UNCHANGED <<job, run>>
    BY <1>5 DEF EndWorkers
  <2>2. RunType' /\ JobType'
    BY <2>1 DEF IInv, Types, RunType, JobType
  <2>3. Core'
    BY <1>3, <2>1, CoreFrame DEF IInv, Kinds
  <2>4. QED
    BY <1>2, <1>3, <1>4, <2>2, <2>3
<1>6. CASE k = "loader"
  <2> DEFINE lost == UNION {{j.call : j \in {x \in job[i] : x.heard}} : i \in S}
  <2>1. /\ job' = [i \in Slots |-> IF i \in S THEN {} ELSE job[i]]
        /\ run' = [run EXCEPT !.calls = [n \in Slots |->
                     IF n \in lost THEN "error" ELSE run.calls[n]]]
    BY <1>6 DEF EndWorkers
  <2>2. \A n \in lost : \E i \in S : \E j \in job[i] : j.heard /\ j.call = n
    OBVIOUS
  <2> HIDE DEF lost
  <2>3. RunType' /\ JobType'
    BY <2>1 DEF IInv, Types, RunType, JobType, Calls
  <2>4. /\ run'.at = run.at /\ run'.action = run.action
        /\ \A n \in Slots : run'.calls[n] = IF n \in lost THEN "error" ELSE run.calls[n]
    BY <2>1 DEF IInv, Types, RunType, Calls
  <2>5. OneAnswer'
    BY <2>1 DEF IInv, Core, OneAnswer
  <2>6. JobInv'
    <3> SUFFICES ASSUME NEW i \in Slots, NEW j \in job'[i]
                 PROVE  /\ j.call <= Chunks[j.chunk]
                        /\ j.sent => loaded[j.chunk][j.call] >= 1
                        /\ j.heard => /\ run'.at = "do" /\ run'.action = "INIT"
                                      /\ j.chunk = master /\ run'.calls[j.call] = "waiting"
      BY DEF JobInv
    <3>1. i \notin S /\ j \in job[i] /\ j.call \in Slots
      BY <2>1 DEF IInv, Types, JobType, Jobs
    <3>2. j.heard => j.call \notin lost
      BY <3>1, <2>2 DEF IInv, Core, OneAnswer
    <3>3. QED
      BY <3>1, <3>2, <2>4 DEF IInv, Core, JobInv
  <2>7. RunInv'
    <3>1. lost \subseteq Slots
      BY <2>2 DEF IInv, Types, JobType, Jobs
    <3>2. run.at # "do" => lost = {}
      BY <2>2 DEF IInv, Core, JobInv
    <3>3. run'.at # "do" => run'.calls = NoCalls
      BY <2>1, <2>4, <3>2 DEF IInv, Core, RunInv, Types, RunType, Calls, NoCalls
    <3>4. QED
      BY <2>4, <3>3, <1>3 DEF IInv, Core, RunInv, Kinds
  <2>8. CompletedChunksAreLoaded'
    BY DEF IInv, Core, CompletedChunksAreLoaded
  <2>9. QED
    BY <1>2, <1>3, <1>4, <2>3, <2>5, <2>6, <2>7, <2>8 DEF Core
<1>7. QED
  BY <1>5, <1>6 DEF Kinds

-----------------------------------------------------------------------------
(* Every action keeps the inductive invariant. *)

\* At first.
LEMMA InitIInv == Init => IInv
<1> SUFFICES ASSUME Init PROVE IInv
  OBVIOUS
<1>1. CoordType
  <2>1. Retry \in Nat
    BY SquadAssumption
  <2>2. coord \in [state : {"up", "failed"}, restarts : 0 .. Retry]
    BY <2>1 DEF Init
  <2>3. launch \in [Kinds -> [phase : {"no", "kill", "go", "bad"}, left : SUBSET Slots]]
    BY DEF Init, NoLaunch, Kinds
  <2>4. QED
    BY <2>2, <2>3 DEF Init, CoordType, Unharmed
<1>2. ClientType
  BY ChunkFacts DEF Init, ClientType
<1>3. RunType
  BY DEF Init, RunType, NoRun, NoCalls, Calls
<1>4. ProcType /\ JobType
  BY DEF Init, ProcType, JobType, None, WorkerStates
<1>5. LoadType
  BY ChunkFacts DEF Init, LoadType
<1>6. Core
  BY ChunkFacts DEF Init, Core, JobInv, OneAnswer, RunInv, CompletedChunksAreLoaded,
                    NoRun, NoCalls
<1>7. QED
  BY <1>1, <1>2, <1>3, <1>4, <1>5, <1>6 DEF IInv, Types

\* Crashes, and what prism restarts.
LEMMA CrashIInv ==
  ASSUME IInv, CoordinatorCrash \/ CoordinatorInterrupt
  PROVE  IInv'
<1>1. crashes' \in [FaultKinds -> Nat]
  BY FaultsCount DEF CoordinatorCrash, CoordinatorInterrupt
<1>2. QED
  BY <1>1, ExitsKeeps, ReturnsKeeps DEF CoordinatorCrash, CoordinatorInterrupt

LEMMA WorkerCrashIInv ==
  ASSUME IInv, NEW k \in Kinds, NEW i \in Slots, WorkerCrash(k, i) \/ Leave(k, i)
  PROVE  IInv'
<1>1. PICK to \in WorkerStates : EndWorkers(k, {i}, to)
  BY DEF WorkerCrash, Leave, Outcast, WorkerStates
<1>2. UNCHANGED <<coord, launch, retry, loaded, master>> /\ crashes' \in [FaultKinds -> Nat]
  BY FaultsCount DEF WorkerCrash, Leave, IInv, Types, CoordType
<1>3. ClientType' /\ RunType' /\ ProcType' /\ JobType' /\ LoadType' /\ Core'
  BY <1>1, <1>2, EndWorkersKeeps
<1>4. CoordType'
  BY <1>2 DEF IInv, Types, CoordType
<1>5. QED
  BY <1>3, <1>4 DEF IInv, Types

\* Steps of prism, of a launch, and of workers on their way to their registration
\* change neither the run nor the loading.
LEMMA QuietIInv ==
  ASSUME IInv, CoordType', ProcType', UNCHANGED <<clients, run, job, loaded, master>>
  PROVE  IInv'
<1>1. ClientType' /\ RunType' /\ JobType' /\ LoadType'
  BY DEF IInv, Types, ClientType, RunType, JobType, LoadType
<1>2. Core'
  BY CoreFrame DEF IInv
<1>3. QED
  BY <1>1, <1>2 DEF IInv, Types

LEMMA RestartIInv ==
  ASSUME IInv, RestartCoordinator \/ \E k \in Kinds, i \in Slots : RestartWorker(k, i)
  PROVE  IInv'
<1>1. CASE RestartCoordinator
  <2>1. Retry \in Nat
    BY SquadAssumption
  <2>2. CoordType'
    BY <1>1, <2>1 DEF RestartCoordinator, IInv, Types, CoordType, NoLaunch, Kinds
  <2>3. ProcType'
    BY <1>1 DEF RestartCoordinator, IInv, Types, ProcType
  <2>4. QED
    BY <1>1, <2>2, <2>3, QuietIInv DEF RestartCoordinator
<1>2. ASSUME NEW k \in Kinds, NEW i \in Slots, RestartWorker(k, i) PROVE IInv'
  <2>1. CoordType'
    BY <1>2 DEF RestartWorker, IInv, Types, CoordType
  <2>2. ProcType'
    BY <1>2 DEF RestartWorker, IInv, Types, ProcType, WorkerStates
  <2>3. QED
    BY <1>2, <2>1, <2>2, QuietIInv DEF RestartWorker
<1>3. QED
  BY <1>1, <1>2

LEMMA WorkerStartIInv ==
  ASSUME IInv, NEW k \in Kinds, NEW i \in Slots,
         DialCoordinator(k, i) \/ (k = "loader" /\ ConnectToSamplers(i))
  PROVE  IInv'
<1>1. /\ UNCHANGED <<coord, launch, crashes, retry, late>>
      /\ UNCHANGED <<clients, run, job, loaded, master>>
      /\ \E to \in WorkerStates : proc' = [proc EXCEPT ![k][i] = to]
  BY DEF DialCoordinator, ConnectToSamplers, Outcast, WorkerStates
<1>2. CoordType'
  BY <1>1 DEF IInv, Types, CoordType
<1>3. ProcType'
  BY <1>1 DEF IInv, Types, ProcType
<1>4. QED
  BY <1>1, <1>2, <1>3, QuietIInv

\* LaunchWorkers.
LEMMA LaunchWorkersIInv ==
  ASSUME IInv, NEW k \in Kinds, LaunchWorkers(k)
  PROVE  IInv'
<1>1. CASE KillWorkers(k)
  <2>1. /\ EndWorkers(k, Slots, "down") /\ UNCHANGED <<coord, retry, loaded, master, crashes>>
        /\ launch' = [launch EXCEPT ![k] = [phase |-> "go", left |-> Slots]]
    BY <1>1 DEF KillWorkers
  <2>2. ClientType' /\ RunType' /\ ProcType' /\ JobType' /\ LoadType' /\ Core'
    BY <2>1, EndWorkersKeeps DEF WorkerStates
  <2>3. CoordType'
    BY <2>1 DEF IInv, Types, CoordType
  <2>4. QED
    BY <2>2, <2>3 DEF IInv, Types
<1>2. CASE LaunchEnds(k)
  <2>1. CASE CoordinatorReturns /\ UNCHANGED <<retry, loaded, master, crashes>>
    BY <2>1, ReturnsKeeps DEF IInv, Types, CoordType
  <2>2. CASE /\ launch' = [launch EXCEPT ![k].phase = "no"]
             /\ UNCHANGED <<coord, clients, run, proc, late, job>>
             /\ UNCHANGED <<retry, loaded, master, crashes>>
    <3>1. CoordType' /\ ProcType'
      BY <2>2 DEF IInv, Types, CoordType, ProcType
    <3>2. QED
      BY <2>2, <3>1, QuietIInv
  <2>3. QED
    BY <1>2, <2>1, <2>2 DEF LaunchEnds
<1>3. ASSUME NEW i \in Slots, Launch(k, i) PROVE IInv'
  <2>1. CoordType'
    BY <1>3 DEF Launch, IInv, Types, CoordType
  <2>2. ProcType'
    BY <1>3 DEF Launch, IInv, Types, ProcType, WorkerStates
  <2>3. QED
    BY <1>3, <2>1, <2>2, QuietIInv DEF Launch
<1>4. ASSUME NEW i \in Slots, LaunchFails(k, i) PROVE IInv'
  <2>1. launch' = [launch EXCEPT ![k] = [phase |-> "bad", left |-> launch[k].left \ {i}]]
    BY <1>4 DEF LaunchFails
  <2>2. CoordType'
    BY <1>4, <2>1, FaultsCount DEF LaunchFails, IInv, Types, CoordType
  <2>3. ProcType'
    BY <1>4 DEF LaunchFails, IInv, Types, ProcType
  <2>4. QED
    BY <1>4, <2>2, <2>3, QuietIInv DEF LaunchFails
<1>5. QED
  BY <1>1, <1>2, <1>3, <1>4 DEF LaunchWorkers

\* The registration that is served leaves one caller less.
LEMMA AnswerType ==
  ASSUME IInv, NEW k \in Kinds, NEW i \in Slots, NEW isLate \in BOOLEAN,
         NEW reply \in WorkerStates, Arrives(k, i, isLate), Answer(k, i, isLate, reply),
         UNCHANGED retry
  PROVE  ProcType'
<1>1. CASE isLate
  <2>1. late' = [late EXCEPT ![k][i] = late[k][i] - 1] /\ UNCHANGED proc /\ late[k][i] > 0
    BY <1>1 DEF Answer, Arrives
  <2>2. QED
    BY <2>1 DEF IInv, Types, ProcType
<1>2. CASE ~ isLate
  <2>1. proc' = [proc EXCEPT ![k][i] = reply] /\ UNCHANGED late
    BY <1>2 DEF Answer
  <2>2. QED
    BY <2>1 DEF IInv, Types, ProcType
<1>3. QED
  BY <1>1, <1>2

\* There is room for the worker that is registered.
LEMMA RegisteredType ==
  ASSUME IInv, NEW k \in Kinds, NEW i \in Slots, Len(clients[k]) < NumVShards,
         clients' = [clients EXCEPT ![k] = Registered(k, i)]
  PROVE  /\ ClientType'
         /\ Len(clients'[k]) = Len(clients[k]) + 1
         /\ \A m \in Kinds \ {k} : clients'[m] = clients[m]
<1> DEFINE C == [slot : Slots, alive : BOOLEAN]
<1>1. clients \in [Kinds -> Seq(C)] /\ \A m \in Kinds : Len(clients[m]) <= NumVShards
  BY DEF IInv, Types, ClientType
<1>2. clients[k] \in Seq(C) /\ [slot |-> i, alive |-> TRUE] \in C
  BY <1>1
<1>3. Registered(k, i) \in Seq(C) /\ Len(Registered(k, i)) = Len(clients[k]) + 1
  BY <1>2 DEF Registered
<1>4. Len(clients[k]) \in Nat /\ NumVShards \in Nat
  BY <1>2, ChunkFacts
<1> DEFINE R == Registered(k, i)
<1> HIDE DEF C, R
<1>5. clients' = [clients EXCEPT ![k] = R] /\ R \in Seq(C) /\ Len(R) = Len(clients[k]) + 1
  BY <1>3 DEF R
<1>6. clients' \in [Kinds -> Seq(C)] /\ clients'[k] = R
      /\ \A m \in Kinds \ {k} : clients'[m] = clients[m]
  BY <1>1, <1>5
<1>7. \A m \in Kinds : Len(clients'[m]) <= NumVShards
  BY <1>1, <1>4, <1>5, <1>6
<1>8. QED
  BY <1>5, <1>6, <1>7 DEF ClientType, C

\* RegisterSampler: a sampler more, or the end of the coordinator.
LEMMA RegisterSamplerIInv ==
  ASSUME IInv, NEW i \in Slots, NEW isLate \in BOOLEAN, RegisterSampler(i, isLate)
  PROVE  IInv'
<1>1. /\ Arrives("sampler", i, isLate) /\ UNCHANGED <<retry, loaded, master, crashes>>
      /\ \/ CoordinatorExits
         \/ /\ ~ (Len(clients["sampler"]) >= NumVShards)
            /\ clients' = [clients EXCEPT !["sampler"] = Registered("sampler", i)]
            /\ launch' \in {launch, [launch EXCEPT !["loader"].phase = "kill"]}
            /\ Answer("sampler", i, isLate, "serving")
            /\ UNCHANGED <<coord, run, job>>
  BY DEF RegisterSampler
<1>2. CASE CoordinatorExits
  BY <1>1, <1>2, ExitsKeeps DEF IInv, Types, CoordType
<1>3. CASE /\ ~ (Len(clients["sampler"]) >= NumVShards)
           /\ clients' = [clients EXCEPT !["sampler"] = Registered("sampler", i)]
           /\ launch' \in {launch, [launch EXCEPT !["loader"].phase = "kill"]}
           /\ Answer("sampler", i, isLate, "serving")
           /\ UNCHANGED <<coord, run, job>>
  <2>1. "sampler" \in Kinds /\ "loader" \in Kinds /\ "serving" \in WorkerStates
    BY DEF Kinds, WorkerStates
  <2>2. Len(clients["sampler"]) < NumVShards
    <3>1. clients["sampler"] \in Seq([slot : Slots, alive : BOOLEAN])
      BY <2>1 DEF IInv, Types, ClientType
    <3>2. Len(clients["sampler"]) \in Nat /\ NumVShards \in Nat
      BY <3>1, ChunkFacts
    <3>3. QED
      BY <1>3, <3>2
  <2>3. ClientType' /\ clients'["loader"] = clients["loader"]
    BY <1>3, <2>1, <2>2, RegisteredType
  <2>4. ProcType'
    BY <1>1, <1>3, <2>1, AnswerType
  <2>5. CoordType'
    BY <1>1, <1>3 DEF IInv, Types, CoordType
  <2>6. RunType' /\ JobType' /\ LoadType'
    BY <1>1, <1>3 DEF IInv, Types, RunType, JobType, LoadType
  <2>7. Core'
    BY <1>1, <1>3, <2>3, CoreFrame DEF IInv
  <2>8. QED
    BY <2>3, <2>4, <2>5, <2>6, <2>7 DEF IInv, Types
<1>4. QED
  BY <1>1, <1>2, <1>3

\* A run that is not at work may be set to wait for the master: nothing has been
\* called yet.
LEMMA RunBegins ==
  ASSUME IInv, run.at # "do", run'.at # "do", run'.calls = run.calls,
         UNCHANGED <<job, loaded, master>>,
         run'.at # "none" => Len(clients'["loader"]) = NumVShards
  PROVE  Core'
<1>1. \A i \in Slots : \A j \in job[i] : ~ j.heard
  BY DEF IInv, Core, JobInv
<1>2. JobInv' /\ OneAnswer'
  BY <1>1 DEF IInv, Core, JobInv, OneAnswer
<1>3. RunInv' /\ CompletedChunksAreLoaded'
  BY DEF IInv, Core, RunInv, CompletedChunksAreLoaded, NoCalls
<1>4. QED
  BY <1>2, <1>3 DEF Core

\* RegisterLoader: the last loader sets the coordinator to work.
LEMMA RegisterLoaderIInv ==
  ASSUME IInv, NEW i \in Slots, NEW isLate \in BOOLEAN, RegisterLoader(i, isLate)
  PROVE  IInv'
<1>1. /\ Arrives("loader", i, isLate)
      /\ UNCHANGED <<coord, launch, retry, job, loaded, master, crashes>>
      /\ \/ Answer("loader", i, isLate, "refused") /\ UNCHANGED <<clients, run>>
         \/ /\ ~ (Len(clients["loader"]) >= NumVShards)
            /\ clients' = [clients EXCEPT !["loader"] = Registered("loader", i)]
            /\ run' = IF Len(clients'["loader"]) >= NumVShards
                      THEN [run EXCEPT !.at = "register"] ELSE run
            /\ Answer("loader", i, isLate, "serving")
  BY DEF RegisterLoader
<1>2. "loader" \in Kinds /\ "serving" \in WorkerStates /\ "refused" \in WorkerStates
  BY DEF Kinds, WorkerStates
<1>3. CoordType' /\ JobType' /\ LoadType'
  BY <1>1 DEF IInv, Types, CoordType, JobType, LoadType
<1>4. CASE Answer("loader", i, isLate, "refused") /\ UNCHANGED <<clients, run>>
  <2>1. ProcType'
    BY <1>1, <1>2, <1>4, AnswerType
  <2>2. QED
    BY <1>1, <1>3, <1>4, <2>1, QuietIInv
<1>5. CASE /\ ~ (Len(clients["loader"]) >= NumVShards)
           /\ clients' = [clients EXCEPT !["loader"] = Registered("loader", i)]
           /\ run' = IF Len(clients'["loader"]) >= NumVShards
                     THEN [run EXCEPT !.at = "register"] ELSE run
           /\ Answer("loader", i, isLate, "serving")
  <2>1. Len(clients["loader"]) \in Nat /\ NumVShards \in Nat
    <3>1. clients["loader"] \in Seq([slot : Slots, alive : BOOLEAN])
      BY <1>2 DEF IInv, Types, ClientType
    <3>2. QED
      BY <3>1, ChunkFacts
  <2>2. Len(clients["loader"]) < NumVShards
    BY <1>5, <2>1
  <2>3. ClientType' /\ Len(clients'["loader"]) = Len(clients["loader"]) + 1
    BY <1>2, <1>5, <2>2, RegisteredType
  <2>4. ProcType'
    BY <1>1, <1>2, <1>5, AnswerType
  <2>5. run.at = "none"
    BY <2>1, <2>2 DEF IInv, Core, RunInv
  <2>6. CASE Len(clients'["loader"]) >= NumVShards
    <3>1. run' = [run EXCEPT !.at = "register"] /\ Len(clients'["loader"]) = NumVShards
      BY <1>5, <2>1, <2>2, <2>3, <2>6
    <3>2. RunType' /\ run'.at = "register" /\ run'.calls = run.calls
      BY <3>1 DEF IInv, Types, RunType
    <3>3. Core'
      BY <1>1, <2>5, <3>1, <3>2, RunBegins
    <3>4. QED
      BY <1>3, <2>3, <2>4, <3>2, <3>3 DEF IInv, Types
  <2>7. CASE ~ (Len(clients'["loader"]) >= NumVShards)
    <3>1. run' = run
      BY <1>5, <2>7
    <3>2. RunType'
      BY <3>1 DEF IInv, Types, RunType
    <3>3. Core'
      BY <1>1, <2>5, <3>1, RunBegins
    <3>4. QED
      BY <1>3, <2>3, <2>4, <3>2, <3>3 DEF IInv, Types
  <2>8. QED
    BY <2>6, <2>7
<1>6. QED
  BY <1>1, <1>4, <1>5

\* The task that the master gives out is of its chunk, or there is no chunk left.
LEMMA NextTaskType ==
  ASSUME NEW c \in 1 .. Len(Chunks) + 1
  PROVE  /\ NextTask(c) \in [at : {"none", "register", "do"}, action : {"INIT", "GIBBS"},
                             calls : Calls]
         /\ NextTask(c).at = "do" /\ NextTask(c).calls = NoCalls
         /\ NextTask(c).action = "INIT" <=> c \in DOMAIN Chunks
<1>1. c \in DOMAIN Chunks <=> c <= Len(Chunks)
  BY ChunkFacts
<1>2. QED
  BY <1>1 DEF NextTask, NoCalls, Calls

\* RegisterSquad and do, when the run ends or a task begins.
LEMMA RegisterSquadIInv ==
  ASSUME IInv, RegisterSquad \/ DoFails
  PROVE  IInv'
<1>1. CASE CoordinatorExits /\ UNCHANGED <<retry, loaded, master>> /\ crashes' \in [FaultKinds -> Nat]
  BY <1>1, ExitsKeeps
<1>2. CASE /\ run.at = "register" /\ run' = NextTask(master)
           /\ UNCHANGED <<coord, launch, clients, proc, late, job, crashes>>
           /\ UNCHANGED <<retry, loaded, master>>
  <2>1. /\ RunType' /\ run'.at = "do" /\ run'.calls = NoCalls
        /\ run'.action = "INIT" <=> master \in DOMAIN Chunks
    BY <1>2, NextTaskType DEF IInv, Types, LoadType, RunType
  <2>2. CoordType' /\ ClientType' /\ ProcType' /\ JobType' /\ LoadType'
    BY <1>2 DEF IInv, Types, CoordType, ClientType, ProcType, JobType, LoadType
  <2>3. JobInv' /\ OneAnswer' /\ CompletedChunksAreLoaded'
    BY <1>2 DEF IInv, Core, JobInv, OneAnswer, CompletedChunksAreLoaded
  <2>4. RunInv'
    BY <1>2, <2>1 DEF IInv, Core, RunInv, NoCalls
  <2>5. QED
    BY <2>1, <2>2, <2>3, <2>4 DEF IInv, Types, Core
<1>3. QED
  BY <1>1, <1>2, FaultsCount DEF RegisterSquad, DoFails, IInv, Types, CoordType

\* The coordinator calls the n-th loader, or learns that it is dead.
LEMMA CallLoaderIInv ==
  ASSUME IInv, NEW n \in Slots, CallLoader(n)
  PROVE  IInv'
<1> DEFINE c == clients["loader"][n]
           x == [call |-> n, chunk |-> master, sent |-> FALSE, heard |-> TRUE]
<1>1. /\ run.at = "do" /\ run.action = "INIT" /\ n <= Chunks[master] /\ run.calls[n] = "none"
      /\ UNCHANGED <<coord, launch, clients, proc, retry, late, loaded, master, crashes>>
      /\ \/ /\ run' = [run EXCEPT !.calls[n] = "waiting"]
            /\ job' = [job EXCEPT ![c.slot] = job[c.slot] \cup {x}]
         \/ run' = [run EXCEPT !.calls[n] = "error"] /\ UNCHANGED job
  BY DEF CallLoader
<1>2. master \in DOMAIN Chunks /\ Len(clients["loader"]) = NumVShards
  BY <1>1 DEF IInv, Core, RunInv
<1>3. c.slot \in Slots
  <2> DEFINE C == [slot : Slots, alive : BOOLEAN]
  <2>1. clients["loader"] \in Seq(C)
    BY DEF IInv, Types, ClientType, Kinds
  <2>2. n \in 1 .. Len(clients["loader"])
    BY <1>2, ChunkFacts
  <2>3. c \in C
    <3> HIDE DEF C
    <3>1. QED
      BY <2>1, <2>2
  <2>4. QED
    BY <2>3
<1>4. CoordType' /\ ClientType' /\ ProcType' /\ LoadType' /\ CompletedChunksAreLoaded'
  BY <1>1 DEF IInv, Types, CoordType, ClientType, ProcType, LoadType, Core,
              CompletedChunksAreLoaded
<1>5. /\ RunType' /\ run'.at = "do" /\ run'.action = "INIT"
      /\ run'.calls[n] # "ok"
      /\ \A m \in Slots \ {n} : run'.calls[m] = run.calls[m]
  BY <1>1 DEF IInv, Types, RunType, Calls
<1>6. RunInv'
  BY <1>1, <1>2, <1>5 DEF IInv, Core, RunInv
<1>7. \A i \in Slots : \A j \in job[i] : j.heard => j.call # n
  BY <1>1 DEF IInv, Core, JobInv
<1>8. \A i \in Slots : \A j \in job[i] : j.call \in Slots
  BY DEF IInv, Types, JobType, Jobs
<1>9. CASE run' = [run EXCEPT !.calls[n] = "waiting"]
           /\ job' = [job EXCEPT ![c.slot] = job[c.slot] \cup {x}]
  <2> DEFINE d == c.slot
  <2>1. x \in Jobs
    BY <1>2 DEF Jobs
  <2>2. d \in Slots /\ job' = [job EXCEPT ![d] = job[d] \cup {x}]
        /\ run'.calls[n] = "waiting"
    BY <1>3, <1>9 DEF IInv, Types, RunType, Calls
  <2> HIDE DEF d
  <2>3. JobType' /\ \A i \in Slots : job'[i] = IF i = d THEN job[i] \cup {x} ELSE job[i]
    BY <2>1, <2>2 DEF IInv, Types, JobType
  <2>4. JobInv'
    <3> SUFFICES ASSUME NEW i \in Slots, NEW j \in job'[i]
                 PROVE  /\ j.call <= Chunks[j.chunk]
                        /\ j.sent => loaded[j.chunk][j.call] >= 1
                        /\ j.heard => /\ run'.at = "do" /\ run'.action = "INIT"
                                      /\ j.chunk = master /\ run'.calls[j.call] = "waiting"
      BY <1>1 DEF JobInv
    <3>1. CASE j = x
      BY <3>1, <1>1, <1>5, <2>2
    <3>2. CASE j \in job[i]
      BY <3>2, <1>5, <1>7, <1>8 DEF IInv, Core, JobInv
    <3>3. QED
      BY <3>1, <3>2, <2>3
  <2>5. OneAnswer'
    <3> SUFFICES ASSUME NEW i1 \in Slots, NEW i2 \in Slots,
                        NEW j1 \in job'[i1], NEW j2 \in job'[i2],
                        j1.heard, j2.heard, j1.call = j2.call
                 PROVE  i1 = i2 /\ j1 = j2
      BY DEF OneAnswer
    <3>1. (j1 = x /\ i1 = d) \/ j1 \in job[i1]
      BY <2>3
    <3>2. (j2 = x /\ i2 = d) \/ j2 \in job[i2]
      BY <2>3
    <3>3. x.call = n
      OBVIOUS
    <3> HIDE DEF x
    <3>4. CASE j1 \in job[i1] /\ j2 \in job[i2]
      BY <3>4 DEF IInv, Core, OneAnswer
    <3>5. CASE j1 = x /\ j2 \in job[i2]
      BY <3>3, <3>5, <1>7
    <3>6. CASE j1 \in job[i1] /\ j2 = x
      BY <3>3, <3>6, <1>7
    <3>7. QED
      BY <3>1, <3>2, <3>4, <3>5, <3>6
  <2>6. QED
    BY <1>4, <1>5, <1>6, <2>3, <2>4, <2>5 DEF IInv, Types, Core
<1>10. CASE UNCHANGED job
  <2>1. JobType' /\ OneAnswer'
    BY <1>10 DEF IInv, Types, JobType, Core, OneAnswer
  <2>2. JobInv'
    BY <1>1, <1>5, <1>7, <1>8, <1>10 DEF IInv, Core, JobInv
  <2>3. QED
    BY <1>4, <1>5, <1>6, <2>1, <2>2 DEF IInv, Types, Core
<1>11. QED
  BY <1>1, <1>9, <1>10

\* The aggregators have got the model of the shard.
LEMMA AccumulateIInv ==
  ASSUME IInv, NEW i \in Slots, NEW j \in job[i], Accumulate(i, j)
  PROVE  IInv'
<1> DEFINE y == [j EXCEPT !.sent = TRUE]
<1>1. /\ loaded' = [loaded EXCEPT ![j.chunk][j.call] = loaded[j.chunk][j.call] + 1]
      /\ job' = [job EXCEPT ![i] = (job[i] \ {j}) \cup {y}]
      /\ UNCHANGED <<coord, launch, clients, run, proc, retry, late, master, crashes>>
  BY DEF Accumulate
<1>2. j.chunk \in DOMAIN Chunks /\ j.call \in 1 .. Chunks[j.chunk] /\ j \in Jobs
  <2>1. j \in Jobs /\ j.chunk \in DOMAIN Chunks /\ j.call \in Slots
    BY DEF IInv, Types, JobType, Jobs
  <2>2. j.call <= Chunks[j.chunk]
    BY DEF IInv, Core, JobInv
  <2>3. Chunks[j.chunk] \in Slots
    BY <2>1, ChunkFacts
  <2>4. QED
    BY <2>1, <2>2, <2>3, ChunkFacts
<1>3. y \in Jobs /\ y.call = j.call /\ y.chunk = j.chunk /\ y.heard = j.heard
  BY <1>2 DEF Jobs
<1>4. /\ LoadType' /\ loaded'[j.chunk][j.call] >= 1
      /\ \A c \in DOMAIN Chunks : \A n \in 1 .. Chunks[c] : loaded'[c][n] >= loaded[c][n]
  <2> DEFINE b == j.chunk
             m == j.call
  <2>1. /\ b \in DOMAIN loaded /\ m \in 1 .. Chunks[b]
        /\ DOMAIN loaded = DOMAIN Chunks
        /\ \A c \in DOMAIN Chunks : loaded[c] \in [1 .. Chunks[c] -> Nat]
        /\ loaded' = [loaded EXCEPT ![b][m] = loaded[b][m] + 1]
    BY <1>1, <1>2 DEF IInv, Types, LoadType
  <2> HIDE DEF b, m
  <2>2. /\ DOMAIN loaded' = DOMAIN Chunks
        /\ loaded'[b] = [loaded[b] EXCEPT ![m] = loaded[b][m] + 1]
        /\ \A c \in DOMAIN Chunks \ {b} : loaded'[c] = loaded[c]
    BY <2>1
  <2>3. loaded[b] \in [1 .. Chunks[b] -> Nat]
    BY <2>1
  <2>4. loaded[b][m] \in Nat
    BY <2>1, <2>3
  <2>5. /\ loaded'[b] \in [1 .. Chunks[b] -> Nat] /\ loaded'[b][m] >= 1
        /\ \A n \in 1 .. Chunks[b] : loaded'[b][n] >= loaded[b][n]
    BY <2>1, <2>2, <2>3, <2>4
  <2>6. \A c \in DOMAIN Chunks : \A n \in 1 .. Chunks[c] : loaded[c][n] \in Nat
    BY <2>1
  <2>7. \A c \in DOMAIN Chunks : /\ loaded'[c] \in [1 .. Chunks[c] -> Nat]
                                /\ \A n \in 1 .. Chunks[c] : loaded'[c][n] >= loaded[c][n]
    <3>1. TAKE c \in DOMAIN Chunks
    <3>2. CASE c = b
      BY <3>2, <2>5
    <3>3. CASE c # b
      BY <3>3, <2>1, <2>2, <2>6
    <3>4. QED
      BY <3>2, <3>3
  <2>8. master' \in 1 .. Len(Chunks) + 1
    BY <1>1 DEF IInv, Types, LoadType
  <2>9. QED
    BY <2>2, <2>5, <2>7, <2>8 DEF LoadType, b, m
<1>5. CoordType' /\ ClientType' /\ ProcType' /\ RunType'
  BY <1>1 DEF IInv, Types, CoordType, ClientType, ProcType, RunType
<1>6. \A m \in Slots : \A x \in job[m] :
        x \in Jobs /\ x.chunk \in DOMAIN Chunks /\ x.call \in 1 .. Chunks[x.chunk]
  <2>0. TAKE m \in Slots
  <2>1. TAKE x \in job[m]
  <2>2. x \in Jobs /\ x.chunk \in DOMAIN Chunks /\ x.call \in Slots
    BY DEF IInv, Types, JobType, Jobs
  <2>3. x.call <= Chunks[x.chunk] /\ Chunks[x.chunk] \in Slots
    BY <2>2, ChunkFacts DEF IInv, Core, JobInv
  <2>4. QED
    BY <2>2, <2>3, ChunkFacts
<1>7. \A m \in Slots : \A x \in job'[m] : (m = i /\ x = y) \/ x \in job[m]
  BY <1>1 DEF IInv, Types, JobType
<1>8. JobType'
  BY <1>1, <1>3 DEF IInv, Types, JobType
<1>9. JobInv'
  <2> SUFFICES ASSUME NEW m \in Slots, NEW x \in job'[m]
               PROVE  /\ x.call <= Chunks[x.chunk]
                      /\ x.sent => loaded'[x.chunk][x.call] >= 1
                      /\ x.heard => /\ run.at = "do" /\ run.action = "INIT"
                                    /\ x.chunk = master /\ run.calls[x.call] = "waiting"
    BY <1>1 DEF JobInv
  <2>1. CASE m = i /\ x = y
    <3>1. x.call = j.call /\ x.chunk = j.chunk /\ x.heard = j.heard
      BY <2>1, <1>3
    <3> HIDE DEF y
    <3>2. QED
      BY <3>1, <1>4 DEF IInv, Core, JobInv
  <2>2. CASE x \in job[m]
    <3>1. x.sent => loaded[x.chunk][x.call] >= 1
      BY <2>2 DEF IInv, Core, JobInv
    <3>2. loaded'[x.chunk][x.call] >= loaded[x.chunk][x.call]
      BY <2>2, <1>4, <1>6
    <3>3. loaded'[x.chunk][x.call] \in Nat /\ loaded[x.chunk][x.call] \in Nat
      BY <2>2, <1>4, <1>6 DEF IInv, Types, LoadType
    <3>4. x.sent => loaded'[x.chunk][x.call] >= 1
      BY <3>1, <3>2, <3>3
    <3>5. QED
      BY <2>2, <3>4 DEF IInv, Core, JobInv
  <2>3. QED
    BY <1>7, <2>1, <2>2
<1>10. OneAnswer'
  <2> SUFFICES ASSUME NEW i1 \in Slots, NEW i2 \in Slots,
                      NEW j1 \in job'[i1], NEW j2 \in job'[i2],
                      j1.heard, j2.heard, j1.call = j2.call
               PROVE  i1 = i2 /\ j1 = j2
    BY DEF OneAnswer
  <2>1. \A m \in Slots : \A x \in job'[m] : (m = i /\ x = y) \/ (x \in job[m] /\ (m = i => x # j))
    <3>1. j # y => j \notin job'[i]
      BY <1>1 DEF IInv, Types, JobType
    <3> HIDE DEF y
    <3>2. QED
      BY <1>7, <3>1
  <2>2. y.call = j.call /\ y.heard = j.heard
    BY <1>3
  <2> HIDE DEF y
  <2>3. CASE j1 \in job[i1] /\ j2 \in job[i2]
    BY <2>3 DEF IInv, Core, OneAnswer
  <2>4. CASE i1 = i /\ j1 = y /\ j2 \in job[i2] /\ (i2 = i => j2 # j)
    BY <2>2, <2>4 DEF IInv, Core, OneAnswer
  <2>5. CASE i2 = i /\ j2 = y /\ j1 \in job[i1] /\ (i1 = i => j1 # j)
    BY <2>2, <2>5 DEF IInv, Core, OneAnswer
  <2>6. QED
    BY <2>1, <2>3, <2>4, <2>5
<1>11. RunInv'
  <2>1. \A n \in Slots : run.calls[n] = "ok" => loaded'[master][n] >= 1
    <3>1. TAKE n \in Slots
    <3>2. HAVE run.calls[n] = "ok"
    <3>3. /\ run.at = "do" /\ run.action = "INIT"
          /\ n <= Chunks[master] /\ loaded[master][n] >= 1 /\ master \in DOMAIN Chunks
      BY <3>2 DEF IInv, Core, RunInv
    <3>4. n \in 1 .. Chunks[master]
      BY <3>3, ChunkFacts
    <3>5. loaded'[master][n] >= loaded[master][n]
      BY <3>3, <3>4, <1>4
    <3>6. loaded'[master][n] \in Nat /\ loaded[master][n] \in Nat
      BY <3>3, <3>4, <1>1, <1>4 DEF IInv, Types, LoadType
    <3>7. QED
      BY <3>3, <3>5, <3>6
  <2>2. QED
    BY <1>1, <2>1 DEF IInv, Core, RunInv
<1>12. CompletedChunksAreLoaded'
  <2> SUFFICES ASSUME NEW c \in 1 .. master - 1, NEW n \in Slots, n <= Chunks[c]
               PROVE  loaded'[c][n] >= 1
    BY <1>1 DEF CompletedChunksAreLoaded
  <2>1. master \in 1 .. Len(Chunks) + 1
    BY DEF IInv, Types, LoadType
  <2>2. c \in DOMAIN Chunks
    BY <2>1, ChunkFacts
  <2>3. n \in 1 .. Chunks[c]
    BY <2>2, ChunkFacts
  <2>4. loaded[c][n] >= 1
    BY DEF IInv, Core, CompletedChunksAreLoaded
  <2>5. loaded'[c][n] >= loaded[c][n]
    BY <2>2, <2>3, <1>4
  <2>6. loaded'[c][n] \in Nat /\ loaded[c][n] \in Nat
    BY <2>2, <2>3, <1>4 DEF IInv, Types, LoadType
  <2>7. QED
    BY <2>4, <2>5, <2>6
<1>13. QED
  BY <1>4, <1>5, <1>8, <1>9, <1>10, <1>11, <1>12 DEF IInv, Types, Core

\* A loader returns, after it has sent the model or with an error.
LEMMA InitReturnsIInv ==
  ASSUME IInv, NEW i \in Slots, NEW j \in job[i], InitReturns(i, j)
  PROVE  IInv'
<1> DEFINE n == j.call
<1>1. PICK result \in {"ok", "error"} :
        /\ IF result = "ok" THEN j.sent /\ UNCHANGED crashes ELSE CanCrash("shard")
        /\ run' = IF j.heard THEN [run EXCEPT !.calls[n] = result] ELSE run
  BY DEF InitReturns
<1>0. /\ job' = [job EXCEPT ![i] = job[i] \ {j}] /\ crashes' \in [FaultKinds -> Nat]
      /\ UNCHANGED <<coord, launch, clients, proc, retry, late, loaded, master>>
  <2>1. crashes \in [FaultKinds -> Nat]
    BY DEF IInv, Types, CoordType
  <2>2. crashes' \in [FaultKinds -> Nat]
    BY <1>1, <2>1, FaultsCount
  <2>3. /\ job' = [job EXCEPT ![i] = job[i] \ {j}]
        /\ UNCHANGED <<coord, launch, clients, proc, retry, late, loaded, master>>
    BY DEF InitReturns
  <2>4. QED
    BY <2>2, <2>3
<1>2. n \in Slots /\ \A m \in Slots : job'[m] = IF m = i THEN job[m] \ {j} ELSE job[m]
  <2>1. n \in Slots
    BY DEF IInv, Types, JobType, Jobs
  <2>2. \A m \in Slots : job'[m] = IF m = i THEN job[m] \ {j} ELSE job[m]
    BY <1>0 DEF IInv, Types, JobType
  <2>3. QED
    BY <2>1, <2>2
<1>3. CoordType' /\ ClientType' /\ ProcType' /\ LoadType' /\ JobType'
  BY <1>0 DEF IInv, Types, CoordType, ClientType, ProcType, LoadType, JobType
<1>4. OneAnswer' /\ CompletedChunksAreLoaded'
  BY <1>0, <1>2 DEF IInv, Core, OneAnswer, CompletedChunksAreLoaded
<1>5. CASE j.heard
  <2>1. /\ run.at = "do" /\ run.action = "INIT" /\ j.chunk = master
        /\ n <= Chunks[master] /\ (result = "ok" => loaded[master][n] >= 1)
        /\ result \in {"ok", "error"}
    BY <1>1, <1>5 DEF IInv, Core, JobInv
  <2>2. run' = [run EXCEPT !.calls[n] = result]
    BY <1>1, <1>5
  <2> HIDE DEF n
  <2>3. /\ RunType' /\ run'.at = run.at /\ run'.action = run.action
        /\ run'.calls[n] = result
        /\ \A m \in Slots \ {n} : run'.calls[m] = run.calls[m]
    BY <1>2, <2>1, <2>2 DEF IInv, Types, RunType, Calls
  <2>4. RunInv'
    BY <1>0, <2>1, <2>3 DEF IInv, Core, RunInv
  <2>5. JobInv'
    <3> SUFFICES ASSUME NEW m \in Slots, NEW x \in job'[m]
                 PROVE  /\ x.call <= Chunks[x.chunk]
                        /\ x.sent => loaded[x.chunk][x.call] >= 1
                        /\ x.heard => /\ run'.at = "do" /\ run'.action = "INIT"
                                      /\ x.chunk = master /\ run'.calls[x.call] = "waiting"
      BY <1>0 DEF JobInv
    <3>1. x \in job[m] /\ (m = i => x # j) /\ x.call \in Slots
      <4>1. job'[m] = IF m = i THEN job[m] \ {j} ELSE job[m]
        BY <1>2
      <4>2. x \in job[m] /\ (m = i => x # j)
        BY <4>1
      <4>3. QED
        BY <4>2 DEF IInv, Types, JobType, Jobs
    <3>2. x.heard => x.call # n
      BY <3>1, <1>5 DEF IInv, Core, OneAnswer, n
    <3>3. QED
      BY <1>0, <3>1, <3>2, <2>3 DEF IInv, Core, JobInv
  <2>6. QED
    BY <1>3, <1>4, <2>3, <2>4, <2>5 DEF IInv, Types, Core
<1>6. CASE ~ j.heard
  <2>1. run' = run
    BY <1>1, <1>6
  <2>2. RunType' /\ RunInv' /\ JobInv'
    BY <1>0, <1>2, <2>1 DEF IInv, Types, RunType, Core, RunInv, JobInv
  <2>3. QED
    BY <1>3, <1>4, <2>2 DEF IInv, Types, Core
<1>7. QED
  BY <1>5, <1>6

\* A task is reported when all its calls have returned well: then its shards are
\* loaded, and no loader is left that answers.
LEMMA CompleteTaskIInv == ASSUME IInv, CompleteTask PROVE IInv'
<1>1. /\ Returned /\ UNCHANGED <<retry, loaded, crashes>>
      /\ \/ CoordinatorExits /\ UNCHANGED master
         \/ /\ \A n \in Slots : run.calls[n] # "error"
            /\ UNCHANGED <<coord, launch, clients, proc, late, job>>
            /\ \/ run.action = "INIT" /\ master' = master + 1 /\ run' = NextTask(master + 1)
               \/ UNCHANGED <<master, run>>
  BY DEF CompleteTask
<1>2. CASE CoordinatorExits /\ UNCHANGED master
  BY <1>1, <1>2, ExitsKeeps DEF IInv, Types, CoordType
<1>3. CASE UNCHANGED <<coord, launch, clients, proc, late, job>> /\ UNCHANGED <<master, run>>
  <2>1. CoordType' /\ ProcType'
    BY <1>1, <1>3 DEF IInv, Types, CoordType, ProcType
  <2>2. QED
    BY <1>1, <1>3, <2>1, QuietIInv
<1>4. CASE /\ \A n \in Slots : run.calls[n] # "error"
           /\ UNCHANGED <<coord, launch, clients, proc, late, job>>
           /\ run.action = "INIT" /\ master' = master + 1 /\ run' = NextTask(master + 1)
  <2>1. run.at = "do" /\ master \in DOMAIN Chunks
    BY <1>1, <1>4 DEF Returned, IInv, Core, RunInv
  <2>2. Len(Chunks) \in Nat /\ master \in 1 .. Len(Chunks) /\ Chunks[master] \in Slots
    BY <2>1, ChunkFacts
  <2>3. \A n \in Slots : n <= Chunks[master] =>
          run.calls[n] = "ok" /\ loaded[master][n] >= 1
    <3>1. \A n \in 1 .. Chunks[master] : run.calls[n] \in {"ok", "error"}
      BY <1>1, <1>4 DEF Returned
    <3>2. \A n \in Slots : n <= Chunks[master] => n \in 1 .. Chunks[master]
      BY <2>2, ChunkFacts
    <3>3. \A n \in Slots : n <= Chunks[master] => run.calls[n] = "ok"
      BY <3>1, <3>2, <1>4
    <3>4. QED
      BY <3>3 DEF IInv, Core, RunInv
  <2>4. \A i \in Slots : \A j \in job[i] : ~ j.heard
    <3>1. TAKE i \in Slots
    <3>2. TAKE j \in job[i]
    <3>3. j.call \in Slots
      BY DEF IInv, Types, JobType, Jobs
    <3>4. j.heard => j.call <= Chunks[master] /\ run.calls[j.call] = "waiting"
      BY DEF IInv, Core, JobInv
    <3>5. QED
      BY <3>3, <3>4, <2>3
  <2>5. master' \in 1 .. Len(Chunks) + 1
    BY <1>4, <2>2
  <2>6. /\ RunType' /\ run'.at = "do" /\ run'.calls = NoCalls
        /\ run'.action = "INIT" <=> master' \in DOMAIN Chunks
    BY <1>4, <2>5, NextTaskType DEF RunType
  <2>7. CoordType' /\ ClientType' /\ ProcType' /\ JobType' /\ LoadType'
    BY <1>1, <1>4, <2>5 DEF IInv, Types, CoordType, ClientType, ProcType, JobType, LoadType
  <2>8. JobInv' /\ OneAnswer'
    BY <1>1, <1>4, <2>4 DEF IInv, Core, JobInv, OneAnswer
  <2>9. RunInv'
    BY <1>4, <2>1, <2>6 DEF IInv, Core, RunInv, NoCalls
  <2>10. CompletedChunksAreLoaded'
    <3>1. \A c \in 1 .. master' - 1 : c \in 1 .. master - 1 \/ c = master
      BY <1>4, <2>2
    <3>2. QED
      BY <1>1, <3>1, <2>3 DEF IInv, Core, CompletedChunksAreLoaded
  <2>11. QED
    BY <2>6, <2>7, <2>8, <2>9, <2>10 DEF IInv, Types, Core
<1>5. QED
  BY <1>1, <1>2, <1>3, <1>4

\* Every step keeps the inductive invariant.
LEMMA StepIInv == IInv /\ [Next]_vars => IInv'
<1> SUFFICES ASSUME IInv, [Next]_vars PROVE IInv'
  OBVIOUS
<1>1. CASE Coordinator
  <2>1. CASE \E k \in Kinds : LaunchWorkers(k)
    BY <2>1, LaunchWorkersIInv
  <2>2. CASE \E i \in Slots, isLate \in BOOLEAN :
               RegisterSampler(i, isLate) \/ RegisterLoader(i, isLate)
    BY <2>2, RegisterSamplerIInv, RegisterLoaderIInv
  <2>3. CASE RegisterSquad \/ DoFails
    BY <2>3, RegisterSquadIInv
  <2>4. CASE CompleteTask
    BY <2>4, CompleteTaskIInv
  <2>5. CASE \E n \in Slots : CallLoader(n)
    BY <2>5, CallLoaderIInv
  <2>6. QED
    BY <1>1, <2>1, <2>2, <2>3, <2>4, <2>5 DEF Coordinator
<1>2. CASE Prism
  BY <1>2, RestartIInv DEF Prism
<1>3. CASE Crash
  BY <1>3, CrashIInv, WorkerCrashIInv DEF Crash
<1>4. ASSUME NEW k \in Kinds, NEW i \in Slots, Worker(k, i) PROVE IInv'
  <2>1. CASE DialCoordinator(k, i) \/ (k = "loader" /\ ConnectToSamplers(i))
    BY <2>1, WorkerStartIInv
  <2>2. CASE Leave(k, i)
    BY <2>2, WorkerCrashIInv
  <2>3. CASE \E j \in job[i] : Accumulate(i, j) \/ InitReturns(i, j)
    BY <2>3, AccumulateIInv, InitReturnsIInv
  <2>4. QED
    BY <1>4, <2>1, <2>2, <2>3 DEF Worker
<1>5. CASE UNCHANGED vars
  <2>1. UNCHANGED <<coord, launch, clients, run, proc, retry, late, job, loaded, master, crashes>>
    BY <1>5 DEF vars
  <2>2. CoordType' /\ ProcType'
    BY <2>1 DEF IInv, Types, CoordType, ProcType
  <2>3. QED
    BY <2>1, <2>2, QuietIInv
<1>6. QED
  BY <1>1, <1>2, <1>3, <1>4, <1>5 DEF Next

\* The inductive invariant always holds.
LEMMA Inductive == Spec => []IInv
  BY InitIInv, StepIInv, PTL DEF Spec

-----------------------------------------------------------------------------
\* The state of the squad keeps its shape, and no more workers of a kind are
\* registered than there are addresses, whatever fails and however often.
THEOREM TypeCorrect == Spec => []TypeOK
<1>1. IInv => TypeOK
  BY TypeParts DEF IInv
<1>2. QED
  BY <1>1, Inductive, PTL

\* When the master goes on to the next task, each shard of the tasks before was
\* accumulated by the aggregators: for every number of loaders, every sequence of
\* tasks and any faults, also of loaders and coordinators in the middle of a task,
\* and of calls that outlive their caller.
THEOREM ChunksAreLoaded == Spec => []CompletedChunksAreLoaded
<1>1. IInv => CompletedChunksAreLoaded
  BY DEF IInv, Core
<1>2. QED
  BY <1>1, Inductive, PTL

-----------------------------------------------------------------------------
(* The squad without faults.  A registration stands for a worker, and what *)
(* is loaded is loaded once.                                               *)

\* LaunchWorkers of kind k, of this life of the coordinator, has killed the
\* workers there were.
Launched(k) ==
  /\ launch[k].phase # "kill"
  /\ IF k = "sampler" THEN coord.state = "up" ELSE Len(clients["sampler"]) = NumVShards

\* The registered workers serve, and are registered once.
Entries(k) ==
  /\ \A n \in DOMAIN clients[k] :
       clients[k][n].alive /\ proc[k][clients[k][n].slot] = "serving"
  /\ \A m, n \in DOMAIN clients[k] : clients[k][m].slot = clients[k][n].slot => m = n

\* Before the launch, nobody registers; after it, workers that serve are registered,
\* and those to be launched do not run.
Launching(k) ==
  /\ launch[k].phase # "bad"
  /\ launch[k].phase = "go" => Launched(k)
  /\ ~ Launched(k) =>
       clients[k] = <<>> /\ \A i \in Slots : proc[k][i] \in {"down", "serving"}
  /\ Launched(k) => \A i \in Slots : /\ proc[k][i] = "serving" => i \in SlotsOf(k)
                                     /\ i \in launch[k].left => proc[k][i] = "down"

\* No process has failed but a coordinator that had nothing to do, and the loaders
\* are launched when the samplers are there.
AllWell ==
  /\ \A k \in Kinds, i \in Slots : late[k][i] = 0 /\ proc[k][i] \notin {"failed", "refused"}
  /\ coord.state = "failed" => launch = NoLaunch /\ clients["sampler"] = <<>>
  /\ launch["loader"].phase # "no" => Len(clients["sampler"]) = NumVShards

Places == \A k \in Kinds : Entries(k) /\ Launching(k)

\* The callers of all jobs still listen, a shard is loaded when its job has sent it,
\* and then only once; no call fails.
NotTwice ==
  /\ \A i \in Slots : \A j \in job[i] : j.heard /\ (~ j.sent => loaded[j.chunk][j.call] = 0)
  /\ \A c \in DOMAIN Chunks : \A i \in 1 .. Chunks[c] :
       /\ loaded[c][i] <= 1
       /\ c > master => loaded[c][i] = 0
       /\ c = master /\ run.calls[i] = "none" => loaded[c][i] = 0
  /\ \A n \in Slots : /\ run.calls[n] # "error"
                      /\ run.calls[n] # "none" => "INIT" \in Implemented

Faultless == Unharmed /\ AllWell /\ Places /\ NotTwice

LEMMA KindFacts ==
  ASSUME IInv, NEW k \in Kinds
  PROVE  /\ clients[k] \in Seq([slot : Slots, alive : BOOLEAN])
         /\ Len(clients[k]) \in Nat /\ Len(clients[k]) <= NumVShards
         /\ DOMAIN clients[k] = 1 .. Len(clients[k])
         /\ \A n \in DOMAIN clients[k] : clients[k][n].slot \in Slots
         /\ proc \in [Kinds -> [Slots -> WorkerStates]]
         /\ launch[k] \in [phase : {"no", "kill", "go", "bad"}, left : SUBSET Slots]
<1>1. /\ clients[k] \in Seq([slot : Slots, alive : BOOLEAN]) /\ Len(clients[k]) <= NumVShards
      /\ proc \in [Kinds -> [Slots -> WorkerStates]]
      /\ launch[k] \in [phase : {"no", "kill", "go", "bad"}, left : SUBSET Slots]
  BY DEF IInv, Types, ClientType, ProcType, CoordType
<1>2. Len(clients[k]) \in Nat /\ DOMAIN clients[k] = 1 .. Len(clients[k])
  BY <1>1
<1>3. \A n \in DOMAIN clients[k] : clients[k][n] \in [slot : Slots, alive : BOOLEAN]
  <2> DEFINE C == [slot : Slots, alive : BOOLEAN]
  <2>1. clients[k] \in Seq(C)
    BY <1>1
  <2> HIDE DEF C
  <2>2. \A n \in DOMAIN clients[k] : clients[k][n] \in C
    BY <1>2, <2>1
  <2> QED  BY <2>2 DEF C
<1> QED  BY <1>1, <1>2, <1>3

\* NumVShards registrations of different workers are registrations of all.
LEMMA AllRegistered ==
  ASSUME IInv, NEW k \in Kinds, Entries(k), Len(clients[k]) >= NumVShards
  PROVE  /\ Len(clients[k]) = NumVShards
         /\ SlotsOf(k) = Slots
         /\ \A i \in Slots : proc[k][i] = "serving"
         /\ \A n \in Slots : clients[k][n].alive /\ clients[k][n].slot \in Slots
<1>1. /\ NumVShards \in Nat /\ Slots = 1 .. NumVShards /\ Len(clients[k]) = NumVShards
      /\ DOMAIN clients[k] = Slots
      /\ \A n \in Slots : clients[k][n].slot \in Slots
  BY ChunkFacts, KindFacts
<1> DEFINE f == [n \in Slots |-> clients[k][n].slot]
<1>2. f \in Injection(Slots, Slots)
  BY <1>1 DEF Entries, Injection, IsInjective
<1>3. IsFiniteSet(Slots)
  BY <1>1, FS_Interval
<1>4. f \in Surjection(Slots, Slots)
  <2> HIDE DEF f
  <2> QED  BY <1>2, <1>3, FS_Injection
<1>5. SlotsOf(k) = Slots
  <2>1. \A i \in Slots : \E n \in Slots : f[n] = i
    BY <1>4 DEF Surjection
  <2> QED  BY <1>1, <2>1 DEF SlotsOf
<1>6. \A i \in Slots : proc[k][i] = "serving"
  BY <1>5 DEF SlotsOf, Entries
<1> QED  BY <1>1, <1>5, <1>6 DEF Entries

\* What a step does not touch.
LEMMA KindStays ==
  ASSUME NEW k \in Kinds, Entries(k), Launching(k), clients'[k] = clients[k],
         proc'[k] = proc[k], launch'[k] = launch[k], Launched(k)' = Launched(k)
  PROVE  Entries(k)' /\ Launching(k)'
BY DEF Entries, Launching, SlotsOf

LEMMA PlacesStay ==
  ASSUME AllWell, Places, UNCHANGED <<coord, launch, clients, proc, late>>
  PROVE  AllWell' /\ Places'
<1>1. \A k \in Kinds : Launched(k)' = Launched(k)
  BY DEF Launched
<1>2. Places'
  BY <1>1, KindStays DEF Places
<1> QED  BY <1>2 DEF AllWell

LEMMA NotTwiceStays ==
  ASSUME NotTwice, UNCHANGED <<job, loaded, master>>, run'.calls = run.calls
  PROVE  NotTwice'
BY DEF NotTwice

\* The sampler that registers was not registered, nor were all others: it is not
\* refused.
LEMMA Registering ==
  ASSUME IInv, AllWell, Places, NEW k \in Kinds, NEW i \in Slots,
         proc[k][i] \notin {"down", "serving"}
  PROVE  /\ Launched(k) /\ coord.state = "up"
         /\ Len(clients[k]) < NumVShards
         /\ i \notin SlotsOf(k) /\ i \notin launch[k].left
         /\ k = "loader" => \A s \in Slots : proc["sampler"][s] = "serving"
<1>1. Launched(k)
  BY DEF Places, Launching
<1>2. i \notin SlotsOf(k)
  BY DEF Places, Entries, SlotsOf
<1>3. Len(clients[k]) < NumVShards
  BY <1>2, AllRegistered, KindFacts, ChunkFacts DEF Places
<1>4. k = "loader" => Len(clients["sampler"]) = NumVShards
  BY <1>1 DEF Launched
<1>5. k = "loader" => \A s \in Slots : proc["sampler"][s] = "serving"
  <2>1. "sampler" \in Kinds /\ NumVShards \in Nat
    BY ChunkFacts DEF Kinds
  <2> QED  BY <1>4, <2>1, AllRegistered DEF Places
<1>6. coord.state = "up"
  <2>1. coord.state \in {"up", "failed"}
    BY DEF IInv, Types, CoordType
  <2>2. k = "sampler" => coord.state = "up"
    BY <1>1 DEF Launched
  <2>3. k = "loader" => clients["sampler"] # <<>>
    BY <1>4, ChunkFacts
  <2> QED  BY <2>1, <2>2, <2>3 DEF AllWell, Kinds
<1>7. i \notin launch[k].left
  BY <1>1 DEF Places, Launching
<1> QED  BY <1>1, <1>2, <1>3, <1>5, <1>6, <1>7

\* A worker that registers becomes the last entry.
LEMMA RegisteredWell ==
  ASSUME IInv, AllWell, Places, NEW k \in Kinds, NEW i \in Slots,
         proc[k][i] = "registering",
         clients' = [clients EXCEPT ![k] = Registered(k, i)],
         proc' = [proc EXCEPT ![k][i] = "serving"],
         launch'[k] = launch[k], Launched(k)'
  PROVE  /\ Entries(k)' /\ Launching(k)'
         /\ Len(clients'[k]) = Len(clients[k]) + 1
         /\ \A m \in Kinds : m # k => clients'[m] = clients[m] /\ proc'[m] = proc[m]
<1>1. /\ Launched(k) /\ i \notin SlotsOf(k) /\ i \notin launch[k].left
      /\ Entries(k) /\ Launching(k)
  BY Registering DEF Places
<1> DEFINE q == clients[k]
           e == [slot |-> i, alive |-> TRUE]
<1>2. /\ clients'[k] = Append(q, e)
      /\ \A m \in Kinds : m # k => clients'[m] = clients[m] /\ proc'[m] = proc[m]
      /\ proc'[k][i] = "serving"
      /\ \A j \in Slots : j # i => proc'[k][j] = proc[k][j]
  BY KindFacts DEF Registered, IInv, Types, ClientType
<1>3. /\ q \in Seq([slot : Slots, alive : BOOLEAN]) /\ Len(q) \in Nat
      /\ DOMAIN q = 1 .. Len(q) /\ \A n \in DOMAIN q : q[n].slot \in Slots
  BY KindFacts
<1>4. e \in [slot : Slots, alive : BOOLEAN] /\ e.slot = i /\ e.alive
  OBVIOUS
<1> DEFINE z == Len(q) + 1
<1>5. /\ Len(Append(q, e)) = z /\ DOMAIN Append(q, e) = DOMAIN q \cup {z}
      /\ Append(q, e)[z] = e /\ \A n \in DOMAIN q : Append(q, e)[n] = q[n]
  <2> HIDE DEF e, q
  <2>1. DOMAIN Append(q, e) = 1 .. z /\ 1 .. z = (1 .. Len(q)) \cup {z}
    BY <1>3, <1>4
  <2> QED  BY <1>3, <1>4, <2>1
<1>6. \A n \in DOMAIN q : q[n].alive /\ proc[k][q[n].slot] = "serving" /\ q[n].slot # i
  BY <1>1 DEF Entries, SlotsOf
<1>7. \A m, n \in DOMAIN q : q[m].slot = q[n].slot => m = n
  BY <1>1 DEF Entries
<1> HIDE DEF q, e, z
<1>8. Entries(k)'
  <2>1. \A n \in DOMAIN clients'[k] :
          clients'[k][n].alive /\ proc'[k][clients'[k][n].slot] = "serving"
    BY <1>2, <1>3, <1>4, <1>5, <1>6
  <2>2. \A m, n \in DOMAIN clients'[k] :
          clients'[k][m].slot = clients'[k][n].slot => m = n
    BY <1>2, <1>4, <1>5, <1>6, <1>7
  <2> QED  BY <2>1, <2>2 DEF Entries
<1>9. SlotsOf(k) \subseteq SlotsOf(k)' /\ i \in SlotsOf(k)'
  BY <1>2, <1>4, <1>5 DEF SlotsOf, q
<1>10. \A j \in Slots : /\ proc'[k][j] = "serving" => j \in SlotsOf(k)'
                        /\ j \in launch'[k].left => proc'[k][j] = "down"
  <2>1. \A j \in Slots : /\ proc[k][j] = "serving" => j \in SlotsOf(k)
                         /\ j \in launch[k].left => proc[k][j] = "down"
    BY <1>1 DEF Launching
  <2> QED  BY <1>1, <1>2, <1>9, <2>1
<1>11. Launching(k)'
  BY <1>1, <1>10 DEF Launching
<1>12. Len(clients'[k]) = Len(clients[k]) + 1
  BY <1>2, <1>5 DEF q, z
<1> QED  BY <1>2, <1>8, <1>11, <1>12

\* RegisterSampler: the last one has the loaders launched.
LEMMA RegisterSamplerWell ==
  ASSUME IInv, AllWell, Places, NEW i \in Slots, NEW isLate, RegisterSampler(i, isLate)
  PROVE  AllWell' /\ Places' /\ UNCHANGED <<run, job, loaded, master, crashes>>
<1>1. "sampler" \in Kinds /\ "loader" \in Kinds /\ NumVShards \in Nat /\ NumVShards > 0
  BY ChunkFacts DEF Kinds
<1>2. ~ isLate /\ proc["sampler"][i] = "registering"
  BY <1>1 DEF RegisterSampler, Arrives, AllWell
<1>3. /\ Launched("sampler") /\ Len(clients["sampler"]) < NumVShards
      /\ Len(clients["sampler"]) \in Nat
  BY <1>1, <1>2, Registering, KindFacts
<1>4. /\ clients' = [clients EXCEPT !["sampler"] = Registered("sampler", i)]
      /\ launch' = IF Len(clients'["sampler"]) >= NumVShards
                   THEN [launch EXCEPT !["loader"].phase = "kill"] ELSE launch
      /\ proc' = [proc EXCEPT !["sampler"][i] = "serving"]
      /\ UNCHANGED <<coord, late, run, job, loaded, master, crashes>>
  BY <1>1, <1>2, <1>3 DEF RegisterSampler, Answer, Listening
<1>5. launch'["sampler"] = launch["sampler"] /\ launch \in [Kinds -> [phase : {"no", "kill", "go", "bad"}, left : SUBSET Slots]]
  BY <1>1, <1>4 DEF IInv, Types, CoordType
<1>6. Launched("sampler")'
  BY <1>3, <1>4, <1>5 DEF Launched
<1>7. /\ Entries("sampler")' /\ Launching("sampler")'
      /\ Len(clients'["sampler"]) = Len(clients["sampler"]) + 1
      /\ clients'["loader"] = clients["loader"] /\ proc'["loader"] = proc["loader"]
  BY <1>1, <1>2, <1>4, <1>5, <1>6, RegisteredWell
<1>8. launch["loader"].phase = "no" /\ ~ Launched("loader")
  BY <1>1, <1>3 DEF AllWell, Launched, IInv, Types, CoordType
<1>9. /\ launch'["loader"].phase = IF Len(clients["sampler"]) + 1 >= NumVShards
                                   THEN "kill" ELSE "no"
  BY <1>1, <1>4, <1>5, <1>7, <1>8
<1>10. ~ Launched("loader")'
  BY <1>1, <1>3, <1>7, <1>9 DEF Launched
<1>11. Entries("loader")' /\ Launching("loader")'
  <2>1. clients["loader"] = <<>> /\ \A j \in Slots : proc["loader"][j] \in {"down", "serving"}
    BY <1>1, <1>8 DEF Places, Launching
  <2>2. launch'["loader"].phase # "bad" /\ launch'["loader"].phase # "go"
    BY <1>9
  <2> QED  BY <1>7, <1>10, <2>1, <2>2 DEF Launching, Entries
<1>12. Places'
  BY <1>7, <1>11 DEF Places, Kinds
<1>13. AllWell'
  <2>1. \A k \in Kinds, j \in Slots : proc'[k][j] = proc[k][j] \/ proc'[k][j] = "serving"
    BY <1>4 DEF IInv, Types, ProcType
  <2>2. launch'["loader"].phase # "no" => Len(clients'["sampler"]) = NumVShards
    BY <1>1, <1>3, <1>7, <1>9
  <2>3. coord.state = "up"
    BY <1>3 DEF Launched
  <2> QED  BY <1>4, <2>1, <2>2, <2>3 DEF AllWell
<1> QED  BY <1>4, <1>12, <1>13

\* RegisterLoader: the last one starts the run.
LEMMA RegisterLoaderWell ==
  ASSUME IInv, AllWell, Places, NEW i \in Slots, NEW isLate, RegisterLoader(i, isLate)
  PROVE  AllWell' /\ Places' /\ run'.calls = run.calls
         /\ UNCHANGED <<job, loaded, master, crashes>>
<1>1. "sampler" \in Kinds /\ "loader" \in Kinds /\ NumVShards \in Nat /\ NumVShards > 0
  BY ChunkFacts DEF Kinds
<1>2. ~ isLate /\ proc["loader"][i] = "registering"
  BY <1>1 DEF RegisterLoader, Arrives, AllWell
<1>3. /\ Launched("loader") /\ Len(clients["loader"]) < NumVShards
      /\ Len(clients["loader"]) \in Nat
  BY <1>1, <1>2, Registering, KindFacts
<1>4. /\ clients' = [clients EXCEPT !["loader"] = Registered("loader", i)]
      /\ proc' = [proc EXCEPT !["loader"][i] = "serving"]
      /\ UNCHANGED <<coord, launch, late, job, loaded, master, crashes>>
      /\ run' = run \/ run' = [run EXCEPT !.at = "register"]
  BY <1>1, <1>2, <1>3 DEF RegisterLoader, Answer, Listening
<1>5. clients'["sampler"] = clients["sampler"]
  BY <1>1, <1>4 DEF IInv, Types, ClientType
<1>6. Launched("loader")' /\ Launched("sampler")' = Launched("sampler")
  BY <1>3, <1>4, <1>5 DEF Launched
<1>7. Entries("loader")' /\ Launching("loader")' /\ proc'["sampler"] = proc["sampler"]
  BY <1>1, <1>2, <1>4, <1>6, RegisteredWell
<1>8. Entries("sampler")' /\ Launching("sampler")'
  BY <1>1, <1>4, <1>5, <1>6, <1>7, KindStays DEF Places
<1>9. Places'
  BY <1>7, <1>8 DEF Places, Kinds
<1>10. AllWell'
  <2>1. \A k \in Kinds, j \in Slots : proc'[k][j] = proc[k][j] \/ proc'[k][j] = "serving"
    BY <1>4 DEF IInv, Types, ProcType
  <2> QED  BY <1>4, <1>5, <2>1 DEF AllWell
<1>11. run'.calls = run.calls
  BY <1>4 DEF IInv, Types, RunType
<1> QED  BY <1>4, <1>9, <1>10, <1>11

\* The steps of one worker that is launched but does not serve yet.
LEMMA WorkerStartWell ==
  ASSUME IInv, AllWell, Places, NEW k \in Kinds, NEW i \in Slots,
         DialCoordinator(k, i) \/ (k = "loader" /\ ConnectToSamplers(i))
  PROVE  AllWell' /\ Places' /\ UNCHANGED <<run, job, loaded, master, crashes>>
<1>1. /\ UNCHANGED <<coord, launch, clients, run, late, job, loaded, master, crashes>>
      /\ proc[k][i] \in {"begun", "connected"}
  BY DEF DialCoordinator, ConnectToSamplers
<1>2. /\ Launched(k) /\ coord.state = "up" /\ i \notin launch[k].left
      /\ k = "loader" => \A s \in Slots : proc["sampler"][s] = "serving"
  BY <1>1, Registering
<1>3. PICK to \in {"connected", "registering"} : proc' = [proc EXCEPT ![k][i] = to]
  BY <1>2 DEF DialCoordinator, ConnectToSamplers, Listening
<1>4. /\ \A m \in Kinds : m # k => proc'[m] = proc[m]
      /\ proc'[k][i] = to
      /\ \A j \in Slots : j # i => proc'[k][j] = proc[k][j]
  BY <1>3 DEF IInv, Types, ProcType
<1>5. \A m \in Kinds : Launched(m)' = Launched(m)
  BY <1>1 DEF Launched
<1>6. \A m \in Kinds : m # k => Entries(m)' /\ Launching(m)'
  BY <1>1, <1>4, <1>5, KindStays DEF Places
<1>7. i \notin SlotsOf(k)
  BY <1>1 DEF Places, Entries, SlotsOf
<1>8. Entries(k)'
  <2>1. \A n \in DOMAIN clients[k] : clients[k][n].slot \in Slots /\ clients[k][n].slot # i
    BY <1>7, KindFacts DEF SlotsOf
  <2> QED  BY <1>1, <1>4, <2>1 DEF Places, Entries
<1>9. Launching(k)'
  BY <1>1, <1>2, <1>4, <1>5 DEF Places, Launching, SlotsOf
<1>10. Places'
  BY <1>6, <1>8, <1>9 DEF Places
<1>11. AllWell'
  BY <1>1, <1>4 DEF AllWell
<1> QED  BY <1>1, <1>10, <1>11

\* No loader has a job outside of a run.
LEMMA NoJobs ==
  ASSUME IInv, NotTwice, run.at # "do" \/ Len(clients["loader"]) # NumVShards
  PROVE  \A i \in Slots : job[i] = {}
BY DEF IInv, Core, JobInv, RunInv, NotTwice

\* Before they are launched, the workers of a kind are killed: nobody misses them.
LEMMA KillWorkersWell ==
  ASSUME IInv, IInv', AllWell, Places, NotTwice, NEW k \in Kinds, KillWorkers(k)
  PROVE  AllWell' /\ Places' /\ NotTwice'
<1>1. /\ launch[k].phase = "kill" /\ EndWorkers(k, Slots, "down")
      /\ launch' = [launch EXCEPT ![k] = [phase |-> "go", left |-> Slots]]
      /\ UNCHANGED <<coord, retry, loaded, master, crashes>>
  BY DEF KillWorkers
<1>2. /\ "sampler" \in Kinds /\ "loader" \in Kinds /\ NumVShards \in Nat /\ NumVShards > 0
      /\ \A m \in Kinds : m = "sampler" \/ m = "loader"
  BY ChunkFacts DEF Kinds
<1>3. /\ clients[k] = <<>> /\ \A i \in Slots : proc[k][i] \in {"down", "serving"}
  BY <1>1 DEF Places, Launching, Launched
<1>4. /\ DOMAIN clients'[k] = {}
      /\ \A m \in Kinds : m # k => clients'[m] = clients[m]
  <2> DEFINE q == [n \in DOMAIN clients[k] |->
                    LET c == clients[k][n]
                    IN  [slot |-> c.slot, alive |-> c.alive /\ c.slot \notin Slots]]
  <2>1. clients' = [clients EXCEPT ![k] = q]
    BY <1>1 DEF EndWorkers
  <2>2. DOMAIN q = {}
    BY <1>3
  <2> HIDE DEF q
  <2> QED  BY <2>1, <2>2 DEF IInv, Types, ClientType
<1>5. clients'[k] = <<>>
  <2> DEFINE C == [slot : Slots, alive : BOOLEAN]
  <2>1. clients'[k] \in Seq(C)
    BY DEF IInv, Types, ClientType
  <2> HIDE DEF C
  <2> DEFINE q == clients'[k]
  <2>2. q \in Seq(C) /\ DOMAIN q = {}
    BY <1>4, <2>1
  <2> HIDE DEF q
  <2>3. Len(q) \in Nat /\ DOMAIN q = 1 .. Len(q)
    BY <2>2
  <2>4. Len(q) = 0
    BY <2>2, <2>3
  <2>5. q = <<>>
    BY <2>2, <2>4
  <2> QED  BY <2>5 DEF q
<1>6. /\ \A i \in Slots : proc'[k][i] = "down"
      /\ \A m \in Kinds : m # k => proc'[m] = proc[m]
      /\ \A m \in Kinds, i \in Slots : late'[m][i] = 0
  <2>1. proc' = [proc EXCEPT ![k] = [i \in Slots |-> IF i \in Slots THEN "down" ELSE proc[k][i]]]
    BY <1>1 DEF EndWorkers
  <2>2. late' = [late EXCEPT ![k] = [i \in Slots |->
            IF i \in Slots /\ proc[k][i] = "registering" THEN late[k][i] + 1 ELSE late[k][i]]]
    BY <1>1 DEF EndWorkers
  <2>3. \A m \in Kinds, i \in Slots : late'[m][i] = late[m][i]
    BY <1>3, <2>2 DEF IInv, Types, ProcType
  <2>4. \A m \in Kinds, i \in Slots : late[m][i] = 0
    BY DEF AllWell
  <2>5. /\ \A i \in Slots : proc'[k][i] = "down"
        /\ \A m \in Kinds : m # k => proc'[m] = proc[m]
    BY <2>1 DEF IInv, Types, ProcType
  <2> QED  BY <2>3, <2>4, <2>5
<1>7. /\ launch'[k].phase = "go"
      /\ \A m \in Kinds : m # k => launch'[m] = launch[m]
  BY <1>1 DEF IInv, Types, CoordType
<1>8. coord.state # "failed"
  BY <1>1, <1>2 DEF AllWell, NoLaunch
<1>9. Launched(k)'
  <2>1. k = "sampler" => coord'.state = "up"
    BY <1>1, <1>8 DEF IInv, Types, CoordType
  <2>2. k = "loader" => Len(clients'["sampler"]) = NumVShards
    BY <1>1, <1>2, <1>4 DEF AllWell
  <2> QED  BY <1>2, <1>7, <2>1, <2>2 DEF Launched
<1>10. \A m \in Kinds : m # k => Launched(m)' = Launched(m)
  <2>1. Len(clients'["sampler"]) = Len(clients["sampler"])
    BY <1>2, <1>3, <1>4, <1>5
  <2> QED  BY <1>1, <1>7, <2>1 DEF Launched
<1>11. Entries(k)' /\ Launching(k)'
  BY <1>5, <1>6, <1>7, <1>9 DEF Entries, Launching
<1>12. \A m \in Kinds : m # k => Entries(m)' /\ Launching(m)'
  BY <1>4, <1>6, <1>7, <1>10, KindStays DEF Places
<1>13. Places'
  BY <1>11, <1>12 DEF Places
<1>14. AllWell'
  <2>1. \A m \in Kinds, i \in Slots : proc'[m][i] \notin {"failed", "refused"}
    BY <1>6 DEF AllWell
  <2>2. launch'["loader"].phase # "no" => Len(clients'["sampler"]) = NumVShards
    <3>1. CASE k = "loader"
      BY <1>2, <1>9, <3>1 DEF Launched
    <3>2. CASE k = "sampler"
      BY <1>2, <1>3, <1>4, <1>5, <1>7, <3>2 DEF AllWell
    <3> QED  BY <1>2, <3>1, <3>2
  <2> QED  BY <1>1, <1>6, <1>8, <2>1, <2>2 DEF AllWell
<1>15. CASE k = "sampler"
  <2>1. UNCHANGED <<job, run>>
    BY <1>1, <1>15 DEF EndWorkers
  <2> QED  BY <1>1, <1>13, <1>14, <2>1, NotTwiceStays
<1>16. CASE k = "loader"
  <2>1. \A i \in Slots : job[i] = {}
    BY <1>2, <1>3, <1>16, NoJobs
  <2> DEFINE lost == UNION {{j.call : j \in {x \in job[i] : x.heard}} : i \in Slots}
  <2>2. lost = {}
    BY <2>1
  <2>3. /\ job' = [i \in Slots |-> IF i \in Slots THEN {} ELSE job[i]]
        /\ run' = [run EXCEPT !.calls = [n \in Slots |->
                       IF n \in lost THEN "error" ELSE run.calls[n]]]
    BY <1>1, <1>16 DEF EndWorkers
  <2> HIDE DEF lost
  <2>4. run'.calls = run.calls
    BY <2>2, <2>3 DEF IInv, Types, RunType, Calls
  <2>5. \A i \in Slots : job'[i] = {}
    BY <2>3
  <2>6. NotTwice'
    BY <1>1, <2>4, <2>5 DEF NotTwice
  <2> QED  BY <1>13, <1>14, <2>6
<1> QED  BY <1>2, <1>15, <1>16

\* A worker is launched.
LEMMA LaunchWell ==
  ASSUME IInv, AllWell, Places, NEW k \in Kinds, NEW i \in Slots, Launch(k, i)
  PROVE  AllWell' /\ Places'
<1>1. /\ launch[k].phase \in {"go", "bad"} /\ i \in launch[k].left
      /\ launch' = [launch EXCEPT ![k].left = @ \ {i}]
      /\ proc' = [proc EXCEPT ![k][i] = "begun"]
      /\ UNCHANGED <<coord, clients, run, late, job, loaded, master, crashes>>
  BY DEF Launch
<1>2. launch[k].phase = "go" /\ Launched(k)
  BY <1>1 DEF Places, Launching
<1>3. proc[k][i] = "down"
  BY <1>1, <1>2 DEF Places, Launching
<1>4. /\ \A m \in Kinds : launch'[m].phase = launch[m].phase
      /\ launch'[k].left = launch[k].left \ {i}
      /\ \A m \in Kinds : m # k => launch'[m] = launch[m]
  BY <1>1 DEF IInv, Types, CoordType
<1>5. /\ \A m \in Kinds : m # k => proc'[m] = proc[m]
      /\ proc'[k][i] = "begun"
      /\ \A j \in Slots : j # i => proc'[k][j] = proc[k][j]
  BY <1>1 DEF IInv, Types, ProcType
<1>6. \A m \in Kinds : Launched(m)' = Launched(m)
  BY <1>1, <1>4 DEF Launched
<1>7. \A m \in Kinds : m # k => Entries(m)' /\ Launching(m)'
  BY <1>1, <1>4, <1>5, <1>6, KindStays DEF Places
<1>8. Entries(k)'
  <2>1. \A n \in DOMAIN clients[k] : clients[k][n].slot \in Slots /\ clients[k][n].slot # i
    BY <1>3, KindFacts DEF Places, Entries
  <2> QED  BY <1>1, <1>5, <2>1 DEF Places, Entries
<1>9. Launching(k)'
  BY <1>1, <1>2, <1>4, <1>5, <1>6 DEF Places, Launching, SlotsOf
<1>10. Places'
  BY <1>7, <1>8, <1>9 DEF Places
<1>11. coord.state # "failed"
  BY <1>2 DEF AllWell, NoLaunch
<1>12. AllWell'
  BY <1>1, <1>4, <1>5, <1>11 DEF AllWell, Kinds
<1> QED  BY <1>10, <1>12

\* All workers of a kind are launched.
LEMMA LaunchEndsWell ==
  ASSUME IInv, AllWell, Places, NEW k \in Kinds, LaunchEnds(k)
  PROVE  AllWell' /\ Places' /\ UNCHANGED <<run, job, loaded, master, crashes>>
<1>1. launch[k].phase = "go" /\ Launched(k)
  BY DEF LaunchEnds, Places, Launching
<1>2. /\ launch' = [launch EXCEPT ![k].phase = "no"]
      /\ UNCHANGED <<coord, clients, run, proc, late, job, loaded, master, crashes>>
  BY <1>1 DEF LaunchEnds
<1>3. /\ launch'[k].phase = "no" /\ launch'[k].left = launch[k].left
      /\ \A m \in Kinds : m # k => launch'[m] = launch[m]
  BY <1>2 DEF IInv, Types, CoordType
<1>4. \A m \in Kinds : Launched(m)' = Launched(m)
  BY <1>1, <1>2, <1>3 DEF Launched
<1>5. \A m \in Kinds : m # k => Entries(m)' /\ Launching(m)'
  BY <1>2, <1>3, <1>4, KindStays DEF Places
<1>6. Entries(k)' /\ Launching(k)'
  BY <1>1, <1>2, <1>3, <1>4 DEF Places, Entries, Launching, SlotsOf
<1>7. Places'
  BY <1>5, <1>6 DEF Places
<1>8. coord.state # "failed"
  BY <1>1 DEF AllWell, NoLaunch
<1>9. AllWell'
  BY <1>2, <1>3, <1>8 DEF AllWell, Kinds
<1> QED  BY <1>2, <1>7, <1>9

\* prism restarts a coordinator that had failed on its own account.
LEMMA RestartCoordinatorWell ==
  ASSUME IInv, AllWell, Places, RestartCoordinator
  PROVE  AllWell' /\ Places' /\ UNCHANGED <<run, job, loaded, master, crashes>>
<1>1. /\ coord.state = "failed" /\ coord'.state = "up"
      /\ launch' = [NoLaunch EXCEPT !["sampler"].phase = "kill"]
      /\ UNCHANGED <<clients, run, proc, late, job, loaded, master, crashes>>
  BY DEF RestartCoordinator
<1>2. /\ NumVShards \in Nat /\ NumVShards > 0 /\ "sampler" \in Kinds /\ "loader" \in Kinds
      /\ \A k \in Kinds : k = "sampler" \/ k = "loader"
  BY ChunkFacts DEF Kinds
<1>3. launch'["sampler"].phase = "kill" /\ launch'["loader"].phase = "no"
  BY <1>1, <1>2 DEF NoLaunch
<1>4. Len(clients["sampler"]) # NumVShards
  BY <1>1, <1>2 DEF AllWell
<1>5. \A k \in Kinds : ~ Launched(k) /\ ~ Launched(k)'
  BY <1>1, <1>2, <1>3, <1>4 DEF Launched
<1>6. \A k \in Kinds : launch'[k].phase # "bad" /\ launch'[k].phase # "go"
  BY <1>2, <1>3
<1>7. \A k \in Kinds : Entries(k)' /\ Launching(k)'
  BY <1>1, <1>5, <1>6 DEF Places, Entries, Launching
<1> QED  BY <1>1, <1>3, <1>7 DEF AllWell, Places

\* The run has all workers: it started when the last loader had registered.
LEMMA RunHasAll ==
  ASSUME IInv, Places, run.at # "none"
  PROVE  \A k \in Kinds : /\ \A i \in Slots : proc[k][i] = "serving"
                          /\ \A n \in Slots : clients[k][n].alive
                          /\ SlotsOf(k) = Slots
<1>1. /\ NumVShards \in Nat /\ NumVShards > 0 /\ "sampler" \in Kinds /\ "loader" \in Kinds
      /\ \A k \in Kinds : k = "sampler" \/ k = "loader"
  BY ChunkFacts DEF Kinds
<1>2. Len(clients["loader"]) = NumVShards
  BY DEF IInv, Core, RunInv
<1>3. clients["loader"] # <<>>
  BY <1>1, <1>2
<1>4. Len(clients["sampler"]) = NumVShards
  BY <1>1, <1>3 DEF Places, Launching, Launched
<1> QED  BY <1>1, <1>2, <1>4, AllRegistered DEF Places

\* A coordinator that is told what it cannot do leaves workers that serve, and
\* has called none of them.
LEMMA DoFailsWell ==
  ASSUME IInv, AllWell, Places, NotTwice, DoFails
  PROVE  AllWell' /\ Places' /\ NotTwice'
<1>1. /\ run.at = "do" /\ run.action \notin Implemented
      /\ coord' = [coord EXCEPT !.state = "failed"]
      /\ launch' = NoLaunch /\ clients' = [k \in Kinds |-> <<>>] /\ run' = NoRun
      /\ proc' = [k \in Kinds |-> [i \in Slots |->
                   IF proc[k][i] = "registering" THEN "refused" ELSE proc[k][i]]]
      /\ late' = None
      /\ job' = [i \in Slots |-> {[j EXCEPT !.heard = FALSE] : j \in job[i]}]
      /\ UNCHANGED <<loaded, master>>
  BY DEF DoFails, CoordinatorExits
<1>2. \A k \in Kinds, i \in Slots : proc[k][i] = "serving"
  BY <1>1, RunHasAll
<1>3. \A k \in Kinds, i \in Slots : proc'[k][i] = "serving" /\ late'[k][i] = 0
  BY <1>1, <1>2 DEF None
<1>4. coord'.state = "failed"
  BY <1>1 DEF IInv, Types, CoordType
<1>5. \A k \in Kinds : clients'[k] = <<>> /\ launch'[k].phase = "no"
  BY <1>1 DEF NoLaunch
<1>6. NumVShards \in Nat /\ NumVShards > 0 /\ "sampler" \in Kinds /\ "loader" \in Kinds
  BY ChunkFacts DEF Kinds
<1>7. \A k \in Kinds : ~ Launched(k)'
  BY <1>4, <1>5, <1>6 DEF Launched
<1>8. Places'
  BY <1>3, <1>5, <1>7 DEF Places, Entries, Launching
<1>9. AllWell'
  BY <1>1, <1>3, <1>5, <1>6 DEF AllWell
<1>10. \A n \in Slots : run.action = "INIT" => run.calls[n] = "none"
  <2>1. \A n \in Slots : run.calls[n] # "none" => "INIT" \in Implemented
    BY DEF NotTwice
  <2>2. run.action \notin Implemented
    BY DEF DoFails
  <2> QED  BY <2>1, <2>2
<1>11. \A i \in Slots : job[i] = {}
  <2> SUFFICES ASSUME NEW i \in Slots, NEW j \in job[i] PROVE FALSE
    OBVIOUS
  <2>1. j.call \in Slots
    BY DEF IInv, Types, JobType, Jobs
  <2>2. run.action = "INIT" /\ run.calls[j.call] = "waiting"
    BY DEF NotTwice, IInv, Core, JobInv
  <2> QED  BY <1>10, <2>1, <2>2
<1>12. \A i \in Slots : job'[i] = {}
  BY <1>1, <1>11
<1>13. \A n \in Slots : run'.calls[n] = "none"
  BY <1>1 DEF NoRun, NoCalls
<1>14. \A c \in DOMAIN Chunks : c = master => \A i \in 1 .. Chunks[c] : loaded[c][i] = 0
  <2> SUFFICES ASSUME NEW c \in DOMAIN Chunks, c = master, NEW i \in 1 .. Chunks[c]
               PROVE  loaded[c][i] = 0
    OBVIOUS
  <2>1. i \in Slots
    BY ChunkFacts
  <2>2. run.calls[i] = "none"
    BY <1>1, <1>10, <2>1 DEF IInv, Core, RunInv
  <2> QED  BY <2>2 DEF NotTwice
<1>15. NotTwice'
  BY <1>1, <1>12, <1>13, <1>14 DEF NotTwice
<1> QED  BY <1>8, <1>9, <1>15

\* RegisterSquad: the master gives a task of which no shard was loaded.
LEMMA RegisterSquadWell ==
  ASSUME IInv, AllWell, Places, NotTwice, RegisterSquad, Unharmed'
  PROVE  AllWell' /\ Places' /\ NotTwice'
<1>1. /\ run.at = "register" /\ run' = NextTask(master)
      /\ UNCHANGED <<coord, launch, clients, proc, late, job, loaded, master>>
  BY FaultsCount DEF RegisterSquad
<1>2. run'.calls = run.calls
  BY <1>1 DEF NextTask, IInv, Core, RunInv
<1> QED  BY <1>1, <1>2, PlacesStay, NotTwiceStays

\* Coordinator.init calls a loader for a shard that nobody loads.
LEMMA CallLoaderWell ==
  ASSUME IInv, AllWell, Places, NotTwice, NEW n \in Slots, CallLoader(n)
  PROVE  AllWell' /\ Places' /\ NotTwice'
<1>1. /\ run.at = "do" /\ run.action = "INIT" /\ "INIT" \in Implemented
      /\ n <= Chunks[master] /\ run.calls[n] = "none"
      /\ UNCHANGED <<coord, launch, clients, proc, late, loaded, master>>
  BY DEF CallLoader
<1> DEFINE at == clients["loader"][n].slot
           jn == [call |-> n, chunk |-> master, sent |-> FALSE, heard |-> TRUE]
<1>2. clients["loader"][n].alive
  BY <1>1, RunHasAll DEF Kinds
<1>3. /\ run' = [run EXCEPT !.calls[n] = "waiting"]
      /\ job' = [job EXCEPT ![at] = @ \cup {jn}]
  BY <1>2 DEF CallLoader
<1>4. jn.call = n /\ jn.chunk = master /\ jn.heard
  OBVIOUS
<1> HIDE DEF at, jn
<1>5. \A i \in Slots : \A j \in job'[i] : j \in job[i] \/ j = jn
  BY <1>3 DEF IInv, Types, JobType
<1>6. /\ run'.calls[n] = "waiting"
      /\ \A m \in Slots : m # n => run'.calls[m] = run.calls[m]
  BY <1>3 DEF IInv, Types, RunType, Calls
<1>7. NumVShards \in Nat /\ master \in DOMAIN Chunks /\ n \in 1 .. Chunks[master]
  BY <1>1, ChunkFacts DEF IInv, Core, RunInv
<1>8. loaded[master][n] = 0
  BY <1>1, <1>7 DEF NotTwice
<1>9. \A i \in Slots : \A j \in job'[i] :
        j.heard /\ (~ j.sent => loaded'[j.chunk][j.call] = 0)
  <2>1. \A i \in Slots : \A j \in job[i] :
          j.heard /\ (~ j.sent => loaded[j.chunk][j.call] = 0)
    BY DEF NotTwice
  <2> QED  BY <1>1, <1>4, <1>5, <1>8, <2>1
<1>10. \A c \in DOMAIN Chunks : \A i \in 1 .. Chunks[c] :
       /\ loaded'[c][i] <= 1
       /\ c > master' => loaded'[c][i] = 0
       /\ c = master' /\ run'.calls[i] = "none" => loaded'[c][i] = 0
  <2> SUFFICES ASSUME NEW c \in DOMAIN Chunks, NEW i \in 1 .. Chunks[c]
               PROVE  /\ loaded[c][i] <= 1
                      /\ c > master => loaded[c][i] = 0
                      /\ c = master /\ run'.calls[i] = "none" => loaded[c][i] = 0
    BY <1>1
  <2>1. i \in Slots
    BY ChunkFacts
  <2>2. run'.calls[i] = "none" => run.calls[i] = "none"
    BY <1>6, <2>1
  <2> QED  BY <2>2 DEF NotTwice
<1>11. \A m \in Slots : /\ run'.calls[m] # "error"
                        /\ run'.calls[m] # "none" => "INIT" \in Implemented
  BY <1>1, <1>6 DEF NotTwice
<1> QED  BY <1>1, <1>9, <1>10, <1>11, PlacesStay DEF NotTwice

\* A loader sends a shard that was not loaded, and no other loader sends it.
LEMMA AccumulateWell ==
  ASSUME IInv, AllWell, Places, NotTwice,
         NEW i \in Slots, NEW j \in job[i], Accumulate(i, j)
  PROVE  AllWell' /\ Places' /\ NotTwice'
<1>1. /\ ~ j.sent
      /\ loaded' = [loaded EXCEPT ![j.chunk][j.call] = @ + 1]
      /\ job' = [job EXCEPT ![i] = (@ \ {j}) \cup {[j EXCEPT !.sent = TRUE]}]
      /\ UNCHANGED <<coord, launch, clients, run, proc, late, master>>
  BY DEF Accumulate
<1> DEFINE n == j.call
<1>2. /\ j.heard /\ loaded[j.chunk][n] = 0
      /\ j.chunk = master /\ run.calls[n] = "waiting" /\ n <= Chunks[master]
  BY <1>1 DEF NotTwice, IInv, Core, JobInv
<1>3. /\ n \in Slots /\ master \in DOMAIN Chunks
      /\ j \in [call : Slots, chunk : DOMAIN Chunks, sent : BOOLEAN, heard : BOOLEAN]
  BY <1>2 DEF IInv, Types, JobType, Jobs
<1>4. n \in 1 .. Chunks[master]
  BY <1>2, <1>3, ChunkFacts
<1> DEFINE js == [j EXCEPT !.sent = TRUE]
<1>5. js.heard /\ js.sent
  BY <1>2, <1>3
<1>6. \A m \in Slots : \A x \in job'[m] : x = js \/ (x \in job[m] /\ ~ (m = i /\ x = j))
  <2> HIDE DEF js
  <2>1. job' = [job EXCEPT ![i] = (@ \ {j}) \cup {js}]
    BY <1>1 DEF js
  <2> QED  BY <2>1 DEF IInv, Types, JobType
<1>7. /\ loaded'[master][n] = 1
      /\ \A c \in DOMAIN Chunks : \A m \in 1 .. Chunks[c] :
           c # master \/ m # n => loaded'[c][m] = loaded[c][m]
  <2> DEFINE row == [loaded[master] EXCEPT ![n] = @ + 1]
  <2>1. loaded' = [loaded EXCEPT ![master] = row]
    BY <1>1, <1>2
  <2>2. loaded[master] \in [1 .. Chunks[master] -> Nat] /\ DOMAIN loaded = DOMAIN Chunks
    BY <1>3 DEF IInv, Types, LoadType
  <2>3. row[n] = loaded[master][n] + 1
    BY <1>4, <2>2
  <2>4. \A m \in 1 .. Chunks[master] : m # n => row[m] = loaded[master][m]
    BY <2>2
  <2> HIDE DEF row, n
  <2>5. /\ loaded'[master] = row
        /\ \A c \in DOMAIN Chunks : c # master => loaded'[c] = loaded[c]
    BY <1>3, <2>1, <2>2
  <2> QED  BY <1>2, <2>3, <2>4, <2>5
<1> HIDE DEF n, js
<1>8. \A m \in Slots : \A x \in job[m] :
        /\ x.heard /\ x.chunk = master /\ x.call \in 1 .. Chunks[master]
        /\ ~ x.sent => loaded[x.chunk][x.call] = 0
        /\ x.call = n => m = i /\ x = j
  <2> SUFFICES ASSUME NEW m \in Slots, NEW x \in job[m]
               PROVE  /\ x.heard /\ x.chunk = master /\ x.call \in 1 .. Chunks[master]
                      /\ ~ x.sent => loaded[x.chunk][x.call] = 0
                      /\ x.call = n => m = i /\ x = j
    OBVIOUS
  <2>1. x.heard /\ (~ x.sent => loaded[x.chunk][x.call] = 0)
    BY DEF NotTwice
  <2>2. x.chunk = master /\ x.call <= Chunks[x.chunk]
    BY <2>1 DEF IInv, Core, JobInv
  <2>3. x.call \in Slots
    BY DEF IInv, Types, JobType, Jobs
  <2>4. x.call \in 1 .. Chunks[master]
    BY <1>3, <2>2, <2>3, ChunkFacts
  <2>5. x.call = n => m = i /\ x = j
    BY <1>2, <2>1 DEF IInv, Core, OneAnswer, n
  <2> QED  BY <2>1, <2>2, <2>4, <2>5
<1>9. \A m \in Slots : \A x \in job'[m] :
        x.heard /\ (~ x.sent => loaded'[x.chunk][x.call] = 0)
  BY <1>3, <1>5, <1>6, <1>7, <1>8
<1>10. \A c \in DOMAIN Chunks : \A m \in 1 .. Chunks[c] :
       /\ loaded'[c][m] <= 1
       /\ c > master' => loaded'[c][m] = 0
       /\ c = master' /\ run'.calls[m] = "none" => loaded'[c][m] = 0
  <2>1. master \in Nat /\ \A c \in DOMAIN Chunks : c \in Nat
    BY ChunkFacts DEF IInv, Types, LoadType
  <2>2. \A c \in DOMAIN Chunks : \A m \in 1 .. Chunks[c] :
       /\ loaded[c][m] <= 1
       /\ c > master => loaded[c][m] = 0
       /\ c = master /\ run.calls[m] = "none" => loaded[c][m] = 0
    BY DEF NotTwice
  <2>3. run' = run /\ master' = master /\ run.calls[n] = "waiting"
    BY <1>1, <1>2 DEF n
  <2> QED  BY <1>7, <2>1, <2>2, <2>3
<1>11. \A m \in Slots : /\ run'.calls[m] # "error"
                        /\ run'.calls[m] # "none" => "INIT" \in Implemented
  BY <1>1 DEF NotTwice
<1> QED  BY <1>1, <1>9, <1>10, <1>11, PlacesStay DEF NotTwice

\* A call returns well: only the fault of a shard makes it fail.
LEMMA InitReturnsWell ==
  ASSUME IInv, AllWell, Places, NotTwice, Unharmed',
         NEW i \in Slots, NEW j \in job[i], InitReturns(i, j)
  PROVE  AllWell' /\ Places' /\ NotTwice'
<1> DEFINE n == j.call
<1>1. /\ j.sent
      /\ job' = [job EXCEPT ![i] = @ \ {j}]
      /\ UNCHANGED <<coord, launch, clients, proc, late, loaded, master>>
      /\ j.heard => run' = [run EXCEPT !.calls[n] = "ok"]
  BY FaultsCount DEF InitReturns
<1>2. j.heard /\ run.calls[n] = "waiting" /\ n \in Slots
  BY DEF NotTwice, IInv, Core, JobInv, Types, JobType, Jobs
<1>3. run' = [run EXCEPT !.calls[n] = "ok"]
  BY <1>1, <1>2
<1> HIDE DEF n
<1>4. /\ run'.calls[n] = "ok"
      /\ \A m \in Slots : m # n => run'.calls[m] = run.calls[m]
  BY <1>2, <1>3 DEF IInv, Types, RunType, Calls
<1>5. \A m \in Slots : \A x \in job'[m] : x \in job[m]
  BY <1>1 DEF IInv, Types, JobType
<1>6. \A m \in Slots : \A x \in job'[m] :
        x.heard /\ (~ x.sent => loaded'[x.chunk][x.call] = 0)
  BY <1>1, <1>5 DEF NotTwice
<1>7. \A c \in DOMAIN Chunks : \A m \in 1 .. Chunks[c] :
       /\ loaded'[c][m] <= 1
       /\ c > master' => loaded'[c][m] = 0
       /\ c = master' /\ run'.calls[m] = "none" => loaded'[c][m] = 0
  <2> SUFFICES ASSUME NEW c \in DOMAIN Chunks, NEW m \in 1 .. Chunks[c]
               PROVE  /\ loaded[c][m] <= 1
                      /\ c > master => loaded[c][m] = 0
                      /\ c = master /\ run'.calls[m] = "none" => loaded[c][m] = 0
    BY <1>1
  <2>1. m \in Slots
    BY ChunkFacts
  <2>2. run'.calls[m] = "none" => run.calls[m] = "none"
    BY <1>4, <2>1
  <2> QED  BY <2>2 DEF NotTwice
<1>8. "INIT" \in Implemented
  BY <1>2 DEF NotTwice
<1>9. \A m \in Slots : /\ run'.calls[m] # "error"
                       /\ run'.calls[m] # "none" => "INIT" \in Implemented
  BY <1>4, <1>8 DEF NotTwice
<1> QED  BY <1>1, <1>6, <1>7, <1>9, PlacesStay DEF NotTwice

\* The task is reported, and the shards of the next one are not loaded yet.
LEMMA CompleteTaskWell ==
  ASSUME IInv, AllWell, Places, NotTwice, CompleteTask
  PROVE  AllWell' /\ Places' /\ NotTwice'
<1>1. /\ Returned
      /\ UNCHANGED <<coord, launch, clients, proc, late, job, loaded>>
      /\ \/ run.action = "INIT" /\ master' = master + 1 /\ run' = NextTask(master + 1)
         \/ UNCHANGED <<master, run>>
  BY DEF CompleteTask, NotTwice
<1>2. CASE UNCHANGED <<master, run>>
  BY <1>1, <1>2, PlacesStay, NotTwiceStays
<1>3. CASE run.action = "INIT" /\ master' = master + 1 /\ run' = NextTask(master + 1)
  <2>1. /\ master \in DOMAIN Chunks /\ master \in Nat /\ "INIT" \in Implemented
        /\ \A n \in 1 .. Chunks[master] : run.calls[n] # "waiting"
        /\ \A c \in DOMAIN Chunks : c \in Nat
    BY <1>1, <1>3, ChunkFacts DEF Returned, IInv, Core, RunInv, Types, LoadType
  <2>2. \A i \in Slots : job[i] = {}
    <3> SUFFICES ASSUME NEW i \in Slots, NEW j \in job[i] PROVE FALSE
      OBVIOUS
    <3>1. j.heard /\ j.call \in Slots
      BY DEF NotTwice, IInv, Types, JobType, Jobs
    <3>2. run.calls[j.call] = "waiting" /\ j.call <= Chunks[master]
      BY <3>1 DEF IInv, Core, JobInv
    <3>3. j.call \in 1 .. Chunks[master]
      BY <2>1, <3>1, <3>2, ChunkFacts
    <3> QED  BY <2>1, <3>2, <3>3
  <2>3. \A n \in Slots : run'.calls[n] = "none"
    BY <1>3 DEF NextTask, NoCalls
  <2>4. \A c \in DOMAIN Chunks : \A i \in 1 .. Chunks[c] :
          /\ loaded'[c][i] <= 1
          /\ c > master' => loaded'[c][i] = 0
          /\ c = master' => loaded'[c][i] = 0
    <3>1. \A c \in DOMAIN Chunks : \A i \in 1 .. Chunks[c] :
            loaded[c][i] <= 1 /\ (c > master => loaded[c][i] = 0)
      BY DEF NotTwice
    <3> QED  BY <1>1, <1>3, <2>1, <3>1
  <2>5. NotTwice'
    BY <1>1, <2>2, <2>3, <2>4 DEF NotTwice
  <2> QED  BY <1>1, <2>5, PlacesStay
<1> QED  BY <1>1, <1>2, <1>3

-----------------------------------------------------------------------------
\* A fault that happened stays known.
LEMMA HarmStays == ASSUME IInv, [Next]_vars, Unharmed' PROVE Unharmed
<1>0. \A what : ~ CanCrash(what)
  BY FaultsCount
<1> SUFFICES UNCHANGED crashes
  BY DEF Unharmed
<1>1. CASE Coordinator
  <2>1. CASE \E k \in Kinds : LaunchWorkers(k)
    BY <1>0, <2>1 DEF LaunchWorkers, KillWorkers, LaunchEnds, Launch, LaunchFails
  <2>2. CASE \E i \in Slots, isLate \in BOOLEAN :
               RegisterSampler(i, isLate) \/ RegisterLoader(i, isLate)
    BY <2>2 DEF RegisterSampler, RegisterLoader
  <2>3. CASE RegisterSquad \/ DoFails \/ CompleteTask \/ \E n \in Slots : CallLoader(n)
    BY <1>0, <2>3 DEF RegisterSquad, DoFails, CompleteTask, CallLoader
  <2> QED  BY <1>1, <2>1, <2>2, <2>3 DEF Coordinator
<1>2. CASE Prism
  BY <1>2 DEF Prism, RestartCoordinator, RestartWorker
<1>3. CASE Crash
  BY <1>0, <1>3 DEF Crash, CoordinatorCrash, CoordinatorInterrupt, WorkerCrash
<1>4. CASE \E k \in Kinds, i \in Slots : Worker(k, i)
  BY <1>0, <1>4 DEF Worker, DialCoordinator, Leave, ConnectToSamplers, Accumulate, InitReturns
<1>5. CASE UNCHANGED vars
  BY <1>5 DEF vars
<1> QED  BY <1>1, <1>2, <1>3, <1>4, <1>5 DEF Next

LEMMA InitFaultless == Init => Faultless
<1> SUFFICES ASSUME Init PROVE Faultless
  OBVIOUS
<1>1. /\ coord.state = "up" /\ launch = [NoLaunch EXCEPT !["sampler"].phase = "kill"]
      /\ \A k \in Kinds : clients[k] = <<>>
      /\ run = NoRun /\ Unharmed
      /\ \A k \in Kinds, i \in Slots : proc[k][i] = "down" /\ late[k][i] = 0
      /\ \A i \in Slots : job[i] = {}
      /\ \A c \in DOMAIN Chunks : \A i \in 1 .. Chunks[c] : loaded[c][i] = 0
  BY DEF Init, None
<1>2. /\ NumVShards \in Nat /\ NumVShards > 0 /\ "sampler" \in Kinds /\ "loader" \in Kinds
      /\ \A k \in Kinds : k = "sampler" \/ k = "loader"
  BY ChunkFacts DEF Kinds
<1>3. launch["sampler"].phase = "kill" /\ launch["loader"].phase = "no"
  BY <1>1, <1>2 DEF NoLaunch
<1>4. \A k \in Kinds : ~ Launched(k)
  BY <1>1, <1>2, <1>3 DEF Launched
<1>5. Places
  BY <1>1, <1>2, <1>3, <1>4 DEF Places, Entries, Launching
<1>6. AllWell
  BY <1>1, <1>2, <1>3 DEF AllWell
<1>7. NotTwice
  BY <1>1 DEF NotTwice, NoRun, NoCalls
<1> QED  BY <1>1, <1>5, <1>6, <1>7 DEF Faultless

\* What holds without faults is inductive: each step that is no fault keeps it, and
\* without faults nothing restarts but the coordinator.
LEMMA StepFaultless ==
  ASSUME IInv, IInv', Unharmed => Faultless, [Next]_vars
  PROVE  Unharmed' => Faultless'
<1> SUFFICES ASSUME Unharmed' PROVE AllWell' /\ Places' /\ NotTwice'
  BY DEF Faultless
<1>1. AllWell /\ Places /\ NotTwice /\ Unharmed
  BY HarmStays DEF Faultless
<1>2. ASSUME AllWell' /\ Places' /\ UNCHANGED <<run, job, loaded, master, crashes>>
      PROVE  AllWell' /\ Places' /\ NotTwice'
  BY <1>1, <1>2, NotTwiceStays
<1>3. CASE Coordinator
  <2>1. ASSUME NEW k \in Kinds, LaunchWorkers(k) PROVE AllWell' /\ Places' /\ NotTwice'
    <3>1. CASE KillWorkers(k)
      BY <1>1, <3>1, KillWorkersWell
    <3>2. CASE LaunchEnds(k)
      BY <1>1, <1>2, <3>2, LaunchEndsWell
    <3>3. CASE \E i \in Slots : Launch(k, i)
      BY <1>1, <1>2, <3>3, LaunchWell DEF Launch
    <3>4. ~ \E i \in Slots : LaunchFails(k, i)
      BY FaultsCount DEF LaunchFails
    <3> QED  BY <2>1, <3>1, <3>2, <3>3, <3>4 DEF LaunchWorkers
  <2>2. CASE \E i \in Slots, isLate \in BOOLEAN : RegisterSampler(i, isLate)
    BY <1>1, <1>2, <2>2, RegisterSamplerWell
  <2>3. CASE \E i \in Slots, isLate \in BOOLEAN : RegisterLoader(i, isLate)
    BY <1>1, <2>3, RegisterLoaderWell, NotTwiceStays
  <2>4. CASE RegisterSquad \/ DoFails \/ CompleteTask
    BY <1>1, <2>4, RegisterSquadWell, DoFailsWell, CompleteTaskWell
  <2>5. CASE \E n \in Slots : CallLoader(n)
    BY <1>1, <2>5, CallLoaderWell
  <2> QED  BY <1>3, <2>1, <2>2, <2>3, <2>4, <2>5 DEF Coordinator
<1>4. CASE Prism
  <2>1. ~ \E k \in Kinds, i \in Slots : RestartWorker(k, i)
    BY <1>1 DEF RestartWorker, AllWell
  <2> QED  BY <1>1, <1>2, <1>4, <2>1, RestartCoordinatorWell DEF Prism
<1>5. ~ Crash
  BY FaultsCount DEF Crash, CoordinatorCrash, CoordinatorInterrupt, WorkerCrash
<1>6. ASSUME NEW k \in Kinds, NEW i \in Slots, Worker(k, i)
      PROVE  AllWell' /\ Places' /\ NotTwice'
  <2>1. CASE DialCoordinator(k, i) \/ (k = "loader" /\ ConnectToSamplers(i))
    BY <1>1, <1>2, <2>1, WorkerStartWell
  <2>2. ~ Leave(k, i)
    BY <1>1 DEF Leave, AllWell
  <2>3. CASE \E j \in job[i] : Accumulate(i, j) \/ InitReturns(i, j)
    BY <1>1, <2>3, AccumulateWell, InitReturnsWell
  <2> QED  BY <1>6, <2>1, <2>2, <2>3 DEF Worker
<1>7. CASE UNCHANGED vars
  <2>1. UNCHANGED <<coord, launch, clients, run, proc, retry, late, job, loaded, master, crashes>>
    BY <1>7 DEF vars
  <2> QED  BY <1>1, <1>2, <2>1, PlacesStay
<1> QED  BY <1>3, <1>4, <1>5, <1>6, <1>7 DEF Next

LEMMA FaultlessAlways == Spec => [](IInv /\ (Unharmed => Faultless))
<1>1. Init => IInv /\ (Unharmed => Faultless)
  BY InitIInv, InitFaultless
<1>2. IInv /\ (Unharmed => Faultless) /\ [Next]_vars
        => (IInv /\ (Unharmed => Faultless))'
  BY StepIInv, StepFaultless
<1> QED  BY <1>1, <1>2, PTL DEF Spec

\* As long as nothing fails, the coordinator counts workers: it launches the loaders
\* when every sampler is registered, and runs when every loader is, for every number
\* of workers and every order of their launches, connections and registrations.
THEOREM CountsAreOfWorkers == Spec => []CountsStandForWorkers
<1>1. IInv /\ (Unharmed => Faultless) => CountsStandForWorkers
  <2> SUFFICES ASSUME IInv, Faultless PROVE AllLoadersRegistered /\ AllSamplersRegistered
    BY DEF CountsStandForWorkers
  <2>1. /\ AllWell /\ Places /\ "sampler" \in Kinds /\ "loader" \in Kinds /\ NumVShards \in Nat
    BY ChunkFacts DEF Faultless, Kinds
  <2>2. AllLoadersRegistered
    BY <2>1, RunHasAll DEF AllLoadersRegistered
  <2>3. launch["loader"].phase # "no" \/ clients["loader"] # <<>>
          => Len(clients["sampler"]) = NumVShards
    BY <2>1 DEF AllWell, Places, Launching, Launched
  <2>4. AllSamplersRegistered
    BY <2>1, <2>3, AllRegistered DEF AllSamplersRegistered, Places
  <2> QED  BY <2>2, <2>4
<1> QED  BY <1>1, FaultlessAlways, PTL

\* As long as nothing fails, the aggregators get the model of each shard at most
\* once, whatever the tasks of the master, also when prism restarts the coordinator
\* that ended because it was told what it cannot do.
THEOREM ShardsLoadedOnce == Spec => []LoadedOnce
<1>1. (Unharmed => Faultless) => LoadedOnce
  BY DEF Faultless, NotTwice, LoadedOnce
<1> QED  BY <1>1, FaultlessAlways, PTL

-----------------------------------------------------------------------------
(* Loading, whatever dies.  For a shard, count how often it was accumulated *)
(* and the calls of Loader.Init that may accumulate it yet: there is at     *)
(* most one for each life of the coordinator, and none of this life before  *)
(* it has made the call.                                                    *)

Lives == Retry - coord.restarts + 1

\* The calls that may accumulate the shard, by the loader and whether they are heard.
Unsent(c, i) ==
  {p \in Slots \X BOOLEAN :
     [call |-> i, chunk |-> c, sent |-> FALSE, heard |-> p[2]] \in job[p[1]]}

Tally(c, i) == loaded[c][i] + Cardinality(Unsent(c, i))

Called(c, i) == c = master /\ run.at = "do" /\ run.calls[i] # "none"

OncePerLife ==
  \A c \in DOMAIN Chunks : \A i \in 1 .. Chunks[c] :
    /\ Tally(c, i) <= Lives
    /\ coord.state = "up" /\ c >= master /\ ~ Called(c, i) => Tally(c, i) <= Lives - 1

\* Only a coordinator that lives works, and no loader knows of tasks to come.
WorksAlive ==
  /\ run.at # "none" => coord.state = "up"
  /\ \A l \in Slots : \A j \in job[l] : j.chunk <= master

LifeInv == WorksAlive /\ OncePerLife

LEMMA UnsentFinite == \A c, i : IsFiniteSet(Unsent(c, i)) /\ Cardinality(Unsent(c, i)) \in Nat
<1>1. IsFiniteSet(Slots)
  <2>1. NumVShards \in Int /\ 1 \in Int /\ Slots = 1 .. NumVShards
    BY ChunkFacts
  <2> QED  BY <2>1, FS_Interval
<1>2. IsFiniteSet(BOOLEAN)
  <2>1. BOOLEAN = {TRUE} \cup {FALSE}
    OBVIOUS
  <2>2. IsFiniteSet({TRUE}) /\ IsFiniteSet({FALSE})
    BY FS_Singleton
  <2> QED  BY <2>1, <2>2, FS_Union
<1>3. IsFiniteSet(Slots \X BOOLEAN)
  BY <1>1, <1>2, FS_Product
<1>4. ASSUME NEW c, NEW i PROVE Unsent(c, i) \subseteq Slots \X BOOLEAN
  BY Zenon DEF Unsent
<1> QED  BY <1>3, <1>4, FS_Subset, FS_CardinalityType

\* The numbers there are.
LEMMA LifeFacts ==
  ASSUME IInv
  PROVE  /\ Retry \in Nat /\ coord.restarts \in 0 .. Retry /\ Lives \in Nat /\ Lives >= 1
         /\ master \in 1 .. Len(Chunks) + 1 /\ Len(Chunks) \in Nat
         /\ DOMAIN Chunks = 1 .. Len(Chunks)
         /\ \A c \in DOMAIN Chunks : \A i \in 1 .. Chunks[c] : loaded[c][i] \in Nat
<1>1. Retry \in Nat
  BY SquadAssumption
<1>2. coord.restarts \in 0 .. Retry /\ master \in 1 .. Len(Chunks) + 1
  BY DEF IInv, Types, CoordType, LoadType
<1>3. \A c \in DOMAIN Chunks : \A i \in 1 .. Chunks[c] : loaded[c][i] \in Nat
  BY DEF IInv, Types, LoadType
<1> QED  BY <1>1, <1>2, <1>3, ChunkFacts DEF Lives

\* A coordinator that ends leaves its loaders their calls, though it does not hear
\* of them any more; nothing is called anew.
Unheard == \A l \in Slots : job'[l] = {[j EXCEPT !.heard = FALSE] : j \in job[l]}

LEMMA UnsentFewer ==
  ASSUME IInv, (\A l \in Slots : job'[l] \subseteq job[l]) \/ Unheard, NEW c, NEW i
  PROVE  /\ Cardinality(Unsent(c, i)') <= Cardinality(Unsent(c, i))
         /\ Cardinality(Unsent(c, i)') \in Nat
<1> DEFINE P == Unsent(c, i)
           Q == Unsent(c, i)'
           x(h) == [call |-> i, chunk |-> c, sent |-> FALSE, heard |-> h]
<1>0. IsFiniteSet(P)
  BY UnsentFinite
<1>1. CASE \A l \in Slots : job'[l] \subseteq job[l]
  <2>1. Q \subseteq P
    BY <1>1 DEF Unsent
  <2> HIDE DEF P, Q
  <2>2. Cardinality(Q) <= Cardinality(P) /\ Cardinality(Q) \in Nat
    BY <1>0, <2>1, FS_Subset, FS_CardinalityType
  <2> QED  BY <2>2 DEF P, Q
<1>2. CASE Unheard
  <2> DEFINE R == {<<p[1], FALSE>> : p \in P}
             f == [p \in P |-> <<p[1], FALSE>>]
  <2>1. f \in Surjection(P, R)
    BY DEF Surjection
  <2> HIDE DEF f, R, P
  <2>2. IsFiniteSet(R) /\ Cardinality(R) <= Cardinality(P)
    BY <1>0, <2>1, FS_Surjection
  <2>3. Q \subseteq R
    <3> SUFFICES ASSUME NEW p \in Slots \X BOOLEAN, x(p[2]) \in job'[p[1]] PROVE p \in R
      BY DEF Unsent
    <3>1. PICK l \in Slots, h \in BOOLEAN : p = <<l, h>>
      OBVIOUS
    <3>0. x(h) \in job'[l]
      <4>1. p[1] = l /\ p[2] = h
        BY <3>1
      <4> QED  BY <4>1
    <3> HIDE DEF x
    <3>2. PICK j \in job[l] : x(h) = [j EXCEPT !.heard = FALSE]
      BY <1>2, <3>0 DEF Unheard
    <3>3. j \in [call : Slots, chunk : DOMAIN Chunks, sent : BOOLEAN, heard : BOOLEAN]
      BY DEF IInv, Types, JobType, Jobs
    <3>4. j = x(j.heard) /\ h = FALSE /\ j.heard \in BOOLEAN
      BY <3>2, <3>3 DEF x
    <3>5. <<l, j.heard>> \in P
      <4> DEFINE q == <<l, j.heard>>
      <4>1. q \in Slots \X BOOLEAN /\ q[1] = l /\ q[2] = j.heard
        BY <3>4
      <4> HIDE DEF q
      <4>2. x(q[2]) \in job[q[1]]
        BY <3>4, <4>1
      <4>3. q \in P
        BY <4>1, <4>2 DEF P, Unsent, x
      <4> QED  BY <4>3 DEF q
    <3>6. p = <<(<<l, j.heard>>)[1], FALSE>>
      BY <3>1, <3>4
    <3> QED  BY <3>5, <3>6 DEF R
  <2>4. Cardinality(Q) <= Cardinality(R)
    BY <2>2, <2>3, FS_Subset
  <2>5. Cardinality(Q) \in Nat /\ Cardinality(R) \in Nat /\ Cardinality(P) \in Nat
    <3>1. IsFiniteSet(Q)
      BY <2>2, <2>3, FS_Subset
    <3> QED  BY <1>0, <2>2, <3>1, FS_CardinalityType
  <2> HIDE DEF Q
  <2>6. Cardinality(Q) <= Cardinality(P)
    BY <2>2, <2>4, <2>5
  <2> QED  BY <2>5, <2>6 DEF P, Q
<1> QED  BY <1>1, <1>2

\* A step that neither loads, nor calls a loader, nor begins a life or a task.
Quieter ==
  /\ UNCHANGED <<loaded, master>> /\ coord'.restarts = coord.restarts
  /\ coord'.state = "up" =>
       /\ coord.state = "up"
       /\ \A n \in Slots : run.at = "do" /\ run.calls[n] # "none" =>
            run'.at = "do" /\ run'.calls[n] # "none"
  /\ run'.at # "none" => coord'.state = "up"
  /\ (\A l \in Slots : job'[l] \subseteq job[l]) \/ Unheard

LEMMA QuieterKeeps == ASSUME IInv, LifeInv, Quieter PROVE LifeInv'
<1>1. Lives' = Lives
  BY DEF Quieter, Lives
<1>2. \A c \in DOMAIN Chunks : \A i \in 1 .. Chunks[c] : Tally(c, i)' <= Tally(c, i)
  <2> SUFFICES ASSUME NEW c \in DOMAIN Chunks, NEW i \in 1 .. Chunks[c]
               PROVE  Tally(c, i)' <= Tally(c, i)
    OBVIOUS
  <2>1. Cardinality(Unsent(c, i)') <= Cardinality(Unsent(c, i))
        /\ Cardinality(Unsent(c, i)') \in Nat
    BY UnsentFewer DEF Quieter
  <2>2. Cardinality(Unsent(c, i)) \in Nat /\ loaded[c][i] \in Nat /\ loaded'[c][i] = loaded[c][i]
    BY UnsentFinite, LifeFacts DEF Quieter
  <2>3. Tally(c, i)' = loaded'[c][i] + Cardinality(Unsent(c, i)')
    BY DEF Tally
  <2> QED  BY <2>1, <2>2, <2>3 DEF Tally
<1>3. \A c \in DOMAIN Chunks : \A i \in 1 .. Chunks[c] :
        Tally(c, i) \in Nat /\ Tally(c, i)' \in Nat
  <2> SUFFICES ASSUME NEW c \in DOMAIN Chunks, NEW i \in 1 .. Chunks[c]
               PROVE  Tally(c, i) \in Nat /\ Tally(c, i)' \in Nat
    OBVIOUS
  <2>1. Cardinality(Unsent(c, i)') \in Nat /\ Cardinality(Unsent(c, i)) \in Nat
        /\ loaded[c][i] \in Nat /\ loaded'[c][i] \in Nat
    BY UnsentFewer, UnsentFinite, LifeFacts DEF Quieter
  <2> QED  BY <2>1 DEF Tally
<1>4. WorksAlive'
  <2>1. \A l \in Slots : \A j \in job'[l] : j.chunk <= master
    <3>1. CASE \A l \in Slots : job'[l] \subseteq job[l]
      BY <3>1 DEF LifeInv, WorksAlive
    <3>2. CASE Unheard
      <4>1. ASSUME NEW l \in Slots, NEW x \in job'[l] PROVE x.chunk <= master
        <5>1. PICK j \in job[l] : x = [j EXCEPT !.heard = FALSE]
          BY <3>2, <4>1 DEF Unheard
        <5>2. j \in [call : Slots, chunk : DOMAIN Chunks, sent : BOOLEAN, heard : BOOLEAN]
          BY DEF IInv, Types, JobType, Jobs
        <5>3. x.chunk = j.chunk
          BY <5>1, <5>2
        <5> QED  BY <5>3 DEF LifeInv, WorksAlive
      <4> QED  BY <4>1
    <3> QED  BY <3>1, <3>2 DEF Quieter
  <2> QED  BY <2>1 DEF WorksAlive, Quieter
<1>5. ASSUME coord'.state = "up", NEW c \in DOMAIN Chunks, NEW i \in 1 .. Chunks[c], ~ Called(c, i)'
      PROVE  coord.state = "up" /\ ~ Called(c, i)
  <2>1. i \in Slots
    BY ChunkFacts
  <2> QED  BY <1>5, <2>1 DEF Called, Quieter
<1>6. OncePerLife'
  <2> SUFFICES ASSUME NEW c \in DOMAIN Chunks, NEW i \in 1 .. Chunks[c]
               PROVE  /\ Tally(c, i)' <= Lives'
                      /\ coord'.state = "up" /\ c >= master' /\ ~ Called(c, i)' => Tally(c, i)' <= Lives' - 1
    BY DEF OncePerLife
  <2>1. Tally(c, i)' <= Tally(c, i) /\ Tally(c, i) \in Nat /\ Tally(c, i)' \in Nat
        /\ Lives' = Lives /\ Lives \in Nat /\ master' = master
    BY <1>1, <1>2, <1>3, LifeFacts DEF Quieter
  <2>2. Tally(c, i) <= Lives
    BY DEF LifeInv, OncePerLife
  <2>3. coord'.state = "up" /\ c >= master' /\ ~ Called(c, i)' => Tally(c, i) <= Lives - 1
    BY <1>5, <2>1 DEF LifeInv, OncePerLife
  <2> QED  BY <2>1, <2>2, <2>3
<1> QED  BY <1>4, <1>6 DEF LifeInv

\* Steps that leave the coordinator at its work, or where it is before it.
LEMMA StillQuiet ==
  ASSUME IInv, LifeInv, UNCHANGED <<coord, run, job, loaded, master>>
  PROVE  Quieter
  BY DEF Quieter, LifeInv, WorksAlive

LEMMA ExitsQuietly ==
  ASSUME IInv, CoordinatorExits, UNCHANGED <<loaded, master>>
  PROVE  Quieter
<1>1. coord' = [coord EXCEPT !.state = "failed"] /\ run' = NoRun
      /\ job' = [i \in Slots |-> {[j EXCEPT !.heard = FALSE] : j \in job[i]}]
  BY DEF CoordinatorExits
<1>2. coord'.restarts = coord.restarts /\ coord'.state = "failed" /\ run'.at = "none"
  BY <1>1 DEF IInv, Types, CoordType, NoRun
<1>3. Unheard
  BY <1>1 DEF Unheard
<1> QED  BY <1>2, <1>3 DEF Quieter

LEMMA ReturnsQuietly ==
  ASSUME IInv, CoordinatorReturns, UNCHANGED <<loaded, master>>
  PROVE  Quieter
<1>1. coord' = [coord EXCEPT !.state = "failed"] /\ run' = NoRun
      /\ job' = [i \in Slots |-> {}]
  BY DEF CoordinatorReturns
<1>2. coord'.restarts = coord.restarts /\ coord'.state = "failed" /\ run'.at = "none"
  BY <1>1 DEF IInv, Types, CoordType, NoRun
<1>3. \A l \in Slots : job'[l] \subseteq job[l]
  BY <1>1
<1> QED  BY <1>2, <1>3 DEF Quieter

LEMMA WorkersEndQuietly ==
  ASSUME IInv, LifeInv, NEW k \in Kinds, NEW S \in SUBSET Slots, NEW to,
         EndWorkers(k, S, to), UNCHANGED <<coord, loaded, master>>
  PROVE  Quieter
<1>1. CASE k # "loader"
  BY <1>1, StillQuiet DEF EndWorkers
<1>2. CASE k = "loader"
  <2> DEFINE lost == UNION {{j.call : j \in {x \in job[i] : x.heard}} : i \in S}
  <2>1. /\ job' = [i \in Slots |-> IF i \in S THEN {} ELSE job[i]]
        /\ run' = [run EXCEPT !.calls = [n \in Slots |->
                     IF n \in lost THEN "error" ELSE run.calls[n]]]
    BY <1>2 DEF EndWorkers
  <2> HIDE DEF lost
  <2>2. run'.at = run.at /\ \A n \in Slots : run'.calls[n] \in {run.calls[n], "error"}
    BY <2>1 DEF IInv, Types, RunType, Calls
  <2>3. \A l \in Slots : job'[l] \subseteq job[l]
    BY <2>1
  <2> QED  BY <2>2, <2>3 DEF Quieter, LifeInv, WorksAlive
<1> QED  BY <1>1, <1>2

LEMMA LaunchQuietly ==
  ASSUME IInv, LifeInv, NEW k \in Kinds, LaunchWorkers(k)
  PROVE  Quieter
<1>1. CASE KillWorkers(k)
  BY <1>1, WorkersEndQuietly DEF KillWorkers
<1>2. CASE LaunchEnds(k)
  <2>1. (CoordinatorReturns \/ UNCHANGED <<coord, run, job>>) /\ UNCHANGED <<loaded, master>>
    BY <1>2 DEF LaunchEnds
  <2> QED  BY <2>1, ReturnsQuietly, StillQuiet
<1>3. CASE \E i \in Slots : Launch(k, i) \/ LaunchFails(k, i)
  BY <1>3, StillQuiet DEF Launch, LaunchFails
<1> QED  BY <1>1, <1>2, <1>3 DEF LaunchWorkers

LEMMA RegisterQuietly ==
  ASSUME IInv, LifeInv, NEW i \in Slots, NEW isLate \in BOOLEAN,
         RegisterSampler(i, isLate) \/ RegisterLoader(i, isLate)
  PROVE  Quieter
<1>1. CASE RegisterSampler(i, isLate)
  <2>1. (CoordinatorExits \/ UNCHANGED <<coord, run, job>>) /\ UNCHANGED <<loaded, master>>
    BY <1>1 DEF RegisterSampler
  <2> QED  BY <2>1, ExitsQuietly, StillQuiet
<1>2. CASE RegisterLoader(i, isLate)
  <2>1. UNCHANGED <<coord, job, loaded, master>> /\ coord.state = "up"
    BY <1>2 DEF RegisterLoader, Arrives
  <2>2. CASE UNCHANGED run
    BY <2>1, <2>2, StillQuiet
  <2>3. CASE ~ (Len(clients["loader"]) >= NumVShards)
    <3>1. clients["loader"] \in Seq([slot : Slots, alive : BOOLEAN])
      BY DEF IInv, Types, ClientType, Kinds
    <3>2. run.at = "none"
      BY <2>3, <3>1, ChunkFacts DEF IInv, Core, RunInv
    <3> QED  BY <2>1, <3>2 DEF Quieter
  <2> QED  BY <1>2, <2>2, <2>3 DEF RegisterLoader
<1> QED  BY <1>1, <1>2

LEMMA TaskQuietly ==
  ASSUME IInv, LifeInv, RegisterSquad \/ DoFails
  PROVE  Quieter
<1>1. CASE CoordinatorExits /\ UNCHANGED <<loaded, master>>
  BY <1>1, ExitsQuietly
<1>2. CASE run.at = "register" /\ UNCHANGED <<coord, job, loaded, master>>
  BY <1>2 DEF Quieter, LifeInv, WorksAlive
<1> QED  BY <1>1, <1>2 DEF RegisterSquad, DoFails

LEMMA ReturnsOneQuietly ==
  ASSUME IInv, LifeInv, NEW i \in Slots, NEW j \in job[i], InitReturns(i, j)
  PROVE  Quieter
<1> DEFINE n == j.call
<1>0. PICK result \in {"ok", "error"} :
        run' = IF j.heard THEN [run EXCEPT !.calls[n] = result] ELSE run
  BY DEF InitReturns
<1>1. /\ job' = [job EXCEPT ![i] = job[i] \ {j}] /\ UNCHANGED <<coord, loaded, master>>
  BY DEF InitReturns
<1>2. run'.at = run.at /\ \A m \in Slots : run'.calls[m] \in {run.calls[m], "ok", "error"}
  <2>1. run' = run \/ run' = [run EXCEPT !.calls[n] = result]
    BY <1>0
  <2> HIDE DEF n
  <2> QED  BY <1>0, <2>1 DEF IInv, Types, RunType, Calls
<1>3. \A l \in Slots : job'[l] \subseteq job[l]
  BY <1>1 DEF IInv, Types, JobType
<1> QED  BY <1>1, <1>2, <1>3 DEF Quieter, LifeInv, WorksAlive

\* The step to the next task.
NextTaskStep ==
  /\ run.at = "do" /\ run.action = "INIT" /\ master' = master + 1 /\ run' = NextTask(master + 1)
  /\ UNCHANGED <<coord, job, loaded>>

LEMMA CompleteQuietly == ASSUME IInv, LifeInv, CompleteTask PROVE Quieter \/ NextTaskStep
<1>1. CASE CoordinatorExits /\ UNCHANGED <<loaded, master>>
  BY <1>1, ExitsQuietly
<1>2. CASE UNCHANGED <<coord, run, job, loaded, master>>
  BY <1>2, StillQuiet
<1> QED  BY <1>1, <1>2 DEF CompleteTask, Returned, NextTaskStep

\* What a step is for loading.
LEMMA KindsOfSteps ==
  ASSUME IInv, LifeInv, [Next]_vars
  PROVE  \/ Quieter \/ NextTaskStep \/ RestartCoordinator
         \/ \E n \in Slots : CallLoader(n)
         \/ \E i \in Slots : \E j \in job[i] : Accumulate(i, j)
<1>1. CASE Coordinator
  BY <1>1, LaunchQuietly, RegisterQuietly, TaskQuietly, CompleteQuietly DEF Coordinator
<1>2. ASSUME NEW k \in Kinds, NEW i \in Slots, RestartWorker(k, i) PROVE Quieter
  BY <1>2, StillQuiet DEF RestartWorker
<1>3. CASE CoordinatorCrash \/ CoordinatorInterrupt
  BY <1>3, ExitsQuietly, ReturnsQuietly DEF CoordinatorCrash, CoordinatorInterrupt
<1>4. ASSUME NEW k \in Kinds, NEW i \in Slots, WorkerCrash(k, i) \/ Leave(k, i) PROVE Quieter
  <2>1. PICK to : EndWorkers(k, {i}, to)
    BY <1>4 DEF WorkerCrash, Leave
  <2>2. UNCHANGED <<coord, loaded, master>>
    BY <1>4 DEF WorkerCrash, Leave
  <2> QED  BY <2>1, <2>2, WorkersEndQuietly
<1>5. ASSUME NEW k \in Kinds, NEW i \in Slots,
             DialCoordinator(k, i) \/ ConnectToSamplers(i) PROVE Quieter
  BY <1>5, StillQuiet DEF DialCoordinator, ConnectToSamplers
<1>6. ASSUME NEW k \in Kinds, NEW i \in Slots, Worker(k, i)
      PROVE  Quieter \/ \E j \in job[i] : Accumulate(i, j)
  BY <1>4, <1>5, <1>6, ReturnsOneQuietly DEF Worker
<1>7. CASE UNCHANGED vars
  BY <1>7, StillQuiet DEF vars
<1> QED  BY <1>1, <1>2, <1>3, <1>4, <1>6, <1>7 DEF Next, Prism, Crash

LEMMA TallyType ==
  ASSUME IInv, NEW c \in DOMAIN Chunks, NEW i \in 1 .. Chunks[c]
  PROVE  Tally(c, i) \in Nat
<1>1. loaded[c][i] \in Nat /\ Cardinality(Unsent(c, i)) \in Nat
  BY LifeFacts, UnsentFinite
<1> QED  BY <1>1 DEF Tally

\* A new life.
LEMMA RestartKeeps == ASSUME IInv, LifeInv, RestartCoordinator PROVE LifeInv'
<1>1. /\ coord.state = "failed" /\ coord.restarts > 0
      /\ coord' = [state |-> "up", restarts |-> coord.restarts - 1]
      /\ UNCHANGED <<run, job, loaded, master>>
  BY DEF RestartCoordinator
<1>2. Lives' = Lives + 1 /\ Lives \in Nat
  BY <1>1, LifeFacts DEF Lives
<1>3. \A c, i : Tally(c, i)' = Tally(c, i)
  BY <1>1 DEF Tally, Unsent
<1>4. \A c \in DOMAIN Chunks : \A i \in 1 .. Chunks[c] : Tally(c, i) <= Lives /\ Tally(c, i) \in Nat
  BY TallyType DEF LifeInv, OncePerLife
<1>5. OncePerLife'
  BY <1>2, <1>3, <1>4 DEF OncePerLife
<1>6. WorksAlive'
  BY <1>1 DEF LifeInv, WorksAlive
<1> QED  BY <1>5, <1>6 DEF LifeInv

\* The next task.
LEMMA NextTaskKeeps == ASSUME IInv, IInv', LifeInv, NextTaskStep PROVE LifeInv'
<1>1. master' = master + 1 /\ UNCHANGED <<coord, job, loaded>> /\ master \in Nat
      /\ run.at = "do" /\ coord.state = "up"
  BY LifeFacts DEF NextTaskStep, LifeInv, WorksAlive
<1>2. Lives' = Lives /\ \A c, i : Tally(c, i)' = Tally(c, i)
  BY <1>1 DEF Lives, Tally, Unsent
<1>3. OncePerLife'
  <2> SUFFICES ASSUME NEW c \in DOMAIN Chunks, NEW i \in 1 .. Chunks[c]
               PROVE  /\ Tally(c, i) <= Lives
                      /\ c >= master + 1 => Tally(c, i) <= Lives - 1
    BY <1>1, <1>2 DEF OncePerLife
  <2>1. c \in Nat
    BY LifeFacts
  <2>2. c >= master + 1 => c >= master /\ ~ Called(c, i)
    BY <1>1, <2>1 DEF Called
  <2> QED  BY <1>1, <2>2 DEF LifeInv, OncePerLife
<1>4. WorksAlive'
  <2>1. \A l \in Slots : \A j \in job[l] : j.chunk \in Nat
    <3> SUFFICES ASSUME NEW l \in Slots, NEW j \in job[l] PROVE j.chunk \in Nat
      OBVIOUS
    <3>1. j.chunk \in DOMAIN Chunks
      BY DEF IInv, Types, JobType, Jobs
    <3> QED  BY <3>1, LifeFacts
  <2>2. \A l \in Slots : \A j \in job[l] : j.chunk <= master + 1
    BY <1>1, <2>1 DEF LifeInv, WorksAlive
  <2> QED  BY <1>1, <2>2 DEF WorksAlive
<1> QED  BY <1>3, <1>4 DEF LifeInv

\* A call.
LEMMA CallKeeps == ASSUME IInv, IInv', LifeInv, NEW n \in Slots, CallLoader(n) PROVE LifeInv'
<1> DEFINE s == clients["loader"][n].slot
           x == [call |-> n, chunk |-> master, sent |-> FALSE, heard |-> TRUE]
<1>1. /\ run.at = "do" /\ run.calls[n] = "none" /\ coord.state = "up"
      /\ n <= Chunks[master] /\ master \in DOMAIN Chunks
      /\ UNCHANGED <<coord, loaded, master>>
      /\ \/ /\ run' = [run EXCEPT !.calls[n] = "waiting"]
            /\ job' = [job EXCEPT ![s] = job[s] \cup {x}]
         \/ run' = [run EXCEPT !.calls[n] = "error"] /\ UNCHANGED job
  BY DEF CallLoader, LifeInv, WorksAlive, IInv, Core, RunInv
<1>2. n \in 1 .. Chunks[master] /\ ~ Called(master, n)
  BY <1>1, ChunkFacts DEF Called
<1>3. /\ run'.at = "do" /\ run'.calls[n] # "none"
      /\ \A m \in Slots \ {n} : run'.calls[m] = run.calls[m]
  BY <1>1 DEF IInv, Types, RunType, Calls
<1>4. Lives' = Lives /\ Lives \in Nat
  BY <1>1, LifeFacts DEF Lives
<1>5. \A l \in Slots : \A j \in job'[l] : j \in job[l] \/ j = x
  BY <1>1 DEF IInv, Types, JobType
<1>6. WorksAlive'
  <2>1. master <= master
    BY LifeFacts
  <2>2. \A l \in Slots : \A j \in job'[l] : j.chunk <= master
    BY <1>5, <2>1 DEF LifeInv, WorksAlive
  <2> QED  BY <1>1, <2>2 DEF WorksAlive
<1>7. ASSUME NEW c \in DOMAIN Chunks, NEW i \in 1 .. Chunks[c]
      PROVE  Tally(c, i)' <= Tally(c, i) + (IF c = master /\ i = n THEN 1 ELSE 0)
  <2>1. Unsent(c, i)' \subseteq Unsent(c, i) \cup (IF c = master /\ i = n THEN {<<s, TRUE>>} ELSE {})
    <3>1. ASSUME NEW p \in Unsent(c, i)', p \notin Unsent(c, i)
          PROVE  c = master /\ i = n /\ p = <<s, TRUE>>
      <4> DEFINE y == [call |-> i, chunk |-> c, sent |-> FALSE, heard |-> p[2]]
      <4>1. p \in Slots \X BOOLEAN /\ y \in job'[p[1]] /\ y \notin job[p[1]]
        BY <3>1 DEF Unsent
      <4>2. PICK l \in Slots, h \in BOOLEAN : p = <<l, h>>
        BY <4>1
      <4>3. p[1] = l /\ p[2] = h
        BY <4>2
      <4> HIDE DEF y, x, s
      <4>4. y \in job'[l] /\ y \notin job[l]
        BY <4>1, <4>3
      <4>5. y = x
        BY <1>5, <4>4
      <4>6. l = s
        BY <1>1, <4>4 DEF IInv, Types, JobType
      <4>7. i = n /\ c = master /\ h = TRUE
        BY <4>3, <4>5 DEF x, y
      <4> QED  BY <4>2, <4>6, <4>7
    <3> HIDE DEF s
    <3> QED  BY <3>1
  <2> DEFINE P == Unsent(c, i)
             Q == Unsent(c, i)'
             e == <<s, TRUE>>
  <2>2. IsFiniteSet(P) /\ Cardinality(P) \in Nat
    BY UnsentFinite
  <2>3. loaded'[c][i] = loaded[c][i] /\ loaded[c][i] \in Nat
    BY <1>1, LifeFacts
  <2>4. Tally(c, i) = loaded[c][i] + Cardinality(P) /\ Tally(c, i)' = loaded'[c][i] + Cardinality(Q)
    BY DEF Tally
  <2>5. Q \subseteq P \cup (IF c = master /\ i = n THEN {e} ELSE {})
    BY <2>1
  <2> HIDE DEF P, Q, e
  <2>6. CASE c = master /\ i = n
    <3>1. Q \subseteq P \cup {e}
      BY <2>5, <2>6
    <3>2. IsFiniteSet(P \cup {e}) /\ Cardinality(P \cup {e}) \in {Cardinality(P), Cardinality(P) + 1}
      BY <2>2, FS_AddElement
    <3>3. Cardinality(Q) <= Cardinality(P \cup {e}) /\ Cardinality(Q) \in Nat
      BY <3>1, <3>2, FS_Subset, FS_CardinalityType
    <3>4. Cardinality(Q) <= Cardinality(P) + 1
      BY <2>2, <3>2, <3>3
    <3> QED  BY <2>2, <2>3, <2>4, <2>6, <3>3, <3>4
  <2>7. CASE ~ (c = master /\ i = n)
    <3>1. Q \subseteq P
      BY <2>5, <2>7
    <3>2. Cardinality(Q) <= Cardinality(P) /\ Cardinality(Q) \in Nat
      BY <2>2, <3>1, FS_Subset, FS_CardinalityType
    <3> QED  BY <2>2, <2>3, <2>4, <2>7, <3>2
  <2> QED  BY <2>6, <2>7
<1>8. \A c \in DOMAIN Chunks : \A i \in 1 .. Chunks[c] : Tally(c, i)' \in Nat
  <2> SUFFICES ASSUME NEW c \in DOMAIN Chunks, NEW i \in 1 .. Chunks[c] PROVE Tally(c, i)' \in Nat
    OBVIOUS
  <2>1. (IInv => Tally(c, i) \in Nat)'
    BY TallyType, PTL
  <2> QED  BY <2>1
<1>9. OncePerLife'
  <2> SUFFICES ASSUME NEW c \in DOMAIN Chunks, NEW i \in 1 .. Chunks[c]
               PROVE  /\ Tally(c, i)' <= Lives
                      /\ c >= master /\ ~ Called(c, i)' => Tally(c, i)' <= Lives - 1
    BY <1>1, <1>4 DEF OncePerLife
  <2>1. Tally(c, i) \in Nat /\ Tally(c, i)' \in Nat
    BY <1>8, TallyType
  <2>2. CASE c = master /\ i = n
    <3>1. c >= master
      BY <2>2, LifeFacts
    <3>2. Tally(c, i) <= Lives - 1
      BY <1>1, <1>2, <2>2, <3>1 DEF LifeInv, OncePerLife
    <3>3. Called(c, i)'
      BY <1>1, <1>3, <2>2 DEF Called
    <3>4. Tally(c, i)' <= Tally(c, i) + 1
      BY <1>7, <2>2
    <3> QED  BY <1>4, <2>1, <3>2, <3>3, <3>4
  <2>3. CASE ~ (c = master /\ i = n)
    <3>1. Tally(c, i)' <= Tally(c, i) + 0
      BY <1>7, <2>3
    <3>2. i \in Slots
      BY ChunkFacts
    <3>3. ~ Called(c, i)' => ~ Called(c, i)
      BY <1>1, <1>3, <2>3, <3>2 DEF Called
    <3>4. /\ Tally(c, i) <= Lives
          /\ c >= master /\ ~ Called(c, i)' => Tally(c, i) <= Lives - 1
      BY <1>1, <3>3 DEF LifeInv, OncePerLife
    <3> QED  BY <1>4, <2>1, <3>1, <3>4
  <2> QED  BY <2>2, <2>3
<1> QED  BY <1>6, <1>9 DEF LifeInv

\* The loader accumulates: one call fewer that may, one shard more that did.
LEMMA AccumulateKeeps ==
  ASSUME IInv, IInv', LifeInv, NEW l \in Slots, NEW j \in job[l], Accumulate(l, j)
  PROVE  /\ LifeInv'
         /\ j.chunk \in DOMAIN Chunks /\ j.call \in 1 .. Chunks[j.chunk] /\ j.chunk <= master
         /\ loaded[j.chunk][j.call] < Lives
         /\ loaded' = [loaded EXCEPT ![j.chunk][j.call] = loaded[j.chunk][j.call] + 1]
         /\ UNCHANGED <<coord, master>>
<1> DEFINE b == j.chunk
           m == j.call
           e == <<l, j.heard>>
           y == [j EXCEPT !.sent = TRUE]
<1>1. /\ loaded' = [loaded EXCEPT ![b][m] = loaded[b][m] + 1] /\ ~ j.sent
      /\ job' = [job EXCEPT ![l] = (job[l] \ {j}) \cup {y}]
      /\ UNCHANGED <<coord, run, master>>
  BY DEF Accumulate
<1>2. j \in Jobs /\ b \in DOMAIN Chunks /\ m \in 1 .. Chunks[b]
  <2>1. j \in Jobs /\ b \in DOMAIN Chunks /\ m \in Slots
    BY DEF IInv, Types, JobType, Jobs
  <2>2. m <= Chunks[b]
    BY DEF IInv, Core, JobInv
  <2> QED  BY <2>1, <2>2, ChunkFacts
<1>3. j = [call |-> m, chunk |-> b, sent |-> FALSE, heard |-> j.heard] /\ j.heard \in BOOLEAN
      /\ y.sent = TRUE /\ y.chunk = b
  BY <1>1, <1>2 DEF Jobs
<1>4. \A k \in Slots : \A x \in job'[k] : (x \in job[k] /\ ~ (k = l /\ x = j)) \/ x = y
  BY <1>1 DEF IInv, Types, JobType
<1>5. b <= master /\ WorksAlive'
  <2>1. b <= master /\ \A k \in Slots : \A x \in job[k] : x.chunk <= master
    BY DEF LifeInv, WorksAlive
  <2>2. \A k \in Slots : \A x \in job'[k] : x.chunk <= master
    BY <1>3, <1>4, <2>1
  <2> QED  BY <1>1, <2>1, <2>2 DEF LifeInv, WorksAlive
<1>6. /\ loaded'[b][m] = loaded[b][m] + 1
      /\ \A c \in DOMAIN Chunks : \A i \in 1 .. Chunks[c] :
           ~ (c = b /\ i = m) => loaded'[c][i] = loaded[c][i]
  <2>1. DOMAIN loaded = DOMAIN Chunks /\ \A c \in DOMAIN Chunks : loaded[c] \in [1 .. Chunks[c] -> Nat]
    BY DEF IInv, Types, LoadType
  <2> HIDE DEF b, m
  <2>2. loaded'[b] = [loaded[b] EXCEPT ![m] = loaded[b][m] + 1]
        /\ \A c \in DOMAIN Chunks \ {b} : loaded'[c] = loaded[c]
    BY <1>1, <1>2, <2>1
  <2>3. loaded[b] \in [1 .. Chunks[b] -> Nat]
    BY <1>2, <2>1
  <2> QED  BY <1>2, <2>2, <2>3
<1>7. \A c, i : Unsent(c, i)' \subseteq Unsent(c, i)
  <2> SUFFICES ASSUME NEW c, NEW i, NEW p \in Slots \X BOOLEAN,
                      [call |-> i, chunk |-> c, sent |-> FALSE, heard |-> p[2]] \in job'[p[1]]
               PROVE  [call |-> i, chunk |-> c, sent |-> FALSE, heard |-> p[2]] \in job[p[1]]
    BY DEF Unsent
  <2> DEFINE x == [call |-> i, chunk |-> c, sent |-> FALSE, heard |-> p[2]]
  <2>1. p[1] \in Slots /\ x \in job'[p[1]] /\ x.sent = FALSE
    OBVIOUS
  <2> HIDE DEF x, y
  <2>2. x # y
    BY <1>3, <2>1
  <2>3. x \in job[p[1]]
    BY <1>4, <2>1, <2>2
  <2> QED  BY <2>3 DEF x
<1>8. e \in Unsent(b, m) /\ e \notin Unsent(b, m)'
  <2>1. e \in Slots \X BOOLEAN /\ e[1] = l /\ e[2] = j.heard
    BY <1>3
  <2>2. j # y
    BY <1>1, <1>3
  <2>3. j \notin job'[l]
    BY <1>4, <2>2
  <2> HIDE DEF e, b, m, y
  <2>4. [call |-> m, chunk |-> b, sent |-> FALSE, heard |-> e[2]] = j
    BY <1>3, <2>1
  <2> QED  BY <2>1, <2>3, <2>4 DEF Unsent
<1>9. UNCHANGED <<Lives>> /\ \A c, i : Called(c, i)' = Called(c, i)
  BY <1>1 DEF Lives, Called
<1> HIDE DEF b, m, e, y
<1>10. /\ Cardinality(Unsent(b, m)') + 1 <= Cardinality(Unsent(b, m))
       /\ Cardinality(Unsent(b, m)') \in Nat
  <2> DEFINE P == Unsent(b, m)
             Q == Unsent(b, m)'
  <2>1. IsFiniteSet(P) /\ Cardinality(P) \in Nat /\ e \in P /\ Q \subseteq P \ {e}
    BY <1>7, <1>8, UnsentFinite
  <2> HIDE DEF P, Q
  <2>2. IsFiniteSet(P \ {e}) /\ Cardinality(P \ {e}) = Cardinality(P) - 1
    BY <2>1, FS_RemoveElement
  <2>3. Cardinality(Q) <= Cardinality(P \ {e}) /\ Cardinality(Q) \in Nat
    BY <2>1, <2>2, FS_Subset, FS_CardinalityType
  <2>4. Cardinality(Q) + 1 <= Cardinality(P) /\ Cardinality(Q) \in Nat
    BY <2>1, <2>2, <2>3
  <2> QED  BY <2>4 DEF P, Q
<1>11. ASSUME NEW c \in DOMAIN Chunks, NEW i \in 1 .. Chunks[c]
       PROVE  Tally(c, i)' <= Tally(c, i) /\ Tally(c, i)' \in Nat
  <2>1. Cardinality(Unsent(c, i)') <= Cardinality(Unsent(c, i))
        /\ Cardinality(Unsent(c, i)') \in Nat /\ Cardinality(Unsent(c, i)) \in Nat
    <3> DEFINE P == Unsent(c, i)
               Q == Unsent(c, i)'
    <3>1. IsFiniteSet(P) /\ Cardinality(P) \in Nat /\ Q \subseteq P
      BY <1>7, UnsentFinite
    <3> HIDE DEF P, Q
    <3>2. Cardinality(Q) <= Cardinality(P) /\ Cardinality(Q) \in Nat
      BY <3>1, FS_Subset, FS_CardinalityType
    <3> QED  BY <3>1, <3>2 DEF P, Q
  <2>2. loaded[c][i] \in Nat
    BY LifeFacts
  <2>3. Tally(c, i)' = loaded'[c][i] + Cardinality(Unsent(c, i)')
        /\ Tally(c, i) = loaded[c][i] + Cardinality(Unsent(c, i))
    BY DEF Tally
  <2>4. CASE c = b /\ i = m
    BY <1>6, <1>10, <2>1, <2>2, <2>3, <2>4
  <2>5. CASE ~ (c = b /\ i = m)
    BY <1>6, <2>1, <2>2, <2>3, <2>5
  <2> QED  BY <2>4, <2>5
<1>12. OncePerLife'
  <2> SUFFICES ASSUME NEW c \in DOMAIN Chunks, NEW i \in 1 .. Chunks[c]
               PROVE  /\ Tally(c, i)' <= Lives
                      /\ coord.state = "up" /\ c >= master /\ ~ Called(c, i) => Tally(c, i)' <= Lives - 1
    BY <1>1, <1>9 DEF OncePerLife
  <2>1. Tally(c, i)' <= Tally(c, i) /\ Tally(c, i)' \in Nat /\ Tally(c, i) \in Nat /\ Lives \in Nat
    BY <1>11, TallyType, LifeFacts
  <2>2. /\ Tally(c, i) <= Lives
        /\ coord.state = "up" /\ c >= master /\ ~ Called(c, i) => Tally(c, i) <= Lives - 1
    BY DEF LifeInv, OncePerLife
  <2> QED  BY <2>1, <2>2
<1>13. loaded[b][m] < Lives
  <2>1. Tally(b, m) = loaded[b][m] + Cardinality(Unsent(b, m)) /\ Tally(b, m) <= Lives
    BY <1>2 DEF Tally, LifeInv, OncePerLife
  <2>2. loaded[b][m] \in Nat /\ Lives \in Nat /\ Cardinality(Unsent(b, m)) \in Nat
    BY <1>2, LifeFacts, UnsentFinite
  <2> QED  BY <1>10, <2>1, <2>2
<1> QED  BY <1>1, <1>2, <1>5, <1>12, <1>13 DEF LifeInv, b, m

LEMMA InitLife == Init => LifeInv
<1> SUFFICES ASSUME Init PROVE LifeInv
  OBVIOUS
<1>1. /\ coord = [state |-> "up", restarts |-> Retry] /\ run = NoRun
      /\ job = [i \in Slots |-> {}] /\ master = 1
      /\ loaded = [c \in DOMAIN Chunks |-> [i \in 1 .. Chunks[c] |-> 0]]
  BY DEF Init
<1>2. Lives = 1
  BY <1>1, SquadAssumption DEF Lives
<1>3. \A c, i : Cardinality(Unsent(c, i)) = 0
  <2>1. \A c, i : Unsent(c, i) = {}
    BY <1>1 DEF Unsent
  <2> QED  BY <2>1, FS_EmptySet
<1>4. \A c \in DOMAIN Chunks : \A i \in 1 .. Chunks[c] : Tally(c, i) = 0
  BY <1>1, <1>3 DEF Tally
<1>5. OncePerLife
  BY <1>2, <1>4 DEF OncePerLife
<1>6. WorksAlive
  BY <1>1 DEF WorksAlive, NoRun
<1> QED  BY <1>5, <1>6 DEF LifeInv

LEMMA StepLife == IInv /\ LifeInv /\ [Next]_vars => (IInv /\ LifeInv)'
<1> SUFFICES ASSUME IInv, LifeInv, [Next]_vars PROVE IInv' /\ LifeInv'
  OBVIOUS
<1>1. IInv'
  BY StepIInv
<1> QED  BY <1>1, KindsOfSteps, QuieterKeeps, NextTaskKeeps, RestartKeeps, CallKeeps,
            AccumulateKeeps

LEMMA LifeAlways == Spec => [](IInv /\ LifeInv)
<1>1. Init => IInv /\ LifeInv
  BY InitIInv, InitLife
<1> QED  BY <1>1, StepLife, PTL DEF Spec

\* A shard is accumulated at most once for each start of the coordinator, and tasks
\* are done one by one, each when all its shards are in: for every number of loaders,
\* every sequence of tasks, any faults, and also when loaders go on to serve the calls
\* of a coordinator that is dead while the next one makes its own.
THEOREM SquadLoads == Spec => IsLoading
<1> DEFINE lives == Retry - coord.restarts + 1
<1>1. Init => Promise!Init
  <2> SUFFICES ASSUME Init PROVE Promise!Init
    OBVIOUS
  <2>1. lives = 1
    BY SquadAssumption DEF Init
  <2> QED  BY <2>1 DEF Init, Promise!Init
<1>2. IInv /\ IInv' /\ LifeInv /\ [Next]_vars => [Promise!Next]_<<master, loaded, lives>>
  <2> SUFFICES ASSUME IInv, IInv', LifeInv, [Next]_vars
               PROVE  [Promise!Next]_<<master, loaded, lives>>
    OBVIOUS
  <2>1. CASE Quieter
    BY <2>1 DEF Quieter
  <2>2. CASE \E n \in Slots : CallLoader(n)
    BY <2>2 DEF CallLoader
  <2>3. CASE RestartCoordinator
    <3>1. coord.restarts > 0 /\ coord'.restarts = coord.restarts - 1 /\ UNCHANGED <<master, loaded>>
      BY <2>3 DEF RestartCoordinator
    <3>2. lives <= Retry /\ lives' = lives + 1
      BY <3>1, LifeFacts
    <3> QED  BY <3>1, <3>2 DEF Promise!Next, Promise!Restart
  <2>4. CASE NextTaskStep
    <3>1. master \in DOMAIN Chunks /\ master' = master + 1 /\ UNCHANGED <<coord, loaded>>
      BY <2>4 DEF NextTaskStep, IInv, Core, RunInv
    <3>2. \A i \in 1 .. Chunks[master] : loaded[master][i] >= 1
      <4>1. \A i \in 1 .. Chunks[master] : i \in Slots /\ i <= Chunks[master]
        BY <3>1, ChunkFacts
      <4>2. master \in 1 .. master' - 1
        BY <3>1, LifeFacts
      <4>3. CompletedChunksAreLoaded'
        BY DEF IInv, Core
      <4> QED  BY <3>1, <4>1, <4>2, <4>3 DEF CompletedChunksAreLoaded
    <3>3. Promise!Complete
      BY <3>1, <3>2 DEF Promise!Complete
    <3> QED  BY <3>3 DEF Promise!Next
  <2>5. CASE \E l \in Slots : \E j \in job[l] : Accumulate(l, j)
    <3>1. PICK l \in Slots : \E j \in job[l] : Accumulate(l, j)
      BY <2>5
    <3>2. PICK j \in job[l] : Accumulate(l, j)
      BY <3>1
    <3>3. /\ j.chunk \in DOMAIN Chunks /\ j.call \in 1 .. Chunks[j.chunk] /\ j.chunk <= master
          /\ loaded[j.chunk][j.call] < lives
          /\ loaded' = [loaded EXCEPT ![j.chunk][j.call] = loaded[j.chunk][j.call] + 1]
          /\ UNCHANGED <<coord, master>>
      BY <3>2, AccumulateKeeps DEF Lives
    <3>4. Promise!Load(j.chunk, j.call)
      BY <3>3 DEF Promise!Load
    <3> QED  BY <3>3, <3>4 DEF Promise!Next
  <2> QED  BY <2>1, <2>2, <2>3, <2>4, <2>5, KindsOfSteps
<1> QED  BY <1>1, <1>2, LifeAlways, PTL DEF Spec, IsLoading, Promise!Spec
=============================================================================
