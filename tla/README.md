# Phoenix: a TLA+ model of the trainer of topic models

Phoenix (packages `srv`, `core` and `cmd` of this repository) trains LDA topic
models by Gibbs sampling, on one machine (`cmd/singlethread`,
`cmd/multithread`) or on a cluster (`cmd/master` and the processes it
launches).  This directory holds its specification: TLA+ modules translated
from the Go source, TLC runs that check them on small instances, and TLAPS
proofs of theorems about all of them, for all values of the constants: of the
40 properties that the runs show to hold, all but the three about liveness.

Contents: 1 the system, 2 the modules, 3 the runs, 4 bounds, 5 fairness,
6 proofs, 7 disagreements between code and documentation, 8 what is not
modelled, 9 what is left.

How to check, in this directory:

    tlc -workers 2 -config MasterSolo.cfg MCMaster.tla     (one run; see 3)
    for m in *Proofs.tla; do tlapm $m; done                (all proofs)

## 1. The system

### 1.1 Inventory

| part | state | operations | correct when |
|---|---|---|---|
| **Master** `srv/master_service.go`, `cmd/master` | queue `pending`, map `working` from coordinator to task, `iteration`, slice `aggregators`, mutexes `schedule` and `register`; on disk a directory per iteration with a model file per vshard | `NewMaster`, `RegisterSquad`, `CompleteTask`, `RegisterAggregator`; inside: `distributeTask`, `aggregateGlobalHists`, `saveModel`, `initializeTasks`, `FindMostRecentCompletedIteration` | no part of the corpus is lost in an iteration; an iteration is saved only when it is finished; what a restarted master resumes from is a whole model; training goes on after crashes |
| **Aggregators** `srv/aggregator_service.go`, `core/gibbs/model.go` | the model of a part of the vocabulary: word histograms, global histogram | `Init` (accumulate the model of a shard), `GetGlobalHist`, `SetGlobalHist`, `Save` | what loaders send is in the model once; the global histogram is the sum of the word histograms |
| **Squad**: coordinator, samplers, loaders `srv/coordinator_service.go`, `loader_service.go`, `sampler_service.go`, `proc_mgnt.go` | coordinator: clients of registered workers, its task; processes and the restarts the daemon prism has left for them | launch, `RegisterSampler`, `RegisterLoader`, `Coordinator.run/do/init`, `Loader.Init`, crash, restart | work starts when all workers are there; a task is reported only when each shard of it was loaded; nobody waits for ever |
| **Gibbs sampler** `core/gibbs/sampler.go`, `document.go` | the model, topics of documents, bucket factors and sizes, coefficients, diff | `NewSampler`, `Sample`, `SetDiff`, `BuildSmoothingOnlyBucket` and `CacheCoefficients` after optimization | the cached buckets are those of the current model and document; counts follow assignments; the diff is the change of the model |
| **Histograms** `core/hist` | entries (topic, count) | `Inc`, `Dec`, `Assign`, `AddDiff`, `At` | ordered by descending count, a faithful map from topics to counts |
| **Evaluator, ModelAccessor** `core/gibbs/evaluator.go`, `model_accessor.go` | cached distributions, smoothing-only part built on demand, coefficients | `NewModelAccessor`, `WordTopicDist`, `NewEvaluator`, `Perplexity` | distributions are those of the model; coefficients are the documented sums; parallel use is safe |
| **Trainers** `cmd/multithread`, `cmd/singlethread` | corpus with topics, model, a sampler with clone and diff per goroutine, optimizer, perplexity, channels of signals, model file | the main loop: sample stripes, accumulate diffs, optimize, evaluate, save | between iterations the model is the count of the topics, and what is saved is such a model, interrupted or not; each token counts once for optimizer and perplexity; samplers use the prior of the model |
| **Optimizer** `core/gibbs/optimizer.go` | how many documents have a topic how often | `CollectDocumentStatistics`, `OptimizeTopicPriors` | statistics are those of the model; no prior becomes infinite or not a number |
| **Sharder** `core/gibbs/sharder.go` | — | `ShardModel` | each word is in one bucket |
| **Vocabulary** and what is read with it, `core/gibbs/vocab.go`, `core/utils/io.go` | tokens, their ids; the corpus | `Load`, `TranslatedVocab`, `LoadCorpusOrDie`, `InitializeDocument` | all processes give a word the same id; documents have the words of their lines |
| **Display** `core/gibbs/model.go` 80-171, `cmd/print_model`, `core/utils` | — | `GetTopWords`, `GetTopNWords`, `PrintTopics`, `DescribeTopics` | the fewest and heaviest words that make up the percentage |
| **Interpreter** `core/gibbs/interpreter.go`, `cmd/interpreter` | a document, accumulated topics | `Interpret` | the answer is the share of topics in the samples after burn-in |
| **Configuration** `srv/config.go` | squads, aggregators, their addresses | `Validate`, look-ups of ids | what it accepts is what master and squads assume; workers find their place |
| Tools, status page, heavy tests | | | not modelled: section 8 |

### 1.2 Interactions

All processes of the cluster talk by Go's `net/rpc`, which serves each call in
a goroutine of its own.  The daemon *prism* on each host launches processes,
and restarts those that end with a failure a given number of times.

    cmd/master ──launches──▶ aggregators ──RegisterAggregator──▶ master
    master (when all are registered) ──LaunchSquads──▶ coordinators
    coordinator ──launches──▶ samplers ──RegisterSampler──▶ coordinator
    coordinator (all samplers) ──launches──▶ loaders ──RegisterLoader──▶ coordinator
    coordinator (all loaders) ──RegisterSquad, then CompleteTask …──▶ master
    coordinator ──Loader.Init──▶ loaders ──Aggregator.Init──▶ aggregators
    master (queue empty) ──GetGlobalHist, SetGlobalHist, Save──▶ aggregators

The trainers on one machine use the library directly: a goroutine per stripe of
the corpus, `parallel.For` to start and join them, a channel for signals.

    cmd/multithread ──Clone──▶ model of a goroutine ──Sample──▶ diff
    diff ──ShardModel, Accumulate (one after the other)──▶ model
    model, corpus ──CollectDocumentStatistics, OptimizeTopicPriors──▶ topic prior
    signal ──▶ sigs ──goroutine──▶ exit ──(head of the loop)──▶ SaveModel

An *iteration* is one pass over the corpus.  Its tasks carry up to NumVShards
files each.  When a coordinator asks for work and the queue is empty, the
master *turns over*: sums up the global histograms, has the aggregators save
the model to the directory of the iteration, and plans the next iteration from
the most recent complete directory.  The action of the next iteration is INIT
after nothing, LOGLL after an iteration that LogllPeriod divides, else GIBBS.

`Coordinator.gibbs` and `Coordinator.logll` are stubs that return an error in
this version of the code.  The constant `Implemented` says which actions
succeed: `Squad` takes what the code has (INIT); `Master` takes all three, as
its protocol is written for them, and so checks the protocol that the stubs
will meet once they are filled in.

### 1.3 What is hard

 - Handlers interleave: with those of other calls in `Aggregator` (no lock at
   all), with `RegisterAggregator` and crashes during a turnover in `Master`
   (two mutexes), among goroutines that share a `ModelAccessor`.
 - Every process crashes at every step.  Squads and aggregators are restarted
   by prism and register again; whoever counts registrations counts them twice.
   Calls of dead processes may be served after their death.
 - The master recovers from what is on disk, while `Save` calls that its
   predecessor sent are still being served.
 - Replies are decoded by *gob* over the previous value of the receiver, and
   gob does not transmit fields that are zero.
 - The sampler updates its caches incrementally; the histogram moves one entry
   to stay sorted.
 - Diffs have negative entries and entries of zero, and maps of a diff may
   become maps of the model; only after the last diff, and in whatever order
   the words come, must the model be right.
 - Signals come at any time, also several, and are dropped where a channel is
   full.
 - Processes sort the same vocabulary, each on its own with a sort that is not
   stable, and afterwards exchange positions in it.

The list of hazards, each at its line, with the properties that cover it, is in
`PROJECT.json`.

## 2. The modules

| module | stands for | composed with |
|---|---|---|
| `Master` | the master, and as much of squads, aggregators and disk as it meets | — |
| `Loading` | abstract: what a squad promises the master | — |
| `Squad` | one squad from launch to the end of loading; the master is a list of INIT tasks | implements `Loading` |
| `Aggregator` | the memory of the aggregators under concurrent `Init` calls and turnovers | — |
| `GibbsSampler` | one sampler on a corpus | — |
| `Documents` | a corpus with topics, and the counts of them | — |
| `Training` | abstract: what a trainer promises | EXTENDS `Documents` |
| `Trainer` | both trainers: main loop, goroutines, signals, optimizer | EXTENDS `Documents`, `Sharder`; implements `Training` |
| `Sharder`, `Sharding` | buckets of words; the calls made of a sharder | `Sharding` EXTENDS `Sharder` |
| `Histogram` | abstract: what `hist.Hist` promises | — |
| `OrderedSparse` | the histogram of a document | implements `Histogram` |
| `Evaluator` | accessor and evaluator, with parallel readers | — |
| `Vocabulary` | vocabularies of several processes, a corpus and queries read with one | — |
| `TopWords` | what is shown of a model | — |
| `Interpreter` | one query, from words to topics | — |
| `Config` | validation and look-ups | — |
| `Library` | the parts of the library that run on their own, side by side | EXTENDS `Evaluator`; INSTANCE of `OrderedSparse`, `Sharding`, `Vocabulary`, `TopWords`, `Interpreter`, `Config` |
| `Sums` | the sum of a function | used by `Aggregator`, `GibbsSampler`, `Evaluator`, `Interpreter`, `TopWords`, `Trainer` |
| `MC…` | values for the constants of the module they extend | EXTENDS that module |
| `SumProofs` | lemmas about sums, and induction | EXTENDS `Sums` |
| `MasterProofs`, `SquadProofs`, `AggregatorProofs`, `GibbsSamplerProofs`, `TrainerProofs`, `LibraryProofs` | theorems | EXTENDS the module of that name |
| `MasterTaskProofs` | theorems about the tasks of `Master` | EXTENDS `MasterProofs` |

The map in `PROJECT.json` gives the lines of each definition.  Definitions keep
the source's names.  Some modules contain a second form of an action or helper,
directly before it, with a comment on what is wrong in it (`SaveCallNext`,
`CompleteAnyway`, `KeepFirst`, …).  They are not used in any `Next`.  They are
the *mutants*: put in place of the action that follows, each makes one property
of a run fail, which shows that the property constrains the code.

### Master

The mutex `schedule` is held through `RegisterSquad` and `CompleteTask`.  A
call that finds a task in the queue is therefore one step (`RegisterSquad`,
`CompleteTask`).  A call that finds none starts a turnover, which calls other
processes: the record `turn` is the mutex held meanwhile, with the caller and
whether it still lives.  The steps are `AggregateGlobalHists`, `SaveModel`
(which puts one `Save` call per registered aggregator into `saves`),
and when all have returned `SaveModelFails`, `PlanningFails` or
`InitializeTasks`.  In between, `RegisterAggregator`, `AggregatorCrash`,
`SquadCrash`, `MasterCrash` and the steps of the `Save` calls (`CreateFile`,
`WriteFile`) may come.

`initializeTasks` has three errors, each with a fault of its own: the job
directory cannot be read ("recover"), before anything is changed; the directory
of the next iteration cannot be made ("mkdir"), or the corpus not be listed
("listing"), after `m.iteration` has been set.  `distributeTask` drops them and
finds the queue empty (`PlanningFails`, and the second disjunct of
`InitializeTasks` with `PlanningCut`).  `NewMaster` returns them, and the process
ends (`MasterStartFails`).  The fault "launch" is that of `LaunchSquads`, in
`RegisterAggregator`, or of `LaunchWorkers` in `main`, which ends the master
(`LaunchAggregatorsFails`).

A file on disk is absent, begun or whole, and records which aggregator wrote
it.  `DirNumber` is the number that `Sscanf("%05d")` reads from a directory
name.  `Decode` is gob.  `Equal` is `Task.Equal`, which compares neither
iteration nor assignee.  The order in which `CompleteTask` meets the entries of
a Go map is a choice among `Matching`.

A squad is `down`, `starting`, has a call in flight, is `working`, or is an
`orphan` that works for a master that is gone.  `stale` holds calls of dead
coordinators that are still to be served (fault `late`).  `done` is a history
variable: what was reported done in this iteration.

`cmd/master` starts the service and launches the aggregators in two goroutines,
so an aggregator of an earlier master may register before `LaunchAggregators`
kills it, and its entry stays, dead.

Simplifications: the aggregators are launched after the service listens (one
that is launched before it fails to register and is restarted, which
`RegistrationFails` has for aggregators that prism restarts without a master).
A turnover reads `m.aggregators` at one point of each step, not entry by entry.
An interrupt of the master, which kills all processes, ends the system and is
not an action.

### Squad

`launch` is the progress of `LaunchWorkers` for samplers (called by
`RunCoordinator`) and loaders (a goroutine of `RegisterSampler`), `proc` the
life of each worker process, `clients` the coordinator's slices, with the slot
that each client is connected to, `run` where `Coordinator.run` is and the
outcome of its parallel `Loader.Init` calls.  `log.Fatalf` in the coordinator
is `CoordinatorExits` (its workers survive), a return of `RunCoordinator` is
`CoordinatorReturns` (its deferred function kills them first).  A registration
whose caller died in the meantime is counted in `late` and served like any
other, but only while something listens at its address, as the handler dials
back.  There are seven kinds of faults, of which `crashes` counts how often each
has happened: the death of a sampler (by itself, too, when it cannot connect to
the aggregators), of a loader or of the coordinator, an interrupt, a failed
launch, a call of a loader that ends in an error, and a master that does not
answer.

A loader sends the model of its shard to all aggregators in parallel.  `loaded`
is what any one of them has got: `Accumulate` may happen or not before the call
returns with an error, but a call that returns well has reached all
(`InitReturns`).

`Loading` is the promise, without processes: a task is done when each of its
shards has been accumulated, tasks are done in turn, and a shard is accumulated
at most as often as the coordinator was started.  In the mapping the task is the
one the master waits for, and the lives of the coordinator are the restarts it
has used, and one.

### Aggregator

`Model.Accumulate` is broken at every access to shared data: look up the slot
of a word, fast copy (`FastCopy`: the map that came with the call *becomes* the
map of the model), read and write the count, read and write the global
histogram.  Maps are objects: `slot` points to one, `count` has its contents,
so the sharing after a fast copy is in the model.  Topics do not interact, and
one stands for all.

### GibbsSampler

Documents are sampled in any order and any number of times.  A step of `Sample`
is `Neglect` (a token's topic is taken out of counts and caches) or `Consider`
(another is drawn and put in).  The draw is a choice among the topics whose
factor in some bucket is positive, and those that the search meets first when
the draw is on the border of a bucket (`sampler.go:209-217` takes topic 0 there,
whatever its factor).  A topic prior may have zeros, as the optimizer makes
them.  Quotients are multiplied by `Scale`, a
common multiple of all denominators, so that they are whole numbers.  `base` is
a history variable: the model when `SetDiff` was called.

### OrderedSparse, Histogram

`OrderedSparse` has the two slices as one sequence and moves entries as the
loops of the code do.  `Histogram` is the abstract specification.  The mapping
reads the count of each topic with `At` (`IsHist`).

### Evaluator

`ScanWord` is the loop of `NewModelAccessor` over the vocabulary with its heap
(ties are broken in any way), `FillWord` pops it.  A slice assignment is two
writes, of length and array, in any order: `StoreSmoothing`.  Whether an
evaluator has a sampler, and the size of the cache, are chosen in `Init`.

### Trainer, Training, Documents

`program` says which of the two programs this is.  `thread[i]` is a goroutine
of `parallel.For`, with its clone of the model, its diff and the prior its
sampler has cached; in `cmd/singlethread` there is one, which samples on the
model.  A step of it is a token (`SampleToken`), so goroutines interleave
between any two.  Then `JoinThreads`, and for each diff and each word of it, in
any order, `Accumulate`; `Optimize`; per goroutine `Evaluate`; `EndIteration`.
`Signal` is a signal, or the goroutine that passes it on, at any time.

A `Sparse` is a function whose domain are its entries: `Inc` leaves an entry
where the sum becomes zero, and `Dec` does not, and whether entries of zero or
less reach the model is a property.  A topic prior is zero, positive, or not a
number, which is what tells whether a topic can be drawn and whether the next
optimization still gives a number.  With the constant `BorderDraws` a draw may
also be exactly the border of the last bucket, and give topic 0.

`Training` is the promise: an iteration moves tokens in one step and the model
counts them; what is saved is the model, or the part of it that was written
before `Encode` met an error (`whole`).  In the mapping, topics and counts are
those of the beginning of the iteration (`base`, a history variable) until the
iteration has optimized.  That a signal never saves half an iteration is part
of it.

### Sharder, Sharding

`Buckets`, `BucketSize`, `First` and `Bucket` are the arithmetic of
`ShardModel`.  `NewModel` refuses a vocabulary of fewer than two words, so the
division by the number of buckets at `sharder.go:33` is defined.  `Trainer`
shards its diffs by the same operator.

### Vocabulary, TopWords, Interpreter, Config

Strings are numbers, and a constant gives each its hash; two collide.  The sort
of a vocabulary is any sequence that is not out of order for `Less`, as Go's
`sort.Sort` is not stable.  Tokens may come twice in a file, as `Load` does not
reject it.  `TopWords` has the percentage as a quotient, and a surplus of the
global histogram over the words, for a model of which one aggregator saved its
part.  `Interpreter` draws each topic of a query from those with a probability
above zero.  `Config` is called twice, by `LoadConfig` and by `NewMaster`.

## 3. The runs

| run | what it asks |
|---|---|
| `master_solo` | one squad; the squad, the master and an aggregator may crash, and the job directory may be unreadable at a turnover or at the start of a master.  Is an iteration saved before its work is done (`TurnoverFollowsWork`)?  Can a checkpoint be missing below another (`CheckpointsAreDense`)?  Does training always go on (`ProgressUnlessExhausted`)? |
| `master_squads` | two squads, LOGLL phases, crashes, failing launches, a job directory that cannot be read.  Do the master's records and the squads' tasks agree (`SquadsHoldTheirTasks`)?  Is the work of an iteration ever lost (`NoTaskLost`)?  Is a task in two hands (`ReportsAreUnambiguous`)?  Does every turnover that saved a model begin the next iteration, or else change nothing (`TurnoverAdvances`)?  Are the files of a checkpoint from different aggregators (`CheckpointHasEveryAggregator`)? |
| `master_early`, `master_partial` | violations, section 7 |
| `aggr` | two loaders, two aggregators, a turnover, any interleaving.  One after the other: is everything kept (`UpdatesAreKept`), is the sum right (`GlobalIsSum`)?  In parallel: is anything counted that was not sent (`WordsAreNotInvented`)? |
| `aggr_repeat` | violation, section 7 |
| `squad` | faults of one kind, or none.  Does the master ever move on from shards that were not loaded (`CompletedChunksAreLoaded`)?  Does the squad get stuck, unless prism has given up its coordinator or a worker, or a launch failed (`LoadsOrGivesUp`)?  Without faults: does work start too early (`CountsStandForWorkers`), is a shard loaded twice (`LoadedOnce`)?  With them: is it loaded more often than the coordinator was started (`IsLoading`)? |
| `squad_loaders` | violation, section 7 |
| `gibbs_sampler` | two documents that share words, changing priors, diffs on and off: are caches and coefficients (`DrawsFromTheModel`), counts (`CountsMatchTopics`) and diff (`DiffIsTheUpdate`) exact at every step? |
| `trainers` | both programs, two goroutines for three documents, any signals: is the model that of the promise (`IsTraining`), positive at every step (`EntriesArePositive`)?  Are priors current (`PriorsAreCurrent`), is each token counted once (`TokensCountOnce`), does a topic with prior zero ever return (`DeadTopicsStayDead`), does the program end (`Terminates`)? |
| `library` | one behaviour per part.  *OrderedSparse*, all sequences of calls: is the order kept (`EntriesAreOrdered`), does it implement `Histogram` (`IsHist`)?  *Evaluator*, all models of three words and two topics, caches of 0 to 2 words, two readers: are the cached words the most frequent (`CachesMostFrequent`), distributions and coefficients exact (`DistsArePosteriors`, `CoefficientIsExact`), the readers safe (`NoReaderCrashes`)?  *Sharding*: `EveryWordHasOneShard`.  *Vocabulary*: do processes agree on ids (`ProcessesAgree`), have documents and queries the words of their texts (`WordsAreKept`)?  *TopWords*: `FewestHeaviestWords`.  *Interpreter*: `AnswerIsShareOfSamples`.  *Config*: `ValidJobsAreWhole`, `WorkersFindTheirPlace` |
| `eval_coeff` | violation, section 7 |

Some properties are conditional, and the condition says where the code's
promise ends.  `UpdatesAreKept` and `GlobalIsSum` hold for calls that do not
overlap (`orderly`, a history variable), `LoadedOnce` and
`CountsStandForWorkers` without faults, `NoReaderCrashes` with a cache,
`CoefficientIsExact` without a sampler, `WorkersFindTheirPlace` when the
addresses it looks up are distinct.  Section 7 says what happens otherwise.

The parts of `library` share no state: a behaviour takes the steps of the part
chosen at its beginning, and the other parts stay in an initial state, so the
run is the union of seven runs, and each property is about one of them.

## 4. Bounds

| run | bound | why it is enough |
|---|---|---|
| master_solo | MaxIteration 2, 3 files, 2 aggregators, one crash of the master and one of an aggregator, any crash of the squad, Retry 1 | INIT, GIBBS, and a turnover between each; two tasks per iteration, the second with fewer files than aggregators; the master restarts from nothing, a partial and a complete checkpoint; aggregators register twice |
| master_squads | MaxIteration 4, LogllPeriod 3, 2 squads | an iteration 0 and 3 that LOGLL follows; the squads may be one iteration apart, so that equal tasks of different iterations exist |
| aggr | 2 loaders, 1 word, 1 shard each, 1 turnover, loaders with different counts | two calls at the same slot, first and second to come, with a turnover anywhere in between |
| squad | NumVShards 2, chunks of 2 and 1 shards, MaxKinds 1 (a behaviour has faults of one kind), MaxCrashes 2 (1 for the death of a sampler), Retry 1 | a full and a short task; a fault in any phase, of a process before and after prism has restarted it; a loader that prism gives up, and a coordinator.  The same properties held with one task and any two faults, of one kind or of two, two deaths of samplers included (3.8 million states); the theorems have any number |
| gibbs_sampler | 3 topics, 2 words, documents of 3 and 1 tokens, 3 priors | a word twice in a document and in both; entries that vanish, return and pass one another; a prior with zeros, also for topic 0 |
| trainers | 2 topics, 2 words, documents of 2, 1 and 1 tokens, FlagShards 2, GibbsIter 3, OptimStart 0, EvalLag 2, Shape false, BorderDraws false | stripes of two documents and of one; a word in both stripes, so that diffs meet in one histogram and cancel; iterations without optimization, with one, and after one; with and without evaluation; a prior that becomes zero (Shape is false by default) |
| library: histogram | 3 topics, MaxInt 7, Amounts {1} | any order of entries, ties, the limit of the counter; documents count one by one |
| library: evaluator | 3 words, 2 topics, counts to 1, words without histogram, 2 readers | more and fewer words than the cache holds, ties; two readers in the same race |
| library: sharding | 1 to 5 words, 1 to 6 shards | even and uneven divisions, fewer words than shards, as many |
| library: vocabulary | 4 strings with a collision, files of 3 lines, 2 processes, 2 lines of corpus | a token twice, words that are unknown, a translation between reading and querying, lengths at, below and above both bounds |
| library: topwords | 2 topics, 3 words, counts to 2 | ties, topics without words, global histograms larger than the words |
| library: interpreter | 3 topics, queries of 0 to 2 words, up to 4 rounds | no, one and two rounds that count; an empty query; a refused call |
| library: config | up to 2 squads, 2 workers, 2 aggregators | too few and too many workers, addresses that are missing, shared between squads, and not distinct |

`MaxIteration` is a guard of `BeginTurnover`: the master makes no turnover out
of its last iteration.  For that reason, and because a squad that has used up
its restarts stays down, the runs of `Master` do not check deadlock.  `Squad`
ends when the coordinator is given up, `Aggregator` when all shards are loaded.
`Trainer`, `Interpreter` and `Config` say with a last action that they are done.

Symmetry: permutations of aggregators, and of coordinators, in runs without
liveness properties.  No definition distinguishes or orders them.

## 5. Fairness

`Master`, `Squad` and `Trainer` have liveness properties, under weak fairness of

 - RPC handlers and the goroutines that run turnovers and launches: the Go
   scheduler runs what can run, and a mutex that is released is taken;
 - `Save` calls in flight, and replies to calls of live processes;
 - squads: one that has a task finishes it (`FinishTask`), one that starts
   dials (`DialMaster`); workers proceed (`Worker`);
 - prism: it launches and restarts what it was told to, as often as `Retry`;
 - `MasterStart`: a master that crashed is started again, by its operator;
 - in `Trainer`, the main goroutine and each goroutine that samples or
   evaluates.  Signals, and the goroutine that passes them on, have none.

No fairness is assumed of crashes and faults, which may never happen, and whose
number is bounded where a liveness property is checked.  A squad that dies more
than `Retry` times is given up by prism; `ProgressUnlessExhausted` allows that.
`LoadsOrGivesUp` allows it for workers, too: the coordinator is not told, and
waits for their registration for ever.  The job directory may be unreadable at
any time, which costs the calling squad a restart; that of `MasterStart` means
that a master which is started again and again can read it in the end.
The master has no timeout: if a squad neither finishes nor dies, its task
is never given to another (a TODO at `master_service.go:177`), which fairness
of `FinishTask` assumes away.

## 6. Proofs

| theorem | statement |
|---|---|
| `MasterProofs!TypeCorrect` | `Spec => []TypeOK` |
| `MasterProofs!DenseCheckpoints` | `Spec => []CheckpointsAreDense` |
| `MasterProofs!EveryAggregatorSaves` | `OneMaster => (Spec => []CheckpointHasEveryAggregator)` |
| `MasterProofs!SavedTurnoversAdvance` | `OneMaster /\ NumbersFit => (Spec => TurnoverAdvances)` |
| `MasterTaskProofs!TasksAreHeld` | `NoneLate => (Spec => []SquadsHoldTheirTasks)` |
| `MasterTaskProofs!WorkIsNotLost` | `NoneFails => (Spec => []NoTaskLost)` |
| `MasterTaskProofs!TurnoversFollowWork` | `NoneFails /\ OneSquad => (Spec => []TurnoverFollowsWork)` |
| `MasterTaskProofs!ReportsMeetTheirEntry` | `OneMaster /\ NumbersFit /\ DistinctFiles /\ NoneLate => (Spec => []ReportsAreUnambiguous)` |
| `SquadProofs!TypeCorrect` | `Spec => []TypeOK` |
| `SquadProofs!ChunksAreLoaded` | `Spec => []CompletedChunksAreLoaded` |
| `SquadProofs!CountsAreOfWorkers` | `Spec => []CountsStandForWorkers` |
| `SquadProofs!ShardsLoadedOnce` | `Spec => []LoadedOnce` |
| `SquadProofs!SquadLoads` | `Spec => IsLoading` (refinement) |
| `AggregatorProofs!WordsStayBounded` | `Spec => []WordsAreNotInvented` |
| `AggregatorProofs!NoUpdateIsLost` | `Spec => []UpdatesAreKept` |
| `AggregatorProofs!GlobalSumsUp` | `OneTurnover => (Spec => []GlobalIsSum)` |
| `GibbsSamplerProofs!CountsAreExact` | `Spec => []CountsMatchTopics` |
| `GibbsSamplerProofs!DiffIsExact` | `Spec => []DiffIsTheUpdate` |
| `GibbsSamplerProofs!CachesAreExact` | `Spec => []DrawsFromTheModel` |
| `TrainerProofs!PriorsStayCurrent` | `Spec => []PriorsAreCurrent` |
| `TrainerProofs!EntriesStayPositive` | `Spec => []EntriesArePositive` |
| `TrainerProofs!TrainersTrain` | `Spec => IsTraining` (refinement) |
| `TrainerProofs!TokensAreCountedOnce` | `Spec => []TokensCountOnce` |
| `TrainerProofs!TheDeadStayDead` | `~ BorderDraws => (Spec => DeadTopicsStayDead)` |
| `LibraryProofs!ModelIsDivided` | `LibrarySpec => []EveryWordHasOneShard` |
| `LibraryProofs!ValidIsWhole` | `AllConfigs => (LibrarySpec => []ValidJobsAreWhole)` |
| `LibraryProofs!PlacesAreFound` | `AllConfigs => (LibrarySpec => []WorkersFindTheirPlace)` |
| `LibraryProofs!EntriesStayOrdered` | `ByOne => (LibrarySpec => []EntriesAreOrdered)` |
| `LibraryProofs!OrderedSparseIsHist` | `ByOne => (LibrarySpec => IsHist)` (refinement) |
| `LibraryProofs!DistributionsAreExact` | `LibrarySpec => []DistsArePosteriors` |
| `LibraryProofs!CoefficientsAreExact` | `LibrarySpec => []CoefficientIsExact` |
| `LibraryProofs!CacheHasMostFrequent` | `LibrarySpec => []CachesMostFrequent` |
| `LibraryProofs!ReadersFindTheSlice` | `LibrarySpec => []NoReaderCrashes` |
| `LibraryProofs!ProcessesLoadTheSame` | `LibrarySpec => []ProcessesAgree` |
| `LibraryProofs!WordsStayKept` | `LibrarySpec => []WordsAreKept` |
| `LibraryProofs!FewWordsAreShown` | `LibrarySpec => []FewestHeaviestWords` |
| `LibraryProofs!AnswersAreShares` | `LibrarySpec => []AnswerIsShareOfSamples` |

All hold for all values of the constants: any sets of coordinators, aggregators,
workers, loaders, words and topics, any corpus, any bounds and numbers of
crashes, every subset of the faults.  What is assumed of constants is in the
`ASSUME` of each module (at least one aggregator, a corpus of at least one file,
tasks of at least one shard and at most one per loader, which is how
`initializeTasks` cuts the corpus, at least two topics, finite sets where the
code has finite data), and in the hypotheses that some theorems name.  Each
hypothesis excludes something with which the claim is false, as TLC or section 7
shows:

| hypothesis | excludes |
|---|---|
| `OneMaster` | a master that crashes and is followed by another: squads of the first may reach it before its aggregators do, and a turnover then saves what few there are |
| `NumbersFit` | more iterations than a directory name of `Digits` digits is read back as |
| `NoneLate` | calls that are served after the death of the coordinator that made them, and change the record of its successor |
| `NoneFails` | also, directories that cannot be made and listings of the corpus that fail, and leave an iteration without tasks |
| `OneSquad` | two squads, of which one turns the iteration over while the other works |
| `DistinctFiles` | a file that is in the corpus twice: `Task.Equal` compares files and action only |
| `~ BorderDraws` | a draw that is exactly the border of the last bucket, which is topic 0 though its prior is zero (section 7) |
| `OneTurnover` | a second turnover, which sums up sums (run `aggr_repeat`) |
| `ByOne` | changes of the histogram of a document by more than one, which nobody makes, and for which the check of overflow is wrong |
| `AllConfigs` | a configuration that is not one: it says what JSON decoding gives, lists that are sequences |

**The checkpoints of the master.** `CheckpointsAreDense` is not inductive: it says
nothing of the `Save` calls that will create files.  The invariant is
`IInv == Types /\ TurnInv /\ DiskInv`:

 - `Types` is `TypeOK` in parts, one for each group of variables, so that a
   step has to show only the parts it touches (`TypeParts`, `TypeFrames`);
 - `TurnInv`: while the mutex is held by a turnover the master is up, the
   caller is a coordinator, and the iteration is below the bound;
 - `DiskInv`: checkpoints are dense; nothing is filed under the last iteration
   of the bound, as no turnover leaves it; the checkpoint before the master's
   iteration is complete and its directory readable; and the checkpoint before
   the iteration *of every `Save` call in flight* is complete.

The last part is what makes it inductive.  A master that crashes leaves calls
behind, for an iteration that its successor may plan again.  They can only add
files, files are never removed, so a checkpoint once complete stays complete.
`MostRecentCompleted` gives the part about the master's iteration whenever it
plans, and `SaveModel` copies it to the calls it makes.  There is one lemma per
action, and `StepIInv` puts them together.

That the files of a checkpoint are of different aggregators (`WhoInv`) needs who
is in `m.aggregators`: each aggregator has one live entry at most (`Registered`),
and nobody works for the master before there are as many entries as vshards,
since only the last registration launches the squads.  An aggregator that dies
is restarted and appended, behind the entries that number the files; so once
something is saved, the first entries are those of all aggregators (`Everyone`),
and remain so, and each file, and each `Save` call, is of the aggregator whose
entry has its number (`SavedBy`).  That a turnover which saved without an error
goes on to the next iteration, if it can read the directory (`SavedWhen`), needs that of each vshard there is a
file or a call that is still waited for, and that no file is of a later
iteration than the master's.

**The tasks of the master.** `TaskInv` adds to `SquadsHoldTheirTasks`:

 - `Records`, `SquadTasks`: a task on record, or at a squad, is one of this
   iteration's plan or of an earlier one, and carries its squad's address; a
   squad that registers offers a zero task to fill;
 - `Caller`: whoever caused a turnover is waiting for it, or has died since;
 - `Orphans`: without a master nobody is on record, and no squad believes it is.

That a squad has what the master recorded is not obvious, because the reply is
decoded into the task the squad had before, and gob does not send zero fields:
a task of iteration 0, or with action INIT, would inherit what was there.
Iterations only grow (`NextIsLater`: the predecessor of the master's iteration
is complete on the disk, by `IInv`), and a plan with a zero field follows only
plans that have it too (`LaterPlan`), so the reply arrives as it was sent
(`DecodeLater`).  From that, whoever completes a task completes its own entry
(`OwnEntry`), and a task that leaves the record is reported done in the same
step: `NoTaskLost` is inductive relative to `IInv /\ TaskInv`.  With one squad
a turnover begins with an empty queue and an empty record, and by `NoTaskLost`
everything is then done; `TurnoverFollowsWork` follows, as nothing but the end of
the turnover changes the iteration or its reports.

`ReportsAreUnambiguous` compares a report with the records of the same iteration.
The invariant (`Apart`) is that the queue and the records never hold the same
work twice.  A plan does not, because its groups of files begin with different
files (`ChunksDiffer`); and it holds nothing that a squad has still on record,
because a turnover moves on (`SavedWhen`) and the iteration and action of a task
tell after which iteration it was planned (`PlanOf`).

**Squad.** `CompletedChunksAreLoaded` says that the report of a task implies
that each of its shards was accumulated.  Between the two lie parallel calls to
loaders, any of which may die, be restarted, or go on for a coordinator that is
gone and whose successor does the same task again.  The invariant
`IInv == Types /\ Core` adds three facts:

 - `JobInv`: a loader that has sent its model has had it accumulated; a caller
   that still listens is in the task of now, and waits for exactly this call;
 - `OneAnswer`: no two loaders answer the same call, so that the death of one
   turns a call into an error for good;
 - `RunInv`: a call that returned well is one whose shard is loaded; nothing is
   called before there is a task; and once the coordinator works, its loaders
   are all registered, which is why no late registration starts it a second
   time in the middle of a task (`RegisterLoader` refuses it).

That `Len(clients["loader"])` counts registrations, not loaders, does not hurt
here: a dead loader is an error, and an error ends the coordinator before it
reports.  It hurts progress (section 7), never what was reported.

`CountsStandForWorkers` and `LoadedOnce` are about squads in which nothing has
failed.  What they need is `Faultless`, which holds as long as `crashes`
counts nothing (`Unharmed`): nothing is late or down that was up (`AllWell`); registered workers serve
and are registered once, workers that serve are registered, and those still to
be launched are not running (`Places`), where the launch first kills what may be
left of workers; and each call of the coordinator is heard, with its shard
loaded when it has been sent, and not before (`NotTwice`).  NumVShards different
slots among NumVShards are all of them (`AllRegistered`).

With faults a shard can be accumulated again: a coordinator that dies leaves its
loaders serving its calls, its successor has the same task and calls again, and
either may come first.  That `loaded` is at most the number of lives is not
inductive, as it forgets the calls still to come.  `LifeInv` counts both: for
each shard, the times it was accumulated and the calls that may accumulate it
yet (`Tally`) are together at most the lives of the coordinator, and one less
while a coordinator that is alive has not called for it.  A call moves the shard
from the second case to the first; accumulating takes from one summand and adds
to the other; a death takes calls away or leaves them unheard (`UnsentFewer`,
for which two calls of one loader that only differ in being heard become one); a
restart adds a life; and the master's next task has not been called for, as no
loader knows of tasks to come (`WorksAlive`).  So each step is one of `Loading` or
stutters (`SquadLoads`): `Accumulate` is `Load`, `RestartCoordinator` is `Restart`,
and `CompleteTask` is `Complete` when all shards are in, which is
`CompletedChunksAreLoaded` after the step.

**Aggregator.** Nothing is locked, so the invariant says what survives any
interleaving.  The map that comes with a call is *fresh* for a word until the
call has come to that word: nobody else's slot or register points to it, and its
count is what the shard has (`FreshOK`).  Each call that is done with a word has
a credit of what it sent; what the model holds, and what a register is about to
write, is at most the sum of the credits (`BoundedOK`): a lost update loses
counts, and never invents any.  If calls do not overlap (`OrderlyOK`), there is
one call at a time, its register has what the model holds, and what is held *is*
the sum of the credits.  The global histogram follows the words, one word behind
while a call is between the two (`GlobalOK`); in a turnover the sum grows by
what each aggregator holds, and is then set everywhere.

**GibbsSampler.** A step of `Sample` adds one to, or takes one from, a count
of the word, the document, all words and the diff; `CountsMatchTopics` compares
these with cardinalities of sets of tokens.  Lemma `OneToken` says how such a
cardinality changes when one token changes its topic or begins or ends to be
neglected; everything else is arithmetic in each word and topic.  The invariant
adds to the two properties only where `Sample` is and that histograms are
functions to integers.

`DrawsFromTheModel` speaks of the moment of the draw, but a bucket is built once
and then kept up to date by differences.  `CacheOK` says, for each phase of
`Sample`, which buckets are right for which histograms: the smoothing-only one
always; the coefficients, for the document at hand or, between documents, for an
empty one; that of the document, while there is one; that of the word, from when
it is neglected until it is considered.  A move changes the factor of one topic
in each, and the size by the difference of the two factors (`SizeChange`).  The
quotients, which are kept whole by a common denominator, are opaque there.

**Trainer.** `PriorsAreCurrent` speaks of goroutines while they sample.  The
single thread's sampler is used again in the next iteration, so the invariant
(`PriorsCached`) says it of that one at all times.

The model lags behind the topics: the topics move while goroutines sample, the
model when diffs are accumulated, word by word.  The invariant (`TInv`) says that
it counts a mixture of topics (`Hybrid`): the present ones for the tokens whose
stripe and word are merged, those at the beginning of the iteration for the
others.  The diff of a goroutine has the difference between the two for its
stripe, and nothing of words that it has not sampled (`DiffOK`).  To add one word
of a diff is to move these tokens to the other side; so all counts are those of
tokens, and an entry of the model is positive, whatever entries of zero and
below are in diffs and in whatever order they come.  In the refinement
(`TrainersTrain`) `Optimize` is the iteration of `Training`, `SaveModel` its save,
and all other steps stutter.

`TokensCountOnce`: the optimizer has the statistics of as many documents as are
sampled, or of all (`StatsOK`: the recursion over the corpus, and the counting as
the single thread goes on, give the same, `CollectAllIs`); the tally is that of
the documents whose goroutine has evaluated (`TallyOK`, each document is in one
stripe).  That documents, divided by how often they have a topic, have all its
tokens is a sum over the corpus (`TopicDocsAddUp`).

`DeadTopicsStayDead`: a prior of zero implies that no token has the topic, now or
when the iteration began, and that the shape is zero (`PriorOK`).  A topic is
drawn because of its prior, which is the model's (`PriorsCached`), or because
another token of the document has it; and the optimizer makes a prior zero only
if no document has the topic (`DocsOfTopic`).

**Library.** A step of one part leaves the variables of the others alone, so an
invariant of a part is one of `Library`.

 - *Sharding.* `First(j)` is the first word of bucket j.  By multiplication and
   division of natural numbers alone, `First(0) = 0`, `First(j + 1)` is `First(j)`
   and the size of bucket j, and `First(Buckets) = v`.  Each word is therefore
   between two of them, and only two.
 - *Config.* `Validate` accepts only what `Matches`, so `ValidJobsAreWhole` is
   kept; an address that is in a list once is found where it is.
 - *OrderedSparse.* Entries descend, are positive, and have different topics
   (`IsOrdered`); then the search from either end finds the only entry of a
   topic, the position to which the loop moves it keeps the order, and what is
   cut off behind a zero is only that.  So each call changes one topic of the
   abstract histogram (`OrderedSparseIsHist`).
 - *Evaluator.* While the vocabulary is scanned the heap has the most frequent
   of the words looked at, and then they are in the heap or have their
   distributions (`AreTop`).  Whoever fills in a distribution, or a coefficient,
   fills in the right one, as nobody writes to histograms; and with memory for a
   word the slice is complete before any goroutine runs (`SmoothingInTime`).
 - *Vocabulary.* `Less` is a strict total order, so an arrangement of the lines
   of a file that is not out of order has in each place what any other has: in
   the two the number of lines up to a string is the same, by the bijections.
   The maps to ids are then the same, too.  For `WordsAreKept`, the places that a
   document took its words from are listed as its loop goes on: a known word
   appends its place, an unknown one nothing, by induction over the words of the
   line.  Two lists of the same places in ascending order have the same length,
   so the length of the document is the number of known words, and `Admitted`
   is about the line.  `DocumentsKept` says it of the corpus and the last query,
   together with what keeps ids from changing: the map is that of the tokens as
   they were loaded, whatever is translated afterwards.
 - *TopWords.* The words of a topic can be put in order, one behind the other
   (`CanBeSorted`), so the choice in `GetTopWords` is one of something that there
   is.  No set of n words weighs more than the first n do (`FirstAreHeaviest`, by
   induction over n); the loop stops at the first n that
   weigh enough (`LoopStops`), so fewer never do (`FewestAreShown`).
 - *Interpreter.* The histogram follows the topics of the document one by one;
   what is accumulated is the histogram at the end of each round that is kept,
   each of which has as many entries as there are words, so shares have the
   denominator they should have.

**Sums and induction.** `Sums!Sum` is a fold, which recurses over subsets and
chooses an element at each step.  `SumProofs` proves that the order makes no
difference (`SumAdd`, `SumChange`), from the recursive definition of the fold.
Induction is stated for sets (`AllNumbers`: a set with 0 and every successor has
all natural numbers; `AllSubsets`), as theorems with an operator for parameter
cannot be used here.

Only model-checked, and why:

 - liveness (`ProgressUnlessExhausted`, `LoadsOrGivesUp`, `Terminates`): beyond
   this prover, which knows neither fairness nor `ENABLED`;
 - the runs that expect a violation.

## 7. Disagreements between code and documentation

Shown by runs that expect a violation:

 - `master_early` — `master_service.go:160` takes an empty queue for a finished
   iteration.  With two squads, the first to ask triggers the turnover while
   the other still works.
 - `master_partial` — `aggregator_service.go:104` writes a model file in place,
   and completeness is the existence of files.  A master that restarts after an
   aggregator died while saving resumes from half a file; `common.go:9-13`
   promises temporary files that are renamed.
 - `aggr_repeat` — `master_service.go:164` sums up the global histograms at
   every turnover.  After the first each is the sum already, so the second
   multiplies; the comment says to do it after the initialization.
 - `squad_loaders` — `coordinator_service.go:103` counts registrations, and a
   restarted loader is counted twice.
 - `eval_coeff` — `evaluator.go:83` divides by `WordPrior + N_t`, the
   derivation at 34-57 by `bV + N_t`.

Met while modelling, not among the runs; each can be seen by changing a
constant of a run or dropping a condition of a property:

 - `master_service.go:257`: tasks of two iterations are equal for `Equal`, and
   a report may be compared with the entry of the other squad first: its owner
   gets `InvalidReporter` and dies.  (`ReportsAreUnambiguous` without the
   condition on iterations, in `master_squads`.)
 - `master_service.go:257`: a late report of a dead coordinator completes the
   equal task that its successor has got.  (`NoTaskLost` in `master_squads`
   with Faults {"crash", "late"}.)
 - `master_service.go:38`: the comment on `working` says that "a task might be
   executed by multiple squads".  The code never gives a task to a second squad
   while it is on record for one, and the map is from squads to tasks.  (The TODO
   at 177, a task that halts for long, is what would need it.)
 - `master_service.go:174`: the error of `initializeTasks` is dropped.  If it came
   after `m.iteration` was set (133, 140), the next caller saves an iteration in
   which nothing was done.  (`TurnoverFollowsWork` with Faults {"listing"} or
   {"mkdir"}.)
 - `master_service.go:112`, dropped likewise: the iteration stays as it was, the
   caller gets an error and ends, and the next one turns the same iteration over
   again, sums of the global histograms and `Save` calls included.
   (`TurnoverAdvances` states what the code does.)
 - `master_service.go:169`: the end of a LOGLL phase is saved as the next
   iteration, though nothing was sampled.
 - `master_service.go:93`: directory names are read back with five digits, so
   iteration 100000 is never seen.  (`TurnoverAdvances` with Digits 1 and
   MaxIteration 12.)
 - `master_service.go:220`: the position of an aggregator in the slice names its
   file.  After a crash of the master two squads, still alive, let a turnover
   happen while aggregators register in another order, and a checkpoint may get
   two shards from the same one.  (`CheckpointHasEveryAggregator` in
   `master_squads` with MaxMasterCrashes 1.)
 - `coordinator_service.go:136`: a sampler that dies and is restarted counts
   twice, as loaders do.  (`AllSamplersRegistered`, Faults {"sampler"}.)  The
   one too many ends the coordinator (129), whose surviving workers can do the
   same to its successors.
 - `coordinator_service.go:159`: a task that is done again after a crash
   accumulates its shards again.  (`LoadedOnce` without its condition; `IsLoading`
   bounds how often.)
 - `aggregator_service.go:95`: `Init` has no lock; parallel loaders lose counts,
   and a count may be added to the global histogram twice through the map that
   a fast copy shares.  (`UpdatesAreKept`, `GlobalIsSum` without `orderly`.)
 - `ordered_sparse_histogram.go:125`: the overflow check compares with
   MaxInt32 minus the topic `t`, where the count `c` was meant.
   (`EntriesAreOrdered` and `IsHist` with Amounts {1, 5}.)
 - `model_accessor.go:74`: without a cache (`-cache=0`, the default) the first
   readers race on the slice `smoothingOnly`, and one may index through a
   length whose array is not there yet.  (`NoReaderCrashes` with cached = 0.)
 - `interpreter.go:72` and 46: samples are taken when `i > burnin`, with `i` from
   zero, so the round after the burn-in does not count; with one round after it,
   which the check at 46 allows, no sample is taken and the answer has no topics.
   (`AnswerIsShareOfSamples` states what the code does, in `Kept`.)
 - `optimizer.go:85`: without documents and with a shape of zero, the default, a
   prior becomes zero and the topic never returns.  (`DeadTopicsStayDead` says
   that at least nothing becomes infinite.)
 - `sampler.go:209-217`: the search of the last bucket begins with topic 0 and
   takes it when the draw is exactly the sum of the other two, though its factor
   is zero; a topic without prior then gets a token, and the next optimization
   makes its prior infinity times zero.  (`DeadTopicsStayDead` with BorderDraws
   TRUE.)
 - `core/utils/io.go:118-123`: `SaveModel` logs that the model was saved also when
   `Encode` failed and the file has a part of it.  (`whole` in `Training`.)
 - `coordinator_service.go:86-144`: nobody tells the coordinator that prism has
   given up a worker, or that the loaders could not be launched, and it waits for
   registrations that do not come.  (`LoadsOrGivesUp` without its last two
   disjuncts.)
 - `config.go:42-44` says that Aggregators may be left out with one squad;
   `Validate` rejects that (`Config`).
 - `config.go:222`: nothing checks that addresses are distinct, and a worker whose
   address comes twice in its squad takes the first place.
   (`WorkersFindTheirPlace` without its conditions.)
 - `vocab.go:52`: a token that is twice in the file has two ids, of which one is
   never returned.  (`WordsAreKept` holds all the same.)

## 8. What is not modelled

 - `float64`: rounding, and the exits of the sampler it could cause
   (`sampler.go:213`, 221); the values of the optimizer's fixed-point iteration
   and of its digamma recurrence.  `Trainer` has which priors are zero,
   `GibbsSampler` takes any of several priors.
 - Data races beyond those above: the slice `m.aggregators`, the concurrent
   write that Go's map detects and ends the process for.
 - net/rpc, prism, the file system: external, modelled by how the code uses
   them.  prism restarts processes that failed, not those it killed or that
   ended normally.  `parallel.For` waits for all calls and returns an error if
   one failed.  Directory listings are atomic.
 - An empty corpus: `initializeTasks` then queues a nil task (152), which the
   first caller dereferences (180); net/rpc lets the handler's panic end the
   master.
 - `Clone`, `ForEach` and the methods of histograms that only tests call.
 - The layout of what is printed, the status page (`core/utils/utils.go`),
   command-line flags, the encoding of configurations, models and corpora, the
   segmenter and the HTML of `cmd/interpreter`: input and output without state
   of their own.
 - `cmd/plot` and `cmd/inspect` report on finished models and logs;
   `core/heavy_tests` are tests.

## 9. What is left

 1. A composition of `Master` with the data of `Aggregator`: what a checkpoint
    contains after crashes, INIT tasks done twice included.  Each is checked by
    itself; together they are too large for the bounds that make either
    interesting.
 2. Proofs of what the liveness properties rest on, as action properties: for
    `Squad`, that each step of a fault-free squad decreases a number of steps to
    go; that these steps are taken is fairness, and stays with TLC.
 3. The coordinator's `gibbs` and `logll`, once the code has them.
