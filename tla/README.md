# RamParIls in TLA+

RamParIls tunes the parameters of a solver: an iterated local search (ILS) over
configurations, each of them scored by running the solver on a set of instances,
in parallel, with the results kept in a database. This directory holds a TLA+
model of the parts of it where order, concurrency and partial results matter,
what TLC checks of it, and what TLAPS proves.

Paths are relative to the repository: `eval.rs` is `src/eval.rs` of the crate.
`PROJECT.json` maps every definition to the lines it models.

## The system

| part | state | operations | talks to |
|---|---|---|---|
| scheduler, `eval.rs` | batch id, cancelled neighbours, work channel, `next_index` of each task, event channel, registered process groups | `submit`, `events`, `cancel_neighbor`, `reset`, `drop`; the worker threads; the poll loop around each solver | solver processes (signals), cache (`get_batch` in `submit`), ILS thread (event channel) |
| local search, `ils/bls.rs` | per neighbour: results, running sum, verdict | `evaluate_config_outcome`, `basic_local_search`, the two collection loops, capping, checkpoint rejection, drain | scheduler, cache (`put`), checkpoint tracker |
| tuning run, `ils/mod.rs` | incumbent, home base, rejections, fidelity | first evaluation, probes, rounds, acceptance, restart, fidelity growth | local search, parameter space |
| checkpoint tracker, `ils/futell.rs` | virtual workers, pending dispatches | `record_dispatch`, `record`, `poll`, `score` | fed by the collection loops |
| parameter space, `params.rs` | the declarations | `from_file`, `validate_config`, `active_params`, `is_forbidden`; on top of them `neighbourhood`, `perturbation`, `random_config` | local search, cache (its key is the active projection) |
| cache, `cache.rs` | an SQLite file: tables strategies, instances, statuses, results; per process the ids it has looked up | `open` with migration, `load_instances`, `put_strategy`, `get_batch`, `put` | everything above, and other processes that open the file |
| export, `db.rs` | none | `export_all`: four queries over the file | cache |
| deepening, `ils/deepening.rs` | a schedule, a common clock | one tuning run, with a scheduler of its own, per phase | tuning run, cache |
| process, `main.rs`, `lib.rs` | the interrupted flag, a process-wide group registry | signal handler, the end of `cmd_run`, `terminate_active_process_groups`, exit codes | poll loop, every loop of the ILS thread |
| scenario, `scenario.rs`; Python bindings, `python.rs`; counters and logs | none that decides anything | | |

One thread, the ILS thread, runs the deepening, the tuning run, the local search
and the cache. It hands batches to the worker threads through an unbounded
channel, and reads `Dispatched` and `Completed` events from another. What it
shares with the workers besides is the batch id, the set of cancelled neighbours
and the map of process groups, each behind an atomic or a mutex of its own, so
that every decision on two of them can be overtaken.

What is hard here, and where it bites (`PROJECT.json` lists all hazards):

- *Calling work off.* `reset` and `cancel_neighbor` invalidate work, take a list
  of process groups, release the lock and then signal. A worker may claim,
  announce, spawn or register at any point between, and a killed solver looks to
  `try_wait` like one that ended by itself.
- *Late events.* A batch can go on reporting after it was reset and drained, and
  `collect_one` leaves on the deadline without a reset at all.
- *Who is done.* A neighbour is finished by its last result, by capping or by
  its checkpoint, while results of it are still on their way.
- *Partial scores.* Capping, checkpoints, the deadline and a signal all produce
  evaluations of part of the instances. Their means are no scores.
- *Fidelity.* Scores of different numbers of instances are not comparable, and
  growing the number may fail half-way.
- *A cache with many cutoffs*, which outlives runs and may be shared; rows refer
  to instances and statuses by numbers that several processes hand out.
- *An export over a file that changes*, one query after the other.
- *Charged and real time.* A failure is charged the cutoff at once, and the
  checkpoint tracker compares such times with the clock.
- *Conditions on parameters.* `active_params` removes parameters from the set it
  is sweeping, in the order of the file, and a move may activate values nobody
  has looked at for long.
- *The end of the process.* Nobody joins the workers: what they start after the
  last list of groups was taken is on no list.

What makes each part correct:

- scheduler: a run is started once and reported once, after its announcement;
  signals reach only unwanted work; no solver is left that nobody looks after;
  what is wanted completes, what is not dies;
- local search: a neighbour is judged by results of its own; a round ends when
  all are decided; capping ends only what cannot win; a descent goes strictly
  downhill; calls return; no conclusion misses the cache;
- tuning run: what is retained was measured whole, at the current fidelity; the
  home base keeps to its band; restarts come when due; the fidelity grows;
- checkpoint tracker: a mature tracker knows that nothing it waits for can still
  be solved in time; its count is the exact one; hung runs do not hold it up;
- parameter space: the active parameters are the largest set that supports
  itself; the search stays among legal configurations; neighbours have cache
  keys of their own; moves can be taken back; the loops end;
- cache: a hit says what a run would have said; better rows are kept; every row
  leads to its own instance, status and configuration; an export fits together;
- deepening and process: the schedule climbs to the whole scenario; phases share
  one budget; solvers of a phase that is over end; what outlives the tuner is
  only what was being started when the last list was taken.

## The modules

| module | models | stands on |
|---|---|---|
| `EvalService` | what the scheduler promises: runs owed, running, reported on one FIFO channel, given up only when unwanted | |
| `Scheduler` | `eval.rs`, every access to shared state a step | implements `EvalService` |
| `LocalSearch` | the loops of `ils/bls.rs` and the callers' use of them | extends `EvalService` |
| `IlsLoop` | `ils/mod.rs`, an evaluation and a descent as one step each | outcomes justified by `LocalSearch` |
| `CheckpointTracker` | `ils/futell.rs`, the real workers on a clock, the loop that feeds it | its verdict is a free choice in `LocalSearch` |
| `ParamSpace` | `params.rs` and the moves of the search | fills in the configurations `LocalSearch` and `IlsLoop` leave open |
| `Cache` | `get_batch`, `put` and the write-back policy, several processes: what a row says | |
| `CacheFile` | the tables of the file, statement by statement, and `db.rs`: what a row refers to | `Cache` abstracts it to one row per key |
| `TunerProcess` | `ils/deepening.rs`, the registries of process groups, the end of `main.rs` | its workers are those of `Scheduler`, coarser |
| `MCScheduler`, `MCLocalSearch`, `MCCache`, `MCParamSpace`, `MCTunerProcess`, `MCCacheFile` | values of constants and symmetries for TLC | |
| `SchedulerProofs`, `LocalSearchProofs`, `IlsLoopProofs`, `CheckpointTrackerProofs`, `ParamSpaceProofs`, `CacheProofs`, `CacheFileProofs`, `TunerProcessProofs` | theorems and their proofs | |

The layers meet in two places. `Scheduler!ImplementsService` is a refinement:
`owed` are the instances beyond `next_index` and those just claimed, `running`
those between announcement and report, `closed` is the dropped scheduler. It is
checked by TLC and proved (`SchedulerProofs!Refinement`), and `LocalSearch`,
which extends `EvalService`, so sees everything the threads can do to it. And
`IlsLoop` takes from `LocalSearch` that a descent stays or ends at a whole and
strictly better measurement (`StepsImprove`), and that every call returns
(`CallsReturn`).

Operators named with a `Mutant:` comment are faulty variants of the definition
after them. They are used by no specification; `PROJECT.json` pairs each with
the property that must notice when it takes the place of the original.

### Scheduler

A task is a pair of batch and neighbour, a run a triple with its instance; a run
names its process too, since process ids are taken to be fresh. `pc[w]` says
where a worker stands in the closure of `Scheduler::new` and, between `spawn`
and `release`, in `run_wrapper_process`; `ils` says where the ILS thread stands
in a call.

- `Receive`, `CheckHandle`, `Claim`, `CheckBatch`, `CheckCancelled`, `Announce`:
  the worker's loop (`eval.rs:199-223`). The two checks are two loads in the
  code, in this order, and two steps here.
- `Spawn`/`SpawnFails`, `Register`, `Poll`, `PollCancelled`, `TryWait`,
  `Terminate`, `Escalate`, `Reap`, `Release`, `Report`: one solver call
  (`eval.rs:478-578`, `239-251`). The poll loop reads the interrupted flag, the
  batch id and the cancelled set (`eval.rs:543-545`). The first two are one
  step: the flag is only ever set and the batch id only grows, so that a worker
  that finds no reason to stop in either would have found none had it read both
  at the time of the first. The set is read in a step of its own, since a
  `submit` in between may have cleared it. A process stands for the leader of
  its group, the only one the code looks at before it sends KILL
  (`eval.rs:571`).
- `SubmitBump`, `SubmitClear`, `Offer`, `SubmitDone`: `submit`. One task is
  offered per step: its sends only ever add to the channels' ends, and handles
  not yet sent and not yet received cannot be told apart. An error of
  `put_strategy` or `get_batch` leaves `submit` between two tasks
  (`eval.rs:296,302`), one of `cache_result` leaves the loop that reads events;
  both unwind to the drop of the scheduler, so that `Drop` may also happen there
  (`Unwinding`).
- `CancelInsert`, `ResetBump`, `Drop`, then `Snapshot`, `TermGroups`,
  `KillGroups`: the calls that end work; `Drained` the drain after a reset.
- `Take`: the ILS thread reads an event; what it does with it is `LocalSearch`.
- `Exit`, `Die`, `Interrupt`: the environment. A solver may end at any time, or
  never; a TERM may be ignored; a KILL is delivered in the end.

What a solver printed is drawn when its end is collected: a result line, or
nothing usable. `killed` in an event is a history field for the properties.

### LocalSearch

`phase` is where the ILS thread stands, `mode` which of the two collection loops
it is in. `Evaluate`, `Descend`, `Return`, `Finished` are the callers;
`LoopHead` to `KeepCollecting` one turn of a loop; `Drain` and `Drained` the
drain. An error of the database in `submit` or in `cache_result`
(`ils/bls.rs:190,454,864`) ends the call and the run (`SubmitFails`,
`WriteFails`); `NothingLost` promises nothing after one. The worker side is
`EvalService`, with a note of which conclusions are not in the cache yet. Scores
are exact sums: they are compared at equal numbers of instances only.
`bound_multiplier` is the fraction `Multiplier / Unit`. Nothing validates it
(`scenario.rs:216-218`), so that any is allowed here, and `CappedCannotWin` is
stated for those of 1 or more: below 1 it is false. Whether a checkpoint has
matured and is worse than the reference is left open, which covers whatever the
tracker may say. The neighbourhood of a configuration is any non-empty set of
neighbour ids.

### IlsLoop

A configuration has a cost on each instance, drawn at the start. `Outcomes` are
all evaluations `evaluate_config_outcome` may return: whole, capped as soon as
and only if the budget is spent, rejected after any part, cut off by a stop
before or during it; results arrive in any order. A capped evaluation may be a
complete one, when its last result spent the budget. Perturbation and
neighbourhood are left open, so that any configuration may come next.
`rejections` is counted as far as `restart_failures` looks. `Multiplier` and
`Tolerance` are counted in parts of `Unit`, as fractions.

### Cache

A process opens the file with a cutoff and `cache_disable` of its own, looks
pairs up, runs the solver on a miss and puts what it concluded. It may exit or
be killed in any state. `put` is two steps, its SELECT and its INSERT OR
REPLACE: two SQL statements without a transaction around them. `concluded` and
`opened` are history: the pairs a conclusion was ever written for, and who ever
opened the file. Each pair has a set of times its solver may need, so that a
solver is not deterministic. A `GaveUp` stands for every failure that is not
called a timeout; the wrapper contract (`docs/reference/protocol.md:92-97`)
charges it the cutoff. `get_batch` serves it unchanged at longer cutoffs, which
`REVIEW.md:9-23` records as a known defect: `HitsAreTrue` excepts exactly these
answers (`Stretched`), so that it still says something of files that hold them.
`NoReruns` is about a file that one tuner has to itself, over any number of
runs: with several, the race that `CacheRace` shows may take a conclusion away,
and the pair is run again.

### CheckpointTracker

The tracker is a record (`NewTracker`), its methods operators from tracker to
tracker with the methods' names; `pending` and `since` are the two halves of the
code's `pending`, `busy` is `virtual_busy`. The world around it has a clock of
whole ticks: a worker announces an instance and starts its solver (`Start`, with
the current clock as `dispatch_time`), the solver ends solved after the time
that has passed (`Solve`), at the cutoff or later (`TimeOut`), or fails before
it (`FailEarly`); a failure reports the cutoff whenever it comes. Taking the
time and sending the event are one step, as is sending and starting. The loop
takes events in the order of the channel, and polls with the clock when it is
empty (`Poll`; the code waits half a second for an event first). `TakeCompleted`
decides as `SingleConfigCollector::run` does: whole before rejected. Hits are in
the channel before the first miss is offered, as `submit` sends them.
`NeighbourRound` feeds one such tracker per neighbour; its neighbours share
nothing but the workers.

### ParamSpace

The text of a parameter file is abstracted to its lines' contents.

- `ReadParam`, `ReadCondition`, `ReadForbidden`, `EndOfFile`: `from_file`, a
  line a step, with the lines it refuses (`params.rs`). A condition for a
  parameter that is not declared yet is dropped, as in the code, so that the
  order of a file matters.
- `Start`, `Refuse`: `resolve_initial_config` with `validate_config`.
- `Visit`, `NextSweep`, `SweepDone`: the two loops of `active_params`, a
  parameter a step. `ActiveSet` is its reference definition, the largest set of
  parameters whose conditions hold among themselves; the other uses of
  `active_params` take it from there, which `ActiveIsLargest` justifies.
- `Step`: a descent or a perturbation takes a member of `Neighbourhood`. A
  domain is a list, and a move a place in it: a line that gives a value twice
  (`params.rs:141-145` lets it) makes two moves with one cache key, which is
  what `KeysTellApart` excepts.
- `AskRandom`, `Draw`: `random_config` and its loop over forbidden draws.

A file is assumed to declare a parameter once: `from_file` does not check it.

### TunerProcess

The whole life of one tuner. `at` is where the main thread stands, `st[w]` where
worker `w`, a pair of phase and number, stands.

- `BeginPhase`, `EndLoop`, `RunReturns`: the loop over the phases
  (`ils/deepening.rs:81-147`) on the common clock, with a call of `run` that
  ends in a result or an error at any time. A scenario without deepening is a
  schedule of one phase that is given the whole budget.
- `ListPhase`, `KillBatch`, `KillAll`: the drop of the phase's scheduler, a
  `reset` and a last list of all its groups.
- `PrintResult`, `ListGlobals`, `KillGlobals`, `Exit`: the end of `cmd_run`
  (`main.rs:376-379`) and `terminate_active_process_groups` (`lib.rs:104-116`).
- `Claim` to `UnregisterLocal`: a worker from one solver to the next; it
  vanishes where it stands when the process exits.
- `SolverEnds`, `Tick`, `Signal`: the environment.

The cutoff and the factors of the schedule are fractions. Instances and cutoff
of a phase are rounded up in every phase, the last included
(`ils/deepening.rs:45-47`), so that the last phase is the whole scenario but for
its cutoff, which is the scenario's rounded up to whole seconds. The code
computes powers and logarithms in floating point. A product or a quotient of
logarithms that should be a whole number may come out a little above it and be
rounded up to one more (100 instances at a factor of 0.1 give 2, not 1, in the
first of three phases); whether it does is a choice of `Init`, except for
factors that are binary fractions, whose powers are exact (`RoundsUp`,
`PhaseCounts`). Deadlines are in ticks of the model's clock. Factors are assumed
to be at most 1, as documented. `missed` is
a history field: the workers on their way to a registered solver when a list was
taken that could have named it.

### CacheFile

Tables are sequences (an id is a position) or sets of rows. Every statement
commits alone, since the code opens no transaction, so that each is a step, and
tuners and an export interleave between any two; a tuner may end or fail between
any two.

- `Open`, `Create`, `ReadColumns`, `Alter`: `Cache::open` on a new file, on one
  of an older version, which has no `runhash` column and perhaps no strategies
  table, or on one whose results table lacks columns it cannot do without, which
  is refused (`cache.rs:139-142`). `Schema` lists what `Create` makes, a
  statement each, the row of the UNKNOWN status included.
- `LoadInsert`, `LoadSelect`: `load_instances`. `PutStrategy`: what `submit`
  does first. `Report`: a result comes in.
- `InternInsert`, `InternSelect`, `PutReads`, `PutWrites`: `put` with
  `intern_status` and its cache of ids. Which timeout replaces which is
  `Cache`'s subject and left open.
- `ExportSolved`, `ExportStatus`, `ExportConfs`, `ExportRunhashes`:
  `export_all`.

`told` is a history field: what was last put for a key.

## What TLC checks

`tlc -config X.cfg M`, with M the module in the third column. The strengthened
invariants behind the theorems that are not among a run's invariants
(`IlsLoop!TypeOK` and `IInv`, `CheckpointTracker!CountsRuns`,
`TunerProcess!IInv`) were checked with the constants of their module's run
before they were proved, and can be checked again by adding them to its
`INVARIANTS`.

| run | expected | module | question | distinct states |
|---|---|---|---|---|
| `SchedulerTasks` | pass | `MCScheduler` | workers sharing one task's instances, hits and misses: `TypeOK`, `StartedOnce`, `ReportedOnce`, `DispatchedFirst`, and under fairness `WantedCompletes`, `UnwantedDies`, `DropQuiesces` | 1.7 M |
| `SchedulerBatch` | pass | `MCScheduler` | two batches, a signal: the inductive invariant `IInv`, `KillsOnlyUnwanted`, `LiveIsSupervised`, and `ImplementsService` | 2.8 M |
| `LocalSearchRound` | pass | `MCLocalSearch` | two neighbours on two instances with capping at a multiplier of 1 and checkpoints: `RoundIsDecided`, `CappedCannotWin` | 5.9 M |
| `LocalSearchDescent` | pass | `MCLocalSearch` | several batches with capping at 1.5, deadline, signal, errors of the database, runs that may hang: `TallyIsTrue`, `NothingLost`, `StepsImprove`, `CallsReturn`, `StopEndsCall` | 1.1 M |
| `CacheReuse` | pass | `MCCache` | two processes, three cutoffs: `HitsAreTrue`, and `NoReruns` while only one has opened the file | 3.8 M |
| `CacheRace` | violation | `MCCache` | `SolvedIsKept` | |
| `CheckpointReplay` | pass | `CheckpointTracker` | as many real as virtual workers: the bookkeeping (`IInv`), `ReadyIsSound`, `ScoreIsExact`, `OverdueIsNoticed` | 1.2 M |
| `IlsLoopFocused` | pass | `IlsLoop` | a focused run with every option on: `FidelityConsistent`, `KeptAreMeasured`, `RestartsAreDue`, `RoundsKeepBand`, `FullFidelity` | 113 k |
| `IlsLoopProbe` | violation | `IlsLoop` | `ProbesRanToCompletion` | |
| `ParamSpace` | pass | `MCParamSpace` | every file of up to five lines, one domain with a value given twice, and every search in it: `ActiveIsLargest`, `SearchIsLegal`, `KeysTellApart`, `MovesAreReversible`, `CallsReturn` | 616 k |
| `TunerProcess` | pass | `MCTunerProcess` | eight scenarios in every rounding, a signal or an error at any time: `ScheduleClimbs`, `PhasesShareBudget`, `OrphansSlippedThrough`, `StaleSolversEnd` | 256 k |
| `CacheFile` | pass | `MCCacheFile` | two tuners and an export on a new, an old or an incompatible file: `RowsDecode`, `ExportIsClosed` | 8.1 M |

Deadlock is checked in every run but three: the evaluation of `CheckpointReplay`
ends with its verdict; in `ParamSpace` a file or a configuration may be refused;
in `TunerProcess` the process exits. The other systems stutter explicitly when
they are over (`Terminated`, `Over`).

**Bounds.** `MaxBatch` limits how many batch ids `submit` hands out; what goes
wrong between batches involves one that is stale and one that is current, so two
are the least that show it (`SchedulerBatch`, where one neighbour is enough:
that cancelling one neighbour spares another is the theorem `KillsAreSafe`), and
`LocalSearch`, whose resets take an id each, needs five or six for an
evaluation, two rounds and the final reset. Two workers suffice for every race
of workers: what they share of a task is one counter. In `LocalSearch` two
neighbours tell "this one" from "another one". Two instances make an evaluation
that is begun and not whole, and a task that one worker does not finish alone.
Costs 1 and 3 (or 1 and 2) make ties, wins and a budget that is passed at the
first or the last instance; `Unit` is 2, so that multipliers and tolerances are
halves. `Epsilon`, the inverse of the `1e-6` in `ils/deepening.rs`, is 8, so
that a factor of 9/10 stands for one that close to 1. Three cutoffs and four
times put a time below, between and beyond the cutoffs a row goes through.
`MayInterrupt`, `MayStop` and `MayFail` switch signal, deadline and errors off
where a run is about something else; each is on in another run of the same
module. In `CheckpointTracker` three instances on two buckets are the least with
a checkpoint to mature; the horizon is the cutoff, the default of
`futell_checkpoint`, two ticks give runs that end before, at and after it, and
`MaxClock` lets two runs in a row reach the cutoff. Three parameters make a
chain of conditions, a cycle with a dependent, and a forbidden combination over
an active and an inactive parameter; five lines (`MaxLines`) declare them and
leave two for later conditions or forbidden combinations. The scenarios of
`TunerProcess` cover each way to find the number of phases, one to three of them
(`MaxPhases`), cutoffs below a second and between two, products that rounding
may carry up, a clock that runs out between phases or before the first, and two
workers (`MaxCores`) in a scenario of one phase: workers of one phase share no
state but the lists they are on. In `CacheFile` one list is a part of the other,
so that whoever is first decides the ids; one hash suffices as rows of different
hashes share only instances and statuses, and two submits let a tuner return
after an exit. Symmetry is used only in `CacheReuse`, over sets nothing
distinguishes. The theorems do not depend on any of these bounds.

**Fairness.** `Scheduler!FairSpec`: each worker thread runs, the ILS thread
completes a call it has begun, and a SIGKILL takes effect; all three are the
operating system's. Nothing obliges the ILS thread to make a call and nothing
obliges a solver to end: the scheduler has no watchdog. `WantedCompletes` alone
takes the wrapper contract (`SolverFairness`: a call ends at its cutoff at the
latest, `docs/reference/protocol.md`) as a premise of its own.
`LocalSearch!FairSpec` lets the ILS thread go on with a call it is in, and
expects nothing of workers and solvers: `CallsReturn` has a premise of its own,
that the runs that are still wanted end (`RunsEnd`), which is what
`WantedCompletes` says of the scheduler; `StopEndsCall` does without.
`IlsLoop!FairSpec` lets the run go on, which `CallsReturn` and `StopEndsCall`
are for. `CheckpointTracker!FairSpec` lets the loop read and poll; clock,
workers and solvers may stop for ever. `ParamSpace!FairSpec`: `active_params` is
sequential code, and the random generator draws every configuration sooner or
later. `TunerProcess!FairSpec`: the main thread and every worker run;
`RunReturns` is not in it, so that a phase may last for ever, and solvers need
not end.

`UnwantedDies`, `WantedCompletes` and `DropQuiesces` have the form `[]<>`:
unwanted work stays unwanted, a reported run stays reported and a dropped
scheduler stays dropped, so that "again and again no such run is left" says that
each one is settled in the end.

## What TLAPS proves

All proofs hold for every value of the constants under the named assumptions of
the modules: finite sets of workers and neighbours, task lists without
repetition, costs that are natural numbers, parameter lines of the right shape.

**Scheduler** (`SchedulerProofs`). `Invariance` proves `Spec => []IInv`; from it
follow `TypeCorrect`, `KillsAreSafe`, `LiveSupervision`, `ResultsOnce`,
`AnnouncedFirst` and the action property `RunsStartOnce`. None of the properties
is inductive by itself. `IInv` adds:

- `FreshIsUntouched`: a task that was not offered yet has no handle, no list, no
  claimed index and no report. Without it an offer could meet remains of an
  earlier use of the same task.
- `ClaimsAreUnique`: a claimed index is in its list, below `next_index`, and
  claimed by one worker. With lists free of repetition two workers never have
  the same run: this carries `StartedOnce`, `ReportedOnce` and half of
  `LiveIsSupervised`.
- `ProcessFollowsWorker`: how far a run's process is, given where its worker
  stands; a live one has a worker that still looks at it, and a process exists
  only for a position behind the counter.
- `SignalsAreJustified`: whoever is about to signal has seen that the work is
  unwanted, and unwanted work stays so: batch ids only grow, and `submit` clears
  cancellations after it has moved on, when they are all of stale batches. This
  order (`eval.rs:287-288`) is what `KillsOnlyUnwanted` rests on.
- `ReportedIsSpent`: what was reported is behind the counter, and events speak
  of reported runs only.

`Refinement` proves `ImplementsService`: every step of a worker, of the ILS
thread and of the environment is a step of `EvalService` or leaves its variables
alone. A claim moves a run from the positions beyond `next_index` to a worker
and so leaves `owed` alone; the announcement moves it to `running`; a report, or
a release without an outcome, takes it away. That needs one more invariant,
`SparesTheWanted` (`SparesInv`): a worker that gives a run up has seen that it
is unwanted, and a run that was signalled and is still going to be reported was
called off. (For a mere interrupt only the run's own worker signals, and it
gives the run up.)

`InvStep` has a lemma per action or group of actions that touch the same
variables, and in each one step per conjunct that the action can disturb.

**Local search** (`LocalSearchProofs`), upon `EvalService` and so for whatever
the scheduler's threads may do. `Invariance` proves `Spec => []IInv`; from it
follow `OwnResultsCount` (`TallyIsTrue`), `NobodySkipped` (`RoundIsDecided`),
`CappingIsSafe` (`CappedCannotWin`, for any multiplier of 1 or more, fractions
included), `ConclusionsAreSaved` (`NothingLost`) and the action property
`DescentImproves` (`StepsImprove`). `IInv` adds:

- `NoneAhead`, `Fresh`: no work is of a batch to come, and a neighbour still to
  be offered has no runs. Without them a new batch could meet reports of its
  own.
- `OnePlace`: a run of the current batch is owed, running, reported once or
  counted. That is what makes the count of results the count of instances.
- `KilledAreOff`, `OffIsDecided`: a result that a signal cut short is of work
  that was called off, and in a round only decided neighbours are called off.
  With the test for decided neighbours before counting (`ils/bls.rs`) no killed
  run is ever counted.
- `Tally`: results are of different instances, and the counter of decided
  neighbours is the size of their set, so that it cannot reach the round's size
  by counting one twice.
- `Verdicts`, `Bounds`: a winner was measured on all instances and beats the
  start; in a descent the bound is the incumbent's.
- `Savable`: a conclusion that is not in the cache is in an event that will be.

**Tuning run** (`IlsLoopProofs`). `FidelitiesAgree` and `OnlyMeasuredKept`:
incumbent, home base and the round's start are of the current fidelity, and what
is kept was measured whole, whatever the options. The invariant behind both
follows the start's evaluation through probes and seeding. `NoRestartMissed`
(`RestartsAreDue`): only a round counts a rejection, and the restart's decision
follows it, so that no round begins with as many as call for one. `BandIsKept`
(`RoundsKeepBand`): a round that starts with the home base in its band around
the incumbent leaves it there. If the local optimum is promoted it also beats
the home base, since that was no better than the incumbent, so both move; if
not, it is accepted within the margin or for being no worse than a home base
that is within it. Means are compared by cross products, so that this needs sums
that are numbers and counts that are not zero: `ScoresAreSamples`, the type
invariant `TypeOK`. That a fold over a set of costs yields a number is an
induction over the set, done by hand: of the subsets for which it failed a
smallest would have a smaller one, and before that the function the fold
recurses by is shown to exist in the same way (`AddsUpExists`, `SumType`).
`ProbesAreWhole` says of the comment `IlsLoopProbe` refutes how far it is right:
a capped probe indeed beats nothing, if the multiplier is at least one, so that
without checkpoints and without a stop whatever replaces the start was measured
whole.

**Checkpoint tracker** (`CheckpointTrackerProofs`). `Bookkeeping` proves `Spec
=> []IInv` for any number of real and virtual workers: `pending` and `assigned`
agree (`Settled`), although results without a dispatch fall into buckets of
dispatched ones, because an instance is announced once and before its result
(`AnnouncedOnce`); and no more results come than there are instances. From it
follow `AssignedIsPending` and `ScoreIsPositive`. That a least busy bucket
exists at all is a lemma, from a smallest set of buckets without one (strict
subsets of a finite set are well-founded).

With no more real workers than virtual ones (`Real <= Virtual`, which
`futell_cores: null` gives, the default) more is true: `EarlyReadIsSound`
(`ReadyIsSound`), with anything cached and failing early, and
`ScoreCountsInTime` (`ScoreIsExact`). They are conjuncts or consequences of two
inductive invariants about the tracker and the runs it follows through the
channel. `TracksRuns` (`RunsAreTracked`):

- `ChannelIsTrue`, `ChargesAreTrue`, `ResultsLast`, `HitsFirst`: what an event
  says of its run, that a run's result follows its announcement and comes once,
  and that hits come before the first dispatch.
- `InOrder`: an event is sent when the times it speaks of have passed, so that
  no later event tells of an earlier time. This is what makes a time the tracker
  knows a bound for every run it has not heard of.
- `FollowsRuns`, `PendingIsTrue`: who runs, or is back and not collected, is in
  a bucket or announced, and a bucket holds the time its run started.
- `FewOpen`: at no event of the channel does the tracker take more runs for
  running than there are workers. So there is a bucket free whenever a dispatch
  comes, which is where `Real <= Virtual` is used.

`CountsRuns` (`RunsAreCounted`) adds, where charged time is real time, that no
bucket is busy beyond the time known (`BusyIsPast`) and that the count is exact
(`CountIsExact`): before the verdict for what was collected, from then on for
every run there is or will be, as the verdict finds all buckets past the horizon
and no result still in the channel is from within it. In the model the reported
runtime of a solved run is the time since its dispatch, and a time is taken and
sent in one step; the theorems speak of a code run in so far as the time between
stamp, spawn and send can be neglected.

**Cache** (`CacheProofs`). `HitsTrue`: a hit is what a run at the reader's
cutoff could have reported, stretched give-ups excepted, for any number of
processes, cutoffs, crashes, and in spite of `put`'s race, because every row
ever written is true by itself (`RowsAreTrue`) and `Adapt` preserves truth.
`ConclusionsAreReused` (`NoReruns`): as long as one process alone has opened the
file, what `put` decided on is still so when it writes (`WritesAreDue`), a
pair whose conclusion was written keeps one (`ConclusionsStay`), and a
conclusion is usable at every cutoff. `RowsOnlyImprove`: if there is but one
process, every row is only improved, and `SolvedIsKept` holds, so that the race
of `CacheRace` is all that breaks it.

**Parameter space** (`ParamSpaceProofs`), for any lines in any order.
`LargestActive`: the sweeps never remove a member of `ActiveSet` (what holds
among few holds among more, and the set only shrinks towards it), and they stop
when everyone left is supported; the invariant is that pair of inclusions with
"all before `i` hold unless `changed`". `LegalSearch`: a move starts from a
valid configuration and ends in one. `KeysApart` (two moves have one
key only if they write one value to one parameter) and `Reversible` are about
spaces without a cycle of conditions, which `rank` orders: a changed parameter
stays active (its guards rank below it), and inactive ones do not influence who
is active, by the smallest rank at which two active sets differ. With a cycle
both fail: two parameters that guard each other can be switched off by one move
and never on again.

**Cache file** (`CacheFileProofs`). `Invariance` with `RowsCanBeRead`
(`RowsDecode`), `RowsAreDescribed` (every row has a configuration, old ones
excepted) and `ExportsAreClosed` (`ExportIsClosed`), for any number of tuners
with any lists. `IInv` adds that numbers are given once (`Unique`), that what a
tuner remembers is what the tables say (`MemoryTrue`), which holds as tables
only grow, and what is known of the result being put at each statement
(`PutReady`). For the exports: a query that comes later sees every key an
earlier one saw, as rows are replaced and never removed.

**Tuner process** (`TunerProcessProofs`). `OnlyTheMissedSurvive`
(`OrphansSlippedThrough`), for every schedule and number of workers. `IInv`
follows a worker from phase to phase: it is in a registry exactly as its place
says (`Registered`), works for no phase to come and claims nothing for one that
is over (`PhasesInOrder`), whoever is listed starts nothing more
(`ListedAreLast`), and what is left of a phase that is over was missed by a list
or is on the one being worked through (`LeftOver`).

`SchedulesClimb` (`ScheduleClimbs`) and `BudgetIsShared` (`PhasesShareBudget`),
for every scenario whose schedule has at most `MaxPhases` phases, with any
`MaxPhases`, any fractions for cutoff and factors, and however what should be a
whole number is rounded. `ScheduleClimbs` says what is true of the code: the
last phase has all instances and the whole timeout, but the cutoff rounded up;
the first has one instance (or a cutoff of one second), or two where an exact 1
was rounded up; the second has more, unless the number of phases was rounded up.
The provers know nothing of powers, floors and ceilings of fractions: `Power` is
a recursive function of the model whose equations are proved (`PowersExist`,
`PowerIs`), floors and ceilings are characterized by the numbers they reach
(`DivIs`, `CeilingIs`), and induction over the exponent goes by a least
counterexample (`LeastNumber`, `ByNumbers`). `ScalingsAre` is the heart: the
exponents at which the scaled number is still above 1 are those before the
number of phases, all of them and no others. For the deadlines the invariant
`OnTheClock` says that a running phase was given its own.

Model-checked only: what is stated under fairness (`WantedCompletes`,
`UnwantedDies`, `DropQuiesces`, `CallsReturn`, `StopEndsCall`,
`OverdueIsNoticed`, `FullFidelity`, `StaleSolversEnd`), as TLAPS does not reason
about `ENABLED`. Every safety property of a passing run is a theorem.

## What disagrees

Two runs are expected to end in a violation, each of a sentence of the
repository:

1. `CacheRace`: "A genuine solved/proved result is kept forever once seen"
   (`cache.rs:326-328`). Two processes, one file: a tuner whose solver timed out
   at a cutoff of 1 reads that there is no row, the other writes what it solved
   at a cutoff of 2, and the first replaces it by its timeout.
2. `IlsLoopProbe`: "anything that gets through here ran to completion"
   (`ils/mod.rs:477-478`). A probe rejected at its checkpoint may get through,
   and so may one that the deadline or a signal cut off (`bls.rs:838-841`); that
   these two are all is `ProbesAreWhole`.

Met while modelling, and not run:

- Capping "never discards a configuration that would have been accepted"
  (`docs/reference/algorithm.md:148-150`). A start that was capped on its very
  last result is `complete` with a score above the bound; a descent starts from
  it as from a measurement, and its neighbours are capped against the incumbent
  though they would have beaten it. That they cannot beat the incumbent holds:
  `CappedCannotWin`.
- `refresh` is given "a valid lower bound on this neighbour's own current
  relative time" (`ils/futell.rs:232-234`). With `futell_cores` below `cores`, a
  run that found no free bucket and failed at once gives it a busy time plus a
  charged cutoff, and the tracker may reject while another run is still within
  the horizon. `ReadyIsSound` is checked and proved for no more real workers
  than virtual ones.
- The incumbent is "the best configuration seen"
  (`docs/reference/algorithm.md:39`). A restart's evaluation becomes the home
  base (`ils/mod.rs:643`) and is never promoted.
- The busy time a hit adds to a free bucket is lost when that bucket takes a
  dispatch and settles it from its dispatch time, which the comment at
  `ils/futell.rs:165-175` sets out to avoid for results only; a tracker that a
  poll made ready is acted on at the next result only.
- The first evaluation "is always complete" (`ils/mod.rs:453-454`), unless the
  deadline or a signal cuts it off. A restart that was pruned is said to become
  the bad home base the next round escapes from (`ils/mod.rs:615-617`), while
  `set_home_base` refuses it. A capped score is called a lower bound because the
  fastest instances finish first (`ils/bls.rs:195-202`), which failures that
  exit early and are charged the cutoff contradict.
- `scenario.rs:290-296` says the cache keeps the most recent run; `put` keeps
  the first conclusion. Two tuners that open an old file at once may both add
  the `runhash` column, and the second fails. A conclusion lost in the race of
  `put` shows in an export as a line of `solved/` whose pair is a timeout in
  `status/`. An export of an old file fails at `status`, with `solved/` written.
  `docs/usage/cli.md:14,31` speaks of three exports, `export_all` has four.
- With both factors 1 the number of phases is infinity plus one
  (`ils/deepening.rs:36-42`): a panic in a debug build, one phase in a release
  build. A signal before the first phase ends in "no phases ran" and exit code
  1, not 130. An error of `run` leaves `cmd_run` before the groups are
  terminated; the drop of the scheduler has done so for all that was registered.
  "Solver process trees are terminated on interrupt" (`CHANGELOG.md:430-431`),
  but for one that was being started when the last list was taken.
- `python.rs` does not call `validate_config`: that `random_config` ends is
  guaranteed by the command line's `resolve_initial_config` only.

## What is not modelled

- The output readers of a solver call, and errors of `wait`. A reader blocks
  while somebody holds the pipe open; the wrapper contract excludes it.
- The rounding of floating-point sums and means: costs and budgets are compared
  exactly in `LocalSearch` and `IlsLoop`, by cross products.
- The median objective and negative qualities, under which capping's premise
  that sums only grow, and bound the score, is not given. Quality goes with the
  runtime.
- A parameter file that declares a name twice.
- The XOR of runhashes and the formats of the exported files; SQLite's locking
  and durability.
- Log lines and counters, and `par1`, which decide nothing; the options and
  their defaults in `scenario.rs`; `python.rs`, which converts arguments and
  results of one call; solver wrappers, which the model sees as processes that
  end or do not.

## Plan

Done: the scheduler and its abstract service, the local search upon the service,
the tuning run, the checkpoint tracker, the parameter space, the cache and its
file with the export, the phases and the end of the process; proved: every
safety property the passing runs check.

Left:

1. The steps `IlsLoop` takes for evaluations and descents, shown to be what
   `LocalSearch` leaves of them: its outcomes are justified by `TallyIsTrue`,
   `CappedCannotWin` and `StepsImprove`, but by no refinement mapping.
2. A restart's evaluation that is better than the incumbent (`ils/mod.rs:643`):
   what can be said of the result it may cost.
3. Approaches basic and random of `IlsLoop` as parts of the runs that exist,
   where they show something new.
