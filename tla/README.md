# Verification of the multi-source correlation engine

TLA+ models of this repository's chaos experiments, of the demo bank and its load,
of the correlation engine and of the eval harness that scores the engine against
the experiments' labels, model-checked with TLC on small instances and, for the properties listed below,
proved with TLAPS for every instance.

    tlc -workers 2 -config Runner_safety.cfg MCExperimentRunner
    tlapm ExperimentRunner_proofs.tla

Source paths below are relative to `src/crates/` unless they begin with `docs/`.

## 1. The system

The repository injects faults into a small demo bank, records what it injected
as ground truth, asks a correlation engine who is to blame, and scores the
answer. Everything is asynchronous Rust in separate processes that share
toxiproxy, the telemetry stores and three SQLite files.

| Component | State it keeps | Operations | Talks to |
|---|---|---|---|
| Experiment runner, `experiment-runner/src/runner.rs` | lock file in the temp directory, merged schedule, slots of fault handles, `status`; rows of `labels.db` | `run_file`: lock, validate, reset, warm up, timeline, recovery, rows | chaos drivers, load generator, `labels.db`, health endpoints, Prometheus |
| Recovery detection, `experiment-runner/src/recovery.rs` | `cleared_at` per signal | `observe`, `recovery_ts_if_held` | fed by the polling loop of `run_file` |
| Chaos drivers, `chaos/src/` | none of its own; toxiproxy keeps the toxics | `apply`, `revert`, `reset` | toxiproxy's HTTP API, the `pumba` process |
| Load generator, `bank-loadgen/src/` | four counters, a stats file | `run_stage`, `snapshot_line` | bank services; its stats file is read by the recovery loop |
| Correlation engine, `correlation-core/src/engine.rs` | none between requests | `correlate_trace`, `correlate_anomaly` | Tempo, Loki, Prometheus adapters |
| Evidence graph and ranking, `correlation-core/src/{graph,ranking}/` | nodes and edges of one request | `build_from`, `rank_suspects`, `propagate`, `build_tree` | called by the engine |
| Anomaly detectors, `correlation-core/src/anomaly/` | none | `detect` | called by the engine |
| Adapters and retries, `correlation-{tempo,loki,prom}/`, `correlation-core/src/backend.rs` | tries and last error of a call | `fetch_trace`, `fetch_logs`, `query_metric_window`, `search_traces` | the telemetry stores |
| Eval harness, `eval-harness/src/` | `ran_ids`; rows of `incidents.db` and `eval_runs.db` | `run_suite`, scoring, `report`, `reproduce` | runner, engine, the three databases |
| Bank services, `services/` | accounts in PostgreSQL, a pool of 8 connections to it | transfer, adjust, login, notify | one another through toxiproxy |
| Front ends, plumbing, renderers, test doubles | - | one engine call, telemetry set-up, Markdown | - |

How they interact: `run_suite` awaits `run_file` for each experiment, then calls
the engine for each of them in two modes and writes one row to `incidents.db` and
one to `eval_runs.db` per call. `run_file` drives toxiproxy and pumba while
detached load tasks send requests to the bank; what the bank emits is what the
engine later fetches. Several `run_file`s can be under way, in one container or
in two.

What is hard about it, and what makes each component correct:

- **Runner.** Calls to toxiproxy that fail, or take effect and lose their
  response; a toxiproxy that restarts; a process that dies with faults in force;
  overlapping, nested and empty windows merged into one sorted schedule; a pumba
  call that blocks the timeline; rows inserted one by one without a transaction.
  Correct when experiments do not overlap, no fault bleeds into a later
  timeline, faults stay within their windows, interference shows in the status,
  and the rows describe exactly one finished run.
- **Recovery.** Signals that flap; a time stamp read before the awaits whose
  results are filed under it; a deadline looked at only between iterations.
  Correct when recovery is declared exactly if the required signals were clear
  for the grace, and the loop ends.
- **Engine.** Backends that fail, at any try; absence told apart from failure
  by the text of an error; traces with duplicates, missing parents and cycles.
  Correct when evidence that was lost is reported as lost, the slow worker and not its blocked caller is blamed, errors
  only ever raise a score, and duplicates count once.
- **Harness.** Two databases written one after the other; labels shared with
  other processes and older runs; correlation that fails half-way through a
  suite. Correct when every result can be traced to its incident and eval run,
  was scored with the labels of its own run, and an ended run is complete.

- **Load and bank.** Requests are detached tasks that nobody awaits; counters are
  read one by one while they are being added to; a transfer is two HTTP calls
  without compensation, to a service with a bounded pool and a database that may
  stall; handlers are dropped at an await when their client or process goes.
  Correct when no money moves but by an executed leg, each at most once and debit
  first, a transfer is confirmed only when both legs have been executed, and every
  answer is in the statistics once. A leg whose id has no row is executed and moves
  nothing: it is the code's, and the contract's, idea of done.

PROJECT.json lists every hazard at its line with the properties that would
catch it.

## 2. Modules

    ExperimentRunner --- ExperimentRunner_proofs --- SerialRunner_proofs
          \--- ExperimentRefinement ------- ExperimentRefinement_proofs
                  |       \--- MCExperimentRunner
                  |...implements ExperimentContract
    RecoveryLoop ------- RecoveryLoop_proofs
          \--- MCRecoveryLoop
    EvidenceGraph, AnomalyDetector --- CorrelationEngine --- CorrelationEngine_proofs
                                             \--- MCCorrelationEngine
    EvalScores --- EvalSuite --- EvalSuite_proofs
                        \--- MCEvalSuite
    BankTransfers, LoadStage --- LoadedBank --- LoadedBank_proofs
                                  |    \--- MCLoadedBank
                                  |...implements TransferContract
    Sums --- Sums_proofs (under EvidenceGraph, LoadStage and LoadedBank, and their proofs)

Operators named `<definition>_<What>` just before a definition are deliberately
wrong variants of it (a dropped guard, an off-by-one), kept to show that the
properties notice; no model uses them.

### ExperimentRunner (`run_file`, drivers, toxiproxy)

An element of `Run` is one call of `run_file`, an element of `Exp` the text of one
YAML. `pc` names the await the call is at. `Start` / `Busy` open and try the lock (or fail to, where the temp directory has no room),
`RejectYaml` / `Validate` / `DryRun` the checks, `Reset` and `Begin` the clean
start and the load stages, `Inject` and `Revert` one event of the schedule with
the driver's call in it, `Cleanup` / `Abort` the reverts after a failed injection,
`Recovery` the yes or no of the recovery loop, `RecordExperiment` / `RecordFault` /
`InsertFails` / `Finish` the rows. `Crash`, `ProxyRestart` and `StagesEnd` belong to
the environment. `active` is toxiproxy: one slot per (proxy, toxic name), so adding
a toxic that is there is a conflict, as its API has it. `handles` are the slots
that hold a fault to be reverted. `cleanStart` and `evicted` are history: whether
the reset took effect, and who lost a toxic to somebody else. `Failures` selects
which of refused call, lost response, missing pumba, toxiproxy restart, process
death, database error and a lock file that cannot be opened may happen.

### ExperimentContract, ExperimentRefinement (what `run_file` promises)

`ExperimentContract` is what a caller of `run_file` and a reader of `labels.db` can
see: a call is let in when no other is under way (`Enter`), its timeline ends
(`Observe`), the label of an id changes hands (`Publish`), gets its last fault row
(`Complete`), and the call returns Ok with a whole label of its own (`Succeed`) or
not (`Skip`, `Fail`). `ExperimentRefinement` maps the runner to it: `CallAt` reads
the outcome off the program counter, `Labels` the owner of an `experiments` row,
`WholeIds` the ids with every `fault_events` row of their owner's YAML.

### RecoveryLoop (`SignalStateMachine` and its loop)

One loop with a clock. `Iterate` reads `now_ns`; `ServiceHealthy`, `HealthKnown`
and `PromKnown` are the awaited calls, each up to `MaxDelay` long; `Observe` and
`RecoveryTsIfHeld` are the state machine's two methods. `since`, `unclearAt` (the
latest iteration in which a required signal was not clear), `seenAt` and `unfounded`
are history. The one clock stands for the monotonic one of the deadline and the
system clock of `now_ns`; that somebody sets the latter meanwhile is left out.

### EvidenceGraph, AnomalyDetector, CorrelationEngine

`EvidenceGraph` has `build_from`, `rank_suspects`, `propagate` and `build_tree` as
operators on sequences of spans and logs; nothing in it is RECURSIVE. Weights are
integers: thousandths, and eighths of them where blame is halved per edge.
`AnomalyDetector` is the z-score detector over integers. An answer of Prometheus
is a sequence of series, of which `Points` makes one list (`parse_prom_points`) and
`Own` the part of the service asked about; samples before step `From` come from the
window's expansion, and `peak` is the step of the hit that is reported.
`CorrelationEngine` is one request: which backend it waits for, the tries of the retry policy and what
the last failure was, and the answer. An iteration of the retry loop is `Retry`;
`TempoGivesUp` is the classification of its last error, `LokiLost` and `PromLost`
the two `unwrap_or_default`s.

### EvalScores, EvalSuite (`run_suite`, scoring)

`EvalScores` has recall, precision, the four coverages and the composite, with
shares in parts of 120 and weights in hundredths, so that every score is exact but
for `Completeness`, the mean of four shares, which is rounded down to a whole part.
`EvalSuite` runs several `run_suite`s against the shared databases: `RunFile` per
file (with the three ways `run_file` can end: Ok, an error before its first row,
an error after it), `Settle` (sort, dedup) or `Bail`, `OpenRun`, then per id
`ReadLabels`, `CorrelateTrace`, `Record`, `CorrelateAnomaly`, `Record`, and `CloseRun`.
`Stop` is a failed query or a death, in any place; `RunByOther` is an
experiment-runner process that runs the same id. `overwritten` is history. `Labels`
is constant: two processes that run an id run the same YAML, and what a row says is
told by its id; who wrote it is what the properties follow.

### BankTransfers, LoadStage, LoadedBank, TransferContract

An element of `Transfer` is one `POST /transactions`. `BankTransfers` has the handler
`create` (`at` is the await it has come to, or the status it answered) and for each
of its two legs the handling of the adjust call by the accounts service (`call`):
`Acquire` / `AcquireTimeout` for the pool, `Update` / `UpdateFails` for the one
statement, `Abandon` for a handler whose caller or process has gone. `DebitDone`,
`CreditDone`, `Refuse`, `SendFails` and `Notify` are what `create` makes of the answers,
`Hangup` its own end when its client or process goes. `BankFailures` selects lost
calls, a stalling database and killed services.

`LoadStage` is `run_stage` with its two owners: the load generator's `main`, whose
return ends the process and with it the tasks, and `run_file`, which lives on.
`SendRequest` is a turn of the loop, `CountAnswer` the end of a request's task;
`SwapCounter` and `WriteLine` are the writer task, which takes the four counters one
by one. `LoadedBank` joins the two: a request is a transfer, the status its class
(`ClassOf`), and a task that goes closes the connection its handler works for.

`TransferContract` is what is left of the bank when calls, pool and database are
hidden: `Debit`, then `Credit`, each at most once, and only then a receipt or a
confirmation (`Finish`); a failure may be reported at any stage (`Fail`). It is
weaker than one would wish: a debit or credit of a name that is no account is done
and moves nothing, so a confirmed transfer may have taken money that arrived
nowhere. `Negated` is `-req.amount` on an i64 as the images build it (`--release`,
no overflow checks): the least amount is its own negation, and the debit of it is a
debit of that much, the credit too. A debug build panics in its place, before the
first call; that is not modelled.

## 3. Runs

| Run | States | What it shows |
|---|---|---|
| `Runner_safety` | 165 428 | Two calls in one container, four experiments, every failure: no overlap, no bleeding, interference labelled, rows complete; `ImplementsContract`, the refinement; also `SerialInv`, the invariant of the proofs |
| `Runner_containers` | 583 693 | Two containers with different temp directories, so runs overlap: what remains true of schedule, handles and toxics (`ControlInv` and three consequences). One is `WindowsRespected`, about toxics in force and not about handles: a revert that failed leaves a toxic on beside a later disjoint fault, so a dirty run is excused |
| `Runner_live` | 12 102 | Under fairness, with a toxiproxy that fails only by conflict or restart: a failed injection leaves nothing, every run returns, the lock comes free |
| `Recovery_loop` | 1 249 158 | All verdicts, with calls of 0 or 1 time units: declared exactly when the grace has held, and the loop ends. It is missed only if an iteration within grace + 2 (period + one round of checks) of the deadline found a required signal not clear (`NoMissedRecovery`): one period and round until an iteration sees the system clear, one more until one sees the grace held |
| `Engine_ranking` | 26 958 | Every trace of one and two spans, trees of three, and cyclic, duplicated and deep ones, each with every span turned into an error and one error span or error log more; all series of up to five points over three values, alone and beside others; every failure of every call |
| `Eval_suite` | 1 597 516 | Two suites with overlapping ids (one with a duplicate) and a third process: completeness, traceability, own labels, no orphans, the culprit wins |
| `Bank_load` | 178 302 | Two transfers under load through one pooled connection, every failure, both owners of the stages: money accounted for row by row (a success may have moved none where an id has no row), the contract kept, answers counted once, every request ends |
| `Runner_overlap`, `Runner_labels`, `Recovery_unfounded`, `Engine_silent`, `Load_bleed` | - | Disagreements, section 6: TLC finds the violation |

**Bounds and why they are enough.** *Runs:* the properties of the runner and the
suites relate at most two actors (who holds the lock, whose toxic it is, whose
row); a third process that only overwrites rows is part of `Eval_suite`.
*Experiments:* `MCFaults` has the shapes of windows that can meet in a schedule:
nested, overlapping, apart and listed out of order, empty, twice the same toxic (a conflict),
inverted (to be rejected), and a pumba call that outlasts the window around it.
Two toxics suffice for one to be lost while the other is kept. *Time:* the event
times are 0 to 3; `Lag` is 0 in the runs, so that the only lateness is pumba's,
and arbitrary in the proofs. *Recovery:* with a grace of 4, a cooldown of 10 and a
period of 2 the deadline is at 14 and the bound of `NoMissedRecovery` at 0 (a round of
checks takes up to 3): a signal that is not clear in the first iteration and clear
from then on must not be missed, one that flaps later may. The grace is longer than
a round, so that `GraceNearlyHeld` says something, and is met on a poll exactly when
no call takes time.
`MaxDelay` is 1 where properties hold and 2 where one breaks. *Engine:* three spans have every shape a
parent and a child relation can have; four are needed for a chain deeper than
`MaxDepth` 2. *Suites:* two files per suite give duplicate ids within a suite and
a shared id between two; the incidents of `MCIncident` are the worst hit and the
best miss the scoring can see, and no incident at all. *Samples:* five steps of
which two lie before the window, three values (steady, near, far), beside a
second series of another service or of the same. *Bank:* two transfers contend
for one connection and one account (a1 is debited by t1 and credited by t2); t1
pays an id that has no row, t1's amount is the one whose negation wraps, and t2's
credit is out of range unless t1 was debited first, so each way for a leg to fail or
to move nothing is met. One line of
statistics (`MaxLines`) has answers counted before, while and after it is made.

CHECK_DEADLOCK stays on everywhere; finished systems stutter explicitly
(`Quiescent`, `Done`), and another process may always run an experiment in
`EvalSuite`.

**Fairness.** `Runner_live` and `Recovery_loop` use weak fairness on the
steps of a call that has begun, and on the end of its load stages. `Bank_load` uses
weak fairness for the way forward of each request (`Forward`): a wait for a
connection ends by `acquire_timeout`, a statement when the fault that stalls the
database is over, and an answer or the end of a connection reaches the client;
losses, stalls, kills, the writer and the return of the owner are not fair. The code
justifies it by what it awaits: a child process that exits, an INSERT, a sleep, a
stage loop with an `end` instant, and HTTP calls that come back with an answer or an
error. The last is an assumption: the HTTP clients are built without timeouts, and
a peer that accepts and never answers stops the run for good. Crashes,
toxiproxy restarts and the start of a call are not fair.

## 4. Proofs

All theorems hold for every value of the constants under the assumptions named in
the modules (types of the constants, at least one attempt, period and endpoint,
a maximal depth of propagation up to 3, an id no trace uses, finitely many accounts).

**ExperimentRunner_proofs** proves `ControlInv` inductive: types and a valid
experiment once the run touches the system (`TypeInv`), the lock is held by
whoever is between lock and return (`LockHeld`), the events gone through come before all others
in the schedule's order (`ScheduleInOrder`), a handle is held exactly between
a fault's apply and revert (`HandlesOpen`), and a toxic of a run has a handle that will
remove it unless the run is dirty or failed (`ToxicsOwned`). `HandlesDrained`,
`WindowsRespected` and `CleanMeansReverted` are not inductive alone: each needs to
know what has fired and which handles that leaves; `WindowsRespected`, which speaks
of toxics in force, also that each has a handle as long as the run is not dirty. `FailureLeavesNothing` supposes, as
`Runner_live` does, that toxiproxy carries out what it is sent and its answers
arrive (`AnswersTruthful`): then every toxic of a live run has a handle
(`ToxicsHandled`) and the cleanup of a failed injection visits them all
(`AbortedDrained`). They hold in any number of
containers, with every failure and any `Lag`. `NoOverlap` follows where all
calls share one temp directory (`OneDirectory`); `Runner_overlap` shows that it
does not without.

**SerialRunner_proofs** adds `SerialInv` under `OneDirectory`: a reset that took
effect lasts to the end of the timeline, a handle's toxic is nobody else's, a run
that lost a toxic is bound to fail a revert (`EvictionsCaught`: this is why a
clean label can be trusted although the code never looks at toxiproxy), and rows
up to the cursor are the run's own. From it: `NoBleed`, `InterferenceIsLabelled`,
`OkRowsComplete`. `RowsOnlyAfterTimeline`, an action property, follows from
`ControlInv` and needs no common directory.

**RecoveryLoop_proofs** proves `LoopInv`: how far the clock can be past the time
observations are filed under, and that `cleared_at` and the history variable
`since` agree between iterations and differ within one only by what was just
observed; and `UnclearInv`, which ties `since` to `unclearAt`: a spell of clear
iterations began at most one period and one round of checks after the latest
iteration that was not clear, or after the loop's start. From them: `RecoverySound`, `RecoveryComplete`, `NoMissedRecovery`,
`GraceNearlyHeld`, for every grace, cooldown, number of endpoints and call time.

**Sums_proofs** has what the other proofs need of `Total`, the one sum of this
project: it is the library's fold, and a sum over a set is its first element's
value and the sum of the rest, whatever element one takes out; a sum of two
disjoint sets, of a scaled or a renamed function, a sum taken apart by a key,
and comparisons of sums. Induction over a finite set is written out each time as
"take a smallest subset (or a least number) for which it fails", because the
induction theorems of the library have an operator as parameter and no prover
here can instantiate them. Existence of the recursive functions behind
`Total`, `Walk`, `TreeLevel` and `FlattenSeq` is shown the same way: take the
least bound up to which there is none.

**CorrelationEngine_proofs** proves the properties of `Engine_ranking` but
`ErrorLogsNeverLower`, for any traces, logs, series, services and weights:

- `RankingSound`: whatever the scores, over any finite set of services, `Sorted` is
  those services, each once, by score and then by name; and with `EngineInv` (types,
  and whose evidence an incident was made from) `SuspectsRanked`, which says it of
  the incident itself.
- `Typed`, which is mostly that scores are natural numbers. For `Sqrt` this means that a
  rounded root exists for every count and that it lies where it is searched for.
- `FlaggedAreFew`: what is flagged lies further from the median than the median
  deviation, and half of the points do not; a lone outlier moves neither median.
  It supposes `K >= 2`; the default is 3 (`config.rs:24`).
- `SpikeInWindowReported`: from the order of `Own`, whose positions are those of
  the service's points in `points`.
- `DuplicatesCountOnce`: a repeated span gives the same nodes and edges
  (`SameGraphSameScore`).
- `SlowWorkerBlamed`: a blocked span's self-time is at most the threshold, so only
  slow leaves weigh anything.
- `ErrorsNeverLower`: a new error keeps every walk there was and adds at least the
  base weight of a span, and the self-time it takes from its parent is at most the
  threshold. It supposes `SlowMs <= 1000`, the base weight; the default is 200
  (`config.rs:29`). The id of the new span is one the trace does not use:
  `FreshIdAssumption` says that there is one.
- `PropagatesAlongChains`: with distinct ids the walks into a service are its
  chains of error spans, one to one, and the sum is taken apart by their length.
- `TreeIsForest`: with distinct ids a path is determined by the span it ends in, so
  a path has no span twice, so none is longer than the trace.

**EvalSuite_proofs** proves the six properties of `Eval_suite` for any number of
suites, files and processes and any labels and documents. `CulpritWins` rests on
`RecallDominates`: the terms other than recall together cannot outweigh it; the
proof needs only that each share lies between 0 and 1, and that a hit leaves a
rank over for at most two false positives. The others rest on four inductive
strengthenings of `TInv`: `ScopeInv` (an id in `ran_ids` has a row that is the
suite's own or was overwritten since), `JobInv` (every first position of an id is
still to be scored, being scored or has its results), `BackInv` (the incident of
the step in progress is there, results have theirs) and `OrphanInv` (what is
scored is the first position of an id, and a result names its position, so no
result is replaced and only the current position may lack one).

**ExperimentRefinement_proofs** proves `ImplementsContract` under `OneDirectory`
from `ControlInv`, `SerialInv` and `OwnersRan` (a label's owner has left its
timeline, so the YAML `IsWhole` looks at is settled). Each action is a step of
the contract or a stutter; the interesting ones are `RecordExperiment`, which takes the
label over and makes it whole only by accident of the rows already there, and
`RecordFault`, which completes it or not. Without `OneDirectory` the contract
does not hold (`Runner_overlap`).

**LoadedBank_proofs** proves `LoadedInv` inductive for any number of requests,
accounts, amounts and connections: `InStep` ties `create` to what accounts did for
it (the credit is not begun before the debit is applied, and neither a 201 nor a
receipt exists without the credit), `RequestInStep` ties the statistics to the
answers, `PoolBounded` counts what is held, and `SnapshotAhead` says that counters the writer
has yet to come to are not in its line. `EachCountedOnce` and `MoneyAccounted` are
sums over all requests and accounts: each step changes two terms that cancel.
The amounts are any an i64 holds, the least included: `Moved` adds up what the
legs on existing rows were to add, its negation taken as the code takes it.
`SuccessHasMoved` is the other half: a counted success answered 201, so both its
legs were executed, and each moved its money unless its id has no row.
From `LoadedInv` also `KeepsTransferContract`: `Update` is the
only step that moves money, and it is `Debit` or `Credit`; every answer, loss
and kill is `Finish`, `Fail` or a stutter.

**Only model-checked:** liveness (`RunReturns`, `LockFreed`, `LoopEnds`,
`RequestsEnd`), which rests on fairness and ENABLED and is out of this prover's
reach, and `ErrorLogsNeverLower`. Every other safety property and the two refinements that a
passing run checks are theorems, `FlaggedAreFew` and `ErrorsNeverLower` under the bounds on the
configuration named above. The properties of section 6 are false and stay with TLC, which shows how.

## 5. Abstractions

- An HTTP call to toxiproxy is one step in which it takes effect or not and is
  answered or not. A request of a process that died does not take effect after
  the next run's reset.
- The body of the recovery loop is one step in `ExperimentRunner`; `run_file` is
  one step in `EvalSuite`; the inside of each is a module of its own. What `EvalSuite` assumes of
  `run_file` (an Ok comes with rows of its own) is what `ExperimentContract` states,
  with the exception of the overlap across containers, which is its `RunByOther`.
- Strings, JSON, hashes and timestamps of rows are left out; a row is who wrote it.
  A trace id matters only in whether it contains "404": then a Tempo that cannot be
  reached is reported as a trace not found (`TempoGivesUp`), which no property judges.
- Scores are integers, so ties that floating point would break by rounding are
  ties in the model. A square root is rounded to thousandths.
- `EvalSuite` folds a correlation into the INSERT of its incident and the second
  read of the labels into the INSERT of the result. A correlation reads no database; a row that another
  process writes between the second read and the INSERT is, in the model, written
  just after both. Incidents are named by suite,
  position and mode in place of a fresh UUID, and ids are scored in any order,
  which includes the sorted one.
- Which trace `pick_best` prefers does not show: any incident of `Incident[e]` may
  come of it.
- The bank's calls have a status and no body. When accounts is killed under a
  waiting `create`, what `create` sees (`SendFails`) and what becomes of the adjust
  handler (`Abandon`, or an UPDATE that still made it) are two steps. The injected delay
  of `failure_modes.rs` and the fifth counter `p99_ms`, which nothing sets, are left
  out, as is a partial write of a stats line.

## 6. Where code and documents part

Shown by a run (quotes in PROJECT.json, `findings`):

- `Runner_overlap`: the lock lies in the temp directory of the container and not,
  as design-spec.md:359 says, on `labels.db`; two containers overlap.
- `Runner_labels`: a pumba call delays the faults after it past their labels.
- `Recovery_unfounded`: an answer of Prometheus that is no result counts as no errors.
- `Engine_silent`: logs that could not be fetched are not mentioned in `notes`.

- `Load_bleed`: `run_file` awaits its load stages, "so generated traffic can't bleed
  into the next experiment" (`runner.rs:150`), but not the requests these have spawned.

Met while reading, with no run of their own: an experiment that is run again with
fewer faults keeps the `fault_events` rows of the longer list, for `INSERT OR REPLACE`
replaces row by row (`runner.rs:218`); a recovery check that takes long counts its own
duration towards the grace, for the observation is filed under a time read before
it (`runner.rs:177`; `GraceNearlyHeld` says how much is lost at most); a transfer
whose credit fails, or whose answer is lost, is reported as failed with its debit,
or all of it, in place, and one to an id without a row is confirmed with its debit
in place and nothing credited (the contract says so); the detector takes median and
median absolute deviation (`anomaly/zscore.rs:20`), where design-spec.md:182 has mean
and standard deviation and design-spec.md:207 the MAD as a future addition; nothing looks at the sign of an amount,
the balance or whether the UPDATE found a row, and as accounts draws the ids of its
rows itself (`services/accounts/src/repo.rs:24`) the transfers between `a1` and `a2` that
the experiments send move nothing, although docs/demo-walkthrough.md:22 has the demo
create these two accounts; the pool's comment (`services/accounts/src/main.rs:9`) promises
a 5xx for a stalled database, which transactions turns into a 400; the logs of several
services are asked for with `|` between label matchers, which is no LogQL selector
(`correlation-loki/src/lib.rs:33`), so that they count as lost; a failed revert marks the run dirty
and goes on, where design-spec.md:715 says it aborts; an unreachable Tempo is an
`Err`, where design-spec.md:689 wants an incident with a note, and absence is
recognised by "404" anywhere in the error text (`correlation-tempo/src/lib.rs:105`);
edges may dangle (`graph/builder.rs:108`, design-spec.md:781); an anomaly hit may
lie before the requested window (`engine.rs:216`, design-spec.md:702); there is no
`retry_after_settle` (design-spec.md:721); reports average degraded incidents in,
which design-spec.md:689 excludes, and take the latest run of a tag although it may
be unfinished; coverages are measured against 1 and not against what Tempo and
Loki hold (`eval-harness/src/runner.rs:353`).

## 7. Not modelled, and the plan

Not modelled because there is nothing to check: telemetry set-up, front ends
that call the engine once, Markdown rendering, configuration files, the sweep (a
product of lists), test doubles, the EWMA detector (floating point, called by
tests only), `add_edge_strict` and the graph invariants (called by tests only).

Left out of modelled components: login and verify of the auth service (stateless:
a hash, a token), creation and reading of accounts (one statement each), the suite
command (a loop of `run_file` that stops at the first error: several calls in any
order cover it), `run_from_files`, and `pick_best`'s choice among traces.

What could still be added:

1. Reports: which eval run of a tag is averaged, and that an unfinished one cannot
   be told from an ended one.
2. Time in the windows of logs and of the harness's anomaly queries.
3. Several lines of statistics and the reader of their file (`load_gen_clean`), with a
   file left behind by an earlier process.
4. How late a label can be: the sum of the calls and pumba processes before it.

The order of the work was: runner, recovery, engine, harness, so that what
produces ground truth came first, then what is measured by it, then the measure;
then the runner's contract, the load and the bank that the faults are injected into.
