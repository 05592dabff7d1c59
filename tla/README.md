# Verification of backtest-as-a-service

TLA+ models of the concurrent core of this repository, checked with TLC, and
theorems about them proved with TLAPS. Source references are relative to `src/`.

## The system

A Django web process (REST API, HTML console, admin) stores *runs* and *sweeps*
in PostgreSQL and publishes Celery messages through Redis. A default worker
executes `runs.optimize`, `runs.finalize_sweep`, `runs.cleanup_stale_runs` and the
ingestion tasks; a separate container, worker-untrusted, executes
`runs.run_backtest`; beat starts the cleanup every week and the ingestion every
night. Messages are acknowledged late and requeued when a worker process dies
(`backtester/settings.py:125-126`).

| Component | State | Operations | Interacts through | Hard part | Correct when |
|---|---|---|---|---|---|
| Run lifecycle, `runs/tasks.py:20-93` | `BacktestRun` row | create, re-run, edit, delete; look up, mark RUNNING, run, write the outcome | `untrusted` queue, row | redelivery, two executions of one run, hard limit, edits that save an old row | nothing waits for ever, outcomes stand |
| Persistence, `runs/persistence.py` | `Trade`, `EquityPoint`, `RunMetrics` | replace all in a transaction | tables | READ COMMITTED deletes, roll-back, crash after the commit | what is shown comes from one execution |
| Retention, `runs/tasks.py:200-232` | list of ids in memory | select, delete curve, delete trades | tables | stale ids, crash between the deletes | only old successes are pruned, and completely |
| Sweeps, `runs/tasks.py:96-197` | `ParameterSweep` row, children, chord | expand, create children, dispatch, tally | both queues, Celery's chord | optimize delivered again, chord broken or completed twice, overlapping generations | the final row agrees with the children |
| Grid expansion, `runs/sweeps.py` | none | expand, count | called by optimize | ranges, empty axes, float steps | count = number of combinations |
| Engine, `runs/engine.py` | none | load bars, run, coerce and serialize the statistics | called by run_backtest | rows read one after the other while users edit them, midnights in UTC, NaN | results are of one version, one symbol and the window asked for |
| Strategy loader, `runs/sandbox.py` | none | audit, exec, resolve the entrypoint | called by the engine | names bound twice or to something else | it never guesses |
| Bar ingestion, `bars/ingestion.py`, `bars/tasks.py` | `Bar` table | fan out, fetch with retries, clean, upsert | default queue, yfinance | nested retries against the time limit, lost nights, restated prices | every day is there, on one basis |
| Bars API, admin, `ingest_bars` command | `Symbol` table | create, (de)activate, rename, delete, backfill, ingest directly | rows, queue | edits while an ingestion is under way | as for ingestion |
| Web, console, admin of runs | none of their own | as above | rows, queues | publish after commit | accepted means queued |

Migrations, templates, URL routing and the auto-login page have no behaviour of
their own beyond the framework's and are not modelled.
`PROJECT.json` lists every component and, under `hazards`, what each of them is
exposed to.

## Modules

* `RunContract` is the abstract specification of `runs.run_backtest`: a message is
  taken, the row reads RUNNING while it is executed and has an outcome after it.
* `BacktestRuns` models runs: the web process, the slots of worker-untrusted and
  the cleanup. One action is one SQL statement, or one transaction that takes
  effect at once. It implements `RunContract`.
* `BacktestRunsProofs` proves its safety properties, `RunContractProofs` the
  refinement.
* `Sweeps` models one sweep: its optimize messages, generations of children, the
  chord and its callback. Its children implement `RunContract`.
* `StrategyLoader` says, in operators only, which class a source and an
  entrypoint stand for.
* `Execution` models what one execution of a run reads, computes and stores, while
  the rows it reads change; it extends `StrategyLoader`.
* `ExecutionProofs` proves its five properties.
* `GridExpansion` models how optimize expands a grid, step by step in Python's
  floating-point arithmetic, and compares it with what the grid means.
* `Ingestion` models `bars.ingest_bars` for one symbol, on a clock of seconds.
* `NightlyIngestion` models the fan-out over all symbols, the backfills and the
  command, on a calendar of nights.
* `SweepsProofs` proves the types of `Sweeps` and its refinement of `RunContract`,
  `SweepsTallyProofs`, on top of it, that the row counts the children and that a
  waiting sweep has something under way.
* `GridExpansionProofs`, `IngestionProofs` and `NightlyIngestionProofs` prove the
  safety properties of the three modules they are named after.
* `MCBacktestRuns`, `MCSweeps`, `MCExecution`, `MCGridExpansion`, `MCIngestion` and
  `MCNightlyIngestion` add what TLC needs: symmetry sets and the small sets of inputs.

How they compose: `RunContract` is what `Sweeps` and `BacktestRuns` have in common.
`Sweeps` abstracts an execution to its two row updates, and `ChildrenUnderContract`
shows that these children do nothing that runs may not do; `BacktestRuns` shows
that the task with all its statements does no more than that either. `Execution`
opens the step `engine` to `commit` of `BacktestRuns`, for one execution at a time.
`Sweeps` takes a grid as the set of its combinations; `GridExpansion` is where that
set comes from. `Ingestion` is inside one fetch and store of `NightlyIngestion`.

### RunContract and the code

Its variables are the row's `status`, the messages in the queue, and per slot a
`phase`: `idle`, `taken` (the message is fetched, the row not yet touched),
`execute` (from the update to RUNNING, `tasks.py:40-46`) and `finished` (from the update
to an outcome, `tasks.py:81-86`, to the acknowledgement). `PhaseOf` in
`BacktestRuns` maps the labels of a slot to phases; results, durations and the
cleanup are invisible. `Start` may find no row: between the lookup and the save the
run can have been deleted, and in `Sweeps` lookup and save are one step. A form
(`OpenForm`, `CloseForm`) can save any of the five statuses, at any time and whatever
the task is doing; the contract does not hide it.

### BacktestRuns and the code

`status` and `finished_at` are the columns of `BacktestRun`; `finished_at` is
`null`, `recent` or `old` with respect to the cleanup's 90-day cutoff. `trades`,
`equity` and `metrics` hold the number of the execution that wrote the rows
instead of the rows. `pc`, `job` and `exec` are a worker slot; `seen_trades` and
`seen_equity` are what the two DELETEs of `save_run_results` saw. The transaction
takes effect at `CommitResults`; that is when other sessions see it, and locks held
before that only delay (`TradesLocked`). `form` is a row somebody has read and
will save whole: the detail serializer has only read-only fields
(`serializers.py:277`), so PUT and PATCH on a run are exactly that, and the admin
form leaves `status` editable (`admin.py:96`), with all five choices
(`models.py:89-94`): `SaveForm` may save any of them. A save of a row deleted meanwhile
inserts it again. An edit that changes the row puts the run into `overwritten`, until a
worker that is alone on it starts it anew: `MarkRunning` writes both columns, so whatever
the edit made of them is gone. Until then nobody can expect that a SUCCEEDED row has
metrics (FAILED may have been edited into it), or that a PENDING one has a message.

`lookup -> mark_running -> engine -> delete_trades -> delete_equity -> commit ->
finish_* -> returned` follows `tasks.py:33-93`; `TryRaises` is the `except` branch from
any point of the `try`, the soft time limit included. `AbandonDelivery` is the hard
limit, or an exception outside the `try`, after which Celery acknowledges the message
and the run is `dropped`; `WorkerLost` is a process that dies otherwise, after which the
message is delivered again. `SelectStaleRuns`, `PruneEquity` and `PruneTrades` are
`tasks.py:210`, `219` and `220`.

### Sweeps and the code

`Materialize` is the atomic block `tasks.py:109-144`; it makes a new *generation* of
children, as each delivery of optimize does. `SendChild` and `SizeChord` are
`chord(...).apply_async()`: a message per child, the chord's size before the last. An
execution of `run_backtest` is here its two row updates and its return (`StartChild`,
`FinishChild`, `ReturnChild`); `BacktestRuns` has the rest. `parts` is the sorted set of
results of a chord. Equal results are one member, so a result carries `duration`, the
field that makes a second execution's result different. `CallBack` publishes
`finalize_sweep` with the results it read, or raises ChordError if one is an exception.
`FinalizeSweep` is `tasks.py:153-197`; `FinalizeFails` is the same task when the
database or a time limit ends it: it has no retry and is acknowledged, so its generation
is `broken` like one whose chord failed. `OptimizeFails` is optimize in that case:
before the commit nothing has been written (`unqueued`), after it the header is half
published (`broken`). `finished` counts how often `finished_at` and `duration_ms` have
been written: a second delivery of `finalize_sweep` takes them anew
(`tasks.py:164,176-180`), which is why `CallbacksIdempotent` is about the status and the
counters only. `TakeOptimize` reads the grid, which `to_send` keeps, and `Materialize`
works with it whatever happens to the row meanwhile. `OpenForm` and `SaveForm` are PUT,
PATCH and the admin's form, which all save the whole row; the admin's can also change
the grid and set the status to any of its choices. `FinalizeSweep` compares its tally
with the total in the row, even when that is the total of a newer generation: with a
smaller grid a sweep reads SUCCEEDED though a child has failed, with a larger one
PARTIAL though none has. `TallyMatches` therefore asks for generations of the same size
(`SameSize`; TLC finds the violation without it).

### Execution, StrategyLoader and the code

`Lookup` is the SELECT of the run joined with its strategy (`tasks.py:34`);
`FirstSymbol` and `Load` are the next statements of the task, `LoadClass`,
`EngineReturns` and `EngineRaises` are `run_backtest_engine` (`engine.py:181-215`);
`SecondSymbol` and `Commit` are `save_run_results`, which asks for the run's first
symbol a second time. Each is a statement of its own, and `EditStrategy`,
`InstallBuiltin`, `EditRun`, `DestroyRun`, `IngestBars`, `RenameSymbol` and
`DeleteSymbol` can come between any two. The task works on `program` and `row`, copies
it read at `Lookup`, but on `symbols`, `ticker` and `bars` as they are: `First` is the
run's symbol with the first ticker (`bars/models.py:33`), and a ticker can be changed
through the API and the admin (`bars/api.py:15`). `switched` records that a symbol was
added to the run or taken from it, or that one of its symbols was renamed or deleted,
between the two readings of them. `held` records every program that the Strategy row has
held, so that `OneVersion` can say that the code and the entrypoint that were loaded had
been in the row together.

A bar's time stamp is in hours from a day 0 in UTC: `Stamp` is the exchange's
midnight, `Offset` hours earlier. `LoadBars` selects from the first to the last hour
of the window's dates *in UTC* (`tasks.py:53-56`), which is why an exchange east of
UTC yields the trading days after the ones asked for. A statistic is represented
by its kind; `Coerce` and `SerializeMetrics` are `_coerce` and `_serialize_metrics`, and
`Storable` and `Saved` are what the columns and the foreign keys accept: the run and the
trades' symbol still exist, and the result `fits`, that is, no amount is too large for
its column (`models.py:152-178`) and no trade has a tag of more than 120 characters
(`models.py:162`), which a strategy is free to give its orders.

A source is what the parser and `exec` find in it: whether it parses, what it
imports, the names it uses, whether executing it raises, and the namespace it
leaves. `Audited` is `audit_strategy_source`, `LoadStrategyClass` the resolution in
`load_strategy_class`, including the default entrypoint, which names nothing and
leaves the choice to `OnlyCandidate`.

One thing `LoadedClassIsMeant` states is not what the source promises: the comment at
`sandbox.py:86-88` describes the fallback to the only class as one for the default
entrypoint `Strategy`, and the field is the "Class name to load" (`models.py:22`), but
the code falls back for *every* entrypoint that names nothing. A misspelt `SmaCros`
therefore runs `SmaCross` without a word. The property allows this and says so; what it
shows is that the choice is never ambiguous.

### GridExpansion and the code

`grid_size` and `iter_combos` each expand every axis (`pass` is `size`, then
`combos`). An axis is a list, a scalar, or a range. A range is the loop of
`_expand_value_spec`: `StartRange`, one `RangeValue` per iteration, `EndRange`;
`Expand` appends the list or, if it is empty, raises GridError. Numbers are
integers in a unit of which `Grain` make 1e-12, so `round(_, 12)` is rounding to
a multiple of `Grain`, half to even. A sum in which a float takes part is off by
an arbitrary member of `Errors`, the same in both passes because the arithmetic
is deterministic. The code rounds the sum only if the *current value* is a float:
with a whole start and a float step the first sum is not rounded
(`-1 + 1.1 = 0.10000000000000009`), the later ones are. `Regular` names the ranges
for which the expansion is what a reader of the grid expects (`AxesExact`), and
`ErrorStaysOnce` says what becomes of the others whose numbers have twelve decimals:
only the second value is off, and it is lost only if it is the stop. Of the values of
ranges with finer numbers only the count is checked.

`TimeLimit` stands for a range that optimize's limit ends: the limit leaves time for
`MaxValues` values, whatever that number is. `RangesEnd` says which ranges meet it: those
that mean more values than that (`_expand_value_spec` has no bound of its own, so 10^9
whole numbers do), and among those with finer numbers the ones with a step below 1e-12,
which rounding may take back for ever, or with a step that rounding shortens, though
never to less than half. A range that never advances never gets into `lists`.

### Ingestion and the code

`lookup -> fetch -> sleep -> ... -> upsert -> returned` follows `bars/tasks.py` and
`bars/ingestion.py`. `clock` is the time since the task started: a lookup and an attempt
take one of `Durations`, a sleep the current `delay`, which doubles. The 15 s timeout of
`yfinance` is one of each request, and an attempt makes several, so nothing is assumed
of how long an attempt takes. `spent` is what the task has not slept. The soft limit is
an `Exception`: raised inside an attempt, the loop's `except` takes it for a failed
attempt (`SoftLimitInAttempt`); raised inside the sleep, it ends the task
(`LimitEndsTask`). It is raised once; after it only the hard limit counts. `Exhausted`
is the RuntimeError that autoretry turns into a new message, with the retries counted in
the message. `TaskRefused` is every other end of a task: the database refuses the lookup
or the upsert, the broker the retry, or a limit strikes outside the loop. None of these
is a RuntimeError, so none is retried; such a task ends in `refused`, and one that the
limits or the last retry end in `given_up`. `CleanRows` and `Upserted` are `_clean_rows`
and the bulk upsert; a price is represented by the revision of the source it was fetched
from, since adjusted prices are revised.

### NightlyIngestion and the code

`NextNight` is 02:00 UTC of the next day: beat publishes a fan-out, or none if it is
down, or two if a second worker-and-beat is up (`start.sh:21`). `ListTickers` and
`QueueTicker` are `ingest_all_active_bars` (`bars/tasks.py:53-60`), `FanOutFails` (at its
SELECT, at a publish, or by a limit) and `FanOutLost` its two ways to stop. `Fetch` and
`Store` are the two halves of `ingest_symbol`, `FetchFails` what `Ingestion` calls given
up, `StoreFails` what it calls refused, `IngestionLost` a worker that dies.
`StartCommand`, `CommandFetches` and `CommandFails` are the management command, which
creates missing symbols first and then works in its own process; its fetches carry
window 0. `EditSymbol` is the API and the admin; deleting a symbol deletes its bars, and
what was fetched for it can no longer be stored.

Messages carry tickers, not rows: `tickers` and `queue` are sets and counts of tickers,
and `Fetch` looks up the row that has the ticker by then. `RenameSymbol` is PATCH of the
ticker (`bars/api.py:15`), to one that is free: the row keeps its bars, which are now
prices of another ticker (a new `basis`). A message for the old ticker ends as
`unknown_symbol` (`bars/tasks.py:35-37`), or ingests whichever row takes that ticker, and
the renamed row's night is lost; so is a night whose worker dies after the rename, when
the message is delivered again under the old ticker. A running command works on
the rows it has read; `former` are the symbols it would still ingest under a ticker they
have no more.

A day's bar is represented by its *basis*, the number of splits before its
fetch, because `auto_adjust` restates all earlier prices at a split. `Window` is
the dates from `now - days_back` up to yesterday: yfinance excludes `end`.
`lost` is the history of nights that were lost to one of the named causes,
`unified` that of symbols whose whole series has been fetched again since their last
split. One fan-out runs at a time; the default worker could run two, but they share
nothing except the queue they append to, whose order is not modelled.

## What the runs check

| Run | Instance | Shows |
|---|---|---|
| `runs_contention` | 1 run, 2 slots, 3 messages, 1 kill, 1 edit | `TypeOK`, `NoSilentLoss`, `ResultsConsistent`, `MetricsBelong`, `OutcomeStands`, `PruneOnlyOld`, `ImplementsContract` |
| `runs_liveness` | 1 run, 2 slots, 2 messages, 1 kill, 1 edit, fair | `RunsSettle`, `PruneCompletes` |
| `runs_cleanup_race` | 1 run, 2 slots, 2 messages | `FreshRunsKeepCurve` is violated |
| `sweeps_generations` | 2 combinations, 2 durations, 2 messages, one of: overrun, deletion, refusal or failure, edit | `TallyMatches`, `ChildrenUnderContract` |
| `sweeps_faults` | 2 combinations, 1 message, one kill, one overrun, one refused message or failed task, fair | `TypeOK`, `TallyMatches`, `SweepUnderWay`, `CallbacksIdempotent`, `SweepSettles` |
| `sweeps_hard_limit` | 1 message, 1 hard limit, fair | `SweepFlips` is violated |
| `sweeps_bad_grid` | 1 message, fair | `SweepFansOut` is violated |
| `sweeps_double_return` | 2 durations, 1 message, 1 kill | `SucceededMeansAll` is violated |
| `grid_expansion` | grids of at most 2 axes with every kind of entry, errors of -1, 0, 1, time for 4 values | `AxesExact`, `ErrorStaysOnce`, `RefusedJustly`, `RangesEnd`, `ChildrenCounted` |
| `ingestion` | 2 slots, 2 messages, 2 revisions, 1 kill, lookups and attempts of 0, 20 or 50 s | `TypeOK`, `GivesUpLate`, `UpsertComplete`, `BarsMoveForward` |
| `execution` | 2 executions, 1 change; 2 symbols (UTC-5, UTC+9), 3 tickers, 4 days, 10 programs | `OneVersion`, `LoadedClassIsMeant`, `EngineResultsAreKept`, `TradesOfTheirBars`, `WindowExact` |
| `nightly_ingestion` | 2 symbols and tickers, 3 nights, a window of 2 days and a backfill of 3, any 2 incidents | `NoGaps`, `OneBasisAfterBackfill` |

The four violations are the places where the code and its documentation
disagree; `PROJECT.json` quotes both sides:

1. a run re-executed between the cleanup's SELECT and its DELETE loses its fresh
   results;
2. one child over the hard limit leaves its sweep RUNNING for ever;
3. a grid that does not expand leaves its sweep PENDING for ever;
4. a child executed again after its result was stored can make a sweep SUCCEEDED
   while another child has not started.

A fifth one, the loader's fallback, is stated with `LoadedClassIsMeant` (see above).

The other properties hold with the exceptions they name. Those exceptions are history
variables (`dropped`, `contended`, `overwritten`, `unqueued`, `broken`, `doubled`,
`switched`, `former`, `overlap`, `lost`): each is set by named faults, and no property
is exempt from a fault that it survives. In particular redelivery after a crash,
failures at any point of the `try`, and re-queueing are never exempt.

Deadlock is not checked: a system without messages, forms or old runs stops.

### Bounds

`MaxPublished`, `MaxKills`, `MaxEdits`, `MaxOverruns`, `MaxDeletes`, `MaxRefused`,
`MaxFaults` (kills, overruns, deletions, refusals and edits of sweeps together),
`MaxChanges` and `MaxIncidents` bound how often the environment acts, `MaxExecutions`
the executions of a run, and `MaxBacklog` what is left over when a new night begins;
nothing else is bounded. Two slots are the concurrency of worker-untrusted
(`start.sh:29`) and are what it takes for two executions of a run to overlap; with three
messages a third execution follows an overlap. One killed process reaches every state a
redelivery can start from. One run is enough because runs meet only in the slots and in
the cleanup's list. With the exception of the liveness properties, what a run checks on
such an instance is also proved without its bounds (see below). Two combinations are the
smallest grid with a first and a last child and with a partial outcome; the empty set of
combinations stands for GridError, and a grid of one combination is checked too.

In `execution` one change can fall between any two statements, and the second execution
meets what the first has stored. The programs have one class, two, an alias, none, a
misspelt entrypoint, a function's name, a forbidden import and a source that raises; the
windows are of one and of two days. In `nightly_ingestion` a window of two days and
three nights make a day that is fetched by two nights, can be lost by both, and leaves
the window; two incidents are, for example, a dead fan-out in the night after a missing
beat, or a split between a backfill's fetch and its store. One item of backlog is what
it takes for an ingestion of the last night to be stored after the next one's. A symbol
can take the ticker another one has given up, or the one a message still names. That a
command goes on under a former ticker while a backfill unifies the symbol takes three
incidents; the proof covers it, the run does not.

In `grid_expansion`, 1e-12 is 10 units and ranges have starts -1e-12, 0, 1e-12 or (for
the long ones) -7e-13, stops on and off the progression, and steps of both signs, zero,
above and below the rounding: the scale is irrelevant to `+`, `<=` and rounding.
`MaxValues` is 4: ranges of up to five whole numbers exceed it, and so do steps of
1e-13, which never advance, and steps of 1.4e-12, which are rounded to 1e-12. In
`ingestion` the limits (50 s and 60 s), the number of attempts and the delays are those
of the code; `MaxRetries` is 1 where the code has 3, because a retry starts like any
other and only the last differs. A request of 0 s fails at once, one of 20 s uses up all
that the sleeps leave of the soft limit, and one of 50 s reaches both limits. Two
revisions and two messages are an old and a new price fetched by two tasks.

### Fairness

Weak fairness on the steps of a started task: the soft limit raises inside
`run_backtest` after 540 s and the hard limit ends it after 600 s, so it does not
hang. Weak fairness on a free slot fetching what is queued: workers poll. Weak
fairness on the cleanup: beat starts it weekly. No fairness on users, on faults or
on the passing of 90 days. `Execution`, `Ingestion` and `NightlyIngestion` claim
safety only: a night that is lost is lost, and the code makes no promise that a
source which fails will answer.

## What is proved

`BacktestRunsProofs` and `RunContractProofs` prove, for all sets `Runs` and `Workers`
and all bounds, from `NoRunAssumption` and `BoundsAssumption`:

| Theorem | States |
|---|---|
| `TypeCorrect` | `Spec => []TypeOK` |
| `NothingLostSilently` | `Spec => []NoSilentLoss` |
| `MetricsOfTheCurve` | `Spec => []MetricsBelong` |
| `ResultsOfOneExecution` | `Spec => []ResultsConsistent` |
| `OutcomesStand` | `Spec => OutcomeStands` |
| `PrunesOnlyOldRuns` | `Spec => PruneOnlyOld` |
| `TaskImplementsContract` | `Spec => ImplementsContract`, that is, `RunContract!Spec` under `PhaseOf` |

* `TypeInv` adds to `TypeOK` that a slot is idle exactly when it holds no run
  (`SlotsOK`) and that an open form is about a row that existed (`FormOK`).
  Without them an action could write at `NoRun`.
* `NoSilentLoss` is inductive over `TypeInv`: each action that takes a message or
  a slot from a run hands the run on, writes its outcome, or records the fault.
* `RowInv` says a row has results only while it exists; with
  `StoredBeforeSuccess` (a slot about to write SUCCEEDED has committed) it gives
  `MetricsBelong`, whatever overlaps.
* `ActivityInv` says that, for a run not in `contended`, at most one slot has it and not
  together with the cleanup, and what the tables hold at each point of that slot's
  execution; what it says of the row's own columns it says of runs that are not
  `overwritten`, since an edit can give them any status. From it follow
  `ResultsConsistent` and the two action properties.

* The refinement needs no more than `TypeInv`: each label of a slot belongs to a
  phase, so a statement either keeps the phase and the status, and is no step of the
  contract (`SamePhase`), or moves both as the contract says (`PhaseStep`).

`ExecutionProofs` proves, for any symbols, days, programs, offsets and bounds:

| Theorem | States |
|---|---|
| `OneVersionLoaded` | `Spec => []OneVersion` |
| `LoaderNeverGuesses` | `Spec => []LoadedClassIsMeant` |
| `ResultsAreKept` | `Spec => []EngineResultsAreKept` |
| `TradesBelongToBars` | `Spec => TradesOfTheirBars` |
| `WindowIsExact` | `Spec => WindowExact` |

from the assumptions that symbols and tickers are numbered (`SymbolsAssumption`),
exchanges are between UTC-12 and UTC+14 (`OffsetAssumption`), days are integers
(`RowsAssumption`), a namespace is finite (`ProgramsAssumption`) and statistics are of
one of `Kinds` (`StatisticsAssumption`). The inductive invariant `ExecInv` has four
parts: `RowsInv`, that the rows and the task's copies of them are rows there have been,
the task's program one of `held`, and that no two symbols have one ticker; `SymbolInv`,
that from the first reading of the symbols on, unless `switched`, the task's symbol is
still the run's first; `ClassInv`, that the class is what `LoadStrategyClass` makes of
the task's own copy; `ResultInv`, that a result which waits to be saved is `Storable`,
which `SerializedIsStorable` shows of all kinds. `Smallest` (a non-empty set of naturals
has a least element) is what makes the first symbol a symbol of the run, and
`WindowIsExact` is arithmetic on `Stamp`.

`SweepsProofs` and `SweepsTallyProofs` prove, for any finite sets of combinations and
durations (`FiniteAssumption`), any slots of both workers, and any numbers of messages,
generations and faults (`BoundsAssumption`):

| Theorem | States |
|---|---|
| `SweepTypeCorrect` | `Spec => []TypeOK` |
| `SweepKeepsContract` | `Spec => ChildrenUnderContract`, that is, `RunContract!Spec` for the children |
| `TallyInvariant` | `Spec => []TallyInv` |
| `SweepTallies` | `Spec => []TallyMatches` |
| `FinalizeIdempotent` | `Spec => CallbacksIdempotent` |
| `UnderWayInvariant` | `Spec => [](TallyInv /\ UnderWayInv)` |
| `SweepNeverForgotten` | `Spec => []SweepUnderWay` |

`TypeInv` has four parts: the types; that there are no more generations than
deliveries of optimize (`BudgetInv`); what a slot at each label holds (`SlotsInv`);
and that nothing refers to a generation or a child that optimize has not created
(`GenerationsInv`). It is all the refinement needs.

`TallyInv` follows a child from the message to the row, in six layers that each rest
on the ones before. All but the first speak of generations not in `doubled`, since
the code really can store two results of one child:

1. `DispatchInv`: one slot of optimize dispatches a generation, and the chord's size
   is the number of its children.
2. `PlaceInv`: a child that has not returned is in one place (unsent, queued or in
   one slot), and its generation has not been called back.
3. `ChordInv`: the chord holds one result of each child. A set of as many results as
   the chord's size therefore holds all of them (`FullChord`), and exactly one slot
   calls back.
4. `OutcomeInv`: a result is what its child's row says, unless that was deleted.
5. `CountInv`: the callback has the counts of the children; `TallyCounts` turns
   counts of results into counts of rows, through a bijection of finite sets.
6. `RowInv`: the row has the total of the latest generation, and the counts of the
   one that was tallied last.

`SweepUnderWay` is what `SweepSettles` needs besides fairness: a sweep that still reads
PENDING or RUNNING has a message, or a slot, that leads to the write of its row. It is
not inductive, since one child on its way says nothing of what happens when that child
has returned. `UnderWayInv` adds that the latest generation's chord, unless it is broken
or doubled, *can* complete (`Collecting`): every child is on its way or has a result,
none of which is an exception, the chord's size is known once the last child has been
sent, and a slot calls back when all have returned. The last part is the converse of
`FullChord`: one result of each child is as many as the chord's size (`OneOfEach`), so
the slot that added the last one sees the set complete (`ReturnChildCollects`). A
callback of the latest generation knows of no later one (`NextLatest`), so its duration
is not refused and it leaves the queue only when the row is final (`NextRunning`), or when
`finalize_sweep` fails and its generation is `broken` from then on (`BrokenStays`).

`GridExpansionProofs` proves, for any grids, resolution and number of values:

| Theorem | States |
|---|---|
| `GridInvariant` | `Spec => []GridInv` |
| `AxesExpandExactly` | `Spec => []AxesExact` |
| `GridsRefusedJustly` | `Spec => []RefusedJustly` |
| `RangesEndUnlessTooFine` | `Spec => []RangesEnd` |
| `ErrorsStaySmall` | `Spec => []ErrorStaysOnce` |
| `ChildrenInvariant` | `Spec => []ChildrenInv` |
| `ChildrenAreCounted` | `Spec => []ChildrenCounted` |

`GridInv` says that what the loop over a range has collected is the beginning of the
arithmetic progression and its value the next term. `RoundedExactly` is why: rounding a
sum of two multiples of 1e-12 takes its error off, *if* that error is below half of
1e-12. This is the part of `GrainAssumption` about `Errors`; doubles up
to two thousand satisfy it, since below 2^11 they are at most 2.3e-13 apart and value,
step and sum are each off by half of that. `CountOfTerms`
and `PlaceOfTerm` show that the loop ends exactly at the quotient that defines the
progression. `GridsAssumption` is the shape of a grid; `BoundsAssumption` says only that
`MaxValues` is a natural number, so regular axes may well be too long for the time limit.

`RangesEnd` is about progress, for ranges of any numbers: `Advanced` says that after `n`
sums the value is at least `n - 1` halves of the step ahead. `RoundedNear` is why: rounding
moves a sum by at most half of 1e-12, and all but the first sums start from a rounded
value, so a step of at least 1e-12 moves it by at least its half (`AdvancesByHalf`;
`FirstSums` are the ones that need not start from a rounded value). A loop that has met the
time limit has therefore used up half of what the range means (`HalfOfTheTerms`), and one
whose step rounding takes back (`NeverAdvances`) never leaves its start, so it never ends.

`ErrorsStaySmall` follows the error of the one sum that is not rounded. The next sum
takes it off together with its own (`SumNearly`), which needs that two sums together
are off by less than half of 1e-12 (`TwoErrorsAssumption`: 4.6e-13 for doubles up to two
thousand). A stop with twelve decimals is either the second value or at least
1e-12 away from it (`Apart`), so no other end of the range can be missed.

`ChildrenInv` adds to `GridInv` what the lists are when nothing is known of the axis:
`Expands` describes the loop by its own sums, with the errors they have, and
`ExpandsOnce` shows that no axis has two expansions. The second pass therefore ends
with the lists that were counted. `AllCombos` does the rest: it is about the two
folds, the product of `grid_size` and the enumeration of `iter_combos`, for every
sequence of lists. The prover cannot cite the library's induction theorems, so these
proofs use `UpTo`, a finite induction stated for a set instead of a predicate, which
follows from the least element of a well-founded order; `FoldExists` builds with it the
function that a fold of the community modules chooses, and `Flattened` the one of
`FlattenSeq`.

`IngestionProofs` proves, for any slots, days, rows the source may return, retries,
messages and deaths, from `LimitsAssumption` and `FetchesAssumption`:

| Theorem | States |
|---|---|
| `IngestionInvariant` | `Spec => []IngestionInv` |
| `IngestionTypeCorrect` | `Spec => []TypeOK` |
| `UpsertsComplete` | `Spec => []UpsertComplete` |
| `BarsNeverGoBack` | `Spec => BarsMoveForward` |
| `GivesUpOnlyLate` | `CodeLimits` implies `Spec => []GivesUpLate` |

`HeldInv` says at which labels a slot has rows, `AloneInv` that a slot is alone unless
`overlap`, and `RevisionInv` that one fetch is of one revision, not older than any bar
as long as the task is alone. `CleanRowsOfDay` is what `_clean_rows` keeps of a day.
`GivesUpLate` is about numbers: 50 s less than four attempts' sleeps, 2 + 4 + 8 + 16 s, are
the 20 s that requests may take before a limit can strike. `CodeLimits` are the numbers of
the code (4 attempts, delays from 2 s to 60 s, limits of 50 s and 60 s); of the time that a
lookup or an attempt takes nothing is assumed. `ClockOf` says that the clock of a task is
what it has slept (`Slept`) and what it has `spent`, until the soft limit is raised; a task
that has met a limit has spent 20 s. The bound is tight: one second more is not true.

`NightlyIngestionProofs` proves, for any symbols, calendar, window, backfill and
incidents, from `DaysAssumption` (the window is at least a day and at most the
calendar):

| Theorem | States |
|---|---|
| `NightlyInvariant` | `Spec => []NightlyInv` |
| `NightsLeaveNoGaps` | `Spec => []NoGaps` |
| `BackfillUnifies` | `Spec => []OneBasisAfterBackfill` |

`OneBasisAfterBackfill` is not inductive, because a fetch of the old basis could be on
its way; `BasisInv` adds that what has been fetched of a unified symbol is on its basis
too, and that no command would ingest it under a former ticker, which is why a backfill
only unifies if no older fetch is left, nor such a command. `NightsInv` says of every
night since the symbol is active that it is lost by a named cause, or is this night and
under way (`Fresh`: with beat, in the fan-out, in the queue under the ticker the symbol
has, or fetched), or has its window in the series (`Covered`). A day with no bar can be
covered by no night, and by the time it leaves the window none is under way, so all were
lost.

The inductive invariants were checked by TLC on the runs' instances before they were
proved. What remains with TLC:

* `RunsSettle`, `PruneCompletes` and `SweepSettles`: liveness, since the proof system has
  no support for fairness and ENABLED. `NoSilentLoss` and `SweepUnderWay` are the safety
  part of the first and the last, and are proved.

## Assumptions and what is left out

* Celery, Redis and PostgreSQL are external and modelled from how the code uses
  them. Redis's visibility timeout (1 h) is not reached: at most 8 messages are
  prefetched by 2 slots that take at most 10 minutes each. Celery publishes the
  callback and deletes the chord's keys in one step; a callback that cannot be
  published is not modelled, nor is the expiry of results after a day.
* A message is the only one of its kind: FIFO order is not assumed.
* An execution that succeeds has a curve, since the engine refuses an empty
  frame; it may have no trades.
* No delivery and no open form outlives the 90 days of the cutoff.
* One sweep; re-runs of single children are not in `Sweeps` but in `BacktestRuns`.
  Edits of the sweep are checked for safety (`sweeps_generations`), and left out of
  the liveness run, whose property exempts them.
* Trades, points and metrics that the admin edits or deletes one by one, and bars the admin
  adds, changes or deletes: the properties are about what the tasks write.
* yfinance is external: it returns any of `Fetches` or raises; in
  `NightlyIngestion` it returns every day of the window on the basis of the moment.
  Weekends and holidays are left out of the calendar.
* A series longer than the window of a backfill keeps the old basis before it:
  `OneBasisAfterBackfill` speaks of backfills that reach the first bar. Without a
  backfill the nights after a split restate only the last `DaysBack` days; the code
  has no other remedy.
* The backtesting library is external: it returns any of `Statistics`, with or
  without trades, or raises. `slippage_bps` is stored and never given to it. The
  values of single trades and points are not modelled.
* `finalize_sweep` and the tasks subtract wall-clock times; a clock that is set back
  makes a negative duration. Durations are not modelled beyond being different, and
  beyond `finished`, which tells one writing of them from another.
* A ticker is changed to a free one: uniqueness makes the database refuse any other.
* The sweep page marks the best Sharpe ratio over all children of all generations;
  it only reads, and is not modelled.
* `BarsMoveForward` and the second half of `UpsertComplete` do not hold while two
  ingestions of a symbol overlap: the code has no lock, and the older fetch may be
  written last, until the next night replaces it.
* Data is abstract: prices, parameters, metrics' values, error texts.

## Plan

1. A contract of the sweep (accepted, dispatched, settled) that `Sweeps` implements
   outside the named faults, as `RunContract` is one of its children.
