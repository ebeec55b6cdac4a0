# A TLA+ verification of quantlab

quantlab is a research platform for equity strategies: it ingests market data,
builds point-in-time datasets, computes factors, compares models, constructs
portfolios, simulates them on historical sessions with a broker model, validates
the results, and runs a paper account.  This directory holds TLA+ models of the
parts of it that keep state or decide something, TLC configurations that check
them on small instances, and TLAPS proofs of the results that matter most for
every instance.

Definitions keep the names of the source where TLA+ allows it.  The module
comments say what an action stands for, `PROJECT.json` maps each definition to
its lines, and this file gives the overview: [inventory](#1-inventory),
[plan](#2-plan), [modules](#3-modules-and-their-code),
[model-checked properties](#4-what-is-checked), [proofs](#5-what-is-proved),
[findings](#6-where-the-code-disagrees-with-its-documents), and
[what is left out](#7-what-is-not-modelled-and-why).

## 1. Inventory

Paths are relative to `src/quantlab`.  M: modelled; P: partly; -: not modelled.

| | Component (sources) | State | Operations | What is hard about it |
|---|---|---|---|---|
| M | Backtest engine (`backtest/engine.py`, `clock.py`, `broker.py`, `costs.py`, `participation.py`, `accounting.py`, `ledger.py`, `marking.py`, `corporate_actions.py`, `domain/orders.py`) | pending orders, account (cash and position ledgers), last known prices, order and fill logs | market open: corporate actions, then pending orders; market close: marking; rebalance | orders that live across opens while splits, delistings and new plans change what they refer to; rounding in two ledgers |
| M | Order planner (`portfolio/orders.py`) | none | `plan`: target weights and a snapshot to orders | works from the snapshot only and does not see the orders still pending |
| M | Paper account, ledger and recovery (`paper/adapter.py`, `persistence.py`, `recovery.py`, `scripts/restore_drill.py`) | the adapter's cash and positions in memory; fills, account and positions in SQLite | `set_prices`, `submit_order`, `record_fill`, `save_account`, `load_account`, `load_fills`, `reconstruct_from_fills` | crashes between transactions and during the replay; order of replay |
| P | Dataset build (`application/dataset_service.py`, `data/datasets.py`, `market_bars.py`, `corporate_actions.py`, `fundamentals.py`, `infrastructure/partitions.py`, `instrument_repository.py`) | SQL tables shared by all datasets, partition files and tables per dataset, manifest | `build_dataset` from listings to manifest; `resolve`, `get_bars`, `list_sessions`, the roster | many writes, any of which may be the last; rebuilds; two datasets at once |
| P | Point-in-time data (`data/pit_facade.py`, `macro.py`, `quality.py`, `universe/*`, the reading side of the stores) | caches of parsed files, of action histories and of adjusted bars | `get_market_bars` as of an instant, raw or adjusted | a read that sees the future; caches that outlive what they hold |
| M | Job repository (`infrastructure/repositories.py`, `jobs.py`, `db.py`) | the `jobs` table and the write lock of its file | `create_once`, `update_status`, `get_by_id` | read-then-insert race; processes that stop inside a transaction |
| M | Ingestion, providers and snapshot store (`data/ingestion.py`, `providers.py`, `raw_snapshots.py`, `infrastructure/artifacts.py`) | content-addressed files | fetch with retry; `put_bytes`, `get_verified` | a stop while writing under the final name; two writers of one content |
| P | Factors and composites (`factors/*`) | none | fourteen calculators, `CompositeBuilder`, `FactorEvaluator` | which rows a score is made of; missing values |
| P | Portfolio construction and risk (`portfolio/*`) | none | `TopKBufferSelector`, weighting, `RiskEngine.apply` | ranks and buffers at the edge; rounding in an iteration that may not settle |
| P | Machine learning (`ml/*`) | none | walk-forward folds, panels, comparison | index arithmetic over sessions with holes |
| P | Application services (`application/backtests.py`, `factor_research.py`, `models.py`) | panel cache, snapshot cache of a prepared backtest, holdings of a run | research, comparison, control, sweep | studies that read while another process writes; caches shared by variants |
| M | Validation and research ledgers (`application/validation.py`, `validation/*` without the statistics) | trial ledger, holdout ledger, partition scheme | `run_validation`, `record_once`, `open_holdout` | evidence from several sweeps; several campaigns and actors |
| P | Agents and campaigns (`agents/*`, `research/*`) | report file | `run_campaign`, verification of the report | fixed figures in the place of measured ones |
| - | Validation statistics (`validation/bootstrap.py`, `fdr.py`, `deflated_sharpe.py`, ...) | none | formulas | floating point |
| - | Paper daily cycle, reconciliation (`application/paper.py`, `paper/reconciliation.py`, `breaks.py`, `simulation.py`) | none that outlives a call | `run_daily_cycle`, `reconcile_daily`, `simulate` | nothing in it varies |
| - | Instrument identity (`data/instruments.py`, `domain/identity.py`) | symbol history | validation of the history | covered by the dataset build where it is called |
| - | Performance analytics (`analytics/*`) | none | formulas | floating point |
| - | Interfaces (`apps/*`, `application/doctor.py`) | none | wiring | none found |
| - | Common (`common/*`) | none | configuration, hashes, ids | none found |

**How they interact.**  `IngestionService` fetches rows and stores them as
snapshots named by their content.  `DatasetService` pulls listings, bars, actions
and filings from a provider and writes them through the SQL stores, the bar store
and the publisher.  Everything that studies a dataset reads it through
`PitDataFacade`, which shows only what was available at the instant asked
about: the factor calculators, and through them factor research, the panels of
the models and the composites.  A prepared backtest keeps the snapshots of each
session; its runs turn them into target weights (selection, weighting,
`RiskEngine`), the planner turns these into orders, and the broker, called at the
next open, into fills the account of `BacktestEngine` records.  Validation runs the
prepared backtest under every variant of its sweeps and reads a verdict off the
results.  The paper side is separate: `MockExecutionAdapter` fills orders in
memory, `PaperStateStore` makes the fills durable, and `DisasterRecoveryEngine`
rebuilds the account from them.  There are no threads; concurrency comes from
separate processes on one database and one directory, from processes that stop,
and, within one backtest, from orders, corporate actions and plans that overlap in
simulated time.

**What makes each of them correct.**

* Backtest: no order fills twice or at the close that planned it; none is lost
  or resurrected; a sale can be delivered; cash, positions and results move
  together; a held position is marked at a price somebody observed.
* Paper: what a crash leaves behind is enough to rebuild an account the broker
  really had, exactly; recovery always ends.
* Dataset: a finished build is whole, whatever happened before it or beside
  it; ingesting again changes nothing; a manifest vouches only for what is
  there; the symbols it lists resolve.
* Point-in-time: nothing later than the instant is visible, and caches change no
  answer.  Jobs: one job per key, results are kept, the lock comes free.
  Snapshots: what is reported stored can be read.
* Studies: a score precedes the return it is judged by; training precedes
  testing; a control judges what it controls.  Portfolios: seats go to the best
  names the buffer allows, no weight is lost or exceeds its cap.
* Validation: a verdict rests on all that was run; trials and holdout accesses are
  recorded once and stay.

The `hazards` of `PROJECT.json` list, line by line, where each of these could go
wrong in a way tests would hardly reach, and which property covers it.

## 2. Plan

Modules in the order in which they were written.  All of them are done; what is
left below has a reason to be left.

1. *Backtest core*: `Decimals`, `Orders`; `Accounting`; `SimulatedBroker`;
   `OrderPlanner`; `BacktestEngine` composes them; `BacktestProperties`,
   `BacktestBooks`, `BacktestInvariant`, `BacktestProofs`.
2. *Paper account*: `PaperAdapter`; the abstract `DurableAccount`;
   `PaperRecovery`, `PaperProperties` (refinement), `PaperProofs`.
3. *Dataset build*: `DatasetBuild`, `DatasetProperties`, `DatasetProofs`.
4. *Stores*: the abstract `JobLedger`; `JobStore`, `JobProperties` (refinement),
   `JobProofs`; `Ingestion` with the snapshot store, `IngestionProofs`.
5. *Point-in-time reads*: `PointInTime`, `PointInTimeProperties`,
   `PointInTimeProofs`.
6. *Studies*: `FactorCalculators`; `WalkForward`; `Study` composes them with the
   panel cache and a second process; `StudyProofs`.
7. *Portfolios*: `Composites`, then `PortfolioConstructor`, then `RiskEngine`, then
   `Rebalances`, the sweep of runs over one prepared backtest.
8. *Validation*: `Validation` with the ledgers and campaigns; `ValidationProofs`, which
   also holds the proofs about the sweep of `Rebalances`.

Left: that the risk engine settles within its rounds, which is an assumption of one
theorem and evaluated by TLC for the books of its run; overlapping builds of one
dataset, for which nothing is promised; the daily paper cycle, which has no behaviour
to check (section 7).

## 3. Modules and their code

### Backtest

`Decimals` is `Decimal.quantize` with ROUND_HALF_EVEN on integers.  Money and
quantities are integers in ticks: `PriceUnit` cash ticks make a price unit and
`QtyUnit` quantity ticks a share, so that rounding happens at the same places as
in the code (cash to cents, quantity and cost at splits) with units small enough
to enumerate.  `Orders` holds the life cycle and the order of the pending list.
Since a rebalance plans at most one order per instrument, `(created, inst)`
stands for the order's uuid.

`Accounting` has one operator per account operation (`ApplyBuyFill`,
`ApplySellFill`, `ApplySplit`, `PayDividend`, `SettleDelisting`), each with the
cash leg the code records first and the position leg after it.
`SimulatedBroker` has the outcomes of `execute_order`: rejected without a bar,
handed back without volume, filled up to the participation cap.
`OrderPlanner.Plan` is `OrderPlanner.plan` with its rounding down to
whole shares, its exit orders, its no-trade band and its minimum.

`BacktestEngine` is `BacktestEngine.run`:

| Action | Code |
|---|---|
| `OpenSession` | the next session's `MarketOpenEvent`; the bars of the session are chosen here |
| `Split`, `Dividend`, `Delisting` | the corporate actions effective on the session, on held positions |
| `RejectOrder`, `DeferOrder`, `FillBuy`, `FillSell` | one turn of the loop over pending orders: broker, logs, account, re-queue |
| `OversellRaises` | the same turn when the position ledger raises: fill and cash leg are already there, the run ends |
| `EndOpen` | the list of remaining orders becomes the pending list |
| `MarkPosition`, `EndClose` | marking of one position; last known prices are updated after all of them |
| `Rebalance` | plan for given target weights; the orders extend the pending list |

The log `all_orders` gains an entry at each attempt, not at each order; `attempts`
is that log as a set of (order, session), so the duplication of a carried-over
order in the code's list is visible as several attempts of one order.
`actionLog` is not kept by the code; it bounds the actions of a behaviour and lets
a property speak of them.

### Paper account

`PaperAdapter` is the arithmetic of `MockExecutionAdapter` (slippage, commission, clip
at zero).  `PaperRecovery` is the life of the process in the order of
`scripts/restore_drill.py`: orders fill in memory (`SubmitOrder`), fills are
written one transaction each (`RecordFill`), the account is saved when all are
(`SaveAccount`), and a `Crash` may come between any two steps, also during the
recovery (`LoadFills`, `ReplayFill`, `FinishRecovery`).  A fill carries the wall clock
and a random identifier, both chosen by the environment: `ClockSteps` says how far
the clock may move between two fills, zero and backwards included, and identifiers
are drawn in any order.  The replay has its own arithmetic (`Replayed`), as in
the code, and is not assumed to be that of the adapter.  `history`
is an auxiliary variable: every value the live account has had.

`DurableAccount` is the abstract specification: an account changes, a growing prefix
of its changes is durable, and what is recovered is the value after the last
durable one.  `PaperProperties` instantiates it with `durable <- recorded` and
`view <-` the recovered account.

### Dataset build

`DatasetBuild` is `build_dataset`, one action per transaction or file:
`RecordListing`, `RecordAction`, `RecordStatement`, `WriteBars` (one partition:
instrument and year), `WriteTable` (the publisher's five tables, in its order),
`WriteManifest`.  `NextPhase` moves from one loop of the code to the next.
`StopBetweenWrites`, `StopInBars`, `StopInTable` and `StopInManifest` are a process
that ends, between writes or inside one, which leaves a torn file; SQL
transactions leave nothing.  What a provider returns is a `source`: listings,
actions, filings and bars as sets of records and the configured window; a build
may start from any of the sources of its dataset, so a rebuild may see other
data.  Rows are taken in any order.  SQL tables are functions from rows to the
number of copies, since a table without a unique key may hold several; the
tables with one ignore a second insert.  The hashes a manifest lists are modelled by
the rows they hash.

`NamespaceFor` keeps the partitions of two datasets apart, and `Members` is the
roster by which a dataset is read back, the instruments of its published table.

Assumed: builds of one dataset do not overlap (different datasets do, on the
shared SQL tables); one exchange; one version per dataset.

### Point-in-time reads

`PointInTime` is `PitDataFacade.get_market_bars` with the three caches below it:
parsed partition files (`ReadRows`, `CacheAfterRead`; which entries are dropped at the
limit is left open), the action history of each instrument (`FullHistory`), and the
adjusted bars of the current cross-section (`CachedAdjusted`, `StoreAdjusted`).
A day `d` has two instants, `2d` before its close is observed and `2d + 1` after.
A partition file carries a stamp, its size and modification time, a new one at
each write.  An adjusted price is kept as the raw close and the set of factors that
multiply it, so that two adjustments are equal only if they are made of the same
actions.

| Action | Code |
|---|---|
| `GetMarketBars` | one request, from the adjusted cache or from the files and histories |
| `WritePartition` | one file of `write_daily_bars`, by any process |
| `RecordAction` | `record_action` through the store this process reads: its cached history is dropped |
| `RecordActionElsewhere` | the same by another process: the cached history stays |
| `Restart` | a new process, empty caches |

`oldSection` and `oldHistory` are bookkeeping: rows were written since the instant
asked about last moved, or another process recorded an action of a history loaded
already.  They mark the two situations in which the code knowingly answers from an
older state.

### Jobs

`JobLedger` is the in-memory repository of `jobs.py`, whose operations are single
steps.  `JobStore` is `SqlJobRepository`, statement by statement: `SelectOfCreate`
and `SelectOfUpdate` read, `Insert` and `Update` take the write lock of the file or
fail on the unique key, `Locked` is the timeout of a connection that waits for
the lock, `Commit` makes the row visible and returns.  `Stop` ends a process in the
middle of a call: SQLite releases its lock and forgets the row.
`JobProperties` instantiates `JobLedger` with its index read off the table.

### Ingestion and snapshots

`Ingestion` is `IngestionService` over a provider that refuses the first `RateLimits`
calls: `Refused` is one turn of `retry_with_backoff`, `Fetched` the rows or the missing
file.  A snapshot is stored as `put_bytes` does it: `Look`, then `Compare` with what is
there, or `Open`, which leaves the file short, and `Fill`.  Other processes run
between any two of these, and `Stop` ends a process at any of them.  A payload stands
for its own hash, and a path is named by it.

### Factor studies and model comparisons

`FactorCalculators` has the fourteen calculators of the catalog.  What a score is
worth is floating point; what matters here is which rows it is made of and why it
is missing, so a value is a reason or the set of rows that determine it.
`WalkForward` is `PurgedWalkForwardCV.split` on indices.  `Study` is one process that
runs `FactorResearchService` and `ModelService`:

| Action | Code |
|---|---|
| `BeginPanel`, `BeginResearch`, `BeginComposite` | the sessions of the window, the rebalances among them; a panel already cached is not built again |
| `ComputeRebalance` | one turn of the loop over rebalances: every factor, as of 16:00 of the session |
| `FinishPanel` | forward returns ranked into labels; the panel goes to the cache |
| `FinishResearch`, `FinishComposite` | rank correlations with the returns at each horizon |
| `CompareModels` | folds over the labelled rebalances, rows per fold |
| `RunLabelShuffleControl` | the real comparison, cut on all rebalances, and the shuffled ones |
| `RebuildElsewhere`, `RestateElsewhere` | another process publishes other bars, or a filing is restated |
| `Restart` | a new process, an empty panel cache |

A fitted model is represented by the rows it was trained on.

### Portfolios

`Composites` is `CompositeBuilder.build`: the cross-section of each factor is turned
into z-scores, an instrument with enough of the weight is scored, and a score is
the exact ratio the code computes in floats.  To keep z-scores in integers the
cross-sections are balanced (as many names above the mean as below), which
`RebalancesAssumption` states.  `PortfolioConstructor` is `TopKBufferSelector.select`, the two
weighting schemes with their rounding and the cap of `construct`; `Ranks` is the sort by
descending score and identifier, each rank the number of names ahead.  `RiskEngine` is
`apply`: name, sector and gross caps in turn until a round changes nothing, or
a rejection that carries the target as it came.  Weights are integers in units of
the last decimal kept, and all rounding is the code's.

`Rebalances` (`SweepSpec`) is the sweep over one `PreparedBacktest`: `Run(variant)` starts a run of
another size or without a factor, `Rebalance` is one rebalance session (snapshots
from the shared cache or computed, composite, construction, risk).  What is held at
the next session is any set between the names kept and the names held or wanted, since
the orders in between may fail.

### Validation, ledgers and campaigns

`Validation` is `ValidationService.run_validation`: `BeginValidation` plans the base
configuration and every sweep point, `RunBacktest` runs the next, `FinishValidation`
draws the evidence (cost, sensitivity surface, concentration, number of trials) and the
verdict.  A backtest is represented by what the verdict reads of it, chosen from
`Measurements`; everything computed from that by integer arithmetic or
comparison is modelled.  `RecordTrial` and `OpenHoldout` are the two ledgers,
`DefineScheme` the partition scheme with its check of neighbours.  `RunCampaign` is a
whole `run_campaign`, which nothing else in the process interleaves with; the report
is stored with its hash, `EditReport` changes it, and `Verifies` is `ReportVerifier`.
`Restart` empties the ledgers, which live in memory only.

## 4. What is checked

Only `validation` uses symmetry, for the names of campaigns, specifications and
holdouts, which the ledgers only compare for equality.  Elsewhere instruments are
ordered (backtest, portfolios), or the sets have at most three elements.  Deadlock is checked in `validation`,
which always has a next step.  It is not where a bound really ends a behaviour: a
backtest after its last session or a failed sale, a dataset after the last build
allowed, a recovered account when no crash is left, clients without a call left.

| Run | Instance | Checked | Shows |
|---|---|---|---|
| `backtest_actions` | one instrument, four sessions with a rebalance each, a full, a thin and an empty bar or none, splits 2:1 and 1:2, dividend, delisting with and without a price, two actions | `TypeOK`, `OneFillPerOrder`, `FilledAtFirstExecutableOpen`, `AttemptsFollowLifeCycle`, `NeverMarkedAtCost`, `FailsOnlyOnStaleSale`, `DoubleEntry` | orders carried over, re-planned, cut and rejected in every combination keep the books consistent; a run fails only on a sale that went stale |
| `backtest_liquid` | two instruments, three sessions, bars with ample volume or none at all, no actions | `NoOversell`, `CarriedAtSameValue` | in such a market no run fails and a halted position keeps its value |
| `paper_recovery` | one instrument, three fills of one or two shares with identifiers in any order, an advancing clock, two crashes | `TypeOK`, `RecoversPastAccount`, `SavedAccountInLedger`, `LedgerIsDurable`, `RecoveryEnds` | the ledger rebuilds exactly an account the broker had, after a crash anywhere |
| `dataset_build` | two datasets over one renamed company, bars in two years, a revised source, two builds each, one stop | `TypeOK`, `IngestedExactlyOnce`, `ReadsBackOwnRows`, `ManifestMatchesTables` | a finished build is whole |
| `dataset_resolve` | one dataset built twice from one source | `ResolvesUniquely` violated | finding 1 |
| `pit_reads` | two instruments, years of three days, one bar observed late and one revised, a split known late and a dividend, a cache of two files, four writes, one restart, six requests as of two instants | `TypeOK`, `NoLookAhead`, `AnswersArePointInTime` | caches and their age change no answer, and nothing later is ever seen |
| `jobs` | two clients, two jobs, two keys, four calls, stops anywhere | `TypeOK`, `ImplementsLedger`, `RecordsAreKept`, `LockIsReleased` | the table with its interleaved statements is the in-memory repository |
| `ingestion` | two processes, three ingestions out of five requests (two of which yield the same rows), four refusals against three retries, a missing source, one stop | `TypeOK`, `StoredIsReadable`, `FailuresHaveAReason` | a stored snapshot can be read; a failure has a cause |
| `study` | three names, seventeen days in eight months, full, halted and short data, a filing and its restatement, one write elsewhere, one restart, an expanding window with one period of purge | `TypeOK`, `ScoresPrecedeReturns`, `TrainingLabelsResolveInTime`, `TestedOnce`, `ControlUsesSamePanel` | no score sees its return, no label its test, and the control judges what was compared |
| `targets` | four names, two sectors and one name without, two factors, missing values, two rebalances in each of two runs, two or three seats, both weightings, caps that bind | `SweepTypeOK`, `SelectionFollowsBuffer`, `WeightsAreSound`, `VariantsShareTheSignal` | seats, weights and signal are what the docstrings promise |
| `composite_direction` | the same | `BetterIsNotScoredLower` violated | finding 2 |
| `validation` | one candidate, a grid of two sizes, two factors, five measurements, two trials of two campaigns, two holdout accesses, an agenda that repeats a hypothesis, one restart | `TypeOK`, `VerdictRestsOnEvidence`, `LedgersAreOneWay` | a verdict is deflated by and drawn from all that was run; the ledgers only grow |

**Why the bounds are enough.**  *Backtest:* four sessions are the shortest history in
which an order is planned, handed back, planned again beside it, and both reach an
open, with a corporate action before and between; two actions allow a split and a
delisting of the same position; a thin bar fills one share of several, an empty
one none.  Money is coarse (quantities in half shares, prices and cash in ones) so
that rounding bites in a small space.  *Paper:* three fills make a
purchase, a sale and a purchase, where a swap changes the clipped result; two crashes
put one in the live process and one in the recovery.  Its prices keep the code's
four decimals, so rounding of the fill price is the code's.  *Dataset:* a stop
needs a build before it to leave something stale and one after it to repair; the
renamed company exercises the skip of rows whose symbol is not listed; two years
give partitions that a rebuild does and does not rewrite.  *Point-in-time:* four writes
fill both files of an instrument, revise one and record an action; a cache of two
entries must drop one when the other instrument is read; two instants make as-of move
there and back.  *Jobs:* four calls let two clients race for a key, lose,
stop and try again; a third client adds no interleaving of a new kind, since only
one holds the lock.  *Ingestion:* four refusals against three retries make one
ingestion fail or two share them.  *Study:* eight months give two folds of the labelled
rebalances and three of all of them, so the two cuts differ; the short data ends before
the last rebalances.
*Targets:* the caps and the coarse unit (a hundredth) make every constraint bind and
every rounding show; two runs are what a shared cache takes to leak.
*Validation:* five measurements stand on both sides of the thresholds on cost (-1 and 0
left at 10 bps, and a loss before costs), on the HHI (1500 and 1925) and on a sector (40
and 41), with and without significance.  With and without sweeps, every combination of
cost-fragile, concentrated and warned of is reached, hence every verdict,
`PAPER_CANDIDATE` with four trials included.  A surface of two sizes is a plateau or a
spike, the two the property speaks of; fifty trials, which warn whatever the
significance, are out of reach here and covered by `VerdictSound`.
*Scores:* a bar of the session itself counts as known at its close, whether or not the code
reads it; a filing of a past period that is made public later does not.

**Which properties are subtle.**  `FailsOnlyOnStaleSale` is an explanation, not a
guarantee: the engine can raise on an oversell, and the property says the only
ways into it are a corporate action between decision and open, or a sale handed
back for lack of volume while a new one is planned.  `DoubleEntry` holds each step to
the rounding of that step: a drift that a test with round numbers never shows.
`RecoversPastAccount` speaks of the account at the last *recorded* fill, not the
last fill: what was filled and not recorded is lost, and the code cannot know it.
`AnswersArePointInTime` compares an answer with a reference that has neither
windows nor caches: an adjusted price must not depend on how wide the request was
or on what was asked before.  It is claimed only outside the two situations the
bookkeeping marks; `NoLookAhead` is claimed in them too.  `StoredIsReadable`
has one exception, which the code has: an ingestion that looked before the file
was there opens it once more, and until it has filled it the file is short.
`ControlUsesSamePanel` needs a rebuild between two commands and holds only because
of the panel cache.  `VerdictRestsOnEvidence` compares the verdict with every worse
combination of evidence: none may be rewarded.

**Fairness.**  Safety needs none, and most specifications have none: they are
driven by somebody who may stop.  The paper specification adds
`WF_vars(Recovery)`: once restarted, the recovery is one thread running a loop over
a list it holds in memory, so it continues as long as it can.  Crashes are finite
(`MaxCrashes`), without which no recovery could be promised.  The job specification
adds `WF_vars(Statement(c))` for each client: a statement of SQLite ends, by its result or
by the timeout of the connection, and a client that has one continues with the next.
A client may still stop anywhere; the operating system closes its connection and
with it the transaction, which `Stop` says.  Nothing is assumed of when calls are made.

**Each property can be broken.**  For every property of a passing run
`PROJECT.json` names a mutant: a definition and a plausible bug in its place,
such as `FillOrder_RestKept` (a partly filled order stays pending) or
`CacheHits_NoStamp` (a cached file is not compared with the one on disk), under which
TLC finds the property violated.  The bugs are operators next to what they would
replace and are used nowhere.

## 5. What is proved

`tlapm` checks every proof to its leaves.  Every safety invariant, action property and
refinement of the passing runs is a theorem, for every value of the constants; the two
liveness properties are not.  The assumptions are the named `ASSUME`s of the constants
(positive units, slippage of at most half the price, well-formed bars, weights,
sources, requests and specifications; one bar per name and session, identifiers of
filings that are unique, a finite grid of sizes, a sweep that never asks for the
configured size), which TLC evaluates for each run.  What is assumed beyond them
stands in the theorem that needs it:

* `ClockAdvances` for the paper account; without it the properties are false.
* `LiquidMarket` (no corporate actions, no bar without volume) for `NoOversell`, and
  `SplitRatios = {}` for `CarriedAtSameValue`, which a split during a halt breaks
  (section 6).
* `StepSize >= TestWindow` for `TestedOnce`, as in every specification the repository has.
* `PurgeCoversLabels` for `TrainingLabelsResolveInTime`: a purge of one period is as
  long as the label horizon on the calendar.  The comment in `models.py:165` says so;
  nothing in the code enforces it.
* `DustIsCovered` and `AlwaysSettles` for `WeightsAreSound` and `SweepTypeOK`: the best
  ranked name can bear the difference rounding left, and the risk engine settles on every
  book a strategy may construct within its rounds.  Both speak of the constants alone;
  `MCRebalances` has TLC evaluate them over all books of its run.  That part of
  `WeightsAreSound` which says that nothing is rejected is therefore checked and not
  proved; the caps, the sums and that nothing is raised are proved.

| Module | Theorem | States |
|---|---|---|
| `BacktestProofs` | `TypeCorrect` | `TypeOK`; quantities and costs of lots stay non-negative through every operation |
| | `Invariance` | the inductive invariant `IInv` |
| | `FilledOnce`, `NoLookAhead`, `LifeCycle`, `AlwaysPriced`, `FailureExplained` | the five safety properties of `backtest_actions`, for any number of instruments, sessions and actions and any bars |
| | `LiquidRunsDoNotBreak` | `NoOversell`, where there are no corporate actions and no bar hands an order back |
| | `BooksBalance` | the action property `DoubleEntry`, for any scales, prices, fees, ratios and number of instruments |
| | `PositionsAreCarried` | the action property `CarriedAtSameValue`, where there are no splits |
| `PaperProofs` | `ReplayAgrees` | the replay loop and the adapter compute the same account from the same fill |
| | `Invariance`, `TypeCorrect`, `RecoveredExactly`, `SavedInLedger` | for any number of instruments, fills and crashes |
| | `Refinement` | the ledger and its replay implement `DurableAccount` |
| `DatasetProofs` | `Invariance`, `TypeCorrect`, `IngestedOnce`, `OwnRows` | for any datasets, sources, builds and stops |
| | `ManifestOverTables` | the action property `ManifestMatchesTables` |
| `PointInTimeProofs` | `Invariance`, `TypeCorrect`, `NeverLooksAhead`, `AnswersAreTheReference` | for any bars, actions, requests, cache limit, writes and restarts |
| `JobProofs` | `Invariance`, `TypeCorrect`, `GivenTheSameJob`, `RecordsKept` | for any clients, jobs, keys and calls |
| | `TableImplementsLedger` | the refinement `ImplementsLedger` |
| `IngestionProofs` | `Invariance`, `TypeCorrect`, `StoredStaysReadable`, `FailuresAreExplained` | for any processes, sources, retries and stops |
| `StudyProofs` | `FoldsInRange`, `TrainEndsBeforeTest`, `TestBlocksDisjoint` | every index of a fold exists; training ends more than the purge before testing; blocks of two folds are disjoint if the step is at least the test window |
| | `ScoresUseKnownRows` | each calculator and composite rests on rows known at the instant asked about |
| | `Invariance`, `TypeCorrect`, `NothingLookedAhead`, `OnePanelPerRequest`, `NoRebalanceTestedTwice`, `LabelsResolveBeforeTests` | the properties of `study`, for any datasets, filings, requests, rebuilds and restarts |
| `ValidationProofs` | `LedgersOnlyGrow` | `LedgersAreOneWay`, for any campaigns, candidates, specifications and actors |
| | `Invariance`, `TypeCorrect`, `VerdictSound` | the invariants of `validation`, for any grid, sleeves, measurements, schemes and agendas |
| | `EvidenceNeverHelps` | more evidence against a candidate never betters its verdict |
| | `SweepInvariance`, `SweepTypes`, `SignalIsShared`, `SelectionIsBuffered`, `WeightsSound` | the properties of `targets`, for any factors, names, sectors, caps, sizes and runs |

**Backtest.**  The safety properties are about the logs and are not inductive: that
a fill has no second one follows only if no *outstanding* order has one.
`BacktestInvariant` therefore ties outstanding orders to their trail.
`OutstandingInv`: identifiers are unique and older than the session, except
those its decision planned.  `TrailInv`: an outstanding order was handed back,
under the same terms, by every open since it was planned, and nothing else
happened to it.  `AttemptsInv` and `KeptInv` say that what an open handed back is
exactly what remains.  `PriceInv` keeps an observed price for each held lot
across the update of `lastKnown`.  `SalesInv` gives for each pending sale a reason it can
be delivered, or a reason it may not; in a liquid market the second kind never
arises.  The step lemmas follow the actions: a type step, then the books, prices and
sales, each by action.

`DoubleEntry` is a statement about one step, so no invariant is added; what it takes is
arithmetic.  `RoundingError` says that rounding misses by half a unit.  A sale rounds its
cash and its result once each (`SaleRounds`), a buy its cash and the average cost of the
lot; a split rounds quantity and cost separately, and the products of what they miss stay
within half of quantity plus cost plus two (`SplitRounds`).  `BooksDiffer` reduces the sums
over all lots to the one that changed, and `BalancedIf` puts the two together.  The sums
are folds; `TotalFacts` says what a fold does with one element, for every finite set.
`CarriedAtSameValue` needs `MarksInv`: outside the close, the last mark of a held position
is its quantity at the last observed close, unless it has a bar and may be traded off.
`PriceInv` then makes the fallback to cost unreachable.

**Paper.**  `IInv` relates three things to the sequence of fills made: `history` is
the adapter folded over it, the ledger is its first `recorded` elements, and the
account under recovery is the `history` entry after those already replayed
(`ReplayInv`).  A clock that advances makes the order of replay the order of the
sequence; without `ClockAdvances` the theorem is false (section 6).

**Dataset.**  `IInv` says that what a build has been through is in its place:
`Handled` is a phase's work less what is still to do, and `ActionsInv`,
`FilingsInv`, `BarsInv` and `TablesInv` say that all of it is stored, while
`CopiesInv` bounds the copies.  The interest of the proof is in non-interference: a
step of one dataset's build leaves what another's has handled (`AllKept`), because
inserts are ignored when the row is there and files are named by the dataset.

**Point-in-time.**  An answer from a cache is right because the cache is:
`CacheCoherent` says that a cached file with the stamp of the file on disk has its
rows, `HistoryCoherent` that a cached history is the table's unless another process
has written, and `AdjustedCoherent` that a cached section is what the facade would
compute now.  The step from there to the reference is that adjustment does not depend
on the window: an action before the window's first bar touches no bar of it, and
the bar before a dividend is in the window or is not needed.
`CachedNotFromTheFuture` needs none of this, so `NeverLooksAhead` holds of stale
caches too.

**Jobs.**  `LockOwner` ties the lock to the one client between its write and its commit;
`PendingIsNext` then says that what it will commit is still what the ledger would
do, because nobody else could commit since.  The refinement maps `Commit` to `Create` or
`UpdateStatus` and every other step to a stutter.  Identifiers are assumed fresh
(`FreshAssumption`, and `Insert` draws an unused one), as those of uuid4 are.

**Ingestion.**  `AttemptsFollowRefusals` bounds the attempts of one ingestion by the
refusals of all, which explains a failure; `ComparedIsThere` says that a file that was
seen is not removed.

**Studies.**  The folds are plain arithmetic; disjointness needs that starts are multiples
of the step apart.  `StudyInv` says of each panel what it was built from: the sessions of
one of the datasets, snapshots of its rebalances that use nothing from after them, labels
entered at the next session.  A rebuild between two reads of a task changes the rows that
follow, never the sessions it works through, so the invariant speaks of sessions and
not of the bars there are now.  `LabelsResolveBeforeTests` goes from indices to dates:
the folds of labelled rebalances are cut on fewer periods than there are, which can only
widen the distance, as counting in a subset shows.

**Validation.**  `IInv` ties the result to the backtests performed: the running
validation has measured what it has performed, in the order of `Variants`, and what is
left to run is the rest of it.  The result is then the outcome of one measurement
of every variant, and `VerdictRestsOnEvidence` is a fact about `Outcome`.  The plateau and
the spike of a surface need only the neighbours of the configured size.
`LedgerInv` keeps specifications recorded once, `CampaignInv` ties a report to the hash
written with it.

**Portfolios.**  `SweepInv` says that every decision is a function of the cached snapshots
of its session; two decisions that agree on the rest are then equal.  Ranks are a
strict total order, by cross-multiplication of the exact scores, and the number of names ahead
is a bijection onto `1 .. n`, from which both passes of the selector count their seats.
The caps hold because the iteration ended at a fixed point: a round that changes nothing
found no name, sector or book to scale, and a round never raises a weight.

**Induction over data.**  The induction theorems of the library cannot be instantiated here,
so the sums, ranks and iterations are handled by the least counterexample: a set of naturals
without a least element is empty (`LeastNat`), and the same by cardinality for the
subsets of a finite set (`BySubsets`).  Both are proved in the modules that use them.

**Only model-checked.**  `RecoveryEnds` and `LockIsReleased`: liveness under fairness is
out of the prover's reach, as is ENABLED.  `AlwaysSettles` and `DustIsCovered`, of the
books of one run.  No module declares RECURSIVE.

## 6. Where the code disagrees with its documents

Two are runs in which TLC finds the quoted sentence violated; `PROJECT.json`
quotes it with its place.

1. `ResolvesUniquely`: each build appends to the symbol history, and after the
   second one `resolve` raises.
2. `BetterIsNotScoredLower`: the declared direction of a factor is not read by the
   composite, and the riskier of two otherwise equal names scores higher.

The others were met while modelling and have no run of their own; "design" is
`docs/superpowers/specs/2026-08-16-quantlab-v1-design.md`.

*Backtest.*
A buy is sized at the close and paid at the slipped open plus fees, so cash may go
below zero (`backtest/accounting.py:61`; design:50).
A split on a session without a bar is marked at the price before the split
(`engine.py:154`; design:892).
A reverse split leaves a fraction of a share, which the exit order trades
(`portfolio/orders.py:89`; design:785).
`all_orders` gains an entry per attempt, not per order (`engine.py:132`).
A corporate action effective on a day without a session is never looked up
(`application/backtests.py:338`).

*Paper.*
Two fills stamped alike are replayed in the order of random identifiers, and a sale
before its purchase is clipped at zero (`paper/recovery.py:26`): without
`ClockAdvances`, `RecoversPastAccount` does not hold.
A sale of more than is held credits the cash in full (`adapter.py:92`).
A second run of a session submits the same order identifiers and buys again
(`application/paper.py:60`; design:1122, "Duplicate scheduler delivery must not create
duplicate orders").
The simulator buys on each of 87 weekdays for 30,045 and overdraws its 1,000,000; it
reconciles the account with itself, so every reconciliation is clean
(`paper/simulation.py`).

*Dataset and data.*
A rebuild over a narrower window leaves the files of the years it dropped, which are
still read (`data/market_bars.py:73`).
Macro release times are compared as text, and a vintage has no unique key
(`data/macro.py:92`).
`UniverseEngine` with a repository finds no candidate (`universe/membership.py:44`).
The quality report never blocks a publication, and `inspect_dataset` verifies the
manifest's own hash, not the tables.

*Studies.*
Factors are asked for as of 16:00 UTC while bars are observed at 21:00
(`factor_research.py:290`, `backtests.py:70`): a score never uses its own session's close,
although `factor_research.py:146` and `docs/calculators/factors-v1.md:15` speak of scores from
that close.  `ScoresPrecedeReturns` allows either.
The embargo is recorded and never applied, and the purge counts periods where
labels count sessions (`ml/walk_forward.py:39`).
The control cuts its real folds on all rebalances and its shuffled ones on the labelled
only (`models.py:258`, `272`): the two may differ in their folds.
Its p-value cannot reach 0.2 with fewer than four permutations.
`availability_lag_sessions` is declared and never read; a missing metric is replaced by
net income, one or 5% growth; the year before a 29 February raises; a missing feature
is imputed as 0.0 (`ml/dataset.py:46`).
A panel cached before a rebuild is used after it, and one built during a rebuild
mixes both versions.
A window that ends in the middle of a month has that day as its month-end.

*Portfolios.*
The engine passes no volatilities, so inverse-volatility weights are equal ones;
`configs/validation/default-v1.yaml:29` names a method, `inverse_vol`, that is not
recognised.
Rounding may leave a sector or the book above its cap by half a unit for each name,
which is the slack of `WeightsAreSound`.
A rejection carries the unadjusted target and is not looked at (`portfolio/risk.py:93`);
`max_turnover_pct` is declared and never read (`risk.py:32`).
The benchmark comparison drops the sessions without a benchmark bar and compares the
next strategy return with one over several sessions (`backtests.py:226`).

*Validation and research.*
A holdout is consumed per candidate, so a revised candidate opens it again
(design:969, 1832); the candidate's identity leaves out the code's fingerprint
(design:1032); the ledgers live in memory only; a second campaign's trial of the same
specification is dropped.
The verdict ignores the shape of the sensitivity surface, no look-ahead is ever
detected, up to five trials never warn, and the hash of a result leaves out the
multiple-testing evidence.
A campaign falsifies every hypothesis with the same constants
(`research/campaign.py:89`), so all of them are validated; a repeated identifier
overwrites the earlier verdict.

## 7. What is not modelled, and why

* In the backtest, target weights are an input: any weights are allowed, so nothing
  proved depends on how they were made.  `Rebalances` makes them, with any outcome of
  the orders in between; the two meet at the target weights and the holdings.
* The calendar: an action is effective in a session here.
* Figures: factor values, returns, Sharpe ratios, fitted models, statistics,
  resampling, neutralization and quantile spreads are floating point.  Scores are the
  rows they are made of, backtests what a verdict reads of them.
* Z-scores of unbalanced cross-sections, and winsorizing, which moves nothing in
  up to a hundred names.
* Macro vintages, universe membership, liquidity filters and the quality report: one
  filtered query each, and nothing in the modelled paths calls them.
* Overlapping builds of one dataset, for which the code does nothing and promises
  nothing; two instruments that share a symbol, the one case in which the
  validation of the symbol history fires; several versions of a dataset.
* `load_account` is an operator: nothing in the source continues from what it
  returns.
* The paper daily cycle, its simulator and reconciliation: thirty fixed orders, and an
  account compared with itself; no state outlives a command, so there is nothing for a
  checker to vary.
* Result objects, reports, analytics, the command line, the API and the MCP server, which
  format or forward what is modelled here; configuration, logging and identifiers.
