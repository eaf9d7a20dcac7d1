# data-backtest: a formal model

`data-backtest` keeps a *lakehouse* of market data (Parquet files plus an SQLite
manifest), prepares it from a PostgreSQL source, and replays trading strategies
over it in isolated child processes.  It is a single-page web application with
one Node.js server, a command line that works on the same files and the same
SQLite database, and child processes and worker threads started by the server.

What is hard in it is not the arithmetic.  It is that rows of SQLite, files of a
directory and the memory of the server are three records of the same facts,
changed by several actors with `await`s, process boundaries and crashes between
the changes.  These modules model that.

Paths below are relative to the repository's root: code is under `src/`,
documentation under `docs/`, tests under `tests/`.  (`PROJECT.json` names the
same files with a leading `src/`, the root.)

## 1. Inventory

| component | state it keeps | operations | talks to |
|---|---|---|---|
| **Lake publication** `sync/scalars.js`, `sync/bookDatasets.js`, `sync/duckdbParquet.js` | files in a partition's directory, `.tmp` | export a partition: decide, count, fetch, normalise, write, rename, upsert, clean up | source, manifest, exclusions |
| **Orphan cleanup** `lake/cleanup.js` | none (files) | delete what no row points at; after each export and on request | manifest, files |
| **Manifest** `state/manifest.js`, `query/availability.js` | `lake_manifest`: status, active_path, fingerprint, error | upsert, mark stale, accept, revoke, automatic acceptance, usable? | everyone |
| **Exclusions** `state/eventExclusions.js`, `api/qualityHandlers.js` | `event_exclusions` | exclude, restore, both mark the day stale and may queue a job | manifest, prepare jobs |
| **Reconciliation** `sync/scalars.js:67`, `cli.js` | none | re-read the source, compare fingerprints, mark stale | source, manifest |
| **Derived datasets** `sync/ohlc.js`, `sync/backtestTicksLite.js` | files and rows derived from others | export from a partition; cascade of staleness | manifest |
| **Backtest queue** `backtest/queue.js`, `state/backtestRuns.js` | `backtest_runs`; `activeWorkers`, `waiters` in memory | enqueue, wait, drain, cancel, delete, release | children, prepare jobs, API |
| **Backtest child** `backtest/isolatedRunner.js`, `runBacktestJob.js` | its own connection to the same database | run, save, exit | queue (exit event), rows |
| **Prepare jobs** `prepare/runner.js`, `prepare/worker.js`, `state/prepareJobs.js` | `prepare_jobs`; `running`, `cancelRequested` | enqueue, cancel, run serially in a worker thread, recover at boot | exports, SSE events |
| **Asset scheduler** `scheduler/assetUpdates.js` | schedules and their runs | tick, run now, finish by job id | prepare jobs, backup |
| **Telegram backup** `backup/*`, `state/telegramBackup.js` | runs, artifacts per chunk, one slot | backup, restore, cancel, recover | manifest, Telegram |
| **Order simulator** `backtestStudio/gls/orderSimulator.js` | position, lots, consumed liquidity, resting orders, cash | enter, exit, reverse, hedge, resting orders, settle | engine |
| **Engine, pools, sweep** `backtest/engine.js`, `eventPool.js`, `sweep.js` | column sets, partial results | replay, fan out to workers, merge | caches, simulator |
| **Dataset caches** `backtest/datasetCache.js`, `datasetDiskLoader.js` | LRU in memory, column files on disk | load, store, evict, invalidate | manifest, DuckDB |
| **Strategies** `backtestStudio/state/*`, `strategyJs/*`, `gls/*` | strategies, versions, presets, library | CRUD, compile, validate | API |
| **API, auth, SSE** `api/server.js`, `auth/*` | sessions, subscribers | 100-odd routes | all of the above |
| **Lake pull, CLI, health** `ops/*`, `cli.js`, `health.js` | none | transfers, front ends, reports | files, manifest |

*Hard behaviours*, and what makes each component correct:

* Lake: every `await` of an export is a point where another export, a cleanup, a
  reconciliation, an operator or a crash comes in.  Correct means: no row points at a file
  that is not there; row, fingerprint and file tell the same story; a repair of what the
  fingerprint covers is found; an excluded event is not served; readers see whole files,
  swapped atomically; nothing in use is deleted and nothing unused is left.
* Backtest queue: a cancel, a delete, the child's own write and the child's exit
  event come in any order; the server may die and leave children behind.
  Correct means: no more runs than slots, no slot leaked, no wake-up lost, an
  outcome is final, everybody who waits is answered.
* Prepare jobs: the row is written by a thread, the event by the server, and a
  cancel may come at any time.  Correct means: the event agrees with the row,
  the serial queue never blocks, a dependent run learns of the end.
* Telegram backup: one slot for several processes, uploads that fail or are
  cancelled between two chunks, files replaced while they are read, catalogues
  made from the artifacts of earlier runs.  Correct means: a backup that says it is
  completed can be restored from its catalogue alone, a cancelled one neither
  completes nor leaves anything behind, and every run gives its slot back.
* Order simulator: long sequences of legal calls, in hooks that see books change
  from tick to tick.  Correct means: shares and money are conserved through partial
  exits, reversals, hedges and fills of resting orders; the settlement counts each
  of them once; liquidity is not sold twice; a reversal is not left half done.
* Caches and readers: a row read, an await, a file read, a pair of files written,
  by several processes.  Correct means: what is served as version v was read from
  version v, a file that is lost was replaced, and nobody can tell that there is a
  cache.

Every place where this can go wrong is listed with its line under `hazards` in
`PROJECT.json`.

## 2. Modules

```
PublishedLake          what the lake promises a reader          (abstract)
   ^ refined by
LakePublish            exporters, cleaners, reconcilers, operators, source
   ^ extended by       MCLakePublish (instances), LakePublishProofs (theorems)

BacktestQueue          queue, rows, children, waiters, prepare jobs as events
   ^ extended by       MCBacktestQueue (instances), BacktestQueueProofs (theorems)

PrepareJobs            serial runner, worker threads, rows, schedules
   ^ extended by       MCPrepareJobs (instances), PrepareJobsProofs (theorems)

BacktestPrepare        PrepareJobs and BacktestQueue as one server, joined by the
                       job's event (instantiates both; its own instance for TLC)
   ^ extended by       BacktestPrepareProofs (theorems; instantiates the proof
                       modules of both queues)

TelegramBackup         run rows, artifacts, channel, the run at work, restores
   ^ extended by       MCTelegramBackup (instances), TelegramBackupProofs (theorems)

OrderBook              fills against the book of one tick (pure)
   ^ extended by
OrderSimulator         position, lots, resting orders, settlement, event loop
   ^ extended by       MCOrderSimulator (instances), OrderSimulatorProofs (theorems)

ColumnCache            manifest rows, Parquet files, cached column sets, loads
   ^ extended by       MCColumnCache (instances), ColumnCacheProofs (theorems)
```

### LakePublish

One directory of the lake.  The path of a partition does not name its market
(`lake/paths.js`), so the rows of all markets of an underlying, interval and day
share it; that is why a cleanup sees files that are not its own.

| model | code |
|---|---|
| `source[m]` | version of a market's events and ticks in PostgreSQL, as far as a fingerprint covers them |
| `extras[m]` | version of the columns that are exported and in no fingerprint |
| `excluded[m]` | rows of `event_exclusions` |
| `manifest[m]` | status, `active_path`, `source_fingerprint`, `error` of the row |
| `files` | final `part-<runId>.parquet` files of the directory |
| `pc[p]`, `job[p]` | where a call stands, and its local variables |
| `late`, `overlooked` | history: exports whose exclusions were edited after they had read them; markets whose row such an export wrote |

An export is `StartExport` (the skip decision), `Count`, `Fetch`, `Normalise`,
`WriteFile` (temporary file and rename), `Publish` (upsert), then the four
actions of a cleanup: `ReadActive`, `ListFiles`, `DeleteOne`, `FinishCleanup`.
The boundaries are the `await`s; a synchronous stretch is one action (the
reading of the exclusions and the fingerprint, the exclusion and the marking of
the day).  `Abandon` is everything that ends a call early: a cancellation, an
error, the death of the process.  It may hit any process at any point and leaves
what was committed.  Temporary files are left out: nothing ever reads them
except the call that made them.

Data: a source is two version numbers, a file is (run, market, both versions,
exclusions).  A fingerprint keeps what the hash is taken over and no more: the version
of the event counts, the version of the ticks, the exclusions, and whether quality
filters removed ticks.  `sync/fingerprint.js:27-45` hashes a tick's condition, time,
prices, price to beat and best quotes (a book dataset its levels); coverage, degraded,
winner, settlement source, final price and Binance's price go into the Parquet file
(`sync/duckdbParquet.js:278-301`) and into no hash.  They are `extras`, which
`ChangeExtras` repairs.  The error column is reduced to what the automatic
recheck reads of it (`Note`).  The choice in `Quality` is the tick count against
the expected count, which the model does not compute.

Exclusions are edited at any moment, that of an export included.  The upsert of an
export looks at neither the exclusions nor the row it replaces, so an edit after
`Normalise` is lost on it: `Committed` are the exports for which it comes too late,
`late` remembers them and `overlooked` what they publish.  No action reads either.

`SerialWriters` is an assumption of the *environment*, switched per run: the exports
and cleanups of the directory do not overlap.  The code does not guarantee it: a
job exports several partitions at once (`mapPool`), an export of a failed job goes on
beside the next job (`PrepareJobs`, `Straggle`), and the cleanup route, the command
line and `ops/updateLocalLake.js` run beside them.  The passing runs and the theorems
say what holds with it and what holds anyway; `LakeDanglingPath` shows that it is needed.

### PublishedLake

What a reader may rely on: each partition shows nothing or one complete file,
and an export swaps a file for a newer one of the same partition in one step.
`LakePublish!ImplementsPublishedLake` maps `manifest` and `files` to it: the file
behind `active_path` if it exists, and whether the row is usable.

### BacktestQueue

| model | code |
|---|---|
| `status[r]`, `dep[r]` | `backtest_runs.status`, `progress_json.depends_on_job` |
| `child[r]` | the process of `backtestProcessRunner.js`, to the delivery of its exit event |
| `active` | keys of `activeWorkers` |
| `owned` | runs whose child this server process started (it alone hears of the exit) |
| `waiter[r]` | the entry of `waiters`, the promise of a synchronous request |
| `job[j]` | the last the server heard of a prepare job |

A handler of the server runs without an `await` from its first read of the row to
its last write, so it is one action, with the `drain` it ends in: `Enqueue`,
`Cancel`, `Delete`, `OnExit`, `JobCompleted`, `JobFailed`.  `Drain` starts as many
startable runs as there are free slots, oldest first, and covers the two ways a
start fails: an exception while the payload is written (the row stays running,
the drain ends, in the exit event's microtask the server dies), and a spawn error
(the run fails, its slot is freed, nothing is drained).  The child is another
process: it reads the status (`Finish`) and writes the row (`Save`) in two steps,
as `finishExistingBacktestRun` does, its UPDATE naming the row only.  `Die` is a
kill or a crash of it, `Crash` and `Boot` those of the server, whose children live
on.  After a boot the queue is empty and neither queued nor running rows are
looked at, as in `server.js`.

### PrepareJobs

| model | code |
|---|---|
| `row[j]` | `prepare_jobs.status` |
| `worker[j]`, `asked[j]` | the thread of `prepare/worker.js`; the cancel message to it: sent, heard |
| `mail[j]` | the message, `error` or `exit` of the thread that the server has not handled yet |
| `current`, `cancelRequested`, `activeWorker` | the closure of `createPrepareJobRunner` |
| `told[j]` | the last event handed to `onEvent` about the job |
| `exists`, `owner[j]`, `run[j]` | schedules; `prepare_job_id` and `status` of `asset_update_schedule_runs` |

Requests are `Enqueue`, `RunSchedule`, `DeleteSchedule`, `CancelQueued` and
`CancelRunning`; the thread's steps are `Hear`, `StopAtCheck`, `PassLastCheck`,
`Complete`, `Fail`, `Die` and `Straggle`; the server's events are `Settle` (the promise of
`runInWorker` is settled, the listeners are called, the next job starts) and
`OnExit`; `Restart` is the end of the process and the recovery of both tables at
the next boot.  A handler and the microtask `runNext` it queues are one action:
nothing runs between them.  Writing the row and posting the message are two
statements of the thread without an `await`, and the server's own reads of the
row between them cannot tell: one action too.

Several exports of a job are at work at once in its thread, under one `Promise.all`
(`mapPool`, `prepare/executor.js:296`), which rejects as soon as one of them fails or
finds the job cancelled.  The thread then writes its row and posts its outcome while
the others go on: `End` of a job that fails may leave its thread `straggling`, beside
whatever the runner starts next, until `Straggle`.  Such an export may still rename a
file and clean up a directory; it can write no row, as the connection of the thread is
closed.  A job that completes has waited for all of them.

A worker that has posted its outcome does not exit: its listener on `parentPort`
keeps the thread alive.  So only a thread that dies has an `exit` event, and that
event forgets the worker of whichever job is current by then.

Left out: progress, plans and results (they change no status), the clock of a
schedule (it may run whenever it has no active run), attempts that enqueue
nothing (they insert a row that is finished from the start), the inline runner
(`PREPARE_RUNNER=inline`).  What a straggling export does to the lake is in LakePublish:
an export beside others that ends with an `Abandon` after `WriteFile`.

### BacktestPrepare

The server has one handler for the events of both queues (`api/server.js:128`).  On
`job:completed` it finishes the schedule's run and lets the waiting runs go, and the
drain that follows may throw, in the promise chain of the *job*: the runner then
takes the job for failed and says so.  BacktestQueue alone has a job that completes
or fails whenever it likes, PrepareJobs alone a listener that throws whenever it
likes.  Here the two are instantiated with each other's variables: `Announce` is
`P!Settle` together with `Q!JobCompleted` or `Q!JobFailed`, the listener throws
exactly when the drain does (`Thrown`), `Crash` and `Boot` take both down and up, and
a run can name a job that exists.  Every other step is a step of one of the two, taken
over as it is.  Schedules touch the jobs only, and are left to PrepareJobs.

### OrderBook and OrderSimulator

| model | code (`backtestStudio/gls/`) |
|---|---|
| `position`, `lots`, `realizedPnl`, `resting`, `lastBestAsks` | the same variables of `createOrderSimulator` |
| `entries` | the orders of type `entry` in `orders` |
| `asksUsed`, `bidsUsed` | `consumedAsksBySide`, `consumedBidsBySide` |
| `tick` | the row the cursor of `runtime.js` is set to |
| `at`, `hook`, `next` | where the runtime is: which hook runs, or which resting order `checkRestingOrders` looks at |
| `outcome` | winner and `finalPnl` of the event that ended last |
| `cash`, `held`, `erased`, `bought`, `sold` | history: an account kept beside the code's |

The strategy is the environment: in each hook it makes any sequence of `Enter`,
`Exit`, `Reverse`, `PlaceLimitBuy`, `PlaceBuyStop`, `CancelLimit`.
`closeOpenPosition` is an `Exit` at a price the simulator picks.  A call that is
refused before it changes anything is no step; one that is refused *after* it has
marked liquidity as used is (`Enter` and `Exit` without their effect).  The runtime
is that of the default mode, `compiled-soa`: `BeginEvent` runs the first hook on the
tick where the cursor was left, `ProcessIndex` checks the resting orders and runs
`onTick`, an event that has sold everything is finalised early (`HookReturns`),
`EndEvent` checks the last row a second time, `FinalizeEvent` settles.

Data: a side of a book has at most two levels, prices and money are whole numbers,
the cost of a partial sale is rounded down (the code's doubles do not round it; the
accounts must agree whatever the rounding).  A missing lot is a lot of no shares.
The payout of a winning share is `One`.  Left out: fees, which are subtracted
afterwards from the recorded orders, the peak bid, and every view.

### ColumnCache

| model | code |
|---|---|
| `day` | the source's day with its exclusions, as a version |
| `rows[d]`, `made`, `files` | `lake_manifest` rows of the day in `backtest_ticks` and `backtest_ticks_lite`; the Parquet files ever written; those still there |
| `job` | the export under way |
| `cache[d]` | `dt=<day>.columns.bin` and `dt=<day>.meta.json` |
| `load[l]` | the local variables of a `loadBacktestColumnSetWithDiskCache` |
| `torn`, `crossed` | history: slots whose two files are of different stores; loads whose slot was torn, or stored by another load, between their two file operations |

An export is `StartExport`, `PublishTicks`, and, if the ticks are usable, `StartLite`
and `PublishLite`; the lite dataset may also be derived on its own.  A publication is
one step here: LakePublish has its parts, and a reader learns of a file only from its
row.  A load takes the row (`ReadRow`), looks at the cached metadata (`ReadMeta`) and
the columns (`ReadBin`), or else asks the manifest again (`Open`), streams the file
(`Stream`) and stores columns and metadata by two renames (`StoreBin`, `StoreMeta`).
Eviction and clearing remove the two files one by one.

The two reads of a lookup and the two renames of a store are synchronous stretches of
one process.  But children, sweeps, the server and the command line share the
directory, and a cancelled run's child is killed by `SIGKILL`: every file operation is
an action of its own here, and another load, or `Kill`, may come between any two.  A
store that another one crosses, or that is cut in half, leaves columns of one store
beside metadata of another.  `torn` and `crossed` remember it; no action reads them,
`CacheDescribesRow` and `ServedWasPublished` name them as their exception, and
`CacheTransparent` is stated without it.

### TelegramBackup

| model | code |
|---|---|
| `lake[d]`, `newest[d]` | the valid file of a day as a version; the version exported last |
| `row[r]`, `kind[r]`, `origin[r]`, `scope[r]` | `telegram_backup_runs`: status, request, the process that executes it, the range |
| `artifact[d][c]` | `telegram_backup_artifacts`: of which run, of which file, skipped or sent |
| `GroupOf[d]`, `UnderlyingOf[g]` | the group of a partition (underlying, interval, book depth), and its underlying |
| `saw[r]`, `assets[r][g]` | the manifest rows `selectGroups` found; the asset catalogue the run sent or reused for group `g` |
| `sent` | runs whose master catalogue is in the channel |
| `work` | the run at work: its position, the groups and partitions left, `plan.incremental`, errors, its control |
| `waiting` | a stop-all or clear-local that waits for that run |

A request is `Enqueue` (route, daily schedule, end of an asset update), `StartCli`,
`EnqueueRestore`, `Cancel`, `StopAll`; `EnqueueDisabled` is the manual send of a
disabled backup, which `runTelegramBackup` refuses after its row was created.  A
backup is `Ready` (or `NotReady`, or `ThrowEarly` if it was cancelled during the
check), then for each partition `ReadFile` and one of `Unreadable`, `Skip`,
`DryRun`, `StartUpload`; an upload is a `SendPiece` or `FailPiece` per chunk.  At the
end of a group its catalogue is sent (`StartCatalogue`, `CatalogueSent`) or, in an
incremental backup that sent nothing of the group, taken from an earlier run; then
`MasterSent` and `Finish`.  The boundaries are the
`await`s.  The earlier catalogue is `Previous`: as in `getLastCompletedAssetCatalog`, the
first one of the *underlying* in the last completed run that has one, though the groups
of a request are per underlying, interval and depth.  A catalogue that is reused keeps
its `published`, so a run that is not dry and has a group always sends its master; a
completed backup without one does not exist, and neither does the case in which the
code falls back on the last master.  A restore takes the catalogues of a master in turn
(`NextAsset`).  `StopAtCheck` is `assertNotCancelled`, which is called between two
partitions and between two messages and nowhere else; `Break` is an exception
outside a partition.  An export (`Rebuild`) comes in at any time.

A rejection that nobody handles ends a Node.js process, and nothing in the server
installs a handler: `Rejected` is the end of the server unless a stop-all waits for
the run (`Promise.allSettled` handles it).  What a stop-all does after its wait
follows the end of the run in the same turn of the event loop, so no request is
taken in between (`Register`).

Assumed of the environment: a backup of the command line does not overlap one of the
server.  The code does not enforce it: `cli.js` never looks at the slot, and the recovery
at boot cancels the row of a live command line.  Left out: exclusions, the search for a
pinned catalogue, verification, and the restore of the command line, which keeps no row.

## 3. Runs

| run | instance | checks |
|---|---|---|
| `LakeSerial` | 2 markets, 1 exporter, 1 cleaner, 1 reconciler, 2 files written, 2 source versions, nothing that is not hashed; writers take turns | `TypeOK`, `NoDanglingPath`, `CleanupCompletes`, `ReconcileMissesNothing`, `ImplementsPublishedLake` |
| `LakeOverlap` | 1 market, 2 overlapping exporters, 1 event to exclude, 2 files, 2 versions of the hashed and of the other columns, the last one dirty; exclusions edited at any moment | `RowDescribesFile`, `ExclusionsReflected` |
| `LakeDanglingPath` | 1 market, 1 exporter, 1 cleaner | **violation** of `NoDanglingPath` |
| `LakeLateExclusion` | 1 market, 1 exporter, 1 event, 1 file | **violation** of `ExcludedNeverServed` |
| `BacktestSlots` | 3 runs, 2 slots, 1 job, 1 server crash, 1 failed start | `TypeOK`, `RunningWithinLimit`, `SlotsMatchChildren`, `NoIdleQueue`, `FinishedStaysFinished` |
| `BacktestPrepare` | 1 job, 2 runs, 1 slot, 1 trouble (a dead worker, a failed start, a drain that throws, a restart), fairness | `StartedOnPreparedData`, `EveryRunEnds`, `StartedWaiterAnswered` |
| `PrepareSerial` | 3 jobs, 1 schedule, 1 restart, 1 fault, fairness | `TypeOK`, `SerialExecution`, `NoIdleRunner`, `BroadcastMatchesRow`, `RunFollowsJob`, `OneActiveRunPerSchedule`, `CancelReachesWorker`, `OutcomeIsFinal`, `EveryJobEnds`, `NoScheduleBlocked` |
| `TelegramBackups` | 2 groups of one underlying, a day of 2 chunks each, requests for the first day or for both, 2 versions, 2 runs, 1 refused request or dead process | `TypeOK`, `RunningIsAtWork`, `CompletedCoversLake`, `CancelLeavesNothing`, `CancelledNeverCompletes` |
| `TelegramIntervals` | the same 2 groups, 1 chunk, 1 version, nothing refused, no dead process | **violation** of `CompletedIsRestorable` |
| `Simulator` | one event of 2 ticks, 4 calls, 2 resting orders, 3 books of two levels (dear, cheap, none) | `TypeOK`, `PositionBacked`, `MoneyConserved`, `SettlementIsCash`, `NoPhantomLiquidity`, `ReverseNeverLeavesFlat` |
| `LakeReaders` | 2 loads, 2 files, 2 versions of the day, both datasets | `TypeOK`, `CacheDescribesRow`, `ServedWasPublished`, `LostFileWasReplaced` |
| `CacheCrossedStores` | 2 loads, 2 files, 1 version of the day | **violation** of `CacheTransparent` |

Bounds.  `MaxRuns` bounds the files ever written (a file to serve, one to replace it, or
one of each of two exporters that overlap), `MaxSource` and `MaxExtras` the versions (one
change before, between or after two reads), and two markets are enough for a cleanup to
meet a file that is not its own.  For the queue, three runs over two slots are the
smallest instance in which a slot is freed twice while another run could take it and a
third one waits; one crash suffices for children of an old server beside a new one, since
two generations behave alike.  Three prepare jobs are a current one, one that waits for it
and one enqueued while it ends, and enough for a schedule to have an old run whose message
is on the way beside a new one; a fault is a worker that dies or a listener that throws,
and the exceptions the properties make for one cover any number of them.  The queue and
prepare runs allow termination (`CHECK_DEADLOCK FALSE`): when all bounded runs and jobs
are over nothing is left to do.  The lake runs check deadlock.

Two backups are one that is disturbed and one that trusts what it has left; two chunks
are a first one, which bears the sha of the whole file, and a rest.  Two groups with a
day each are what a catalogue of the wrong group takes; a request for the first day alone
is a backup of one group.  One day of a group is a bound of cost: the days of a group
meet only in its catalogue and in its errors.  So are two runs: `TelegramIncomplete`, below,
has three over one group, and passes the properties of `TelegramBackups` as well.  `View` of
`MCTelegramBackup` identifies states that differ in what no later step and no property
reads of a run that is over.  These runs end where the bounded requests do
(`CHECK_DEADLOCK FALSE`).

`CompletedCoversLake` holds of every full backup, and of incremental ones as long as
nothing was refused, no process has died, nothing was restored (`Calm`) and all
backups were of the same range and of one group (`Undisturbed`).  It fails otherwise,
in at least two ways: `TelegramIntervals` with two groups, and `TelegramIncomplete` after
a failure.  `CancelLeavesNothing` supposes that no process dies between a cancellation and
the next check of the run: the boot repairs only rows that are `queued` or
`running`, and the cancelled one is neither.

One job and two runs in one slot are what the composition takes: one run that waits
for the job and one that holds the slot when it is let go.  The
liveness properties except what they name and no more: a job that failed, a trouble.

In an event of two ticks a resting order is placed in one tick, filled in the next and
settled at the end; four calls are an entry, a hedge, a partial exit and a reversal.
Dear and cheap books cross both the limit and the stop, the second level makes fills
walk, the bare book is the row without quotes.  Prices are multiples of a sixth of
`One` so that costs divide.  The two sides are alike, and TLC's symmetry uses it.
An event ends for any winner, or for none, and the next one begins on its last tick.

Two files are one to load and one that replaces it during the load, or one of each
dataset; two loads are one that stores while the other looks up or stores.  With one
version of the day all files of a day have one fingerprint and only the path tells them
apart; with two the edits that make rows stale come in as well.  A second replacement is
left to the theorems, which are about any number of files and of loads.  Loads are alike
and interchangeable.  This run checks deadlock: there is always another event, or another
load.

Fairness (`BacktestPrepare!FairSpec`): a child ends by itself and the event loop
delivers its exit; a worker thread ends by itself and its message is delivered.  It is
weak fairness on these steps of one run, or of one job, together: once one is possible
it stays so until it is taken, as a child or a worker that has work waits for nobody
else.  The engine is a finite replay, and `Die` counts as an end.  No fairness on
requests, cancellations, crashes or boots.  `EveryRunEnds` and `StartedWaiterAnswered`
are void once the server has crashed, a worker has died or a child has failed to start
(`Troubled`): the code has no recovery for these (see below), and claims none.

For prepare jobs `FairSpec` says that a worker ends by itself and that the event
loop delivers its message.  The first is an assumption: a query that hangs keeps
the runner for ever, as the code has no timeout and a cancellation is only looked
at between two steps.  `EveryJobEnds` leaves the job of a dead worker `running`,
which is what the code does until the next boot, and demands that all others end.

### What the violations say

* **Cleanup beside an export** (`lake/cleanup.js:31`).  The active set is read,
  the export renames and upserts, the listing shows the new file, the cleanup
  deletes it: the row is valid and its file gone.
  `docs/operacao/operacao-lakehouse.md:469` forbids it.
* **An exclusion during an export** (`sync/scalars.js:238`).  The export has read the
  exclusions, the operator excludes an event and the row is marked stale, the export
  writes its row over the mark: the event is in a file that is valid, and the job that
  the exclusion asked for skips the day.
  `docs/arquitetura/arquitetura-qualidade-eventos.md:173` keeps the event out of the
  file.  `ExclusionsReflected` is what holds: this is the only way, but for an operator
  who accepts the stale row.
* **An incremental backup of two intervals** (`state/telegramBackup.js:237`).  A full
  backup of two intervals of an underlying, then an incremental one with nothing to
  send.  For each interval it takes over the first catalogue that the full one has of
  the *underlying*: the first interval is named twice, the second not at all, and the
  run is completed.  Nothing was refused, nobody died.  If one of the intervals has
  changed, its catalogue is new, and the other interval is given the old one of the
  first, which a restore then puts back over the new one.
* **Two stores of a day** (`backtest/columnSetDisk.js:40`).  One load has read the day
  before it was exported again, another after it.  The columns of the new one are put
  in place, then those of the old one, then the metadata of the old one and of the new
  one: path and fingerprint are those of the published file, the columns are not, and
  every lookup accepts them.  A kill of the old one between its two renames does the
  same.  `docs/arquitetura/arquitetura-v2-performance-ux.md:217` invalidates a cached
  day by path and fingerprint.

### Further instances

Five more configurations each violate one property.  They are not among the runs of
`PROJECT.json`; `tlc -config <instance>.cfg <module>` gives their traces.

| instance | module | violates |
|---|---|---|
| `LakeUnhashedRepair` | `MCLakePublish` | `ReconcileSeesEveryRepair` |
| `PrepareStraggler` | `MCPrepareJobs` | `OneJobExports` |
| `TelegramIncomplete` | `MCTelegramBackup` | `CompletedIsRestorable` |
| `SimulatorHedge` | `MCOrderSimulator` | `HedgeLotSurvives` |
| `CacheWarmup` | `MCColumnCache` | `CacheTransparent` |

* **A repair that no fingerprint covers** (`sync/fingerprint.js:27`).  The settlement of
  an event is corrected after its day was exported.  Reconciliation hashes the same
  columns as before and leaves the partition valid; the winner, the final price and
  Binance's price in the Parquet file stay what they were.
  `docs/operacao/operacao-lakehouse.md:387` has a partition stale when its source
  changes.  `ReconcileMissesNothing` is what holds: nothing that is hashed is overlooked.
* **A job beside the rest of a failed one** (`prepare/executor.js:306`).  One of two
  exports of a job fails, `Promise.all` rejects, the row says failed, the next job
  starts, and the other export goes on.  `README.md:207` says that jobs run serially.
  `SerialExecution` is what holds: only the current job's thread decides an outcome,
  and a completed job has left nothing at work.
* **An incremental backup after an interrupted one** (`backup/upload.js:450`).  The
  artifact of the first chunk bears the sha of the whole file and is written before
  the other chunks are sent.  If they never are, the next incremental backup takes
  the file for sent, skips it and, having sent nothing, reuses the catalogue of the
  last completed run: it is `completed`, and the file the manifest names is in no
  catalogue.  `docs/operacao/operacao-lakehouse.md:539` promises a catalogue from
  which the lake can be restored.
* **A hedge on the side of the new position** (`gls/orderSimulator.js:86`).  With a
  position in one side and a filled hedge in the other, a reversal, an exit followed
  by an entry, or the fill of an entry limit overwrites the hedge's lot.
  `docs/arquitetura/extensao-order-simulator-maker-limit.md:93` says that it dies at
  the settlement only.  `MoneyConserved` and `SettlementIsCash` hold of the rest:
  what was overwritten is counted apart (`erased`).
* **A warm-up before a backtest** (`backtest/datasetDiskLoader.js:31`).  The warm-up
  stores the day without the filter of a backtest, under the key of the backtest.
  The route's request also carries the default `limit` of the reading routes
  (`query/request.js`), so what it stores may be the first thousand rows of the day.
  `docs/analise-quantitativa/dicionario-dados-lakehouse.md:237` calls the cache
  transparent.

## 4. Proofs

Every invariant and action property of the passing runs, and the refinement, is a
theorem, checked by TLAPS for every value of the constants that satisfies the
assumptions of the module (`ProcsAssumption`, `ParametersAssumption`,
`QueueAssumption`, `PrepareAssumption`, `ServerAssumption`, `CacheAssumption`,
`BackupAssumption`, `BookAssumption`, `SimulatorAssumption`: bounds are numbers,
a "none" is not one of the values, the options are of their types).  What a theorem
supposes of the environment beyond them is in its statement, and that is one thing:
`SerialWriters`, that the exports and cleanups of one directory do not overlap, a
constant that the model leaves open; `LakeDanglingPath` shows what happens without it.
Where a property has an exception (`overlooked`, `torn`, `crossed`, `Undisturbed`), the
exception is in the property, and a violation shows that it is needed: those of
`LakeLateExclusion`, `CacheCrossedStores`, `TelegramIntervals` and `TelegramIncomplete`.

| theorem | statement | inductive invariant |
|---|---|---|
| `Typing` | `Spec => []TypeOK` | itself |
| `Provenance` | `Spec => []RowDescribesFile` | `ProvenanceInv`: also, between rename and upsert the new file describes what the exporter read |
| `NoDangling` | `SerialWriters` implies `Spec => []NoDanglingPath` | `DanglingInv`: also, at most one writer is busy, and what its cleanup remembers is still right: it spares every row's file, and nothing it is about to delete is a row's |
| `ExclusionsHold` | `Spec => []ExclusionsReflected` | `ExclusionInv`: also, an export past its reading of the exclusions holds the current ones or is `late`, and a stale row keeps its reason |
| `NothingIsLeftOver` | `SerialWriters` implies `Spec => CleanupCompletes` | `DanglingInv` and `OrphansAreListed`: what a cleanup has left to do is exactly the files that no row names |
| `RepairsAreNoticed` | `SerialWriters` implies `Spec => ReconcileMissesNothing` | `SourcesGrow`: row, export and source are ordered by version, and what a reconciler has seen is not newer than the row |
| `PublicationIsAtomic` | `SerialWriters` implies `Spec => ImplementsPublishedLake` | `DanglingInv`, `FileDescribesJob` and `RunsGrow`: a file about to be published is newer than the one it replaces |
| `QueueTyping` | `Spec => []TypeOK` | itself |
| `FinishedForGood` | `Spec => FinishedStaysFinished` | `ChildInv`: only a child that saw `running`, of a run not finished since, is about to save |
| `SlotLimit` | `Spec => []RunningWithinLimit` | `SlotInv`: a running run of this server holds a slot, and slots are within the limit |
| `SlotsAccounted` | `Spec => []SlotsMatchChildren` | `ChildInv` and `SlotInv` |
| `NoRunForgotten` | `Spec => []NoIdleQueue` | itself, with `SlotInv`, `ChildInv` and `DownInv`: the server is down only after trouble |
| `PrepareTyping` | `Spec => []TypeOK` | `PrepareInv`, below |
| `OneThreadDecides` | `Spec => []SerialExecution` | `PrepareInv` |
| `NoLostWakeUp` | `Spec => []NoIdleRunner` | `PrepareInv` |
| `WrittenOnce` | `Spec => OutcomeIsFinal` | `PrepareInv` |
| `BroadcastIsTrue` | `Spec => []BroadcastMatchesRow` | `PrepareInv` |
| `RunRowFollows` | `Spec => []RunFollowsJob` | `PrepareInv` |
| `OneActiveRun` | `Spec => []OneActiveRunPerSchedule` | `PrepareInv` |
| `CancelIsSent` | `Spec => []CancelReachesWorker` | `PrepareInv` |
| `ServerIsBothQueues` | `Spec => P!Spec /\ Q!Spec` (BacktestPrepare) | none: every step of the server is one of each queue, or none of its business |
| `StartsOnPreparedData` | `Spec => StartedOnPreparedData` | `PrepareInv` and `ChildInv` of the two queues, carried over |
| `CacheTyping` | `Spec => []TypeOK` | itself |
| `FileGoneIsReplaced` | `Spec => []LostFileWasReplaced` | `RowInv`, `MemoryInv` |
| `CacheIsCurrent` | `Spec => []CacheDescribesRow` | also `PairInv`, below |
| `ServedIsPublished` | `Spec => []ServedWasPublished` | also `PairInv` |
| `BackupTyping` | `Spec => []TypeOK` | with `PlaceInv` and `RowsInOrder` |
| `SlotIsFreed` | `Spec => []RunningIsAtWork` | the same |
| `CancelHolds` | `Spec => CancelledNeverCompletes` | also `ToldInv` |
| `CancelIsClean` | `Spec => []CancelLeavesNothing` | also `ToldInv`, `StopInv` |
| `CompletedIsCovered` | `Spec => []CompletedCoversLake` | ten parts, below |
| `SimulatorTyping` | `Spec => []TypeOK` | `SimInv`, below |
| `PositionIsBacked` | `Spec => []PositionBacked` | `SimInv` |
| `MoneyIsConserved` | `Spec => []MoneyConserved` | `SimInv` |
| `NoLiquidityTwice` | `Spec => []NoPhantomLiquidity` | `SimInv` |
| `SettlementIsTrue` | `Spec => []SettlementIsCash` | itself, with `SimInv` |
| `ReverseEndsInPosition` | `Spec => ReverseNeverLeavesFlat` | `SimInv` |

**The lake.**  `NoDanglingPath` alone is not inductive: a cleaner with an outdated set in
its hand destroys it in the next step, and the strengthening excludes exactly that
state, which is reachable without `SerialWriters`.  The refinement goes step by step
(`PromiseStep`): where no row dangles a reader is shown what the row says
(`ShownIs`), so a publication is a `Swap` (`ShownSwapped`), a step that changes one
row and keeps its file is an `Offer`, a `Withdraw` or a stutter (`ShownMarked`), and
every other step, a deletion above all, changes no row and is a stutter.  That the
swap goes to a newer file needs `RunsGrow`: run ids only grow, and nothing else of
the market is published between the rename of a file and its upsert.

**The queue of runs.**  The proofs rest on lemmas about `Drain`, the one operator
that all handlers end in: what it does to a row (`DrainStates`), that a finished run
is spared (`DrainSpares`), that the batch it starts fits the free slots
(`BatchFits`, `UnionFits`, `DrainSlots`) and that it leaves a startable run only if
it has filled them (`BatchFills`, `DrainFills`), facts about cardinalities of finite
sets of numbers proved from `FiniteSetTheorems`.  `NoIdleQueue` survives the steps
that do not drain since each of them leaves a child whose exit is yet to come.

**Prepare jobs.**  `PrepareInv` adds to the properties what makes them hold from step to
step: a live thread belongs to the current job, whose row is running and which has posted
nothing, and one that straggles is of a job that failed (`ThreadInv`); the runner reaches
the current job's thread until one dies (`RunnerInv`); ids are given in order and a run
row has a job and a schedule (`OwnerInv`); and of two open run rows of a schedule the
older one's job is over (`NewestInv`).  The last one is why `hasActiveAssetUpdateRun` may
look at the newest open row only.  Each action preserves each part by a lemma of its own.

**Both queues.**  `ServerIsBothQueues` makes every theorem about PrepareJobs and
BacktestQueue one about the server.  BacktestPrepareProofs carries two invariants over
(what is posted as completed has been written; no child is about to save a run that is
still queued), and a drain skips the runs that wait (`DrainSkipsWaiting`): only the event
of a completed job can start one.

**The column cache.**  `RowInv` (a row's file is there and is of its dataset) and
`MemoryInv` (whatever the cache or a load holds was published for its dataset, and
no load streams an older file than the row it began with) hold of every slot and every
load.  `PairInv` is about those that are not torn or crossed: metadata are of a row not
newer than the columns beside them, and columns that a lookup has accepted, or that a
store is to label, stay where they are in between, or are removed.  What the proof adds
to it is that every step that could break such a pair, the columns of a second store
and the kill of a first one, leaves the slot or the load marked.

**The backup.**  `CompletedCoversLake` speaks of a run when it is over, and what makes it
true is spread over its walk and over earlier runs.  `PlaceInv` says where a run is and
what its variables are about; `PastInv` that a row yet to come has left no trace;
`AssetInv` that a backup has a catalogue for just the groups it is done with; `CoverInv`
that what it has passed without an error is whole in them, or in the entries of the group
it is at, which is all that a full backup needs, of any number of groups.  An incremental
one trusts others: `WholeInv` (undisturbed, a file whose first piece is known is in the
channel as a whole), `KnownInv` (what is known is in the lake, not newer than it, and was
seen by every run that names its day), `RestInv` (between backups the artifacts are what
the last completed one has seen, or some file is due), `AtWorkInv` (the same while one is
on its way, with what it has changed) and `ClearedInv` (the records of other runs go with
those of the run at work).  These speak of an undisturbed past, and so of one group: a run
then has one catalogue, a completed one at most one to be reused, and it is of the same
days.  `Undisturbed` is part of the property, not a hypothesis of the theorem.

**The simulator.**  `SimInv` is equivalent (`SimInvIs`) to `TypeOK`, `PositionBacked`,
`MoneyConserved`, `NoPhantomLiquidity`, `LotsInv` and `UsedInv`.  The last two are
what the properties lack.  `debitLot` takes the cheaper of a cost and what the lot
has, so the account closes at the sale of a whole position only if a lot of no
shares has no cost, and a lot that is all the position has just the position's cost
(`LotsInv`).  And a book is protected only if what was taken in this tick is still
reserved: a dry plan writes the tallies it is given and a refused call leaves them
changed, so that no plan forgets a price of the book (`UsedInv`) is what keeps a
level from being sold twice.  The lemmas are about the pure part: a fill takes no
more than it was asked for and than a level shows (`FillFacts`, `FillFits`), the
committed plan fills what the dry one before it did (`SameFills`), which is why a
reversal never stops half way, and a purchase, a sale and a settlement balance
(`OpenBalances`, `SaleBalances`, `CreditBalances`, `Settled`).

Only model-checked: the liveness properties `EveryRunEnds`, `StartedWaiterAnswered`,
`EveryJobEnds` and `NoScheduleBlocked`, which are beyond the prover (no backend for
fairness and `ENABLED`).

## 5. Not modelled, and the plan

Next, in this order:

1. TelegramBackup: command line and server overlapping, two days of a group with
   their mixed outcomes.
2. The OHLC dataset with its `writing` rows and its lineage.
3. Proofs: books of any depth in OrderBook (its two levels are a bound of the model,
   not of the code), and what the lake promises while writers do overlap.

Left out for good: parsing, compiling and interpreting strategies (pure functions with
parity tests), the numeric replay of the engine and the quality heuristics (floating point
over ticks), column sets and the worker pools of the parallel replay, the in-memory cache
of column sets (it lives in the process of one run), HTTP plumbing, authentication, the
browser code, file transfers, bundled strategies and research scripts.  The
`worker_threads` branch of the backtest queue (`BACKTEST_ISOLATE_PROCESS=0`) is not the
default and is not modelled.

Observed while reading, without a run of its own.

*Lake*: nothing marks the lite dataset when its ticks are exported again or no longer usable
(`sync/backtestTicksLite.js:57`, `prepare/executor.js:144`), although
`docs/arquitetura/arquitetura-lakehouse-backtest.md:379` wants staleness to cascade;
a failed OHLC export leaves its row `writing` without the path it had.

*Queues*: a run enqueued with a job that is completed already stays queued for ever
(`backtest/queue.js:61`; `docs/referencia/contratos-api-schemas.md:1144` has it queued
until `job:completed`); a synchronous request whose run is cancelled before it starts
is never answered (`queue.js:221`); a worker thread that dies is announced as failed and
its row stays `running` until the next boot (`prepare/runner.js:150`).

*Simulator*: a limit is filled only by a tick whose ask is at least `makerFillEpsilon`
below it, when the tick before was not below it: an ask that creeps through in two steps
never fills it; a side without a book sells endlessly at the price the strategy names;
a stop that must buy again consumes the liquidity of both tries; a stop placed within
epsilon above the ask triggers at the next check without any move; the first hook
of an event trades on the last tick of the event before, so a parallel replay, where
an event begins a slice, need not agree with the sequential one; the early end of an
event looks at the position and the resting orders and not at open hedge lots.

*Elsewhere*: a running row whose server died
or whose payload could not be written is never recovered; queued rows are not
drained at boot; a spawn error frees a slot without draining; a revoked
near-tolerance acceptance is undone by the next availability check; a rebuild
deletes the replaced file at once, although the documentation keeps it until a
cleaning policy (`docs/operacao/operacao-lakehouse.md:331-343`);
the idle worker threads of finished prepare jobs are never terminated;
a partition with an excluded event or filtered ticks is marked stale by every
reconciliation although its source never changed, as export (`sync/scalars.js:222`)
and reconciliation (`:57`) fingerprint different rows; a backup sent by hand while
backups are disabled, which the message at `api/server.js:400` recommends, leaves a
queued row that holds the slot until it is cancelled; cancelling a backup during its
initial check, or a restore whose catalogue cannot be read, rejects a promise that
nobody handles and ends the server; a skipped partition's artifact replaces the one
of its first chunk, so every second incremental backup sends the file again; a
completed dry run or restore turns the next incremental backup into a full one;
an incremental backup of all days after one of a range reuses the catalogue of the
range; a cancelled run may
end as `completed` when its child had already read its row.
