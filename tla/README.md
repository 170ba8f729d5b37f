# Formal model of the home-automation schedule analytics services

TLA+ specifications of the aggregation and reporting services, TLC
configurations that check them on small instances, and proofs checked by TLAPS.
Paths are relative to `src/`; `shared_logic/` stands for
`shared-logic/src/shared_logic/`, `aggregation_service/` for
`aggregation/src/aggregation_service/`, `reporting_service/` for
`reporting/src/reporting_service/`.

## 1. The system

Events of home-automation controls are added to counters: for every control,
model and UTC quarter there is one row with a blob of unsigned 64-bit counters, indexed by
state or transition, by clock (UTC, local, mean solar, apparent solar, unequal
hours) and by 5-minute bucket of the week.

| component | state | operations | interacts with |
|---|---|---|---|
| Main API (`aggregation_service/app_factory.py:278-419`, `jsonio.py`) | one SQLite connection per request | declare a control, ingest a holding interval, ingest a transition, export a snapshot | calls ingest, storage, snapshot |
| Ingestion (`shared_logic/ingest.py`) | locals of a request | validate, look the control up, split by quarter, update the row of each quarter | storage transactions; splitters inside them |
| Storage (`shared_logic/storage.py`) | tables `controls` and `aggregates` | schema and migration, upsert, get, read-modify-write under `BEGIN IMMEDIATE` | SQLite's write lock and busy timeout |
| Blob (`shared_logic/blob.py`) | the counters of one row | index functions, `get_u64`, `set_u64` | filled by ingestion |
| Quarter splitter (`shared_logic/quarter.py`) | none | cut an interval at UTC quarters | calendar of `datetime` |
| Clock splitters (`shared_logic/bucketing.py`) | none | cut an interval at the buckets of a clock; bucket of an instant | `zoneinfo`, solar equations |
| Snapshots (`shared_logic/snapshot.py`) | snapshot directory | backup to a temporary file and rename; reset of test files | read by reporting |
| Testing API (`app_factory.py:422-550`) | one database per test name, set of initialised names, one lock per name | the same ingestion, snapshot, reset | called by the validation asset |
| Server controller (`aggregation_service/main.py:56-176`) | stop event, two server threads | start, poll, stop | signals |
| Reporting (`reporting_service/assets.py`) | sensor cursor in Dagster | latest snapshot, sensor tick, summaries, validation flow | reads snapshots, posts to the testing API |
| Bootstrap, paths, slugs, JSON | import path | pure helpers | everything |

What is hard here:

* **Interleaving.** `num_states` is read before the transaction it is used in;
  rows are read, changed in memory and written back; several connections may
  be open on one database (`storage.py:48-49`).
* **Partial failure and crashes.** A holding interval over several quarters is
  committed quarter by quarter (`ingest.py:94-141`), so an error, a lock
  time-out or a crash leaves a counted prefix, and nothing recognises a repeated
  request. Inside one row a clock may raise, or a counter overflow, after other
  counters have been changed.
* **Edges of time.** Quarters that roll into the next year or off the calendar;
  civil time that repeats or skips an hour; solar offsets that move while an
  interval is cut; unequal hours found by probing and bisection, undefined on
  polar days.
* **A set in memory about files on disk.** The testing API remembers which test
  databases it has initialised; files are deleted by resets, and may be from
  outside, and an initialisation may stop after its first table.
* **Files shared without locks** between the exporter, the sensor and the
  summary runs: a file listed may be gone, or replaced, when it is opened; a
  crash may leave a temporary file, or come between a run and the cursor.
* **Clients that give up.** A validation run that times out leaves its request
  in the server's backlog, where it is carried out after the run has ended.
* **One process, many interruptions.** Signals arrive between any two bytecodes
  of the main thread, serving loops die, and `stop()` has several callers.
* **An upgrade under way.** The migration rebuilds a table by rename, create,
  copy and drop while other processes start on the same database or write to it.

What makes each part correct: the write path loses and duplicates no event and
answers truthfully; a row's layout never changes; the pieces of an interval are
the interval, each filed where its time belongs; the blob's layout is dense and
free of collisions; an event changes all its counters or none; a request of the testing
API runs on the complete schema of its own test, and keeps what others had
accepted; readers see complete snapshots only, and the sensor does not stop at
files that come and go; an upgrade is one step for everybody else; a validation
run that is alone validates its own events; no shutdown cuts a request off; and
no function is called before the bootstrap has bound it.

## 2. Modules

| module | what it is |
|---|---|
| `AggregateLedger` | abstract: what the write path promises its clients |
| `Ingest` | the write path: requests, workers, SQLite's lock, crashes |
| `IngestProofs` | its theorems |
| `CounterTable` | abstract: a row as a table that takes an event wholly or not at all |
| `Blob` | layout of the blob and the update functions of `ingest.py` |
| `BlobTable` | `Blob` as an implementation of `CounterTable`: what an event adds to a counter, and how much of it is done |
| `BlobProofs` | theorems about the blob, and that it implements the table |
| `QuarterSplit`, `QuarterSplitProofs` | `split_interval_by_quarter_utc` and its theorems |
| `WeekSplit` | the loop the five clock splitters share, for any clock |
| `Clocks` | the clocks: bucket and next boundary |
| `ClockSplit` | loop and clocks together, and what the pieces mean |
| `ClockProofs` | theorems about the loop, the clocks and both together |
| `TestDbs`, `TestDbsProofs` | the testing API and its per-test databases, and theorems |
| `Snapshots`, `SnapshotsProofs` | exporter, sensor and summary runs over one snapshot directory, and theorems |
| `SchemaUpgrade` | abstract: what `init_schema` promises to whoever looks at the database |
| `Migration` | `init_schema` and the migration, statement by statement, by several processes |
| `Controller` | the process of the two servers: construction, signals, poll, shutdown |
| `ServerProofs` | theorems about the migration and the controller |
| `ValidationFlow` | runs of the validation asset against the testing API |
| `Bootstrap` | `_ensure_bootstrap`, the import path and the two searches for the repository's root |
| `ReportingProofs` | theorems about the bootstrap and the validation runs |
| `MC...` | instances for TLC |

The parts are composed by their interfaces, not by one product of all states:
`Ingest` treats a row as "how often each request was added" and leaves the
counters to `Blob`; `Blob` takes what a clock makes of an event (spans or an
exception) as a constant and leaves the clocks to `ClockSplit`; `Ingest` knows
of the quarters only the first and last of an event, which is what
`ConsecutiveQuarters` and `FailsAtTheEdges` of `QuarterSplit` justify.
`Ingest` and `TestDbs` start from a schema that `Migration` has established
(`SchemaReady`); `ValidationFlow` takes a request to the testing API as one step, which is what the
lock of a test (`TestDbs`) and the single thread make of it; `Snapshots` takes
the commits of a database as numbered versions, whatever they contain.

### Ingest

| variable | code |
|---|---|
| `controls`, `rows` | the tables; a row is its layout (`size`) and the number of times each request was added to it |
| `writer` | the connection between `BEGIN IMMEDIATE` and `COMMIT` or `ROLLBACK` |
| `pc`, `job` | the statement a worker is about to execute, and for which request |
| `size` | `control.num_states` as `get_control` returned it |
| `at` | the quarter of the loop in `ingest_holding` |
| `image` | the `Blob` in memory |
| `answer` | what the client was told |

`Receive` is the payload check and `_validate_*`; `Upsert` is `upsert_control`;
`Lookup` is `get_control`, the range check and the quarter split; `Begin`,
`Read`, `Mismatch` and `Write` are the statements of `update_aggregate` in
order; `LockTimeout` is the busy timeout; `Break` is any other exception
(I/O errors, overflow) with its rollback; `Reply` is `_handle_request`'s mapping; `Crash`
is the death of the process with every open transaction rolled back. A client's
retry is another request with the same payload.

### Quarter and clock splitters

Both loops keep `cur`, the pieces so far and `pc` (`loop`, `done`, `error`).
One action per way through the body: `Cut`, `Raise`, `Return`. Python's
calendar and zone data are the environment. `MonthOf`/`MonthStart` are constants
with the assumption that months partition time; `Wall`, `Fold` and `Timestamp` are
the conversions of PEP 495 for a zone with one change of offset. The solar
equations are floating-point: of them the models keep what the code relies on,
an offset that changes at most hourly (`offset`, `drift`) and half the length of
each day (`half`), 0 where the sun does not rise or set.

### Blob

`stored` is the committed row, `data` the `Blob` in memory, `clock` and `todo`
the two nested loops of the update functions. `Split` takes all the spans of a
clock before the first is added, as the code does, or skips the clock; holdings skip any
`ValueError`, transitions only `UndefinedClockError`. `SplitRaises` and
`Overflow` end the update without a trace, `Commit` stores it.

### TestDbs

| variable | code |
|---|---|
| `file` | the database file of each test: how many tables it has, the requests stored in it |
| `orphan` | a file that was deleted while a worker had it open |
| `initialized` | `_initialized_test_dbs` |
| `lock` | `_test_db_init_locks`; a lock that does not exist yet is a free one |
| `pc`, `job`, `fresh` | the step a worker is about to take, for which request, and `should_init_schema` |
| `copy`, `answer` | what an export holds, what the client was told |

`Acquire`, `Look`, `Open`, `CreateTable`, `Register`, `Run` are the steps of
`_with_test_db` and `_open_test_db_locked` in order, `Unlink` and `Forget` those of
the reset endpoint; `Fail` is an exception at any of them, `Leave` the
`finally` and `with` blocks that close the connection and release the lock.
`Run` treats an event as stored, refused, or failed with or without a stored
part; the statements behind that are `Ingest`. `Delete` is somebody else's `rm`,
for the tests in `Deletable` only, so that the properties of the other tests
say what the code does by itself. The deployed server handles one request at a time;
the locks are written for several threads, and so is the model.

### Snapshots

| variable | code |
|---|---|
| `version` | commits of each source database |
| `dir` | the `*.sqlite` files: whose data, which version, which time of modification |
| `clock` | counts the writes of files, so that a time of modification is a number |
| `pc`, `temp`, `copy`, `since` | an export: its step in `_backup_to_path`, its temporary file, what the backup took, and the source's version when it began |
| `at`, `cands`, `path`, `saw` | the sensor and each run: step, files listed, file chosen, time of the snapshot read |
| `cursor` | the sensor's cursor; runs are named by their run key, the time of the file |
| `crashes`, `removals` | bounds on crashes and on deletions by somebody else |

`Begin` is the endpoint with its lock; `Connect`, `ReadSource`, `Flush`,
`Replace` and `Cleanup` are the `try` and `finally` blocks of
`_backup_to_path` in order, `Fail` an exception in any of them. `List`, `Pick`
and `Compare` are `_latest_snapshot_path_in_dir` and the rest of the tick;
`Summarize` is `_summarize_snapshot`, whose `sqlite3.connect` creates a file that is
gone. `Launch` and `Save` are the daemon's: the cursor of a tick is saved when
the tick is over. One module serves both directories: `Testing` chooses between the main
API's timestamped names and the named snapshots of tests, `OneAtATime` between
the deployed single thread and several.

### Migration

`db` is the committed database, `work` the copy of the transaction in progress,
`writer` who holds the write lock. A row is what it has counted. `CreateControls`,
`CreateAggregates`, `Begin`, `Look`, `DropLeft`, `Rename`, `CreateAnew`, `Copy`,
`DropOld`, `Commit` are the statements in order; `Fail` is an error at any of them
with its `Rollback`, after which `create_main_app` fails and the process is started
again. `Declare` and `Count` are the writes of a process that is up. The initial states
include tables of an older version with orphaned rows and a table an
interrupted upgrade has left.

### Controller

`pc` is the main thread in `run()`, `frames` the signal handlers that interrupt it,
innermost last; nothing of the main thread moves while there is one. `loop`,
`asked`, `isShut`, `taken` and `answered` are socketserver's and Werkzeug's loop
with one request at a time; `flag` and `lock` are the event `_stop` and
the lock inside it, taken and released in separate steps (`Handle`, `GiveUp`,
`SetFlag`). `Enter`, `SetFlag`, `Ask`, `Wait`, `Close` and `Join` are `stop()`, for the
main thread and for other callers. The values of the environment variables
are one choice: `LoadConfig` succeeds or raises.

### ValidationFlow

A run sends the six requests of `Flow` in order, each into the `queue` of the
server's accepted connections, and waits. `Serve` takes the oldest
request, whether or not its client still waits; `Timeout` ends the run and leaves
the request there. Rows hold the set of runs whose event they counted, so that
a property can say whose events a run has read; `with` remembers the runs that
were active at the same time.

### Bootstrap

`path`, `event`, `lock`, `bound` are `sys.path`, `_paths_initialized_event`,
`_paths_init_lock` and the three module globals; each assignment is a step. A
directory is the set of entries the searches look for, and a place is the sequence of
directories from there to the root of the file system. `RepositoryRoot` is the cached
search of `paths.py`, `Marked` that of `bootstrap.py`.

## 3. Runs

Every property of a passing run has a mutant, a plausible bug in a mapped definition (the
operators marked "Mutant" next to what they change), that the run detects. A run that
violates a property shows a behaviour of the code that its documentation denies
(section 6).

| run | instance | shows |
|---|---|---|
| `ingest` | 2 workers, 1 control declared with 2 and 3 states, a two-quarter interval, a transition valid for 3 states only, an interval over the calendar's edge | `AnswersMatchCredit`, `StatesFitLayout`, `OffCalendarUncounted`, `ImplementsLedger`, `BusyForAReason`, `EveryRequestSettled`, under every interleaving, failure, time-out and crash |
| `quarter_split` | every interval over three years of months of two or three instants, and beyond both ends | `Tiling`, `FiledRightly`, `ConsecutiveQuarters`, `FailsAtTheEdges` |
| `clock_split` | 22 clocks (UTC, zones that stay, jump ahead or fall back, mean and apparent solar time, unequal hours with a polar night, the equation of time standing, rising and falling), every interval of up to a day that begins in two days, in a week of 3 days of 2 hours of 4 buckets of 3 instants | `FiledWhereExact`, `MisfiledOnlyInFold`, `DriftBounded`, `SkippedIfUndefined`, `Terminates` |
| `clock_split_fallback` | one zone that falls back by an hour | violates `FiledRightly` |
| `blob` | 8 events, 2 clocks of 2 buckets, 3 states, counters below 5 | `ImplementsTable`; `LayoutIsDense` for 3 states (proved for 2 to 10) |
| `test_dbs` | 2 workers, an event, an export and a reset of one test, an event of another whose file may be deleted | `RunsWithSchema`, `NoPulledFile`, `AcceptedStays`, `EveryRequestAnswered` |
| `test_dbs_deletion` | 2 events of a test whose file may be deleted | violates `DeletionHandled` |
| `migration` | 2 processes, 2 controls, every older or current database of these, 2 failures or crashes, rows that count to 2 | `MigrationInv`, `ImplementsUpgrade`, `SchemaReady` |
| `snapshots` | the main API's directory: 2 exports, 1 commit, 3 writes of files, a crash, a deletion, the sensor and every run it may launch | `VisibleComplete`, `AnswerHolds`, `NewestHasNewestData`, `SummaryCoversRequest`, `NewestRequested` |
| `controller` | 2 servers with 2 requests each, 2 signals, 2 loops that die, a second thread that may call `stop()` | `IInv`, `NoLeak`, `Graceful`, `StopsOrDeadlocks` |
| `flow` | 3 runs, one after the other or overlapping, 1 fault, any number of time-outs | `IInv`, `FlowIsolated`, `NoFalseAlarm` |
| `bootstrap` | 3 threads, 6 installations with 5 import paths, 2 failing imports, 2 retries | `BootInv`, `PathInOrder`, `RootsAgree`, `BootstrapEnds` |

The type and inductive invariants of `Ingest`, `QuarterSplit`, `WeekSplit`,
`Blob`, `TestDbs` and `Snapshots` are proved and not run again, as are `RowsOnlyGrow`, `NeverBusy` and
`MismatchNeedsRedeclaration` of the write path, `Tiling` of the clock splitters,
`CursorIsLaunched` of the sensor and `ExportsOwnEvents` of the testing API.
Every safety property and every action property that a passing run checks is proved as well (section 4).

Why the bounds are enough. *Ingest*: interference needs two workers, one
update and one redeclaration; a prefix needs two quarters; a third worker or
quarter repeats what the second does, and the proofs cover any number.
*Splitters*: each loop iteration depends on where `cur` lies relative to a
boundary and to the end of the interval; every such position occurs, including
day, week and year ends, a bucket longer than the probing step and one
shorter, a probe that meets an undefined day before and after the boundary, and solar time that
passes midnight twice. *Blob*: the events fail before, between and after clocks, and the counters overflow in
the first and in a later span. *TestDbs*: two workers compete for one test, and one
request of each kind suffices to initialise, lose and
initialise again; two tables give an initialisation a middle to fail in.
*Migration*: two failures are one in each of two attempts, or one of each
process; a row of a known and one of an unknown control are all kinds of rows.
*Snapshots*: two exports follow each other (the server takes one request at a time,
and where the main API's exports overlap `NewestHasNewestData` does not hold) or are cut short;
the third write is the file a summary creates. The proofs cover any number, and the
overlapping exports and named snapshots of the testing API, which this run
leaves out. *Controller*: two
signals nest a handler in a handler, and two deaths take both loops.
*Flow*: a run that gives up, one that overlaps with its leavings and one that comes
after both. *Bootstrap*: one thread in the block, one at the lock, one that passes
the first check.

Deadlock is checked in `migration`, `flow` and `bootstrap`, where the only end
is the one stated (`AllReady`, `AllEnded`, `AllDone`). Elsewhere requests run
out, loops end and the process stops, as they should; in `controller` a state without a
successor is the self-deadlock that `StopsOrDeadlocks` names.

**Fairness.** All of it is weak. `ingest` and `test_dbs` assume that a thread that has a request
keeps running; the wait for the write lock
ends by `busy_timeout` (5 s) if by nothing else, and a `threading.Lock` makes
no promise to those who wait, but with finitely many requests the others run out.
The arrival of requests, crashes and the choice among statements are not fair.
The splitters assume that their own thread runs. `migration` assumes that every
process executes its statements and is started again when it has failed
(by whoever operates it: `docker-compose.yml` sets no restart policy). `snapshots` assumes that the sensor keeps
ticking, and nothing of exports and runs. `controller` assumes that the main
thread, the handlers and the loops run and that a request ends, and that a caller who is
inside `stop()` goes on; nobody but the main thread has to call it.
`bootstrap` assumes that every thread runs. `flow` assumes nothing: that
runs are not stuck is what the deadlock check says.

## 4. Proofs

All theorems hold for every value of the constants, under the named assumptions
of the modules, which TLC evaluates on each instance (`PayloadAssumption`,
`CalendarAssumption`; `MonthAssumption`, `InstantAssumption`,
`IntervalAssumption`; `SplitAssumption`, `ClockAssumption`, `ClockWiring`,
`KindAssumption`, `SunAssumption`; `LayoutAssumption`, `EventAssumption`;
`RequestAssumption`; `NameAssumption`; `MigrationAssumption`;
`ControllerAssumption`; `BootstrapAssumption`; `FlowAssumption`).

* **`IngestProofs`.** `IInv` says who holds the lock, that a request has one
  worker, what a worker has established at each statement (`StageInv`: the image
  it is about to write is the row as it is now, since the lock keeps others
  out), and how far each request has been counted (`ProgressInv`,
  `RequestInv`). It is needed because the promised property,
  `AnswersMatchCredit`, speaks of answered requests only, and answers are given
  long after the rows were written. `Invariant` proves it inductive, one lemma
  per part and one step per action. From it follow `TypeCorrect`,
  `AnswersAreTrue`, `LayoutsFit`, `RefusalsHaveReasons`, `OffCalendar`, the action property
  `NoLostUpdate`, and `Refinement`: a `Write` is a `Credit` of the ledger, a `Reply` or
  a `Crash` an `Answer`, and everything else a stutter. `OneWorkerNeverBusy` and
  `MismatchExplained` strengthen `IInv` once more (the lock is free between
  statements of the only worker; every layout was declared).
* **`QuarterSplitProofs`.** The invariant adds that between two cuts the loop
  stands on the first instant of the next quarter. The arithmetic of months and
  quarters is done once, in lemmas.
* **`ClockProofs`.** For any clock: `Invariant`, `TilingHolds`, and `FiledRightlyHolds`
  for clocks with exact boundaries. For the clocks of the code, of any lengths and
  offsets:
  * `UtcExact` says that the boundary is the first instant of another bucket,
    and `LocalPiece` what is left of that across a change of the zone. A zone changes
    at the end of a bucket of its old time (`KindAssumption`): all changes of the
    last decades do; some historical ones at odd minutes do not.
  * Unequal hours. `PseudoRuns` shows that the pseudo time of a day runs from 0 to
    the day's length, at half speed at least, over dawn, noon and midnight; `SameDay` and
    `NextDay` turn this into buckets that only rise within a day and differ between
    days. The bisection is a recursive function on pairs of bounds: `BisectionExists`
    constructs it, bounds apart by one more at a time, and `BisectionFinds` says
    that it returns a point whose predecessor is still in the old bucket, unless it meets an
    instant without sunrise. `SearchFinds` joins it to the probes. `SunAssumption` says
    what the search relies on: solar time falls back by less than a probe while the
    search looks ahead, the probes reach over the longest bucket, twice as
    long as at the equinox, and over less than a day.
  * From these follow `FiledWhereExactHolds`, `MisfiledOnlyInFoldHolds`, `DriftBoundedHolds` and,
    with `Raised` (where the loop raises, no piece could be cut),
    `SkippedIfUndefinedHolds`.
* **`BlobProofs`.** `LayoutDense` writes an index as group, clock and bucket
  (`IndexParts`), shows that groups are numbered without gaps (`Groups`), and
  uses that a number has one quotient and remainder. `Invariant` then gives that
  updates stay inside the blob and counters below 2^64. `UpdateIsOneStep` is the
  refinement of `CounterTable`: a `Commit` adds to every counter what the event
  has for it, everything else is a stutter or an event that leaves no trace. It needs `Underway`: at
  any point of the two loops, what the update has added to a counter of `data` and
  what it has left to add are together what the table adds.
  Sums are recursive functions over sequences: `SumsExist` and `SumsUnique` are
  what induction says of them, `AddedSpanwise` takes them apart span by span.
* **`TestDbsProofs`.** `IInv` says that a lock is held by the worker at work on
  its test (`LockInv`), what each step has established (`StageInv`), that a
  registered test has its tables unless its reset is between deleting and
  forgetting (`SchemaInv`), and where stored events are (`DataInv`, `KeptInv`).
  `SchemaInv` is what makes `RunsWithSchema` inductive: a worker that skips the
  initialisation relies on what another established long before. It needs the
  exception `Disturbed`: a reset that fails after it has deleted the file
  leaves the name behind, and an initialisation that then fails leaves an incomplete file
  under it. `SchemaInv` says that it takes both: after either alone the next request
  finds the file or the name gone, and initialises again. From `Invariant` follow `RunsWithSchemaHolds`,
  `NoPulledFileHolds`, `AcceptedStaysHolds` and `ExportsOwnEventsHolds`.

* **`SnapshotsProofs`.** `IInv` bounds what every file and every export may
  hold (`DirInv`, `ExportInv`), says which temporary files may be left behind
  (`NoStray`), and that a reader's choice is one of its candidates. Three more
  invariants are added where they are needed. For `VisibleComplete`: the names that
  are or may become empty files (`Lost`) are at most as many as deletions, since a connection creates
  a file only if its reader had listed it.
  For the content properties (`LocksHold`): exports of one source
  exclude each other, later ones began with newer data, and data about to be published is at
  least as new as what is in sight. For `SummaryCoversRequest`: with names of
  their own no two files have the same time, and a reader's candidates include the file
  its run was requested for. `AnswerHoldsAlways` and `SummaryCoversRequestHolds` state
  which names they need, because for others they are false (section 6).
  `CursorIsLaunchedHolds` holds the cursor to runs that were launched whenever the daemon
  dies; `NamedSnapshotAdvancesHolds` is an action property of the testing API.

* **`ServerProofs`.** *Migration*: `MigrationInv` says of each statement what the
  statements before it have made of the transaction's copy (`Progress`), that only the
  writer has one, and that committed rows refer to controls that exist.
  `MigrationInvariant` proves it inductive; `UpgradeIsOneStep` is the refinement
  of `SchemaUpgrade`: the commit is the upgrade, `Declare` and `Count` are
  themselves, and every other statement, failure and rollback a stutter.
  *Controller*: `IInv` says what the main thread has built by each stage
  (`StageInv`), which servers a caller of `stop()` has shut down (`StopInv`), that
  the first caller stays until both are done (`FirstInv`), and that no loop serves on
  a closed socket, with every request it took answered or in progress (`LoopInv`).
  `NoSocketLeaks` and `ShutdownIsGraceful` follow from it, each with the exception it
  states: the socket a `SystemExit` leaves open, the servers another caller has still to shut
  down (section 6).
* **`ReportingProofs`.** *Bootstrap*: `BlockInv` says that only the lock's holder is in
  the block, that no unbound function is called, and that the cached root is the root;
  `InsertInv` that whoever inserts the service's root has seen to the shared one. `PathStaysInOrder` and `SearchesAgree` follow;
  the latter shows that both searches end at the first directory that fits.
  *ValidationFlow*: at most one request of a run is on its way, in the backlog or as
  its answer (`PendingInv`). What runs that gave up earlier left in the backlog
  comes before a run's reset, and behind it only the run and its company act, so that
  rows and snapshot hold no other events (`OrderInv`). Alone, a run finds what its
  requests have made, and meets no refusal without a fault (`AloneInv`).
  `RunsAreIsolated` and `FailuresAreFaults` follow.

Only model-checked: the liveness properties `EveryRequestSettled`, `Terminates`,
`SchemaReady`, `NewestRequested`, `StopsOrDeadlocks`, `BootstrapEnds` and
`EveryRequestAnswered`, which rest on fairness and `ENABLED`, out of the prover's
reach. The library's induction theorem takes an operator as a parameter and cannot be
used; induction is done on sets of natural numbers instead (`Induction`), from
`NatLessThanWellFounded` and `WFMin`.

## 5. What is abstracted or left out

* Formatting, logging and the HTTP layer; payloads are records, malformed ones
  a kind of their own.
* Floating point. The wrap of `pseudo_minutes` at midnight and the rounding
  of solar minutes are not modelled, nor the equations themselves.
* Zones with several changes in one interval: each change acts alone, pieces
  being no longer than a bucket and a repeated hour.
* A read outside a transaction sees the last commit and never waits (WAL).
* Decoding of JSON (`jsonio.py`, `http_json.py`): pure functions of one message;
  `Ingest` and `ValidationFlow` keep their outcomes (malformed, status, transport
  error).
* The `TEST_DATA_DIR` override and the check of the asset that a returned path
  stays below the snapshot directory: comparisons of strings.
* The values of environment variables, the Dockerfiles' entry points and
  `supervisord`, but for its restart of a Dagster daemon that has died.
* Times of modification are distinct. Two files written within the resolution
  of the file system's clock would be taken for equally new.

## 6. Disagreements with the documentation

`_next_boundary_local` computes the end of a bucket as a wall time. For the
last bucket before the clocks fall back that wall time first occurs after the
repeated hour, so the piece covers 65 minutes in a zone like
America/New_York (2024-11-03, bucket 1751), and the second pass of the hour is
credited to no bucket of its own. `bucketing.py:72` promises the "next
local-time 5-minute bucket boundary after a timestamp". Run
`clock_split_fallback` shows it; `MisfiledOnlyInFold` (checked and proved) says
that this is the only way in which local time is misfiled.

`_open_test_db_locked` says (`app_factory.py:211-212`) that its existence check
"also handles cases where files were deleted after the process started". Run
`test_dbs_deletion` deletes the file between the check and `open_db`, which
creates it again without tables; the name stays registered, so every later event of
that test fails until a reset or a restart. The same state is reached when
the check does find the file missing but `init_schema` then fails, because the
name is not taken out of the set first.

Disagreements read off while modelling, for which the modules have
the behaviour but no run of their own:

* `main.py:96`: `main.py:59-60` promises predictable "bind failure cleanup". The locked Werkzeug
  does not raise `OSError` for an address in use but exits with `SystemExit`, which passes both
  handlers: there is no "explicit bind failure messaging" (`main.py:275`), and the main
  server's socket stays open (`Bind`; the one exception in `NoLeak` and `NoSocketLeaks`).
* `main.py:131`: the signal handler calls `Event.set`, whose lock is not
  reentrant, on the thread that may hold it. A second signal inside the handler of the first makes
  the main thread wait for itself, and the process never stops, although the
  handler is for "requesting coordinated shutdown" (`main.py:336`). `SelfDeadlock` is this state;
  `StopsOrDeadlocks` says that nothing else keeps the process, and not the first notification.
* `main.py:160-163`: a caller of `stop()` that is not the first returns at once, although the method
  is to "shut down both servers and join their threads" (`main.py:151`) and
  `aggregation/tests/test_main_runtime.py:87` says that double-stop must be safe. In `run()` only the
  main thread calls it; with a second caller `run()` may return while that one is still
  shutting down, and requests of the servers it has not come to are cut off (the exception in
  `Graceful`).
* `assets.py:218`: `_summarize_snapshot` opens the chosen snapshot with
  `sqlite3.connect`, which creates a file that was deleted meanwhile. The empty file is the newest
  snapshot: the sensor requests a run for it, although `assets.py:405` says "when new data exists",
  and summaries fail until the next export (`Summarize`; the deletions in `VisibleComplete`).
* `paths.py:23`: the search wants a directory with `aggregation` in it; the image of the
  reporting service has none (`reporting/Dockerfile:5-7`), so that the path functions raise there and
  the sensor and the summaries find no snapshots, although `paths.py:3-4` has "both services"
  agree on where to find them (`ReportingImage`).
* `snapshot.py:35`: test and snapshot name are joined by a hyphen, which both may
  contain. Test `a` with snapshot `b-c` and test `a-b` with snapshot `c` share one file,
  although `app_factory.py:504` speaks of a file "for a specific test
  database" (`NamesTellTests`).
* `assets.py:324`: an answer that times out raises `TimeoutError`, which is no
  `URLError`; the run ends with an uncaught error instead of the `Failure` that
  `reporting/tests/test_definitions_and_assets.py:137-138` asks for (`Timeout`).
* `bootstrap.py:57`: only what is missing is inserted. A process that starts with both source
  roots on its path, shared-logic first, as `reporting/Dockerfile:18` has it, keeps that order,
  and one that starts with the service's alone gets the shared one put before it, against
  `bootstrap.py:45-46` (the condition in `PathInOrder`).
* `bucketing.py:359-398`: the search for the end of a bucket of unequal hours compares
  buckets of instants. While the equation of time falls, solar time
  falls back at each full hour, and a bucket that ends there is entered, left and entered
  again within those milliseconds; what lies between is counted in the bucket of the
  piece (the third condition of `Steady`). For the same time a day without sunrise can be
  passed over (`Back` in `SkippedIfUndefined`).

## 7. What is left

1. `Snapshots` for the testing API's directory as an instance of its own, with exports that
   replace each other; today that side is proved only.
2. The composition of `ValidationFlow` with `TestDbs`: several serving threads
   instead of one.
3. Variants for the liveness properties: what decreases with every step of a request, of
   an upgrade or of a shutdown, as action properties that can be proved.
