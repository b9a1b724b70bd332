# Formal model of the backtest tool

TLA+ specifications of the Chimera backtest service (`src/`), checked with TLC
on small instances. Every safety property that a passing run checks is also
proved with TLAPS, for every value of the constants; the two liveness properties
are TLC's alone. Paths below are relative to the repository.

## 1. The system

The service is one Python process: a FastAPI application on one asyncio event
loop, with blocking work (Cloud Storage, Betfair, replaying files) pushed to
threads. It accepts a backtest job, replays historic Betfair market files
through a pure strategy function, settles the bets and stores a result document
in a bucket.

| Component | State | Operations | What makes it correct |
|---|---|---|---|
| Job life cycle (`main.py:463-538`, `backtest_service.py:74-229`) | the `JobRecord` a worker mutates, the counters of the event bus | submit, `_run_with_semaphore`, `run` | every accepted job ends with one outcome, the same in memory, bucket and event stream |
| Semaphore (`main.py:95,531`) | value, waiters | acquire, release | no permit is lost or made up, nobody waits for ever |
| Job store (`core/job_store.py`) | `_jobs`, `_results`, `_cancellations`, `_last_persist_at`; `status.json` and `result.json` in the bucket | register, update, get, save_result, get_result, list_results, request_cancel, is_cancelled, clear_results_cache | a durable success has its result, a terminal record is durable, an accepted cancellation is kept, a poll never covers the worker's record with an old document |
| Event bus and SSE (`core/events.py`, `main.py:272-347`) | subscriber queues, activity log, counters | publish, subscribe, recent_activity, record_job_finished | a stream has no gap, only a connection that lags is dropped, the log holds the newest events |
| Evaluator (`evaluator.py`) | none (pure) | evaluate | first matching rule, the real favourites, the stake formula, rounded once |
| Market replay and settlement (`backtest_service.py:347-561`) | last books, markets done, decisions | one iteration per book, settle, summarise | one evaluation per market, before its off, without hindsight; settled on the final result |
| Sources (`gcs_service.py`, `historic_service.py`, `backtest_service.py:231-375`) | bucket listing, work directory, mirror | `_resolve_source`, list, download, mirror, `_process_file` | exactly the files of the range, of one source; one file on disk, as far as it can be removed; nothing counted twice unnoticed |
| Listing (`job_store.py:130-191`) | none of its own | `list_results` | pages ordered and full; a job is skipped or repeated only when the listing changed |
| Configuration (`core/config.py`, `main.py:195-220`) | settings of the process, the bucket of the store | get_settings, PUT config, restart | documents are found where they were written |
| Secrets (`services/secrets_service.py`) | cache | get_secret, get_betfair_credentials | a bundle is complete and of this process's life; it settles |
| Plugin store (`core/plugin_store.py`) | registry, filled once | refresh, get, list | not modelled |
| Views, rendering, logging | none | read-only endpoints, JSON/xlsx/parquet | not modelled |

How they interact: an HTTP request calls the job store and the bus on the event
loop and leaves a background task behind. The task waits for the semaphore,
then alternates between the loop and threads, calling job store and bus. Admin
requests (cancel, clear, poll, download, SSE) run between any two of its
awaits. A crash of the process loses everything but the bucket. Hard
behaviours: these interleavings, uploads that fail or may land although they
raise, the throttle of progress uploads, crashes, full queues, and the boundary
values of prices and times. `PROJECT.json` lists each hazard with its line and
the properties that cover it.

## 2. Modules

| Module | Models | Depends on |
|---|---|---|
| `AsyncSemaphore` | `asyncio.Semaphore` (library; external) | |
| `JobStore` | the store, its caches, the throttle, the two documents | |
| `BacktestJobs` | submit, worker, admin controls, crash; composes the two above | `JobStore`, `AsyncSemaphore` |
| `ResultsArchive` | what the bucket promises a reader: the abstract specification | |
| `EventBus` | queues, subscribers, activity log | |
| `Evaluator` | `evaluate()` as constant operators | |
| `EvaluateCall` | one call of `Evaluate` and its properties | `Evaluator` |
| `MarketReplay` | the loop over the books, settlement, summary; calls `Evaluate` | `Evaluator` |
| `Settings` | the settings of the process and the bucket of the store | |
| `SecretsCache` | Secret Manager, the cache, threads that fetch a bundle | |
| `SourceJobs` | choice of source, listing, download, mirror, the loop over the files, counters, reconfiguration, rotation, restart; composes the two above | `Settings`, `SecretsCache` |
| `ResultsListing` | `list_results` and a reader that pages through it | |
| `BacktestJobsProofs` | theorems and proofs | `BacktestJobs`, TLAPS |
| `FiniteSums` | lemmas about least numbers, induction over finite sets, sums | TLAPS |
| `EventBusProofs` | theorems and proofs | `EventBus`, TLAPS |
| `EvaluatorLemmas`, `EvaluateCallProofs` | lemmas about `Evaluate`, theorems and proofs | `Evaluator`, `EvaluateCall`, `FiniteSums` |
| `MarketReplayProofs` | theorems and proofs | `MarketReplay`, `EvaluatorLemmas` |
| `SourceJobsProofs` | theorems and proofs | `SourceJobs`, `FiniteSums` |
| `ResultsListingProofs` | theorems and proofs | `ResultsListing`, TLAPS |
| `MC*` | constants for TLC | |

### Granularity of `BacktestJobs`

A step is the code between two points where a coroutine really waits. An
uncontended `asyncio.Lock` does not suspend, and no block under the locks of the
store or the bus awaits anything, so store and bus methods are atomic up to
their thread call. `pc[j]` names the await a job stands at: `registering`
(upload in `register`), `dispatched`, `waiting` (semaphore), `persistStart`,
`planning`, `persistTotal`, `processing`, `persistProgress`, `savingResult`,
`persistSuccess`, `persistFailed`. The step out of an upload has three outcomes:
it landed, it failed, or it landed although the call raised. The landing of an
upload is merged with the resumption of its coroutine. Nothing is lost by that:
the only other readers of the object are the reads through the cache, which may
be scheduled before or after, and the crash, for which `Crash` lets every upload
in flight land or not. Download and replay of one file are one thread step; what may go wrong with
the files on the disk is in `SourceJobs`. The `mkdir` of the work directory is
assumed not to raise; documents in the bucket are never corrupt.

`rec[j]` is the record the worker mutates (`status`, `done`, `total`,
`summary`); `cached[j]` says whether `_jobs` holds that very object, a copy
parsed from the bucket (`copy[j]`), or nothing. The read through the cache is two
steps, the read of the bucket and the `setdefault` after it. `cleared` is history: the jobs whose
worker's record a clear dropped from `_jobs` since the worker stored it last.
`recent[j]` is "less than two seconds since the last upload". A client asks only
for a job whose id it has seen; nobody guesses an id before `submit_backtest`
draws it. `asked[j]` is history: a
cancellation accepted while the loop still had a check ahead, and whether a
clear dropped it.

### `EventBus`

Methods are atomic for the same reason. `Disconnect` and `Close` are two steps:
when the response is cancelled while it sends, the async generators are closed
by the event loop later, and until then the bus goes on filling the queue.

### `Evaluator` and `EvaluateCall`

Integers: prices are in hundredths. The stakes of the rules, the uplift and the
point value may have decimals: they are multiples of 1/`Grain`, for any `Grain`,
and their product, which is the stake before rounding, is carried in full; the
code rounds it once, to a penny, after it may have halved it
(`evaluator.py:283`). `Penny` is the number of units in which a stake is carried
that make a penny (twice `Grain` cubed, for the half). An uplift of 0 counts as 1,
as in `evaluator.py:155`. A runner without a status (`""`) is in the betting
like an active one, a market without a country (`""`) passes the filter. The
code computes with floats, so `Nearest` allows either way at a tie and
`Difference` lets a gap be a hair off: `3.2 - 3.0 > 0.2` but `1.7 - 1.5 < 0.2`.
`Evaluate` is therefore a set of answers. Names, notes and messages are left
out. `EvaluateCall` states what each answer must satisfy in terms of the
arguments. `InputsAssumption` says what the schemas validate (a rule has a
stake, no amount is negative, the ceiling is above the floor) and, of the model,
that no gap is beyond `Infinity`; `GrainAssumption` that `Grain` is positive.

### `MarketReplay`

One step is one book. The feed is the environment: time advances by 0 or 1, a
price moves, the race is rescheduled, a horse withdrawn, the market goes in play,
or the result arrives (one or several winners, starting prices present or
not), and the file may end anywhere. `publish_time` is never missing and a
runner that was bet on never leaves the book, as the feed library guarantees.
The order of the rows is not modelled. `market` is the truth of the feed,
`lastBook` what the code remembers of it. Only whole time units are
distinguished: what matters is which side of the off and of the window a book
is on.

### `SourceJobs`, `Settings`, `SecretsCache`

`BacktestJobs` looks at a job as a sequence of awaits and knows its files by
their number; `SourceJobs` looks at the same `run()` from the side of the data. A
step is one call of a thread into GCS, Secret Manager or Betfair, or one file
processed. A blob is a location, a day prefix and a name; day 0 is "directly
below the location". A file stands for the markets in it and `Feed` for what a
replay (`MarketReplay`) makes of each. The record `work[j]` holds the local
variables of `run()`: the resolved source, `items` (`file_items`), the work
directory, `rows` (`market_rows`), the counters of the record. The source
is resolved in three places of the code (the tag in `main.py`, the plan, the
filter of each file), and so it is in `Submit`, `Plan` and `ProcessFile`, each
with the settings of that moment. A country `""` is that of a market that names
none: it passes every filter (`evaluator.py:78`). Any call may raise (`CallRaises`). An upload to
the mirror that is refused with `RuntimeError` is only logged; one that raises
anything else fails the download. The loop may leave at its head because the
job was cancelled (`Cancelled`).

The work directory maps paths to the file whose bytes are there. `_process_file` is
two steps: `Decompress` makes a copy under the name without `.bz2` (`Stem`)
unless one is there, and `ProcessFile` replays that copy and removes both. A
removal may fail: an `unlink` that raises is only logged
(`backtest_service.py:337-344`), `rmtree` ignores errors. The paths concerned
are history (`stuck`), and whatever stayed is what a later file of that name
finds. `read` is history too: whose bytes made the rows. A different name has
a different stem, and the stem of a `.bz2` is not itself the name of a file
(`SourcesAssumption`). `Configure` is PUT /admin/config; `Restart`
replaces the process and reads the environment again. The cache of secrets is
filled between two sections under its lock, so a thread may store an older or a
newer version over another's.

### `ResultsListing`

Jobs are numbered by submission, which is the order of `submitted_at`. A page is
one step, because `list_results` copies under the lock. `InOrder` is the sorted list
of a set of jobs: the one sequence that has each of them, newest first. `stayed`, `arrived` and
`departed` are the history of one reader: who was listed all the time, and
whether anybody entered or left the filtered listing between two pages.

## 3. Runs

| Run | Instance | Shows |
|---|---|---|
| `jobs_worker` | 2 jobs, 1 permit, up to 2 files, 1 failing upload, 1 clear, 1 crash | safety of the worker, `ImplementsArchive` |
| `jobs_polled` | 2 jobs, 1 file, polls of one of them, 1 read of the bucket in flight, 1 clear, fair | `PollsSeeTheWorker`, `EveryJobEnds` |
| `event_bus` | 2 connections, queues of 2, log of 3, 6 events, fair | no gaps, drops, late close, draining |
| `evaluate` | every 3-runner market over 7 prices and 3 statuses, odd markets, 48 strategies with amounts in quarters | the contract of `evaluate` |
| `replay` | 1 market, 2 runners, stakes in half-pence, window 2, times 0..4, off times in and out of range | evaluation and settlement |
| `sources` | 2 jobs, 4 kinds of request, 2 locations, 2 results buckets, files on days 1, 2 and 10, a catalogue with two names twice, a market without a country, 2 secrets, 2 changes of the world or removals that fail, cancellations | which files, which source, which disk, which counts, which bucket, which credentials |
| `listing` | 3 jobs of 2 plugins, pages of 1 or 2, 3 filters, 1 clear | pages and when they skip or repeat |
| `cancelled_not_durable`, `run_raises`, `mirror_not_listed`, `zero_stake`, `loss_beyond_liability` | as above, one property each | the findings of section 6 |

Why the bounds are enough. Two jobs under one permit give every pair of a worker
and a competitor; longer queues and more permits are covered by the proofs
of `PermitsAreConserved` and `OutcomesAreTold`, which hold for any number.
Two files let an iteration follow an iteration (progress, throttle, check between
files). One fault reaches every upload in turn. A second one only matters
at `persistFailed`, the write that follows a failure; a failure of planning or of
processing leads there too and is not counted, so one fault reaches that upload as
well, and the theorems hold for any number of faults. Queues of two
distinguish empty, partial and full, and six events let a connection be served,
fall behind, be dropped and drain. Three runners are two favourites and an
outsider; the prices stand on and around the bounds of bands, floor, ceiling and
spread. In `replay` one market suffices because every dictionary of the loop is
keyed by the market and the loop touches one key per book; the range, window and
off times place a book before, in and after the window and out of the range.
In `sources` two jobs share the settings, the buckets and the cache of secrets;
the requests cover each branch of `_resolve_source` (plugin, request, default,
none), day 10 starts with the digit of day 1, and two changes let a
reconfiguration and a restart, a rotation and a restart, or a delivery and a
file that cannot be removed, hit one job. Two secrets make a bundle that can be mixed. In `listing` three jobs give a page
boundary with a job on either side and one more to arrive.
The amounts of `evaluate` in quarters give stakes that are no whole pennies,
before and after they are halved; a rule of 0 and an uplift of 0 are among them.
In `jobs_polled` one job is polled while the other competes for its permit. Reads of
the bucket are left out of `jobs_worker` (`MaxLoads` is 0): there
`TotalsAreFinal` is checked of the worker's own record and of the results that
it caches, and only the theorem `TotalsShownAreFinal` covers parsed copies.
`MaxChanges` (which counts reconfigurations, rotations, deliveries, restarts and
removals that fail), `NumJobs`, `MaxFaults`, `MaxClears`, `MaxCrashes`,
`MaxLoads`, `Polled`, `MaxFiles`, `MaxEvents` and `MaxTime` are bounds of the
checking, not of the code; `Grain` is how finely amounts are divided.

Deadlock is not checked: a finished set of jobs, an exhausted event budget, an
answered call, a summarised file, exhausted changes and a reader that is done
really are the end of the instance.

Fairness. `BacktestJobs!FairSpec` has weak fairness on the steps of each job's
worker: asyncio runs every ready callback, a thread call returns, and the
semaphore is first come first served. It does not ask for fairness of clients,
of the clock or of crashes. `EventBus!FairSpec` has weak fairness on taking from
a queue (the client reads; a client that does not is covered by
the safety properties, which hold without it) and on closing an abandoned
generator (the event loop's finaliser does).

## 4. Properties

The properties are commented in their modules with the code they speak of. The
central ones:

* `DurableSuccessHasResult`, `ImplementsArchive`: seen from the bucket alone, a
  job that says `SUCCEEDED` has its result. `ResultsArchive` allows a success to
  be retracted to `FAILED`, because the code does so when the call that uploads the
  success raises although the document landed.
* `EndedIsDurable`, `EventsTellOutcome`: memory, bucket, event stream and
  counters tell one story.
* `CancelKept`, `CancelStopsFiles`: cancellations under every interleaving.
* `PermitsConserved`, `EveryJobEnds`: the semaphore never leaks.
* `NoHindsight`, `FirstChanceIsTaken`, `SettledOnTheResult`: a backtest that
  looked ahead, bet twice or settled on the wrong book would be worthless.
* `TotalsAreFinal`: totals that polls, downloads and the listing show, from
  whichever cache, are those of the result.
* `PollsSeeTheWorker`: a poll that read the bucket while the caches were empty
  never covers the record that the worker stored meanwhile.
* `StreamHasNoGap`, `DroppedOnlyWhenBehind`: a stream has no gap, and a step
  that drops a connection finds its queue full and leaves those events in it.
* `ListingIsExact`, `SuccessReadEverything`, `RunsOverItsSource`: a job reads each
  file of its own source and range once, or fails, although deliveries,
  reconfigurations and name collisions happen meanwhile. `SuccessReadEverything`
  excepts files that could not be removed: a later file of the same name may be
  read from the bytes that stayed (section 6).
* `WorkDirHoldsOneFile`, `CountersAgree`, `DocumentsAreFound`: memory (but for
  what could not be removed), counters and the bucket of the documents over a
  whole job, however it ends.
* `BundleOfThisProcess`, `SettledCacheStays`: credentials under rotation.
* `PageIsOrderedAndFull`, `SkippedOnlyAfterDeparture`, `RepeatedOnlyAfterArrival`:
  what a reader of pages may rely on.
* `StakeFollowsFormula`, `TightMarketsAreShared`, `OutsidersDoNotMatter`,
  `ListingOrderDoesNotMatter`: the money and the metamorphic laws of `evaluate`.
  `StakeFollowsFormula` does not speak of an uplift of 0 (section 6).

Each property of a passing run has a mutant in `PROJECT.json`: a plausible bug
in a modelled definition under which TLC finds the property violated.

## 5. Proofs

**Job service.** `BacktestJobsProofs` proves `TypeCorrect` (`Spec => []TypeOK`),
action by action, and for every set of jobs, every limit and every bound
`SuccessHasResult`, `CancellationIsKept`, `EndIsDurable`,
`CancellationStopsFiles` and `Implementation` (refinement of `ResultsArchive`).
The only assumptions on constants are `MaxConcurrentJobsAssumption` (a positive
limit), `MaxFilesAssumption` (a natural number) and `JobsAssumption` (the jobs
are finitely many); the other bounds of the checking are arbitrary in the proofs.

The argument: each of these properties speaks of one job, so a lemma first projects
every step of `Next` on one job (it either leaves the job alone or is one of its
steps), and the inductive invariant `JobInv` is about one job. None of the
properties is inductive: a durable success, say, is safe only because the
worker is at `persistSuccess` or later and got there through a successful
`savingResult`. `JobInv` ties the program counter to the record
(`StatusPart`), to the position in the file loop (`LoopPart`), to the result in
the bucket (`ResultPart`), to the last document written (`DocumentPart`) and to
the cancellations (`CancelPart`). `SafeInv` collects it for all jobs; it was
checked with TLC before it was proved.

The last part of the module is about sums over all jobs. `PermitsAreConserved` adds
up the permits, the jobs at work and the woken ones (`PermitInv`); that waking
conserves the sum needs `QueueOK`: nobody waits twice, or waits and is woken.
`OutcomesAreTold` follows from `OutcomeInv`, which ties each published event to
the place of its worker. `TotalInv` follows a document from the record to the
bucket, to a read in flight and to the caches, and says of each that totals once
shown are final. `WorkerIsSeen` needs nothing but the types: only a read that
returns makes a copy, and it stores it where no entry is; only a clear removes
the worker's entry, and it puts the job in `cleared`; only the worker takes it
out again, when it stores its record.

**Event bus.** `EventBusProofs`: `BusInv` says of each position of a queue, of what
was yielded and of the log which event is there (`GotPart`, `QueuePart`, `LogInv`),
and `PlacePart` where a connection stands relative to the last event published. The
sequences of the properties are read off from it. `OnlyLaggardsDropped` is a statement about
steps: at the step that drops a connection its queue is full, and a full queue
means that exactly so many published events were not yielded (`FullMeansBehind`).

**Evaluator.** `EvaluatorLemmas` has what `Evaluate` can answer
(`AnswersOfEvaluate`), that the favourites are the cheapest and which of equals is
first (`CheapestIsFirst`, `CheapestIs`, `FavouritesAreFirst`) and that bets are lays
of runners in the betting at their price (`BetsOnActiveRunners`, `BetsAreLays`).
`EvaluateCallProofs` proves the eight properties of every answer for any number of
runners, rules, any `Grain` and any stakes, under `InputsAssumption`. The
stakes take the arithmetic of one rounding: `NearestIsNear` says that the code's
stake is within half a penny of what it carries, `HalfIsBack` that nothing is
lost when the product is halved before it (the factor 2 in `Penny`), and
`RoundingTwice` and `Divided` carry that to the formula and to the liability. The step that needs care
in the first six is the gap: the code computes it between the two favourites, the
properties speak of the distance to the nearest other runner (`SpreadOfFavourite`,
`GapIsNear`). The last two, `OutsidersAreIrrelevant` and `OrderIsIrrelevant`, compare
two calls. `Alike` says when `evaluate` cannot tell two books apart except for the
positions of the two favourites, and `AlikeAnswers` that whatever it lays in the
one it lays in the other, moved to those positions. A book without an outsider
and, where no two prices are equal, a book listed the other way round are alike
(`WithoutAnOutsider`, `MirrorIsAlike`).

**Replay.** `MarketReplayProofs`: `ReplayInv` says of each market that it is done
exactly when some book has offered something, and that its one evaluation was of a
book of the feed in window and range with which the bets agree. `SettleInv` adds
that what the code remembers of a market is its last state, even of one it no
longer evaluates, and that a row is the settlement of the bet at its place.
`BetsAreSettled` needs the arithmetic of `Loss`: a rounded product is within half a
penny of it. `SummaryIsSound` is about sums over rows: the outcomes partition the
rows, and a sum of profits is at most the sum of stakes, and equal to it only
when each profit is its stake (`SumMonotone`).

**Sources, configuration, secrets.** `SourceJobsProofs`: `SourcesInv` says of each
job (`Good`) from which request its source came, that its rows are races of that
source (`SourcePart`), which paths can be on its disk at each place of the loop
(`DiskPart`), and how far it has read its list (`ReadPart`); and that the store
writes to the bucket of the deployment, which is where every restart looks. `ListsInv` compares the list of a job with the
buckets: for the days that are no more to do it has what was there when the
listing began and nothing that is not there now (`ListPart`). `RecordsInv` follows the
counters: `RowsPart` says which markets the rows of a job are, `CountsPart` that the
counters so far are the sums over the rows, and `Tidy` gives the record its type.
`CountersEndUpRight` then compares the sum over the rows with the sum over the
set of markets, which differ exactly when a market occurs in two rows.
`BytesInv` says whose bytes lie at a path and whose were read. Over a bucket
(`GcsBytes`) the file the loop is at is the only one there; after a download
(`RemoteBytes`) a path holds some file of that name, and the files behind the
loop had different names, because reading the first of two would have removed
the bytes of the second. Both speak of a name only as long as neither the file nor
its copy ever failed to be removed (`Clean`); so `EverythingIsRead` has exactly
the exception of `SuccessReadEverything`. `SourcesAreTyped` combines these with the
invariants of the secrets.
The properties of the secrets do not depend on the jobs: each step of the service
is projected on the cache and the fetching threads (`SecretsStep`), and
`SecretsInv` says that what a thread holds or the cache keeps was current at some
moment of this process. The number of requests, buckets, deliveries, threads and
rotations is arbitrary.

**Listing.** `ResultsListingProofs` counts: the place of a job in a listing is the
number of listed jobs that are newer. `PlacesInOrder` says that the sorted list has
each job at its place, so a page of size n at number k has exactly the places from
(k - 1) n on (`PageIs`). While no job leaves the listing places only grow, so a
job entitled to be seen is on a page or still ahead of the reader (`SkipPart`);
while none enters it places only shrink, so whatever is on a page is behind the
reader or gone (`RepeatPart`). `PagesPart` says that every page was the page of
some listing.

**Sums.** The sums of the models are `SumFunction` of the community modules, a
recursion over a finite set. `FiniteSums` proves what the proofs need of it
without the library's induction theorems, whose operator parameters the provers
cannot instantiate: a set of natural numbers has a least element (`LeastNumber`),
hence a family of finite sets that is closed under adding an element has every
finite set (`SubsetInduction`, over a set of sets instead of a predicate), hence
the sum of a function extended by a point is the sum plus its value there
(`SumExtended`).

Assumptions of the proofs: `MaxConcurrentJobsAssumption`, `MaxFilesAssumption`,
`JobsAssumption`, the sizes of queues and log, `InputsAssumption` (what the schemas
validate; a book has its fields and numeric prices), `ReplayAssumption` (finitely
many markets, a validated strategy, off times and prices are numbers, a starting
price is above 1.0, as Betfair defines it), `GrainAssumption`,
`PolledAssumption` (what is polled are jobs), `DeployedAssumption`,
`NumSecretsAssumption`, `SourcesAssumption` (a file has finitely many markets, a
market no more void bets than bets, decompressed copies have names of their own), `PageSizesAssumption` (pages are not empty:
`main.py:362-363` validates it). TLC evaluates them in the runs.

Only model-checked: `EveryJobEnds` and `QueuesDrain`. Liveness under fairness is
out of the prover's reach.

## 6. Findings

Each is a run that violates what the repository says of itself.

1. `cancelled_not_durable`: a cancelled job is never persisted
   (`backtest_service.py:112`), against `job_store.py:76` "so the final state is
   always durable".
2. `run_raises`: `run` raises when the upload at line 91 or at line 204 fails,
   against `backtest_service.py:79` "this method never re-raises".
3. `mirror_not_listed`: a downloaded file is mirrored under its base name
   (`historic_service.py:110`), where the listing by days (`gcs_service.py:85-92`)
   never looks, against `historic_service.py:88` "so future runs can use the GCS
   source mode".
4. `zero_stake`: `plugins/chimera_may2026_v1.json:30` says "0 = SKIP this band";
   `evaluate` places, settles and counts a bet of nothing.
5. `loss_beyond_liability`: a lay loses at the starting price of the market
   definition even with `extract_bsp` off (`backtest_service.py:487`), so more
   than the liability `models/decisions.py:33` defines.

Remarks, without a run of their own:

* Clearing the results cache forgets cancellations (`job_store.py:215`). A
  cancellation accepted before the clear is dropped; `CancelKept` excludes it.
* A poll that reads the bucket before an update of a job, and after a clear
  caches what it read, answers that old document until the worker stores the
  record again (`job_store.py:104`), which for a finished job is never.
  `PollsSeeTheWorker` excludes the jobs whose record was cleared since the
  worker stored it last.
* An uplift of 0 counts as 1: `evaluator.py:155` takes a `mark_uplift` of 0 for
  one that is not set. By `README.md:215-222`, where the stake is
  `base_stake * mark_uplift * point_value`, by `models/schemas.py:198`, which
  allows 0, and by `core/plugin_store.py:303-304` the stake would be 0.
  `StakeFollowsFormula` does not speak of this case.
* A file that cannot be removed is only logged (`backtest_service.py:337-344`). If a
  later file of the job has its name, the copy that stayed is read in its place, so
  the job succeeds having counted one file twice and the other not at all.
  `SuccessReadEverything` excepts such names.
* A listing can show a job as queued that `submit_backtest` refused: `register`
  enters it before the upload that raises (`job_store.py:65-67`). A process that
  dies leaves its jobs `RUNNING` in the bucket, and the next one does not take
  them up. Neither is excluded by a property.
* A bundle of credentials may mix two versions when a secret is rotated between
  two reads. `BundleOfThisProcess` says that each part was current at some moment
  of this process, no more.
* `main.py:206-212` says a new `max_concurrent_jobs` takes effect on the next
  container restart. A new container reads the environment, so the value of
  PUT is gone (`Settings!SettingsRestart`).
* `BacktestRequest.filters` is ignored when the plugin or the request brings a
  source of its own, which has its own filters (`Submit` and `ResolveSource`).
* The date range a listing shows is that of the request even when the source of
  the plugin, with another range, is what ran (`job_store.py:168`).
* `ParserConfig.price_field` is never read; `evaluate` uses the last traded price.
* `mark_uplift_enabled: false` and `enabled: false` in the shipped plugins are
  extra fields: the uplift applies and the rule is matched. The repository's
  README says that unknown fields are passed through.
* Races of the range that lie in files of a day before it are not seen: files
  are listed by day.

## 7. Plan and what is not modelled

Left for later, in this order:

1. Runs of larger instances where the proofs do not reach: two markets in
   `MarketReplay`, four jobs in `ResultsListing`.

Not modelled:

* Plugin store: a directory is scanned once when the process starts into a
  dictionary that nothing changes afterwards (`refresh()` is not called again);
  the rest of the module is a table of field descriptions.
* `credential_status`, downloads, the other views and log records: functions of
  one document or of one setting, without state.
* Validation in the schemas beyond what the modelled code relies on
  (`InputsAssumption`, `ReplayAssumption`, `SourcesAssumption`): it is done by pydantic, per document.
* The Betfair and Google client libraries, except as the modules use them.
