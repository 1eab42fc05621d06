# Verification of the TypeScript Bun starter

TLA+ models of the parts of this repository that keep state over time, TLC
runs that check them on small instances, and TLAPS proofs for all instances.

- [1. The system](#1-the-system)
- [2. Modules](#2-modules)
- [3. The job queue](#3-the-job-queue)
- [4. The scheduler](#4-the-scheduler)
- [5. The server's database](#5-the-servers-database)
- [6. The rate limiter](#6-the-rate-limiter)
- [7. Telemetry and measured operations](#7-telemetry-and-measured-operations)
- [8. The scaffold commands](#8-the-scaffold-commands)
- [9. The repository scripts](#9-the-repository-scripts)
- [10. Runs and bounds](#10-runs-and-bounds)
- [11. Proofs](#11-proofs)
- [12. Where the code and its documentation disagree](#12-where-the-code-and-its-documentation-disagree)
- [13. What is not modelled](#13-what-is-not-modelled)
- [14. Plan](#14-plan)

To repeat a check: `tlc -config QueueTimely.cfg MCDbConsumer`; to repeat a
proof: `tlapm DbConsumerProofs.tla`. PROJECT.json lists, for each run, its
module and configuration; for each definition, the lines of the source it
models; for each property, a small change of the model, standing for a
plausible bug in the code, that makes it fail.

## 1. The system

The repository is a Bun monorepo: shared packages (`packages/core`,
`packages/contracts`), an API server (`apps/server`), a command line tool that
adds and removes parts of a project (`apps/cli`), an Astro web application
(`apps/web`) and scripts. Most of it is stateless: routes, validators,
formatters, a schema. What follows is the part that has state, and what is
hard about it.

| Component | State | Operations | Hard because | Correct if |
|---|---|---|---|---|
| **Job queue** (`core/src/job-queue`, `core/src/db/queue-job-dao.ts`) | table `queue_jobs`; per consumer its handlers, `_timer`, `_stopped`, `_inFlight` | enqueue, enqueueBatch, register, start, stop, the poll loop, processJob | several processes share one table; handlers take any time; processes die; a statement can fail, or succeed unheard; updates name a row by id only | one run per job at a time; bounded tries; nobody undoes what another run settled; nothing is lost; loops live until stop and end after it |
| **Scheduler**, node-cron adapter (`core/src/scheduler/node.ts`) | Map of jobs, their cron tasks, node-cron once loaded | register, start, stop | `start` awaits an import; calls overlap; `stop` keeps its tasks in the Map; a bad expression ends `start` midway | no job scheduled twice; a bad job costs itself and the later ones only; jobs run until stop, and then are silent |
| **Scheduler**, Worker registry (`core/src/scheduler/cloudflare.ts`, `server/src/scheduled.ts`) | `_scheduler`, the Map of jobs | getScheduler, register, getJobByCron, scheduled | `getScheduler` looks, awaits, then assigns | each event finds its job, always the same one |
| **Server database** (`server/src/index.ts`, `core/src/db`) | `localAdapterPromise`, the file's schema | open, migrate, request, failure | requests share one opening that may fail; migrations arrive while requests wait | all handlers share one handle; failures are forgotten; handlers find the schema they were due |
| **Rate limiter** (`server/src/middleware/rate-limit.ts`) | Map of counts and reset times | request | boundaries of windows | bounded, deserved and temporary refusals |
| **Telemetry** (`core/src/telemetry`) | per signal: provider, `initialized`, what the OpenTelemetry API was given; nine cached instruments | init, shutdown, reset, get instrument | shutdown awaits while init looks at `initialized`; instruments outlive their provider | no live provider is lost; what is measured reaches a live provider |
| **Outbound HTTP** (`core/src/api-client.ts`, `contracts/src/http-client.ts`) | per request: signals, bytes read | request, bounded read of the body | a timeout may come before the headers or in the middle of the body; the size of a body is known only as it arrives | bounded memory; every request ends; the counters agree with what the callers saw |
| **Scaffold CLI** (`apps/cli/src/commands/scaffold`) | the project's files and `project-contracts.json` | init, add, remove, validate, list | many file operations, each of which may fail; rollback; rerun after a crash | a failed add is undone; the contract agrees with the disk |
| **Project migration** (`scripts/apply-migration.ts`) | two file trees and a saved plan | analyze, resolve, apply | the trees change between analysis and application; copies fail midway | files that were there when the plan was made are overwritten only when told to; exit code 0 means installed |
| **Policy check** (`scripts/policy-check.ts`) | the files; per run its queue of policies, rules and files | load, search, fix, report | fixes change what other rules read; searches and fixes fail | exit code 0 means clean |
| **Logging**, **repository checks** (docs, coverage, drift), **dev-all** | a configuration set once; none; two child processes | | see [13](#13-what-is-not-modelled) | |
| **Helpers** (cursor, errors, access, origin, date, responses) | none | | boundary values | round trips and bounds |

How they interact. A producer (`DBJobQueue`) and any number of consumers
(`DBQueueConsumer`) share nothing but the table, through `QueueJobDao`, which
extends `EntityDao`. The scheduler calls handlers that may enqueue jobs; it
knows nothing of the queue. A request of the server goes through the database
middleware, which gives it the adapter that all local requests share, and may
be counted by the rate limiter; telemetry instruments are fetched by DAO, API
client and server alike. CLI and scripts are processes of their own: they work
on files, share no memory with the rest, and meet only in the project they
change one after the other.

Time matters only to the queue (visibility timeout, backoff) and the rate
limiter. All code runs on one event loop per process, so an interleaving can
happen at an `await` and nowhere else; between processes it can happen at every
statement. That is what decides the grain of the actions below.

## 2. Modules

| Module | Models | Used by |
|---|---|---|
| `JobLifecycle` | what the queue promises: the abstract specification | refined by `DbConsumer` |
| `QueueJobDao` | the table and the statements on it | extended by `DbConsumer` |
| `DbConsumer` | consumers: loops, runs, crashes, faults; all properties of the queue | |
| `MCDbConsumer` | symmetry for TLC | runs `queue_*` |
| `DbConsumerProofs` | nine theorems | |
| `NodeScheduler` | the node-cron adapter | extended by `Scheduler` |
| `NodeSchedulerProofs` | four theorems | extended by `SchedulerProofs` |
| `WorkerScheduler` | getScheduler, the Worker registry, dispatch | extended by `Scheduler`; run `scheduler_overlap` |
| `Scheduler` | the choice between the adapters; both composed | run `scheduler` |
| `SchedulerProofs` | three theorems, on `WorkerScheduler` too | |
| `ServerDatabase` | how requests get their database | run `server_database` |
| `ServerDatabaseProofs` | four theorems | |
| `RateLimit` | the rate limiter | run `rate_limit` |
| `RateLimitProofs` | three theorems | |
| `Telemetry` | providers and instruments | extended by `ApiClient` |
| `ApiClient` | measured operations: requests of the client step by step, those of server and DAO as a whole | |
| `MCApiClient` | constants for TLC | run `outbound` |
| `ApiClientProofs` | four theorems, on `Telemetry` too | |
| `Scaffold` | the scaffold commands, faults, kills and edits by hand | |
| `MCScaffold` | constants for TLC | runs `scaffold`, `scaffold_exit` |
| `ScaffoldProofs` | four theorems | |
| `ProjectTree` | the files of a project, one script at a time, kills and edits | extended by `PolicyCheck`, `Migration` |
| `PolicyCheck` | `policy-check.ts` | extended by `RepoScripts` |
| `Migration` | `apply-migration.ts` | extended by `RepoScripts` |
| `RepoScripts` | both scripts on one project | |
| `MCRepoScripts` | constants for TLC | run `repo_scripts` |
| `RepoScriptsProofs` | four theorems | |

Definitions marked *(Mutation)* belong to no behaviour of the model: each is a
wrong variant of the definition that follows it, kept to show that some
property tells the two apart.

## 3. The job queue

### State and actions

`jobs` is the table: a row per id, or `absent`. Timestamps are kept as
distances to now, so that the state space is finite without a cap on the
clock: `retryIn` for `next_retry_at`, `claimAge` for `processing_at` (the
special value `NoTime` for NULL). `created_at` is used for ordering only and is
a rank, with ties.

A consumer has a `life` (its `_stopped` flag and whether it was started),
`handlers`, poll `loop`s, the `timer` that `_timer` refers to, and `drain`, how
far a call of `stop` is. A loop is a chain of timer, reset, claim, timer: `start`
begins one and asks nothing about others, so that a consumer may have several.
`execs` are the runs of `processJob`: each carries the `attempts` of its row
*at the claim*, which is what it writes back.

| Action | Code |
|---|---|
| `Enqueue` | `DBJobQueue.enqueue`, `enqueueBatch` |
| `Register`, `Start`, `Stop`, `StopReturns` | `DBQueueConsumer.register`, `start`, `stop` up to its wait, its end |
| `PollEnds`, `PollResets`, `PollResetFails` | `poll` up to and with `resetStuckJobs` |
| `PollClaims`, `PollClaimFails` | `processBatch`: `claimReady`, and the start of each run |
| `HandlerResolves`, `HandlerThrows` | the handler |
| `Complete`, `Confirm` | `markCompleted`: the UPDATE, and the SELECT of `EntityDao.update` after it |
| `RetryOrFail`, `Reject` | `retryOrFailJob`, `failJob` |
| `Crash` | the process dies with its memory and a new one takes its place |
| `Tick` | time passes |

### Abstractions

- A statement is atomic, and its clock reading is taken as it is issued.
- A poll timer may fire at any time, so `pollInterval` does not appear.
- Claim and dispatch are one action: the dispatch changes memory of its own
  process only, and a claim whose answer does not arrive is `PollClaimFails`.
- The SELECT after the UPDATE is an action of its own only in `markCompleted`.
  There an error is caught and handled by a retry; everywhere else it ends the
  run just as success does.
- `enqueueBatch` inserts its rows in one step. Batches of one row are always
  possible, so a batch inserted row by row is among the behaviours.
- `stop` gives up after 30 s. The state after that is one in which `stop` still
  waits; no code distinguishes them.
- A run of `processJob` that rejects is not awaited by anyone. In the model it
  ends without effect. If a runtime ends the process on an unhandled rejection,
  that is `Crash`.
- A crash ends the handlers of the process.
- The clocks of processes agree and never go back.
- The exponential backoff is computed with all its roundings; which of the
  delays in its jitter is taken is a free choice.
- `markProcessing`, `findPending` and the statistics are called by nothing that
  changes state and are left out.

### Properties

With no assumption but the code (run `queue_untimely`): handlers may outlive
their claim, answers may be lost, several runs of a job may end in any order.

- `AttemptsWithinBudget`: writing back a stale `attempts + 1` never exceeds the
  budget and never revives an exhausted job.
- `ClaimIsRecoverable`: rows in processing are exactly those with a claim time,
  so `resetStuckJobs` finds all of them.
- `OutcomeIsExplained`: a failed job has used its tries or had no handler, and
  its `last_error` says which.
- `LoopAlive`: a started consumer always has a loop, whatever calls and errors.

Under `Timely` (every claimed job is settled before its claim is
`VisibilityTimeout` old, as long as the process lives), whatever else fails,
refused statements and lost answers included (run `queue_timely`):

- `ExclusiveExecution`: one run per job.
- `RunsOwnTheirRow`: until a run ends, its row is in the claim it was started with,
  or completed by this very run, with the attempts it read. So what a run writes
  can overwrite no claim and no outcome but its own.
- `OnlyOwnRunUnsettles`: a failed job is final, and a completed one too but for one
  case: the run that completed it retries it, since it could not read the row back.
- `KeepsLifecycle`: the queue implements `JobLifecycle`. A worker holds a job from
  the claim until its run ends. Jobs are run *at least* once: the holder of a
  completed job may still retry it or give it up, as long as it has not let go.

That last case is what the code does: `markCompleted` is an UPDATE followed by a
SELECT (`entity-dao.ts:171`) within one `try`, so a SELECT that is refused, or whose
answer is lost, leads to `retryOrFailJob` on a completed row (`db-consumer.ts:176`).
A handler that succeeded may run again. The stronger "a settled job never changes" is
false, and is not claimed.

The assumption is needed. Updates go by id and ask neither for the status nor for
the claimant: with `Timely` false TLC finds all four violated.

Liveness (run `queue_liveness`), with slow handlers, crashes and lost answers:

- `EventuallySettled`: if some consumer stays started, every job settles for good.
- `StopEndsLoops`: after `stop` all loops end, also those whose timer it does
  not know.

Fairness: weak fairness of `Tick`, of each poll loop and of each run. The code
justifies it: timers fire, SQLite answers, and a handler is expected to end
(one that never does keeps its job for ever: nothing in the code ends it).
Nobody has to call `enqueue`, `register`, `start` or `stop`, and nothing has to
go wrong; faults are finitely many (`MaxFaults`), without which a job that kills
its process each time would be offered for ever, since a reset counts no attempt.

## 4. The scheduler

`NodeScheduler` has the Map's names in order, per name the cron tasks ever made
for it (the Map keeps the last), the calls of `start` that wait for the import
and the handlers that run. Everything after the import runs without
interruption, so the loop over the jobs is one step; it ends at the first job
without a task whose expression is bad (`Reached`). `WorkerScheduler` has the
adapters created so far, which of them `_scheduler` is, and where each caller
is between `getScheduler`'s look, its import, its assignment and the
registration after it. `Scheduler` composes both: a process uses one of them,
or the no-op adapter.

- `OneTaskPerJob`: overlapping calls of `start` do not schedule a job twice.
- `BadJobBlocksExactlyLaterOnes`: what a bad expression costs: its job and every job
  after it, and no other. Of the jobs `start` has seen (`seen`, a history variable) a
  job has a task if and only if neither it nor one before it has a bad expression.
- `LiveUntilStopped`: a job that was scheduled stays live until `stop`, also if
  `start` threw at a later one; what a `stop` ended (`silenced`) stays ended.
- `StopSilences`: no handler starts after `stop`, until `start` is called again,
  provided no `start` was waiting for the import when `stop` came. Such a call
  goes on and schedules every job; without the proviso the property is false.
- `DispatchIsStable`: an expression always starts the job registered first:
  `getJobByCron` takes the first in the order of the Map that has it (`JobByCron`, the
  least of the positions in `Matching`).
- `RegisteredJobsRun`: an event finds a job registered for it. True as long as
  calls of `getScheduler` do not overlap (`Overlap = FALSE`, run `scheduler`) and
  false if they do (run `scheduler_overlap`).

With `SCHEDULER_ENABLED=false` no adapter of the two is used, and an event fails;
nothing is claimed of that beyond the guards that say so.

No liveness is claimed: that cron tasks fire is node-cron's business.

## 5. The server's database

An opening is `none`, `pending`, `open`, `failed` or `leaked`; `adapterPromise` is
`localAdapterPromise`; a request waits for the opening it found or made. The
`catch` clause that forgets a failed promise was attached before any request
awaits it, so it runs first: `OpenFails` does both. The constructor opens the file and
then sets three PRAGMAs (`bun-sqlite.ts:118`); if one of these throws nobody closes
the handle. Such an opening is `leaked`: the promise is forgotten, the next request
opens a second handle, and the first one is open until the runtime collects it
(`Collect`), if ever. So the process may have several handles open; what holds is that
only one is ever used. The migrator is synchronous
for `bun:sqlite` and all-or-nothing, so migrating and entering the handler are
one step. `Ship` puts a migration into the folder at any time.

- `OneHandleInUse`: however requests overlap with failing openings, at most one
  opening is under way or has succeeded, and whoever runs a handler has that one.
- `FailureIsForgotten`: a request never waits for an opening that had failed.
- `HandlersFindMigratedSchema`: with `AUTO_MIGRATE=1` a handler finds the
  migrations that were in the folder when its request came, unless its own
  migration failed (the code logs that and goes on).
- `Recovers`: once openings fail no more, requests fail no more.

Fairness: openings end (weak fairness), and a request goes on when it can.
Clients need not come.

## 6. The rate limiter

A request is judged without an `await`, so each is one step. `left` is the time
to `resetTime`. An expired entry and a missing one are the same to the code.
`passed` is a history variable that properties use: per client, how long ago each of
the requests of the last `windowMs` was let through, newest first. `Tick` makes them
older and drops those that leave the window (`Older`).

- `AtMostTwoBudgets`: at most `2 * limit` requests pass in any `windowMs`. The
  bound is reached, around a reset: the window is fixed, while the comment at
  `rate-limit.ts:5` calls it sliding.
- `RefusalsAreEarned`: whoever is refused had a full budget within the window.
- `RefusalsEnd`: a refused client is admitted later even if it keeps asking.
  Fairness: time passes.

## 7. Telemetry and measured operations

`Telemetry` keeps for each signal (traces, metrics) the variables of its module:
`on` is `initialized`, `current` the provider, `live` those providers that
were not shut down, `pending` the calls of `shutdown` that are awaited, `global`
what `setGlobalTracerProvider` was given (it keeps the first). `cached` says with
which provider each instrument was made. The other fields are history that
properties use.

| Action | Code |
|---|---|
| `StartSignal` | `initTelemetry`, `initMetrics`, with `getTelemetryConfig` over the environment |
| `Shutdown`, `ShutdownEnds`, `ShutdownFails` | `shutdownTelemetry`, `shutdownMetrics` up to the `await`; after it; its rejection, which skips the assignments |
| `Reset` | `_resetTelemetry`, `_resetMetrics` |
| `UseInstruments` | the getters of the instruments |
| `Send`, `Malformed` | `APIClient.request` up to `fetch`; an argument that cannot be formed |
| `Answer`, `AnswerBody`, `FetchFails` | what `fetch` brings |
| `ChunkArrives`, `BodyEnds`, `Cancelled`, `TextArrives`, `ReadFails` | `readBoundedText` |
| `Elapse`, `Interrupt` | the timer of `buildSignal`, and what it does to the awaited promise |
| `Perform` | a request of the server under the metrics middleware, an operation of a DAO under `withMetrics` |

`Conclude` is the whole of `catch` and `finally`, instruments included: a request
ends and is counted in one step, as no `await` lies between. What each clause adds is
`Caught` and `Finally`, per instrument; `recorded` is what each provider was given,
per instrument, as long as it was live. The size of a body
is counted in chunks. Which branch a failing read takes does not depend on what
made it fail, so `ReadFails` stands for network, timer and caller's signal.

- `LifecycleIsSound`: as long as shutdowns and resets of a signal do not overlap,
  no provider goes on exporting after the module has lost it. A module that has a
  provider is on and the provider takes records, unless a shutdown is awaited or
  the last one failed, although starts come while shutdowns are awaited.
- `SignalsArrive`: without a shutdown since the last reset, and if nothing was
  measured before the start, instruments and spans belong to the current provider.
- `CountsAddUp`: under the terms of `SignalsArrive`, the counters of the current
  provider are the numbers of what callers saw since it was started: `total` and
  `duration` of each kind are the operations that ended, `errors` those that were
  rejected. An operation counted twice, not at all, as an error that its caller never
  saw or under the wrong kind breaks the sums.
- `TimedRequestsSettle`: a request with a timeout settles whatever the peer does.

Each proviso of the first three is needed: without it TLC finds a counterexample.
They are what the code leaves open: see [12](#12-where-the-code-and-its-documentation-disagree).

Fairness, for `TimedRequestsSettle` only: timers fire (`Elapse`), and the runtime
rejects the promise that an aborted request awaits (`Interrupt`), which is what
`AbortSignal` is for. Nothing is assumed of the peer, which may stay silent or
send for ever, nor of who starts and shuts down.

## 8. The scaffold commands

`project` is what the commands read and write of a project: which optional
workspaces are on disk (`dirs`, and in `files` whether `package.json` and the
sources are there), whether `project-contracts.json` is intact, torn or absent, the
workspaces it lists and those it has dependency rules for, its identity, the name in
`package.json`, texts that mention a name (title, slug or binary), the generated
instructions, and flaws that only `validate` looks for. `cmd` is the running
command: where it is and its local variables.

| Command | Actions |
|---|---|
| `add` | `AddFeature` (its checks), `MakeDirs`, `CopyFile`, on an error `UndoFile`, `UndoDirs`, `ReportFailure`; then `ReadForAdd`, `WriteList`, `RestoreContract`, `Tidy` (`updateAddContracts` with its backup) |
| `remove` | `RemoveFeature`, `DeleteWorkspace`, `Unlist`, `PostRemove` |
| `init` | `InitProject` (checks, and staging of all writes), `WriteContract`, `WritePackage`, `WriteText`, `PostInit` |
| `validate`, `list` | `Validate`, `List` |
| | `Kill`, `Edit`: the process dies before any step; people edit between commands |

Each call of the file system is a step that may fail, and a failing write may leave
a torn file. Names are sequences of words, so that `Replaced` does to a text what
`replaceInContent` does: nine replacements one after the other, each over the result
of the one before, names that are too short left out. `--repo-url` and `--bin` may
be given or not (`NotGiven`, `Given`). Words stand for strings none of which
contains another. Each text mentions one name, once. `Stages` are the nine texts in
between, and `Unhandled` says statically for which names they cannot give what is
wanted: one that is too short, or of which another replacement changes a part, in
the old name (title and brand are replaced before the slug, and these, the package
name and the URL before the binary) or in the new one. A title that stays while the
brand in it changes is one of them. `validate` is one step: nothing else runs
meanwhile.

- `ContractMatchesDisk`: between commands the contract lists exactly the features
  on disk, but for those that a fault, a kill or a hand left half way; and a
  command for such a feature that reports success has put it right.
- `RollbackRestores`: an add that fails while it copies, and whose rollback could
  remove what it had to, leaves the project as it was. The half-written file, which
  `copiedFiles` does not have, goes with the directory that `mkdir` made.
- `TextsFollowTheIdentity`: however often the project is renamed, `package.json`
  and every text that is collected show the contract's title, slug or binary, unless an
  `init` was cut short or a name is one that the replacements do not handle
  (`Unhandled`).

No liveness: a command ends because it is a finite sequence.

## 9. The repository scripts

`ProjectTree` has the files (a file is the set of tokens it holds), the one script
that runs, kills and edits. `PolicyCheck` and `Migration` extend it with a script
each, and `RepoScripts` puts both on one project: a check with `--fix` is one
more edit between the analysis of a migration and its application, and what a
migration installs is checked next.

| Script | Actions |
|---|---|
| `policy-check.ts` | `CheckPolicies` with `Load` and `PolicyOK` (selection, discovery, validation), `Discover`, `StartRule`, `SearchClean`, `SearchMatches` with `FixFile`, `SearchFails`, `RewriteFails`, `EndRule`, `EndPolicy`, `Report` |
| `apply-migration.ts` | `Analyze`, `Ask` with `Resolve`, `SavePlan`; in another process `Apply`, `CopyOver`, `SourceMissing`, `CopyFails`, `EndApply`; `Upgrade`: another version of the package |

Policies are positions in what was asked for: `Load` gives the set of those to
execute (with `--fail-fast`, those before the first that could not be loaded), and
`Discover` takes the least that is left. Glob patterns are the sets of paths they
match. A rule looks for one token; a rewriting rule replaces the tokens of
`rewrites`, which need not be those that `rg` matched, since the regular expression
is compiled a second time without the flag `w`. A command as a fix is any program,
started in the project: `CommandRuns` lets it write and delete any of its files.

- `ZeroMeansClean`: a check that exits with 0 leaves nothing behind that a rule of
  the policies asked for would find, whatever fixes of other rules did meanwhile,
  and does not do so when it could not look (a policy not found or malformed, an
  unsupported engine, a failing search). It holds because a violation counts even
  if it is fixed, so that a check that changed anything never exits with 0.
- `OverwritesAreConsented`: what `--apply` replaces was not there when the plan was
  made, or was given up in the answers, in whatever order single and group answers
  came. A file created after the analysis is overwritten without a question: that
  is why the property speaks of files that were there.
- `AppliedMeansInstalled`: an `--apply` that exits with 0 has installed every file
  of its plan, after failed or killed attempts and upgrades as well.

## 10. Runs and bounds

| Run | States | Instance | Why it is enough |
|---|---|---|---|
| `queue_timely` | 997 577 | 2 jobs, 2 consumers, 1 loop each, batch of 1, timeout 2, two crashes, refused statements or lost answers, 3 calls | two consumers race for two jobs, a job waits behind another, a claim grows old, a run survives the crash of another consumer, a completed job is retried by its run and claimed by the other consumer |
| `queue_untimely` | 1 367 251 | 1 job, 2 consumers with 2 loops, 3 runs at once, budgets 0 and 2, all faults | three runs of one job with snapshots of different age can end in all orders; a second loop by a second `start` |
| `queue_liveness` | 88 904 | 1 job, 1 consumer, 2 loops, all faults, 4 calls; no symmetry | start, stop, start again; a lost claim has to come back |
| `queue_stop` | violation | 1 of each | |
| `scheduler` | 42 564 | 3 names of which one is bad, 3 starts; 2 callers, 2 events, 2 expressions | a bad job between, before and after good ones; two calls of `start` wait for one import and a third follows; two jobs with one expression |
| `scheduler_overlap` | violation | 2 callers, 1 event | |
| `server_database` | 198 652 | 3 requests, 3 openings, 2 failures, 2 migrations | an opening fails with others waiting for it, the next too, with or without a handle left open, and the third holds |
| `outbound` | 694 467 | 1 request of the client, 1 of the server, 1 operation of a DAO, 2 providers per signal, 4 calls, a cap of 1 chunk; telemetry on or off | start, shutdown, start during the wait, reset; a measurement before, between and after; a body below, at and past the cap |
| `scaffold` | 3 029 758 | 2 features (one with, one without `package.json` in its template; one protected), 3 identities, one with URL and binary given, and one invalid for `init`, 4 texts, 3 commands, 1 fault, 1 edit | add, fail, add again; remove cut short, removed again; renamed there and back, to names given twice, and with a title that stays; contract edited, absent or torn in between |
| `scaffold_exit` | violation | 2 commands, 1 edit | |
| `repo_scripts` | 6 146 906 | 3 files of which one is excluded, 2 tokens, 5 policies, 3 selections, 3 commands, 1 fault, 1 edit | analysis, check with fixes, application; two applications of a plan around a failure; a fix, or the command of one, that makes another policy's violation or deletes a file between check and analysis |
| `rate_limit` | 1 296 | 2 clients, limit 2, window 3 | two full windows around a reset |

Bounds that are no parameters of the code: `Loops`, `Slots`, `MaxFaults`, `MaxCalls`
(queue); `MaxStarts`, `MaxRuns` (scheduler); `MaxOpenings`, `MaxFaults`,
`LatestVersion` (server); `MaxProviders`, `MaxCalls`, `Cap` (telemetry and requests;
the cap of the code is a number of bytes); `MaxCommands`, `MaxFaults`, `MaxEdits`
(files). Each is a guard named in its module. A bound only removes behaviours: a
loop that cannot be begun, a run that cannot start for want of a slot. Deadlock is
checked in the runs of the queue, the server and the rate limiter. Elsewhere the
system may stop: the callers, events and starts of the scheduler, the operations of
`ApiClient`, and the commands and edits of CLI and scripts may all be used up.

Symmetry is used in safety runs only, over jobs, consumers, loops and slots,
which no definition tells apart (`CHOOSE` is applied to types only, and these
are left out).

## 11. Proofs

What TLAPS proves holds for all values of the constants, the bounds included,
that satisfy the `ASSUME`s of the modules (numbers are naturals, the timeout is
positive, subsets are subsets; names are sequences of words, rules have the fields of a
rule). Only `CountersAddUp`, which is about a number of operations, uses that a set is
finite (`ClientAssumption`: `Requests` is).

| Theorem | States | Under |
|---|---|---|
| `TypeCorrect` | `ConsumerTypeOK` | |
| `BudgetKept` | `AttemptsWithinBudget` | |
| `ClaimsRecoverable` | `ClaimIsRecoverable` | |
| `OutcomesExplained` | `OutcomeIsExplained` | |
| `LoopsLive` | `LoopAlive` | |
| `Exclusion` | `ExclusiveExecution` | `Timely` |
| `RowsOwned` | `RunsOwnTheirRow` | `Timely` |
| `Implements` | `KeepsLifecycle` | `Timely` |
| `OutcomesFinal` | `OnlyOwnRunUnsettles` | `Timely` |
| `ScheduledOnce` | `OneTaskPerJob` | |
| `BadJobsBlock` | `BadJobBlocksExactlyLaterOnes` | |
| `StopIsFinal` | `LiveUntilStopped` | |
| `StopIsSilent` | `StopSilences` | |
| `DispatchStable` | `DispatchIsStable` | calls of `getScheduler` that do not overlap |
| `RegisteredJobsAreFound` | `RegisteredJobsRun` | calls of `getScheduler` that do not overlap |
| `SchedulerTyped` | `SchedulerTypeOK` | |
| `ServerTyped` | `ServerTypeOK` | |
| `HandlersShareOneHandle` | `OneHandleInUse` | |
| `FailuresAreForgotten` | `FailureIsForgotten` | |
| `SchemaIsMigrated` | `HandlersFindMigratedSchema` | |
| `RateTypeCorrect` | `RateTypeOK` | |
| `TwoBudgetsAtMost` | `AtMostTwoBudgets` | |
| `RefusedHadItsBudget` | `RefusalsAreEarned` | |
| `ClientTypeCorrect` | `ClientTypeOK` | |
| `LifecyclesAreSound` | `LifecycleIsSound` | |
| `SignalsDoArrive` | `SignalsArrive` | |
| `CountersAddUp` | `CountsAddUp` | |
| `RollbackAlwaysRestores` | `RollbackRestores` | |
| `ContractAndDiskAgree` | `ContractMatchesDisk` | |
| `ScaffoldTyped` | `ScaffoldTypeOK` | |
| `TextsAlwaysFollow` | `TextsFollowTheIdentity` | |
| `OverwritesConsented` | `OverwritesAreConsented` | |
| `AppliedIsInstalled` | `AppliedMeansInstalled` | |
| `ZeroIsClean` | `ZeroMeansClean` | |
| `ScriptsTyped` | `ScriptsTypeOK` | |

**Queue, any mode** (`TableInv`). Rows are judged one by one (`GoodRow`: budget,
claim time, explained error) and so are runs (`GoodExec`: the snapshot has tries
left). The point is `TriesLeft`: what a run read at its claim was below the
row's budget, and budgets never change, so a write of `attempts + 1` stays within
it *however stale the snapshot is*; no relation between snapshot and row is
needed. Each write is one lemma (`RejectedRowKept`, `ExhaustedRowKept`,
`RetriedRowKept`, ...), and the step theorem has one case per action.

**Queue, timely** (`HoldInv`). Each run `Owns` its row: it holds the claim the run was
started with, or it is completed, by this run, which waits for the row to be read back
or, that having failed, is about to retry it. With exclusion itself this is inductive:
a reset spares rows that are completed or whose claim is young, and `Timely` keeps the
claims of live runs young; a claim takes pending rows only, which no run works on; and
a run that retries its own completed job ends in that step, so nobody is left to see the
row pending again.

**Refinement** (`RefInv`). Each action maps to a step of `JobLifecycle` or to a
stutter: `PollClaims` to `Take` (to `Strand`, if its answer is lost), `Complete` to
`Complete`, `Confirm` to `LetGo` if the row was read and to a stutter if not,
`RetryOrFail` to `Retry` or `GiveUp` (or, if its statement fails, to `LetGo`), `Reject`
to `GiveUp` or `LetGo`, `PollResets` to `Reoffer`, `Crash` to `LetGo`, `Enqueue` to
`Submit`. `OutcomesFinal` is proved from the same invariant: a settled row is changed by
none but the one run there is of its job.

**Scheduler** (`NodeInv`). Names are unique, tasks belong to registered names, and
waiting calls are among the calls made. `ScheduleAllKeeps` is the loop of `start`:
it gives a task to the jobs before the first bad one and to no other, and leaves
alone those that have one. `StopEndsTasks` is what `stop` does to them. For the step
property `StopSilences`, `QuietMeansStopped`: as long as nothing was started since a
`stop`, no call of `start` waits for its import and every task is stopped.

**Worker registry** (`WorkerInv`, `OneAdapter`). A registry only grows at its end, so the
first position with an expression stays the first (`FirstJobsExist`, `DispatchesStand`):
what was dispatched once is dispatched again. `OneAdapter` says that whoever has an
adapter has the one `_scheduler` is; it holds without overlap only, and ties an event
to the callers that registered before it. The theorems are about `NodeSpec` and
`WorkerSpec`; the composed `Scheduler` takes every step as a step of its part by the way
it is written, so what holds of the parts holds in it.

**Server** (`ServerInv`). `PromiseIsTheHandle` says more than `OneHandleInUse`: the
promise *is* the one opening that is pending or open, if there is one; that is what
the `catch` clause preserves, whatever a failed opening leaves behind.
`HandlersHaveIt`: an open handle stays open, so a handler keeps the one it was
given. `FolderLeads`: neither a request nor the schema is ahead of the folder.

**Rate limiter** (`RateInv`). The bound is on a window that slides while the code counts
in one that does not. `CountIsOfWindow` ties the two: of the requests let through, the
newest `count` are those of the entry's window, and those before them are at most one
budget. `OneBudgetLeft`: when the window has passed, at most one budget of it is left to
count, and the request that opens the next finds it behind. Ages are sorted
(`NewestFirst`), so what drops out of the sliding window is what came first.

**Telemetry and requests** (`ClientInv`). Per signal, `Bounded` relates the counters,
`Sound` says which providers may be live, and `Fresh` what holds since the last
reset; `Registered` and `InstrumentsFollow` carry the two halves of
`SignalsArrive`. For `CountsAddUp`, a step that ends an operation adds one member to
the sets of operations that `recorded` counts, and one to their counters (`NothingAhead`:
no operation belongs to a provider that is still to come, so the counters of a
new one start at zero). A shutdown that ends drops whatever provider is current, so that nothing is
lost needs that no start can have made a new one meanwhile: `initialized` holds as
long as a shutdown is awaited, unless one that overlaps has ended.

**Scaffold** (`ScaffoldInv`). `Agreement` is `ContractMatchesDisk` for *every*
feature that no command has in hand, at every step. `Copying` says that while an
add copies or undoes, the project differs from what it found only by the directory
and files of its feature; `Adding`, `Removing` and `Renaming` say what each step of
a command may rely on. The rollback restores since `ProjectOK` holds of the project
it found: without a directory there are no files, and no forbidden dependency.
Three lemmas (`ThrowKeeps`, `SucceedKeeps`, `HandKeeps`) cover how a step of a
command with a feature can end; the rest is one lemma per action.

For the texts (`NamesInv`) the induction is over the writes of an `init`: as long as it
runs, a text shows the old name if its write is still staged and the new one otherwise
(`HalfRenamed`), and between commands all show the contract's (`Following`). That the
staged writes are the right ones is `ReplacedShows`: unless the names are `Unhandled`,
the nine replacements turn the old title, slug or binary into the new one. `StageEquation`
unfolds the replacements, by a witness for the recursive function that they are;
`StaysOld`, `OwnTurn` and `StaysNew` follow a name through them: untouched before its
turn, replaced as a whole at its turn, untouched after it.

**Scripts** (`ScriptsInv`). `Agreed`: in the saved plan only given-up files that were
there are to be overwritten; `Questions` says the same of an analysis that still
asks: no group answer was given yet, since one ends the questions, and what is to be
overwritten had an `o` of its own. `Application`: as long as nothing was noted as
bad, whatever is no longer left to apply is installed.

**Policy check** (`CheckInv`). Until something is found or fails, every policy that is no
longer in the queue is clean, and of the one that runs the rules before the current one
are (`CheckProgress`, `Executing`); once something is, the exit code is no longer 0. A
fix makes the second case, so what it does to rules checked before it needs no
argument: that is why a violation has to count even if it is fixed.

All safety and step properties of the runs that pass are proved. Only model-checked
are the five liveness and leads-to properties (`EventuallySettled`, `StopEndsLoops`,
`Recovers`, `RefusalsEnd`, `TimedRequestsSettle`), whose proofs need fairness and
`ENABLED`; and the three runs of section 12, which show counterexamples.

## 12. Where the code and its documentation disagree

Three runs show it.

1. `queue_stop`, `QuietAfterStop`: a consumer whose `stop()` has returned may
   claim and run a job. `poll` asks `_stopped` once, before the reset; a `stop`
   that comes while the reset is awaited finds nothing in flight and returns, and
   the claim follows.
2. `scheduler_overlap`, `RegisteredJobsRun`: two overlapping calls of
   `getScheduler` create two adapters. Jobs registered with the one that
   `_scheduler` no longer refers to are never dispatched. The manual's own
   example registers by `getScheduler().then(...)`.

3. `scaffold_exit`, `ValidationFailureExitsOne`: a failing `scaffold validate` ends
   with exit code 0: the result of `writeOutput` is dropped. The manual promises 1,
   and `package.json` relies on it.

Seen while modelling, without a run of their own:

- `rate-limit.ts:5` says sliding window (see `AtMostTwoBudgets`).
- The manual says that `APP_MODE=node` selects node-cron and that the scheduler
  starts by itself; `scheduled.ts` always asks for the mode `cloudflare`, and
  nothing calls `start()`.
- With `SCHEDULER_ENABLED=false`, `scheduled()` calls `getJobByCron`, which the
  no-op adapter does not have: the event handler throws.
- `db-consumer.ts:176` retries a job that is already completed if the SELECT after its
  UPDATE fails: see `OnlyOwnRunUnsettles`.
- A PRAGMA that throws leaves the handle of the opening open (`bun-sqlite.ts:120`): see
  `OneHandleInUse`.
- The node adapter's `stop` leaves stopped tasks in the Map: `isJobRunning`
  stays true, and a later `start` skips the job, so a stopped adapter never runs
  it again. The test `start after stop does not double-schedule` knows the latter.
- `telemetry/metrics.ts:31` promises a periodic reader even without an
  endpoint; the code attaches none.
- `api-client.ts:146` promises that timeouts propagate; one that comes while the
  body is read is swallowed (`http-client.ts:85`) and the request resolves with
  `undefined`. `ReadFails` is that branch.
- A shutdown that rejects leaves `initialized` true with a dead provider, and after
  a shutdown and a new start the cached instruments still belong to the old
  provider: nothing they measure arrives. `_reset...` is for tests.
- `scaffold validate` does not read `--dry-run`, which the manual says previews
  fixes (`03_USER_MANUAL.md:129`). After a fix only the categories that had a
  fixable issue are validated again: errors of the others are no longer reported.
- `scaffold add` after `remove` lists the workspace, but does not restore the
  dependency rules that `remove` deleted.
- `scaffold init` run again after a crash takes the new names from the contract for
  the old ones, and leaves the texts that were still to be written as they are.
- `policy-check.ts --fail-fast` "stops once the first policy load or execution error
  is encountered" (`06_POLICY_CHECK.md:83`); after a load error the policies already
  loaded are executed. The flag `w` is ignored by a rewriting fix.
- `apply-migration.ts`: an entry `copy` overwrites a file that was created after the
  analysis.

## 13. What is not modelled

- **Auth, error handler, routes, SPA fallback**: functions of one request; the
  index.html cache is filled once.
- **Logging**: a configuration that a process sets once, by calls that run without
  interruption, and the wording of lines.
- **`EntityDao`** beyond what the queue uses: each method is one statement, and no
  table has the column that soft delete needs.
- **`dev-all.ts`**: it passes a signal on to two children and ends when both have
  exited; what can go wrong is in the children.
- **Checks of docs, coverage and migration drift, the smoke test**: one pass over
  the files that writes nothing.
- **Web application, contracts, validators, cursors, dates, response formatting**:
  formatting, parsing and comparing of single values.
- **SQLite, drizzle, node-cron, OpenTelemetry, rg, the file system, the event
  loop**: external; their part in the models is what `src/` relies on, and is
  marked so in the map.
- **Statistics of the queue**: they read, and nothing depends on them.
- In the components that are modelled: exporters and attributes of telemetry, the
  sanitizing of SQL, headers of the rate limiter, the order of keys and the layout of
  files and reports.

## 14. Plan

All components with state that changes over time are modelled, and every safety and
step property is proved. What is left is what a proof of liveness rests on, short
of fairness: that the measure it would use never grows.
