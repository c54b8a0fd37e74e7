# PageX: a verification of its deploy, cleanup, serving, build and usage paths

PageX hosts static sites. A **console** (TypeScript, Next.js route handlers) takes
deploys, rollbacks and deletes; a **cleanup worker** (Cloudflare queue consumer) prunes
what is no longer needed; **blob servers** (Go) resolve a host name to a deployment and
serve its files. They share PostgreSQL, Redis and an R2 bucket, and none of them waits
for another: correctness rests on a Redis lock, a few unique indexes, and the order in
which each handler writes the three stores. Next to them a **build runner** builds sites
from git, a **log worker** folds access logs into usage counters, and an **ingest** endpoint
bills usage. The modules in this directory model those
handlers one await at a time, TLC checks them on small instances, and TLAPS proves the
main invariants for every value of the constants.

## Inventory

| Component | State it keeps | Operations | Talks to | Modelled in |
|---|---|---|---|---|
| Deployments (`console/src/features/deployments`) | tables `deployments`, `blob_tree_entries`, `idempotency_keys`; Redis lock `deploy:lock:{page}`, token, pointer `site:{id}:active` | prepare, commit, rollback | R2, queue | `Deploy` |
| Projects (`page.service.ts`) | `pages.deleted_at`, `sites.active` | create, edit, soft delete | lock (fence), Redis keys, queue | `Deploy`, `Cleanup`, `Routing` (the delete) |
| Blob storage (`blob-upload.service.ts`, `r2.ts`) | R2 objects, table `blobs` | store, read, exists | | `Cleanup` |
| Queue producer (`cloudflare-queue.ts`) | the queue | enqueue with retries | cleanup worker | `Cleanup` |
| Cleanup worker (`cleanup-worker`) | nothing of its own | `deployment_gc`, `page_delete` | PostgreSQL, R2 | `Cleanup` |
| Routing writer (`routing.ts`) | Redis `site:*` keys | three best-effort writes | | `Routing` |
| Blob server, routing (`routing.go`, `manifest.go`, `handler.go`) | two LRUs with TTLs per process | resolve site, resolve deployment | Redis, PostgreSQL | `Routing` |
| Blob server, manifests (`manifest.go`, `manifest_cache.go`) | manifest LRU, `manifestErrors`, `manifestLoading` | load manifest | R2 | `ManifestLoad` |
| Remote builds (`console/src/features/builds`) | table `builds`, Redis lock `build:page:{page}` | create, claim, heartbeat, complete, reconcile | runner, GitHub, Fly | `Builds` (not: log lines) |
| Build machine (`fly.controller.ts`, `controller/route.ts`, `custom-worker.ts`) | the state of one Fly machine, Redis lock `build:machine:lock` | wake, controller tick | Fly, cron, runner, table `builds` | `BuildMachine` |
| Build runner (`services/build-runner`) | one job, its log sink | claim loop, heartbeat; clone, install, build, deploy by the CLI, reports; log delivery | console | `Builds` (the loop), `BuildJob` (a job), `LogSink` |
| Blob server, content (`handler.go`, `cache.go`) | LRU bounded in entries and bytes | resolve a path and its variant, conditional requests, fetch | R2 | `BlobContent` |
| Logs worker (`service/logs`) | `pending_files`, `processed_files`, counters; the event queue | drain, scan, claim, fold | PostgreSQL, R2, queue | `LogPipeline` |
| Usage ingest (`usage-ingest.service.ts`) | `usage_ingest_dedup`, billing, metrics and daily rows | ingest a batch | PostgreSQL | `UsageIngest` |
| In-process GC (`gc.service.ts`), `deployFromLocalDirectory` | | | | no: nothing calls them |
| Authentication, guards, rate limits | | | | no: a request they refuse changes nothing modelled |
| Console UI, web site, CLI | | | | no: they are the clients whose requests are the inputs |

What makes the system hard, and the property it calls for:

* **Handlers interleave at every await.** Two commits, a commit and a rollback, a commit
  and a delete of one page run in different isolates. At most one deployment is active
  (`OneActive`), it is complete (`ActiveReady`), and the page moves from one complete
  deployment to another in one step (`ImplementsPageLive`).
* **The lock is a lease.** It lapses, its heartbeat may land late, and its holder name is
  the client's token, so it is re-entrant. What depends on the lock (`LockedAlone`,
  `PublishesActive`, ...) is separated from what the database alone guarantees.
* **Three stores, no common transaction.** Redis is written after the commit
  (`PointerFollowsCommit`, `CacheAfterCommit`), objects are deleted before rows
  (`RetainedServable`).
* **Jobs are delivered at least once**, possibly twice at the same time, and may die
  half-way (`RetainedServable`, `PurgedWasExpired`, `QueueDrains`).
* **Caches are filled from snapshots** and nobody invalidates them (`Converges`).
* **Misses are coalesced** by a single flight with a negative cache next to it
  (`OneFetch`, `NoStampede`, `AnswersEventually`).
* **One cache serves all clients**, of resolutions, bodies and failures, under keys that must
  tell apart what clients may not share, with a byte count kept by hand (`ServedAsResolved`,
  `CacheBounded`).
* **Counters are added to at least once** by workers that die, batches that are sent again and
  notifications that come twice; only a marker in the same transaction makes that once
  (`CountedOnce`, `ImplementsUsageLedger`), and nothing that was announced may be forgotten
  (`NothingForgotten`).
* **One machine, started and stopped by several.** A wake may be lost, the controller decides on
  counts that are already old, and its lock may outlive it; a job must not be left behind
  (`JobsEnd`).
* **A job reports on what it cannot see whole**: a CLI killed after its commit, a report whose
  answer is lost, log lines in a batch under way when the job ends (`OutcomeTruthful`,
  `Accounted`, `InOrder`, `Completes`).

## Modules

Each component has a module with its state and actions, a `...Props` module with what must
be true of it, and where there are proofs a `...Proofs` module; the `MC...` modules are what
TLC runs. `PageLive` is the abstract specification that `Deploy` implements, `BuildQueue` the one that
`Builds` implements, `UsageLedger` the one that `UsageIngest` implements. Where a composed run has properties of its own, the proofs of its components share a module:
`BlobServerProofs`, `RemoteBuildProofs`, and `BlobContentProofs`, which uses those of the other two
components of its run. Operators whose
comment begins with *Mutation of* are plausible bugs: each is the counterpart of the
definition below it, and shows that the property it is paired with in PROJECT.json
notices that bug.

### Deploy

One page. A process is one request handler; `pc` is the await it is at. `status`, `active`,
`treed`, `manifests` are the deployment rows, named by version; `idem`/`result` the
idempotency keys; `lock`, `token`, `pointer` the Redis keys; `hold`, `ver`, `base`, `cur`
the handler's local variables. Two variables are history: `wentLive`, the rows whose activation
has ever committed, and `owner`, the key that the commit of a row names. The status alone does not say that a
row went live: `CommitNewer` writes "superseded" on one that never was.

| Code | Actions |
|---|---|
| `prepareDeploy`, `checkAndReserveIdempotencyKey`, `failIdempotencyKey` | `Prepare...` |
| `commitDeploy`, `commitBlobTreeDeploy` | `CommitLoad` ... `CommitConsume`, `AssertHeld`, `ReadFence`, `FindActive`, `Activate`, `Publish` |
| `withLock`, its Lua scripts and heartbeat | `Enter`, `Beat`, `LateBeat`, `Release`, `LockExpires` |
| `rollbackToDeployment` | `RollbackStart`, `RollbackAcquire`, `RollbackManifest`, then as a commit |
| `deletePage` | `DeleteStart`, `DeleteMark`, `DeleteFence`, `DeleteClear` |
| an exception inside `withLock`; a killed isolate | `Throw`, `Crash` |

The activation transaction is three steps (`ReadFence`, `FindActive`, `Activate`), since
at READ COMMITTED each SELECT sees what is committed when it runs and locks nothing; the
partial unique index is `IndexAllows`, `UNIQUE(page_id, version)` is `RowFree`.
The constants choose what the environment may do: `Lapse` lets the lock's TTL run out
under a live handler, `Dup` lets two running requests use one holder name, `Handlers` names
the requests that arrive, `MaxLate` bounds heartbeats in flight. `AnyKey` lets a commit name another
idempotency key than its token (`input.idempotencyKey`), which need not exist; without it the two are the same.

Abstracted: a site has a one-file tree; the key that a prepare names is its token; no row is pruned, so that the
branch for a completed key whose deployment is gone (`Replayed` is false) is there and not reached; the manifest object and its row are stored in one step;
the Redis manifest cache and `site_version` are left out; the GC job enqueued at the end
is in `Cleanup`.

### Cleanup

Pages, the objects and rows their deployments share, the queue, and the worker. A slot is
a queue message with the handler that runs it. Each query, each batch of R2 deletes and each
transaction of `runDeploymentGC` and `runPageDelete` is an action; `JobFails` and
`PartialDelete` are a throw, a kill or a lost ack, after which the queue delivers again.
The console side (`Prepare` ... `Enqueue`) stores objects and rows in the order of the code. A delete
(`SoftDelete`, `EnqueueDelete`) takes no notice of a deploy or a rollback of its page that is under way, and may die before it
asks for the purge (`DeleteFails`); the deploy meets the fence (`Fenced`), or the missing page row. The activation is one step here: the race of its fence read
is in `Deploy`. `Overlap` says whether
jobs run while a deploy or a rollback of these pages is under way.

### ManifestLoad

One deployment in one blob-server process: `loadManifest` (`ReadErrors`, `ForgetError`,
`ReadL1`), `loadManifestCoalesced` (`Join` is `LoadOrStore`, `Lead` is `once.Do`, `Close`
is the deferred `close`), `loadManifestFromRemote` (`FetchSucceeds`, `FetchFails`), and the
two caches' TTLs. A group that nobody holds stands for a newly allocated one. `Cancel`
allows the client whose request context runs the load to go away.

### Routing

One site, several blob servers. `SiteL1` ... `SiteFill` is `resolveSiteID`, `ActiveL1` ...
`ActiveFill` is `resolveActiveDeploymentID`; the console's writes are `Activate`/`Publish`
and `DeleteSite`/`ClearSite`/`ClearActive`. `Lossy` lets Redis commands and queries fail,
`HourPasses` lets the one-hour TTL of `site:{id}:active` run out. Activations are numbered, so a rollback is a new
version; the page lock serialises them (module `Deploy`). Malformed values count as misses.

### Builds

The remote builds of one page, and the one runner that works on them.

| Code | Actions |
|---|---|
| `POST /api/builds`, `acquirePageBuildLock`, `createBuildJob` | `CreateLock`, `CreateInsert`, `CreateRelease`, `CreateDies` |
| `claimNextBuild`, one UPDATE; its answer may be lost | `Claim`, `ClaimNothing` |
| `processJob`: clone, install and build; the CLI; the reports | `BuildFails`, `StartDeploy`, `ReportCompleted`, `LoseReply`, `ReportFailed`, `RunnerTick` |
| the commit that the CLI asks the console for (module `Deploy`, here one step) | `EndCommit` |
| `completeBuild` | `CompleteLoad`, `CompleteFinish`, `CompleteUnlock`, `CompleteDies` |
| `reconcileBuilds`, by cron or by the runner | `CronTick`, `Requeue`, `GiveUp`, `GiveUpUnlock`, `EndTick` |
| `heartbeatBuild`, the lease, the token's and the lock's lifetime | `Heartbeat`, `LeaseExpires`, `TokenExpires`, `LockExpires` |
| the Fly machine | `MachineStarts`, `MachineDies` |

A handler of the console goes on when the runner that called it has died or timed out, so
reports, commits and sweeps of older attempts run next to a new attempt. A token is named by
the attempt that it was minted for; the single machine makes `worker_id` a constant, so the
ownership checks on it never fail. `Claim` takes the oldest queued row: a row that `FOR UPDATE SKIP LOCKED`
passes over is being updated by another statement, and one that stays queued would need
`updateBuildLog`, which no route calls; a claim or a report that finishes the row takes it out of the
queue in either order. `dep` remembers that `deployments_build_id_uid` lets one
build insert one deployment row, even a row whose commit failed. The machine starts and
stops at any time, which includes whatever the controller (`fly.controller.ts`) decides.

### BuildMachine

Who starts and stops the machine; of a job it keeps only status and attempts.

| Code | Actions |
|---|---|
| `createBuildJob`, then `wakeBuildMachine` without a lock | `CreateJob`, `WakeReads`, `WakeStarts`, `WakeFails` |
| `POST /api/internal/builds/controller`, called by the cron and by the runner before it exits | `CronTicks`, `RunnerTicks`, `Reclaim`, `ReclaimEnds` |
| `runBuildControllerTick`: two counts, each a query of its own, and only then the lock | `Count`, `TakeLock` |
| `reconcileMachine` with `decideControllerAction` | `ReadState`, `Decide`, `Act`, `Release`, `TickFails`, `TickDies` |
| `BUILD_MACHINE_LOCK_TTL_SECONDS` | `LockLapses` |
| Fly: a machine boots, stops, crashes; a process that ends stops it (restart policy `no`) | `Boots`, `Stops`, `Crashes`, `Exits` |
| `runUntilIdle`, `processJob` as one step | `TakesJob`, `TakesUnheard`, `NothingQueued`, `ClaimRefused`, `JobDone`, `ReportLost` |

`Goes` is what happens while nothing goes wrong, `GoesWrong` each call that fails, answer that is
lost, process that dies, lease that runs out under a build and lock that lapses under its owner;
`mishaps` counts the latter up to `MaxMishaps`. A stop that kills a build is not among them: the
code's own order of steps allows it at any time.

### LogSink and BuildJob

`LogSink` is `log-sink.ts`: `append` (`Append`), its timer (`TimerFires`), `flush`
(`AppendAndFlush`: every caller logs a line first), the drain that posts one batch piece by
piece and starts it over when a piece fails (`PieceAccepted`, `PieceRefused`, `PieceFails`,
`GivesUp`), `dispose`. Lines are numbers of equal size, so the budgets are counted in lines. A
post that failed may still arrive (`flying`, `Arrives`). `behind` remembers the lines that stood
in the buffer when a flush found a drain under way, `mark` the last flush: what the code
promises of a line depends on both. A flush returns when no drain is under way, not when
nothing is buffered; the caller's await is the guard of `Settle` and `SettleFailed`.

`BuildJob` extends it with `processJob` of `runner.ts`, one action per command of
`workspace.ts`, `deploy.ts` and `process.ts`: `FetchCommit`, `Checkout` with its `FullFetch`
fallback, `Submodules`, `Install` (each install command of the plan in turn), `RunBuild`,
`LegacyBuild`, `CollectOutput`, `RunCliDeploy`, then flush, report, the catch block with its own
flush and report, and `dispose`. A command exits with 0, with another code, or is killed.
`deployed` is the truth about the site, `unread` that the runner did not get the result line.
`Output` is a line of a command, also of one that has exited but left its pipe open.

### LogPipeline

The log worker (`worker/main.go`, `cfqueue.go`, `process.go`) and the cron that starts it. A
file is one of a few kinds of content. `Pull`, `InsertPending`, `Ack` drain the queue, `List` and
`StageScannedReady` scan the bucket, `ClaimPending` takes the oldest rows, and `File` folds one
after the other: `IsProcessed` is read, then the file is fetched, then `StoreFile` adds, marks
and unstages in one transaction. `ahead[k]` is the order of `pending_files` by `created_at` and
key, kept as the set of rows before `k`; `todo` is the claim in that order. `RunFails` is any
error, the ten minutes of the context or a killed machine, at any step.

### UsageIngest

`POST /internal/usage/ingest`: a request's transaction goes through its records (`SkipRecord`,
`Claim`, `ApplyRecord`), and commits or aborts as a whole. PostgreSQL's row locks are in the
guards: `Claim` waits for an open transaction that inserted the same id, and two requests that
wait for each other end by `AbortDeadlock`. `AnswerLost` and a failed request are sent again.
`PurgePage` deletes the page row, after which a site's records are metered but not billed.
`UsageLedger` is what the producer is promised (`ImplementsUsageLedger`): a batch is entered as a whole, each record
that is not yet there once, and only then answered.

### BlobContent

One path, several clients, one LRU. `LookUp` is the two lookups of `ServeHTTP`, `ResolveBlob`
`pickVariantMap` over the path candidates, `CheckBody` and `GetObject` the halves of
`serveBlob`, `LruGet`, `LruSet` and `LruMiss` `cache.go` with `currentBytes` kept as the code keeps it,
by additions and subtractions. An entry is a resolution, a body or a 404; an expired entry is a
miss that removes it. `NotModified` is `checkConditionalHeaders`: the ETag or, when that differs,
the date. A blob is named by its content (`file`) and its variant, so that deployments share it; since it is stored only if
R2 does not have it, its date is that of the first deployment that has it (`Date`), as if all were stored, in
order, before the first purge.

### Modules that TLC runs

`MCBlobServer` (routing and manifest loading), `MCRemoteBuild` (`Builds`, `BuildJob` and
`BuildMachine`) and `MCUsageContent` (`LogPipeline`, `UsageIngest`, `BlobContent`) put components that share no state
into one run. `part` names the component that moves; the others rest at one initial state, which
is fixed so that it is not multiplied. The sum of the state spaces is checked, not their
product, and each component is checked as if it were alone: fairness is that of its own module, conjoined with `part`.

## Runs

| Run | Instance | What it shows |
|---|---|---|
| `deploy_open` | 2 handlers, 1 key, 2 rows, `Lapse`, `Dup`, `AnyKey`; prepare, commit, rollback | what holds without trusting the lock, and the refinement of `PageLive` |
| `deploy_locked` | 2 handlers, 2 keys, 2 rows, neither | what the lock adds |
| `deploy_fair` | 2 handlers, 1 key, 1 row, 1 late heartbeat, all four requests | `LockFreed` |
| `deploy_fence` | 2 handlers, 1 key; prepare, commit, delete | *violation*: the delete fence |
| `cleanup_safe` | 2 pages sharing 1 hash, 2 deployments each, 2 messages, retention 0, no overlap | jobs against jobs, with retries and crashes |
| `cleanup_fair` | 1 page, 1 deployment, 2 messages, 2 attempts, overlap | `QueueDrains` |
| `cleanup_purgeactive` | 1 page, 3 deployments, retention 1, overlap | *violation*: rollback against prune |
| `load_recovers` | 2 goroutines, 2 groups, no cancellation | *violation*: the group that stays |
| `blob_live` | routing: 1 server, 2 requests, 2 activations, lossy, the hour passes; loading: 2 goroutines, 3 groups, cancelled clients | safety, `Converges`, `AnswersEventually` |
| `build_jobs` | 1 build, 2 attempts, 1 tick; 1 job with 2 install commands, a sink of 3 lines, 1 failed post; 1 machine, 1 tick, 1 job of 2 attempts, 2 mishaps | late reports and sweeps (`ImplementsBuildQueue`), `Finishes`; log delivery, outcome, `Completes`; `JobsEnd` |
| `usage_counts` | 1 log worker, 2 files of any kind, 1 notification, 1 fault; 2 batches of up to 2 of 2 records, 1 loss; 2 clients, 2 deployments, a cache of 2 | `CountedOnce`, `NothingForgotten`, `FoldedUnlessBlocked`; `ImplementsUsageLedger`; `ServedAsResolved`, `CacheBounded` |
| `content_rollback` | 1 client, 2 deployments, 3 requests | *violation*: revalidation by date after a rollback |

Why the bounds are enough. Every property of `Deploy` relates at most two handlers and two
rows (the one that is active and the one that replaces it); a third row only repeats the
second. In `Cleanup` the interesting case is a hash that two pages share while two messages
run; with retention 0 every inactive row is expired, which needs two deployments where the
code's ten would need twelve (`cleanup_purgeactive` uses retention 1, so that the row of a
running deploy, the newest one, is never expired, as with ten; with retention 0 `PurgedWasExpired` says no more than that no
active row goes, and the count is left to its theorem). `ManifestLoad` needs the
group that has ended, the one that is current and one to be allocated. In `Routing` servers
meet only in Redis, where a second request plays the part of another server's. In `Builds`
two attempts are the fewest that can be confused; overlapping ticks are left to the proof of
`AttemptsBounded`, which is for any number of them; builds of one page share nothing but the
runner, the advisory lock and the order in which they are claimed (`BuildQueue`); the first two no property depends on, and
the order is left to the proof of `BuildQueueRefined`, so one is enough. A sink of three
lines has one in a batch, one behind it and one too many. In `BuildMachine` two mishaps are a lost wake and
one more, such as a tick that dies with the lock; the tick that follows is then skipped by a lock whose owner is gone, as it
would be by another's. Two files are one that blocks and one
that waits; with one worker each file counts once, and the proof covers workers that overlap.
Two batches of two records are enough for an overlap, a repetition and a deadlock. The clients of
`BlobContent` differ in what they accept; a cache of two entries evicts at the third, and a body
of size two fills it. Apart from liveness, nothing that passes rests on these bounds: it is proved. No run checks deadlock in modules whose systems may come to rest
(`Deploy` at its version bound, `Cleanup` when the queue is empty).

## Fairness

`FairSpec` assumes weak fairness of one running handler's next step (awaits settle or the
isolate is killed at its maximum duration: `Run`, `ConsoleStep`, `WorkerStep`, `Proceed`,
`Resolve`, `JobStep`, `RunStep`), of time (`LockExpires`, `ErrorExpires`, the TTLs) and of commands already sent
(`LateBeat`, `Publish`). Nothing is assumed of clients: no request need arrive. In `Builds`
the cron goes on ticking and the machine, started when work is queued, in the end survives
one claim, and a tick in the end lives long enough to handle one row it has listed
(`SF_vars`): without these a machine that dies at each start would keep a build queued.
In `BuildMachine` the cron goes on ticking, a tick, the runner, Fly and the clock go on, and a lease
that has run out is in the end seen by a tick (`SF_machineVars`). What goes wrong is bounded
instead: one tick must do all of its steps, and no fairness of single steps says so.
Fly is taken to be configured, since every tick is "disabled" otherwise.
In `BuildJob` every command has the job's time limit and every post its own, so the job's step and
the sink's posts are fair; the timer and stray output are not, and `Completes` does not need them.
In `LogPipeline` the cron ticks and a running machine goes on; `RunFails` is bounded by `MaxFaults`, since a
machine that dies in every run folds nothing. Uploads and notifications are not fair:
`FoldedUnlessBlocked` speaks of files that are staged and there. `UsageIngest` has no liveness
property: whether a batch is sent again is the producer's affair.
A step that may succeed or fail is fair as a whole, never its successful branch, so a handler may
always fail. `PartialDelete` and `StorageChanges` have no fairness.

## Proofs

All proofs are for every value of the constants under the ASSUMEs of the modules (bounds
are natural numbers, `NoKey`, `NoGroup`, `NoServer` are not members of the sets they stand
beside, `Tick` is finite and not empty).

* `DeployProofs`. `Typed` is inductive alone. The safety invariants are not: that a
  completed key names a deployment that went live needs to know what a handler between
  `apply` and `complete` has done, and `OneActive` needs the row read by `FindActive`. The
  strengthening `Safe` says what is true at each step of a handler (its row exists, is its
  own from the insert on, has a tree and a manifest from those steps on, and is in `wentLive`
  once applied). `Spec => []Safe` gives `OneActive`,
  `ActiveReady`, `OneWriterPerRow`, `CompletedWasDeployed` and
  `PointerFollowsCommit`. With `Safe`, `Activate` maps to `PageLive`'s step, and every other
  action to a stutter or to the preparation of a deployment: `PageLiveRefined`. A separate
  invariant, `Exclusive`, assumes `~Lapse` and `~Dup` and shows that the lock
  names the one handler inside `withLock`: `LockedAloneHolds`. What follows from it is proved
  under the same two assumptions. `Settled` is `StatusAgrees` with, for
  every handler, `Undisturbed`: what a handler that is alone may still rely on (its row is not active before
  it is activated, no row is newer than its own after the base check, the row it has found to demote is the
  active one, and its own is active when it publishes): `StatusAgreesHolds`,
  `NoStaleActivationHolds`, `PublishesActiveHolds`. `Once` adds that a handler that
  has yet to deploy holds a key that is not completed, and that the token of a completed key
  is older than the row it deployed, so that the base check refuses it: `NoRedeployHolds`, which assumes `~AnyKey` as well.
* `CleanupProofs`. `CleanupTypeCorrect` holds whatever overlaps. `RetainedServableHolds` and
  `PurgedWasExpiredHolds` assume what `cleanup_safe` assumes, that jobs and handlers take turns
  (`Overlap = FALSE`) and nothing is rolled back; without this TLC refutes them. `CleanInv`: a deployment of a live page is
  complete, or inactive with `Retention` newer inactive ones that do not count the row of a deploy that is about to become
  active (`Kept`); what a job has listed may still go when it deletes (`Listed`), and nothing outside its list names an
  object it deletes (`Unshared`). The step that needs an argument is a purge next to another job: taking
  rows away makes others less expired, but the newest of the rows taken has `Retention` newer ones
  that are not taken (`StillNewer`, by well-foundedness).

  What is left when jobs run next to deploys and deletes is proved too, for `Retention >= 1` and any `Overlap`.
  A job goes by rows it listed before the page moved on. The row of the deploy under way at that moment is the
  newest of its page (`Latest`), so that it is never listed itself, but it was counted, and counts no longer once it is
  activated; `Spare` says that a row is neither active nor about to be and has `Retention - 1` newer ones that stay,
  and `OverlapInv` that everything a running job has listed is spare. Hence `PurgedButOneHolds`: an old list costs a page
  one row of those retention keeps, never two (TLC refutes the bound without the `- 1`), and never the
  active one: `ActiveNeverPurgedHolds`, so that the counterexample of `cleanup_purgeactive` needs its rollback.
  `ManifestsButOneHolds` says the same of the manifests. `RecordedReferredHolds` assumes
  nothing at all: `TreeInv` follows a row from its insert to its manifest, and the foreign key aborts
  the purge of an object's row that is in use. What overlap can take from a deployment that is kept is therefore, but for
  that one row, the object in R2 alone.
* `BlobServerProofs`. Manifest loading: `OneFetch` needs that a group with a running load is the one
  registered in `manifestLoading` (`Registered`) and that one request runs it (`OwnGroup`);
  `NoStampede` follows because only the loader that is alone stores an error. `LoaderSafe` proves them
  together with the types; `NoStampedeHolds` and `LoaderTypeCorrect` are its parts. Routing:
  `CacheAfterCommit` with the typing facts is inductive: values move only
  from PostgreSQL outwards, and `dbActive` only grows. `BlobServerTypeCorrect` is about the two side by side.
* `BuildsProofs`. `TerminalIsFinal` needs only the types. `CompletedIsLive` needs that a report
  as completed exists only for a live deployment (`ReportsLive`): the runner has seen it, and
  `dep` keeps it. For `AttemptsBounded`, `Budget` counts the attempts of a build together with
  the ticks that hold a row of it they would requeue: such a tick listed the row while an
  attempt was left, a requeue uses up the tick, and a claim follows a requeue. The sum never
  exceeds the maximum and the number of ticks less one. The same invariants make `Builds` a `BuildQueue`
  (`BuildQueueRefined`): a claim is allowed because a queued build has not spent its `Budget`, a completion because
  of `ReportsLive`, and a failure because whatever reports, deploys or sweeps a build comes after a claim of it
  (`Tried`). A handler's step is a step of the queue only where it changes a row; a late report, a sweep of a row
  that has moved on and a commit that `deployments_build_id_uid` refuses are stutters.
* `LogPipelineProofs`. `CountedOnce` is not inductive: the workers that have found a file not
  processed and have not stored it yet may each still add it. `Shares` bounds their number together with the counter
  by the number of workers, and says that a file is marked exactly when it is counted; nobody joins
  them once it is marked. `Staged` ties an acknowledgement to the row it has just
  staged, which gives `NothingForgottenHolds`.
* `UsageIngestProofs`. `AppliedOnce` needs what each open transaction has claimed, added and billed
  (`Open`), and that no two of them have claimed one record (`Apart`), which is the wait of `Claim`; a commit then adds
  exactly what it marks. For `UsageLedgerRefined`, `Covered` follows a request through its batch: each record it has
  met is malformed, was there already, or is claimed. At the commit it has met them all, so that the step is the
  ledger's `Enter` of the whole batch (`CommitEnters`); every other step of a transaction, an abort and a deadlock are stutters.
* `RemoteBuildProofs`. Of the job: `SinkInv` places every line (`Placed`), orders what is sent, under way and
  buffered (`Ordered`), counts `pendingBytes` (`Budgeted`), and says what a flush leaves (`Marked`, `Flushed`);
  `Journey` says what the job knows of the site at each step. They give `AccountedHolds`,
  `InOrderHolds` and `OutcomeTruthfulHolds`, for any budgets, piece size and number of failures; the branch in
  which a batch is given up after all its retries is reached by the proof, and by the run at its
  bound of one failure only as far as the first retry. Of the machine: its types are not inductive, since a
  claim counts an attempt without looking at the number of those made. `MachineInv` adds that a queued job has an attempt left
  and that a job never claimed has made none (`TablePart`): a claim then stays within the maximum, and a sweep puts a job back only
  while an attempt is left (`MachineTypeCorrect`). `RemoteBuildTypeCorrect` is about all three side by side.
* `BlobContentProofs`. What a request is served was put into the cache by a request of another client, perhaps long ago, so
  `ServedAsResolved` needs an invariant of every entry: what stands under a key is right for that key
  (`Right`: a blob to which the key's deployment resolves the path for some client with this key and, but for images,
  in the encoding of that blob), with the same of the resolution that a request carries (`RequestsRight`). An image's key does not determine what a client
  accepts, which is why the property speaks of the clients that share a key (`Alike`). The date comparison that `content_rollback`
  refutes concerns 304 only, and the theorem 200. `ClientsGetActiveHolds` is about both, under two hypotheses (`ForwardSpec`): the
  active deployment never goes back, and no deployment restores a blob of the path that a later one had replaced
  (`NoneComesBack`: what an older deployment resolves to is either what a newer one does, or has an earlier date). What a client
  holds is then never of a newer deployment than the one it asks for, and an equal or earlier date means the blob it would be
  served. Neither hypothesis can be dropped: the first by `content_rollback`, the second as under *Known limits*. For `CacheBounded` the byte count is the cardinality of the disjoint
  bytes of the bodies (`Bytes`): removal, eviction of the tail and insertion in front are then
  lemmas about finite sets, and no induction over the sequence is needed. The loop of `Set` is the longest prefix that fits;
  that it ends is the well-foundedness of a maximum (`LruSet`). The types need `CacheBounded`: without it
  nothing says that the count does not go below zero. `UsageContentTypeCorrect` is about the three components of the run.

Every invariant and every action property of the passing runs is stated by a theorem, and so are the three refinements.
Only model-checked are the liveness properties (`LockFreed`, `QueueDrains`, `AnswersEventually`,
`Converges`, `Finishes`, `JobsEnd`, `Completes`, `FoldedUnlessBlocked`), since fairness and ENABLED are beyond the
prover. `TerminalIsFinal` and `AppliedOnce` are proved and not in a run:
`ImplementsBuildQueue` and `ImplementsUsageLedger` say more. `PurgedButOne`, `RecordedReferred` and `ManifestsButOne`
(`CleanupProps`) are proved and not kept as runs; `ActiveNeverPurged` is violated in the run that allows a rollback, and
proved without one; `ClientsGetActive` likewise, for contents that do not come back.

## Disagreements with the repository's own words

Four runs end in a violation on purpose; PROJECT.json quotes the line each contradicts.

* `deploy_fence`: the re-read of `deleted_at` in the activation transaction is a plain
  SELECT; a delete that commits between it and the COMMIT does not stop the deployment.
* `cleanup_purgeactive`: `purgeDeployments` deletes by id without looking at `is_active`
  again, so a rollback that activates a listed row loses it.
* `load_recovers`: the early return of the re-check leaves its group in `manifestLoading`;
  later misses get its old error for the life of the process.
* `content_rollback`: `checkConditionalHeaders` compares dates even when the ETag differs, and the
  body of an older deployment was stored earlier: after a rollback a client that revalidates is told 304
  and keeps what was rolled back. The run has two deployments, so that only a rollback can do it.

### Known limits

Seen in counterexamples of these modules while they were written, and not kept as runs:

* Two commits of one token share the lock. The release of one frees it under the other,
  another client deploys, and the first one's heartbeat and `assertHeld` then succeed: an
  older deployment replaces a newer one of another client (`TODO.md:161`).
* A commit that dies after the activation leaves its key in progress; the next prepare gets
  a new base version and the key activates a second deployment (`docs/architecture.md:547`).
* A commit that fails after its INSERT is refused as stale when retried with its token
  (`TODO.md:150`).
* A rollback that already has the lock does not notice a delete (`docs/WORKERS.md:97`).
* A site that deploys contents A, B and then A again, each forward, answers a client that holds B with 304: the blob of A was
  stored before that of B and is not stored again. It takes a body that another client's request has put into the
  cache; without one the bucket is asked, which compares the ETag. (Seen with three deployments and two clients.)
* A deploy may re-use an object between the prune's reference check and its delete
  (`TODO.md:279`); this is why `cleanup_safe` has `Overlap = FALSE`. Its database rows and its manifest
  are safe all the same (`RecordedReferredHolds`, `ManifestsButOneHolds`).
* A prune ignores manifests it could not delete, so a later page purge, which finds them by
  row, leaves them (`page-delete.ts:15`).
* `deleteSubdomainMapping` is best effort and its key has no TTL: a lost DEL leaves a
  deleted site resolvable (`page.service.ts:372`).
* A request that read PostgreSQL before a deploy may write Redis after the console did: the
  old pointer then lives for its one-hour TTL and refills every L1 (blob server
  `README.md:261` promises about 60 s). `Converges` holds because that TTL ends.
* Ticks overlap, since only the machine controller takes a lock and not the sweep before it
  (`controller/route.ts:15` calls the tick lock-guarded). Each may requeue a row that it
  listed before, so a build gets one attempt more than `max_attempts` per overlapping tick,
  and an attempt whose lease a heartbeat has just renewed is taken back: `AttemptsBounded`.
* A runner that loses the answer to its completed report sends a failed one. If that one is
  first, the build is failed although its deployment is live (`build.store.ts:207`), and a
  failure is recorded for a build that another report has completed.
* `completeBuild` deletes the page's build lock even when it finished nothing, and the create
  route's catch block even when it had not taken it: a second build may then start.
* An attempt whose commit left a row makes every later attempt of that build fail on
  `deployments_build_id_uid`.
* The controller stops a machine that builds: a tick counts no work, then a job is created, the wake
  starts the machine, the runner claims the job, and only then the tick takes the lock, reads
  "started" and stops it, although "an active job means stopping would kill a build"
  (`build-policy.ts:180`). The lock keeps ticks apart (`fly.controller.ts:17`), but neither the
  counts nor the wake are under it. The two counts alone suffice: no active job is seen before
  a claim, no queued one after it. `JobsEnd` shows that the job ends all the same, at the
  cost of an attempt.
* The documents mention CHECK constraints on statuses; the schema declares none.
* Log files: one that does not unpack ends every run when its turn comes, since its row stays
  among the oldest; a file with no line of a tenant stays pending and takes a place in every claim
  (`FoldedUnlessBlocked` excludes both). Two workers that overlap add a file twice
  (`CountedOnce` counts them), which the cron's single machine avoids.
* The service's README says that R2 is never listed; the worker scans its recent days.
* Usage: a record whose bucket is not a date keeps its dedup claim although nothing was added.
* A log line that is appended while a drain is under way waits for another drain. `flush()`, called
  then, waits for the drain only (`log-sink.ts:53`), and an append that fills the batch while a drain is under way
  starts no timer: such lines go out with a later flush or are thrown away by `dispose()`.
* The console has no route for log posts, so that each is refused with 404 and its lines are counted
  as dropped.
* `process.ts:73` listens for `exit` and not `close`: the CLI's result line may not have been read, and a
  deployed build is reported as failed.
* `config.ts:20` calls the job timeout a cap of the job; it is applied to each command.
* The fallback of `workspace.ts:213` for a commit that cannot be checked out is not reached when the fetch of
  the commit is refused: `FetchCommit` fails first.
* Blob cache: an image's path is cached under one key for all clients that accept WebP, whatever
  else they accept, so that they share an encoding (`handler.go:913`); a cached 404 is shared between
  encodings (`handler.go:76`); a cached item is completed without the cache's
  lock (`handler.go:371`); `BlobContent` does it in one step.

## Not modelled

* Of the blob server: Range requests, `RedirectToS3`, the single-tenant `serveObject`, and
  `blob_fetch.go`, which nothing calls.
* Of remote builds: the GitHub lookup, log lines and stages.
* Of deploys: the Redis manifest cache and `site_version`, which no reader orders by, `presignDeploy`
  and the validation of a file list.
* Authentication, guards and rate limits; the console's UI and the web site, which are most of the
  implementation's lines; the CLI, whose requests are inputs; `gc.service.ts` and
  `deployFromLocalDirectory`, which nothing calls.

## Plan

Done: deploys, cleanup, manifest loading, routing, builds and their machine, the build job and its log sink, the log
pipeline, the usage ingest, the content cache, and the proofs of what they keep. What would come next:

1. **BuildMachine with Builds**: the machine of `Builds`, which starts and stops at any time,
   driven by `BuildMachine`.
2. **Deploy with Cleanup**: a completed key whose deployment was pruned, and a prune between
   `prepare` and `commit`.
3. **Abstract specifications**: a store of retained deployments that `Cleanup` implements.
4. **Theorems**: which objects survive overlap, if a deploy were to check its object again before it is activated.
