# A verification project for prism-server

Prism is a media server: it scans libraries of video files, transcodes them into
DASH bundles, on its own goroutines or on remote workers, and streams them.
This directory holds TLA+ models of the parts whose correctness depends on the
order of events, the TLC runs that check them on small instances, and theorems
proved with TLAPS for every instance. `PROJECT.json` maps every definition to
the lines it models; paths below are relative to `src/`.

## Inventory

The server is one Go process over one SQLite database.

| Component | State | Operations | Talks to |
|---|---|---|---|
| Transcode queue store (`internal/store/sqlite/jobs.go`, `workers.go`) | rows of `transcode_jobs`, `transcode_sub_jobs`, `transcode_workers`, `media_items.transcode_status` | create, reset, bulk enqueue, prioritise, claim, update status, recover, heartbeat, delete | called by all below |
| Transcode pool (`internal/transcoder/pool.go`) | goroutines, the monitor's ticker, manifest cache | `Enqueue`, claim and process, recover lost workers, recover at start | store, files, hub, bus |
| Worker API (`handler/worker_handler.go`, `worker_admin_handler.go`) | requests in progress | register, heartbeat (counts, claims), upload, progress and failure reports, delete | store, files, hub |
| Job API (`handler/jobs.go`) | requests in progress | enqueue, bulk enqueue, prioritise, progress websocket | pool, store, hub |
| Bundle files (`pool.go`, `pkg/dash`, `internal/artifact`, `internal/storage`) | segment directories, `manifest.mpd`, sidecars, `mpd_path`, `bundle_status` | choose an area, clean up, write segments, regenerate the manifest | store, disk |
| Progress hub, websockets | subscriptions with buffers of 16 | subscribe, publish, unsubscribe | pool, worker API |
| Event bus (`pkg/events`), auto-enqueue | subscriptions with buffers of 64 | publish, subscribe, enqueue on `media.created` | scanner, pool, UI |
| Library scanner (`internal/scanner`) | one watcher per library, walks, watches, fsnotify's queue | scan, prune, watch, add, remove | store, disk, bus |
| Artifact indexing and relinking (`artifact_indexer.go`, `artifact_relink.go`) | artifact records and links | index an area, relink by fingerprint | store, disk; the scanner finds and links bundles too |
| Setup, users, tokens (`handler/setup.go`, `users.go`, `auth.go`, `middleware/setup_guard.go`, `internal/auth`) | users, refresh tokens, `setup_complete`, storage areas; access and cast tokens at the clients | setup, create and change users, login, refresh, logout, cast tokens, create, change and delete areas | store |
| Metadata enrichment (`internal/metadata`, `handler/metadata.go`) | goroutines with lists of items they read | enrich one item, refresh everything | store, TMDB |
| Settings, areas, profiles, libraries | rows | single-statement reads and writes | store |
| Streaming, ffmpeg, wiring, web UI | none of their own | | |

What makes each correct:

* **Queue store.** A job is done only when all its sub-jobs are; an active job has
  something left to run; a waiting job can be claimed; what ended is not run
  again; claims follow priority and age.
* **Pool and worker API.** No sub-job runs twice in the pool; what runs cannot be
  claimed; a crash or a lost worker brings the work back, and a worker that is
  removed loses none; a worker gets no more than its threads, unless its heartbeats overlap.
* **Bundle files.** A manifest the database points to names only renditions that
  are there, and in the end all of them.
* **Hub and bus.** A viewer is told of the end of a job once it ended, and not
  before; an item that was found is enqueued.
* **Scanner.** After a scan the rows describe the directory; finished work stays;
  a deleted library leaves nothing behind.
* **Artifacts.** After a run the index equals the disk, found bundles play again,
  relinking links nothing twice.
* **Accounts.** A server that counts as set up can be used, until an administrator takes
  its storage away; nobody makes himself an account while the setup guard works;
  a session that was ended gives no access as its user for long.
* **Metadata.** No row is forgotten, however refreshes and scans overlap.

What is hard: handlers that make several store calls with anything in between;
goroutines that work on rows a reset has deleted; workers that fall silent while
an upload is on its way; crashes between any two statements; copies that are
written back after the row has changed; foreign keys that change rows behind a
transaction's back; channels that drop what does not fit. `PROJECT.json` lists
each such place under `hazards` with the property that watches it, or why none does.

## Modules

| Module | What it is |
|---|---|
| `JobLifecycle` | What the queue is to those who only see the status of a job and of its item. The most abstract specification of the queue. |
| `TranscodeStore` | The rows and the transactions. `StoreSpec` lets anybody run any transaction at any time. It implements `JobLifecycle`. |
| `TranscodeQueue` | The callers: goroutines of the pool, the monitor, the handlers with one action per store call, crashes. It extends the store, and implements it. |
| `TranscodeBundle` | The files: one item's directory in each storage area, its manifest and sidecar, and what its row says of them, while goroutines, workers and an administrator's requests write them. It extends the store. |
| `JobStream` | What a progress stream promises its clients. |
| `EventStreams` | Hub, websockets, event bus and auto-enqueue, over any queue that `JobLifecycle` allows. It implements `JobStream`. |
| `LibraryScan` | One library: files, rows, scans, the watcher, statements that fail, the pool's writes to the same rows. |
| `Artifacts` | Storage areas, the index of the bundles in them, relinking, the scanner's own discovery of bundles, the loss of the database. |
| `Accounts` | The wizard and its guard, users, sessions, cast tokens, storage areas as what setup leaves behind. |
| `Metadata` | Enrichment of movies, shows, seasons and episodes, and the refresh. |
| `MC...` | For each, symmetry and constant functions for TLC. |
| `TranscodeStoreProofs`, `TranscodeQueueProofs`, `TranscodeBundleProofs`, `EventStreamsProofs`, `LibraryScanProofs`, `ArtifactsProofs`, `AccountsProofs`, `MetadataProofs` | Inductive invariants and theorems. That the store implements `JobLifecycle` is in `TranscodeStoreProofs`. |

How they are composed:

    TranscodeQueue  --implements-->  TranscodeStore  --implements-->  JobLifecycle
                                          ^                               ^
    TranscodeBundle  -------extends-------+          EventStreams --extends+
                                                          |
                                                      implements
                                                          v
                                                      JobStream

`EventStreams` does not repeat the queue. It takes the actions of `JobLifecycle` as
what anybody may do to jobs and items, and adds what callers publish afterwards.
That the real queue does no more is `FollowsLifecycle`, checked by `queue_handlers`
and proved.

### How the state corresponds to the code

**The queue.**

* `internal/store/sqlite/db.go:24` opens one connection, with foreign keys on. A
  transaction, or a statement outside one, is therefore one atomic step. Two
  statements in a row are two steps, with one exception: `DeleteWorker` first
  calls `RequeueWorkerJobs`, which looks for jobs by `worker_id`, a column no code
  ever sets to a worker; the first statement never changes anything.
* A media item has at most one job (unique index), so `job[m]` is the row of item
  `m`, or `NoJob`. `sub[m][k]` is the sub-job of kind `k`: a profile, or the
  subtitles. `gen[m]` counts the sets of sub-job rows the item has had; a call that
  holds a sub-job's uuid holds `<<m, k, g>>`, and finds no row when `g` is not
  `gen[m]` any more (`Current`).
* `createSubJobsForJob` makes one video sub-job for each profile left after it
  filtered by height. Which are left depends on data the model does not have, so
  any non-empty set of profiles may be (`EligibleProfiles`): the code never
  inserts none, since it falls back to the default profiles and keeps one.
* `worker[w]` is a worker's row. `fresh` says whether its last heartbeat is younger
  than the monitor's 30 seconds; a new ephemeral worker is online without one.
  `online` stands for `idle` and `transcoding`, which nothing distinguishes.
* `clock` is the second `time.Now()` is in, since `created_at` is stored to the
  second and equal times are ordered by random ids.
* `enq`, `beat` and `rep` are calls in progress: `Pool.Enqueue` between its read and
  its writes, heartbeats between the count, the first write, the claim and the
  second write, and reports between the check of the owner and the update. What
  such a record holds is what the handler read, and may be out of date. `local` is
  what goroutines of the pool process.
* `queuedBy` is a history variable: whether `Enqueue` or a bulk enqueue queued the
  job last. No action reads it.
* A request may be cancelled before any of its statements (`EnqueueFails`,
  `HeartbeatFails`, `ReportFails`), the second write of a heartbeat included; what it
  has written stays. A heartbeat does not expire while its own handler runs: the
  handler takes milliseconds and the monitor waits 30 seconds.
* Every action models its whole handler. `LocalEnd` and `ReportWrite` leave the
  database alone when the row is gone, as the code does when the `UPDATE` finds none.
* `Restart` is a crash followed by `Pool.Start`, which recovers before any goroutine
  or handler runs (`cmd/server/main.go`).

**Bundles.**

* A `task` is a sub-job from its claim to its last write: `Pool.process` of a
  goroutine; for a worker the rest of the heartbeat that claimed, the work, and the
  upload, in which the owner is checked before the bundle is received. `pc` is what
  it does next: each statement, each change of the disk and each read that a later
  step relies on is a step. The steps from `list` on are `RegenerateManifestForJob`
  and `WriteSidecarForMediaItem`, and any number of tasks may be in them.
* `dir[a]` is the item's directory in area `a`: whether it exists, how far each
  rendition's segments are, what the manifest names, which profiles the sidecar names.
  `mpd` is the area `mpd_path` points into. `SelectArea` may pick any area, or none
  (`Fails`): free space is data. `regen` is `HandleRegenerateMPDs` between its read and
  its write, for one item.
* A goroutine's ffmpeg fails in a directory that was deleted; `unzipFile` makes the
  directory again and ends with what was left.
* A heartbeat does not expire while its own handler runs: the handler takes
  milliseconds and the monitor waits 30 seconds.
* What follows the end of a sub-job may fail at each step: the list of done sub-jobs, the
  manifest, the update of the item, the sidecar (`BreaksOff`), and so may the write of
  the status itself (`MarkDone`). A goroutine logs it and goes on to the sidecar
  (`pool.go:576-585`), an upload is answered with the error (`worker_handler.go:464-476`);
  nobody tries again. `Publish` is one `UPDATE` that sets `mpd_path` and `bundle_status`
  together (`pool.go:923-927`), so one is never set without the other.
* `spoiled` is a history variable that names what `ManifestBacked` and
  `ManifestComplete` have to except. `clash` is for good: a clean-up or a second writer
  has hit files that another sub-job of the item is writing or has finished. `manifest`
  and `sidecar` are not: they stand from a failure, a crash or an overwriting that leaves
  the manifest, the path and the status, or the sidecar, behind the sub-jobs that are
  done, until a later sub-job has written them again. No action reads it.

**Streams.** `life` and `item` are `JobLifecycle`'s. `telling` is a publisher between its
last write and its last event, which reads the job again in between. `stream[c]` is one
websocket of `JobProgress`: it reads the job, subscribes, and sends what is in its
channel until a done; `missed` is a history, set when the end was published before
the channel existed, did not fit, or was not published at all. `feed` is the
listener's channel; `NoItem` stands for the events the listener skips but that take
its room. `over` is a history of the jobs of which an end was reported.

**Libraries.** `proc[s]` is a goroutine of `ScanAll` or of the watcher; its `pc` is the
next call to the store in `upsertFile`, `tryLinkExistingItem`, `upsertTVEpisodeFile`
or `processDeduplicationAndLinking`, and `m` the row it read or has composed. `item`
are the rows; `UpsertMediaItem` keeps the `ON CONFLICT` clause with its `CASE`.
`events` is what fsnotify has not delivered; nested directories get a watch when they
are noticed, and what they hold already is missed, as in the code. Each statement that
writes may fail (`StatementFails`, `PruningFails`): the file is counted as failed or the
error logged, and the scan goes on. An entry the walk cannot read is skipped
(`ScanBegins`, `Visit`). A name that is no episode's (`Unparsed`) gives no row and no
error. A file of the size its row has is passed over (`Stat`, `KnownFile`); `SizeOf` lets
files of different content have one size. `calm`, `failed` and `unnoticed` are histories:
the scan that nothing has disturbed, whether it met an error, and which files had been
replaced by others of the same size before it began. `TranscodeBegins`, `OldBundleDropped`
and `TranscodeEnds` stand for what the pool writes to the row.

**Artifacts.** `run[r]` is one `IndexAll`, `IndexStorageArea` or `RelinkExact`, with the
statement it is at and what it has read. An item is known by the path of its file.
`disk` is the sidecar in each directory, `Broken` while it is truncated and not yet
written. `DatabaseLost` is the case the index is for. A statement that fails is logged and
the run goes on (`StatementFails`). `ScanFinds` is the third writer of links: the scanner,
for a file of its library, looks for a record with the file's fingerprint in an enabled
area, or else for a sidecar, whose record it writes; it makes the item done, with the
bundle's path, and inserts a `linked` link without a look at existing ones. It is one step
beside the runs; `LibraryScan` has its statements one by one. `calm` is a history.

**Accounts.** `req[q]` is a request between two statements. `access` are access and cast
tokens that were issued; they are never stored, so they are good until they expire. A tick
is long to a request: it sees one at most. `area` is the row of a storage area for each
path, if any, and whether it is enabled; administrators create, change, disable and delete
them, the last one too. `SetupGuard` lets every request pass when it cannot read the
setting. A cast token, which any access or cast token can be exchanged for, names no user
and has a life of its own. `by`, `at`, `unread` (the guard let a request pass before setup)
and `removed` (an administrator disabled or deleted an area) are histories.

**Metadata.** A row has metadata when its `tmdb_id` is set. `run[g]` is a goroutine that
the scanner starts for one item, or a refresh request that clears three tables, lists
the items and becomes a goroutine. The scanner's write of the row (`ScanFinds`), its
reading back, which may fail and then starts no goroutine (`ScanReadsBack`), and the
goroutine are steps of their own, and so are the statements of `EnrichTVEpisode`. `have` says which copies it works from had
metadata. TMDB's answers are found, none, or failed. `lost` is a history: rows whose
fetch failed or was given up since the last clear.

## Runs

| Run | Instance | Shows |
|---|---|---|
| `queue_handlers` | 1 item, 1 profile, 1 worker, 2 goroutines, 2 requests at once, 2 generations of sub-jobs | types; done jobs are complete; active jobs have work; waiting jobs are claimable; nothing runs twice in the pool; two heartbeats that overlap give a worker one sub-job more than its threads and no more; nothing that ended runs again; `JobLifecycle` is implemented |
| `queue_recovery` | 1 item, 1 worker, 1 goroutine, 1 request, 1 crash, 2 generations, priority 1, 2 seconds, fairness | what a worker runs is watched by the monitor; only the removal of a worker orphans work; no queued job starves |
| `queue_bulk` | 1 item | violated: bulk-enqueued jobs can never be claimed |
| `queue_removal` | 1 item, 1 worker | violated: the work of a removed worker is not requeued |
| `bundle` | 1 item, 1 profile, 1 goroutine, 1 worker, 1 area, 1 administrator, 1 crash, 2 generations | a finished job's manifest names all its renditions and no other, the segments are there, and so is the sidecar, once a sub-job has got through after the last failure, crash or overwriting; types |
| `bundle_areas` | 1 item, 2 profiles, 1 goroutine, 2 areas | violated: a manifest is published in a directory without the segments |
| `scan` | 3 paths, one nested and one that is no episode's, 3 contents of which 2 have one size, 2 ids, 1 scan and the watcher, episodes, 1 change of the directory, 2 transcodes | an undisturbed scan without errors leaves rows that describe the directory; finished work stays; a deleted library stays empty |
| `streams` | 1 item, 1 client, 1 publisher and the ticker, hub buffer 2, bus buffer 1, fairness | done is told only after an end, and once; while a stream waits that missed nothing, the end is in its channel or with a publisher; no such stream hangs; announced items are enqueued |
| `artifacts` | 1 area, 1 directory of bundles, 2 files, 2 fingerprints, 1 run at a time, 2 changes | after an undisturbed run the index equals the disk and bundles play; an undisturbed relinking attaches what a done item matches, and links nothing twice |
| `artifacts_relink` | the same | violated: a relinking leaves artifacts of items that were scanned into a new database unattached |
| `accounts` | 2 users, 2 names, 1 session, 2 requests, access and refresh tokens of 1 tick, cast tokens of 2, 3 ticks | a completed setup leaves a usable server; no account is unaccounted for; access ends with the session |
| `metadata` | 1 movie, 2 episodes of a season, one unknown to TMDB, 2 goroutines | when all is quiet no row is forgotten |

Every property of a passing run has a mutant: a plausible bug in a mapped
definition, kept beside it and marked `Mutant`, under which TLC finds the
property violated.

**The bounds and why they are enough.** Items interact only through the order of
claims and through a worker's count, so one item is enough for what the runs check; the
order of claims among several is proved (`ClaimsInOrderAlways`, `PrioritizedFirstAlways`)
and not run. Two kinds (one profile and the subtitles) give a sub-job a
sibling, which is all `UpdateSubJobStatus` distinguishes: the proofs hold for any
number. Two generations let a goroutine or a handler hold a sub-job that was
replaced; a third adds nothing such a holder could tell from the second. Two
request slots let every pair of handlers overlap. One crash separates the two
lives a recovery has to connect. `MaxGen`, `MaxClock`, `MaxPriority`, `MaxRestarts`,
`MaxChanges` and `MaxTranscodes` stand in guards and cap what is unbounded in the code;
the theorems hold for every value of them. Deadlock is checked only in `metadata`: the
others may stop when the bounds are used up and nothing is left to do.

`bundle` has one item, since files of different items never meet, and two executors, a
goroutine and a worker, since every property is broken by a pair. Two kinds of sub-jobs
end in either order; more renditions, and profiles that change between jobs, are left to
the theorems. The constraint `Followed` stops at states that are not followed further: an
item with a `clash`, of which nothing is claimed any more, a job that a bulk enqueue put
back, and an administrator at work after a crash or the first worker, so that his
regeneration meets the goroutine only. The theorems have no such limits. There is one
area: with two, `bundle_areas` shows what is lost, and neither property would hold.

In `scan` a rename needs two paths, a duplicate two ids, and the nested path the
watches; an arbitrary directory to start from stands for earlier changes, so one more
change, at any moment, is enough for a file that comes, goes, moves or is replaced
while a scan is at any of its calls. The constraint `Small` keeps at most two files at a
time, and either a change of the directory and a transcode, or two transcodes. `streams`
has room for one event more than none and one more than that, so that each channel is full
in some behaviours and not in others; the proof is for any size. In `artifacts` one area
and one root mean that `UpdateStorageArea` only switches the area off and on, and one run
at a time means that a run meets others only through what an earlier one left that was
cancelled or failed, or through the scanner, which writes links at any moment. `accounts`
has a second user, name and request for every conflict there is, and lets each kind of
token expire within the three ticks. `metadata` has siblings of one season, whose show and
season two goroutines fetch, and one episode TMDB does not know.

**Fairness.** `queue_recovery`: each goroutine of the pool polls the queue and
its ffmpeg process ends (weak fairness of `LocalClaim` and of the end of its task);
the monitor's ticker fires every ten seconds; a heartbeat handler waits for nothing
but the store. Nothing is assumed of requests, workers, uploads or the scanner.
`NoJobStarves` is conditional: workers must fall silent for good (one that
heartbeats and never reports holds its sub-job for ever, and nothing in the code
takes it away), the job must have been queued by `Enqueue` (see `queue_bulk`), and
no sub-job of it may be an orphan. `streams`: a goroutine or handler goes on to its last
event, a websocket sends what is in its channel (neither waits for anybody: `Publish`
drops), and the listener's goroutine runs. Nothing is assumed of the queue, the
scanner, the clients, the workers or the administrator.

### What the violated runs say

* `queue_bulk`: `BulkEnqueueUntranscoded` inserts jobs without sub-jobs, and the other
  two bulk requests reset jobs and not their sub-jobs. Only sub-jobs are claimed. The
  jobs stay pending, and `Enqueue` returns them as they are.
* `bundle_areas`: every sub-job chooses the area with most free space for itself, and
  writes there a manifest that names renditions its siblings may have put elsewhere.

* `queue_removal`: `DeleteWorker` requeues by `transcode_jobs.worker_id`, which no code sets
  to a worker, and the foreign key then clears the `worker_id` of the worker's sub-jobs:
  they stay processing, with no owner, until a restart. The comments of `DeleteWorker` and
  `RecoverFailedWorkers` promise that they are requeued; the latter loses those of
  ephemeral workers in the same way, because it deletes the workers before it requeues.
  `OrphansOnlyByRemoval` says that nothing else does.
* `artifacts_relink`: `RelinkExact` asks only for items that are done, so it attaches
  nothing to items that a scan has just made in a new database, which
  `openspec/specs/artifact-relinking/spec.md:15-16` has it do. The index and the scanner
  attach found bundles instead (`BundlesRecovered`).

### What the models show besides

Behaviours the code has, that a property above excepts or that no property is about:

* `UploadSubJobBundle` checks the owner, receives the bundle, and ends the sub-job
  without another look: a late upload may end what somebody else runs.
* `Heartbeat` counts and claims in separate statements: two that overlap may give a
  worker more than its threads, by one for each request more than one (`WithinThreads`).
* `process` deletes the old bundle when its sub-job is the first of the new rows to
  start. A sub-job of the previous run may still be encoding: a failed sub-job fails
  the job at once, and the job can then be enqueued again. Between the count and the
  delete a sibling may start as well.
* When the list, the manifest, the update of the item or the sidecar fails after a sub-job
  is done, the job ends done all the same, with a bundle that lacks a rendition, or none.
  Only a later sub-job of the item makes it good.
* `HandleRegenerateMPDs` may write an older list over a sibling's manifest and, for an
  item without done sub-jobs, takes the sidecar's word for which renditions are there.
* A progress stream that subscribes after the end was published, or whose channel is
  full then, waits for ever; so does one whose upload breaks off after its sub-job's end.
* The watcher reads that an item has no bundle and deletes the row by its id; a
  transcode that ends in between leaves a bundle without an item.
* A cancelled refresh, or one that a restart hits, leaves rows without metadata until
  the next refresh or change of the file.

* `upsertFile` sets `source_status` to available and hands the row it read before to
  `tryLinkExistingItem`, which writes it back whole: the row may say missing again.
* The scanner and the index insert `linked` links without a look at existing ones, so an
  artifact may come to have two; `RelinkLinksOnce` is about relinking only.
* A file replaced by another of the same size is passed over by every scan.
* An administrator may disable or delete the last storage area.

Where documents and code differ, beyond the findings of `PROJECT.json`:

* When several items match, `RelinkExact` links the first and calls the others ambiguous;
  `openspec/specs/artifact-relinking/spec.md:34-35` blocks the link.
* A record whose sidecar cannot be parsed any more is logged, counted and then marked
  missing; `openspec/specs/artifact-metadata/spec.md:41-44` has it marked metadata-invalid,
  a constant (`internal/models/models.go:252`) that nothing sets. `IndexMatchesDisk` claims nothing of such a record.
* The index registers what has a sidecar it can parse and looks at no manifest;
  `openspec/specs/artifact-indexing/spec.md:23-30` validates the bundle first.
  `ValidateBundle` (`internal/artifact/metadata.go`) would, and only tests call it.
* The indexer creates no items, and the enricher does not write the sidecar, which is
  not written by a rename either: `openspec/changes/canonical-bundles/design.md:168,
  103, 122` decide otherwise.
* `ServeManifest` cannot reach its fallback to links (`handler/stream.go:82-94`): without
  a path it has answered 404 before.
* `CreateUser` is open while there are no users (`handler/users.go:34-36`, `internal/api/router.go:95`), but
  behind `SetupGuard`, which lets nobody pass before the wizard has made a user, unless it
  fails to read the setting: the only way the rule is reached (`AccountsAccounted`).
* A cast token lives for four hours of its own (`internal/auth/cast_token.go:10`) and names
  no user: `AccessEnds` bounds access in a user's name and says nothing of it.
* A record becomes `stale` only if it is not seen, and what is not seen is `missing`
  by then. `MarkArtifactsMissing` has no caller.

## Proofs

TLAPS proves the listed theorems for every finite or infinite set of items, profiles,
workers, goroutines, requests, clients, users, sessions, paths and rows, for any size
of the channels and for any bound. The assumptions are those the modules declare and
TLC evaluates: `StoreAssumption` and `QueueAssumption` (NULL is not a worker, the
subtitles are not a profile, there is a profile, the bounds are naturals, there are finitely
many request slots and at least one),
`StreamAssumption` (the ticker is not another publisher, buffers are not empty),
`ScanAssumption`, `RowAssumption` and `AccountAssumption` (NULL is no value, bounds and
lifetimes are naturals), `BundleAssumption` (no area is the missing one, actors are told
apart), `MetadataAssumption` (an episode has a season and that a show; kinds of rows are
disjoint). Two theorems assume more, one storage area, and say so: `BundleBacked` and
`BundleComplete`.

**The store** (`TranscodeStoreProofs`). `DoneIsComplete` and `WorkRemains` are
inductive together, with the types: the end of a sub-job needs both, since the job
it settles may be done, failed or active. `WaitingIsClaimable` is not inductive as
it stands. Its strengthening `Waits` says that a waiting job has no sub-job running,
and one that is pending; without the first half the report of a running sub-job
could end the only work left. `Waits` in turn rests on `Unowned`, the fact that no
job ever names a worker: if one did, `DeleteWorker` would put it back to pending
with sub-jobs still running. `FinishedStaysFinished` is an action property; each
transaction has its case.

**The queue** (`TranscodeQueueProofs`). `QueueImplementsStore` shows that every step
of a goroutine or a handler is a transaction of the store or leaves it alone: the
refinement mapping is the identity on the store's variables, and what is needed
besides is that the calls in progress hold well-typed values. The store's theorems
then hold of the queue. `LocalExclusive` needs a strengthening that connects the
goroutines to the rows: `TaskOK` says that a task's generation is at most its item's,
and that when they are equal the sub-job is taken, that is, not pending, and owned
by no worker while it is processing. A claim then cannot pick a row some goroutine
has, and no later generation reuses one. `RunningNotClaimable` is a consequence.
`ClaimsInOrder` and `OrphansOnlyByRemoval` are action properties, proved from the
types by cases on what may change a sub-job's row (`RowClaimed`, `NewlyUnowned`);
`PrioritizedFirst` needs nothing but the types, since the new priority is above
that of every job that waits.

**The lifecycle** (`TranscodeStoreProofs`). Every transaction of the store is a step of
`JobLifecycle`, or leaves jobs and items alone, under the mapping that reads the status
of a job off its row. It needs the foreign keys as an invariant (`Linked`): a sub-job
has a job, and a job an item. Most transactions are `Plain`, a condition on each item
by itself; the end of a sub-job and the deletion of an item have cases of their own.
`QueueFollowsLifecycle` is this theorem after
`QueueImplementsStore`.

**Threads** (`TranscodeQueueProofs`). `OverlapWithinThreads` bounds what a worker runs by its
threads and the number of requests served at once less one, for any number of each; with one
request at a time that is the threads. The sub-jobs `Held` by a worker grow by one only with a
claim in its name and otherwise only shrink (`HeldRow`). The invariant counts them together
with the heartbeats that found room and have not claimed yet: a heartbeat that finds room
joins the latter when what is held is below the threads and, itself not among them yet, at most
the other slots are; a claim takes one from the latter for the one it adds. What resets,
requeues and reports do in between only takes away.

**Work in hand** (`TranscodeQueueProofs`). `WorkIsWatched` needs to know that no worker
claims when the monitor no longer looks at it. The invariant `WatchInv` says that a
worker that holds work is online, and that a heartbeat about to claim was written and
is still fresh (`Heard`), unless its worker was deleted and the claim will fail. A tick
that takes a worker offline takes its work in the same action, and spares one that was
just heard. With `WorkRemains` this gives `JobsStayInHand`, the safety half of
`NoJobStarves`: a job that `Enqueue` queued and that is active can be claimed, or a
goroutine or an online worker has a sub-job of it, unless one was orphaned.

**The bundle** (`TranscodeBundleProofs`). `BundleImplementsStore` gives the store's theorems
for the item, `DoneIsComplete` above all. Types need one thing more, `Placed`: who writes
has chosen an area. The two invariants about the manifest follow from `BundleInv`:

* `Stands`: a job has its subtitles and at least one rendition.
* `FilesKept`, while there is no `clash`: one task at a time writes a rendition, none that is
  done, and a rendition that is done has all its segments. This is where the order of
  segments and `MarkDone` counts. Failures, crashes and overwritten manifests do not touch it.
* `NothingLost`, while there is no `manifest` in `spoiled` either: each rendition that is done is
  in the manifest, or a task is about to list it or has it in its list (`Named`); the manifest
  names no other, or is about to be written anew (`NoStrangers`); the row follows
  (`Published`). No task knows it is the last, but whichever is holds all that is done. The
  write that ends `spoiled` establishes it: what is done by then is in the manifest, and what
  ends later is listed by its own task.
* `SidecarKept`, the same for the sidecar: it is there, or a task that has ended is to write it.

Both are proved for one storage area. With several, two sub-jobs of one job may select
different ones and the statements are false, as the run `bundle_areas` shows of the
comment on `GenerateMPD`. One area is what the setup wizard makes; `SelectArea` may
still fail. The proof made `ManifestBacked` what it is: after a crash or a failure between the
end of a sub-job and its manifest, the manifest of an earlier job may stay, with renditions a
clean-up removed. Until a sub-job has written it, the property speaks of the present
renditions only; three generations of jobs are needed to see why, more than the run has.

**Streams** (`EventStreamsProofs`). `StreamsKeepPromise` is a refinement: each step shows
the clients nothing, or one step of `JobStream`. The invariant follows a reported end
through everything that may carry it: a job that is over, a publisher that will say
done, an event in a channel, a stream that read the status.

`StreamsHearOfTheEnd` is the safety half of `NoStreamHangs`: while a stream waits for a job
that is over, and missed nothing, done is in its channel or with a publisher that will say
it. Each way to end a job leaves a publisher that tells; a publisher's event enters the
channel or counts as missed; a stream subscribes before it waits; and a publisher that
reads the job before it tells finds it over, since only a new end, with a publisher of its
own, follows a job that is enqueued again.

**Libraries** (`LibraryScanProofs`). What each goroutine holds between two calls is typed
by the call it is at (`Held`). `DeletedIsEmpty` then follows, since every row that is
written has a path: a conflict on it is with a row that exists, and an insert needs the
library. Each statement of the store keeps `RowsKept`, which also says that a done row
stays done; `DoneStays` is that, applied to each action. The watcher's watches are
typed only because an event of a new directory is about a nested path (`Told`).

`ScanningConverges` is about a scan that nobody disturbed while it ran. `Walks` speaks
of the files it has left behind it: the content of each has a row at a path that was
visited and holds that content (`Settled`), but for files the scan owes no row (`Promised`):
those whose name is no episode's, and those whose row had their size and not their content
when the scan began (`unnoticed`). A failed statement or an unreadable entry ends the claim
(`failed`). `Holds`
says, for each call it may be at, what the row it has in hand has to do with the file it
visits; `Pruned` says that a row whose path it did not see is left only with a bundle,
and marked missing by the end. What its own writes do to rows of other files is `Stays`:
a row may move, but only with its content, to a file that the scan has come to. That the
scan is undisturbed to begin with is a fact about the ghost `calm` (`CalmScan`): any
other step resets it.

**Artifacts** (`ArtifactsProofs`). Types of the runs come first, one lemma for each step of
a run. `RelinkingLinksOnce` is about a relinking that nobody disturbs: the artifacts it has
still to try differ and none is linked (`Apart`), and of the items that match one it links one,
so that the list it read before its first insert stays true of the rest to the last. The other three are about such a
run as well, which is the only one there is (`Alone`): `RelinkingAttaches` by what a relinking has tried;
`IndexingMatchesDisk` by `Walked`, which splits the directories of the area into those still
to visit and those past, where whatever is on disk was seen and its record is healthy, and
by `Marked`, that a record not seen is marked or waits to be; `BundlesPlayAgain` by
`Attaches`, that each bundle past the walk plays from an item with its content, if there is
one. `Becomes` in `Artifacts` names the new state of a run so that the lemmas can speak of it.

**Accounts** (`AccountsProofs`). `RequestOK` says what a request between two statements
has found out that is still true: a wizard at its last write has made its
administrator, and its area unless one was removed since; a request that creates a user is
an administrator's, because before the wizard ends nobody passes a guard that can read the
setting (`unread` is false), and after it there are users; a
refresh saw its token good at most one tick ago. With `AccessOK`, that no access token
of a user outlives one issued now, `AccessEnds` is inductive; cast tokens are in `access` and
name no user.

**Metadata** (`MetadataProofs`). `EnrichedOrLost` speaks of the moment when all is quiet.
Its strengthening `Covered` holds at every moment: for each row that waits somebody is
`InCharge`, a refresh that will still list the items, a goroutine that has an item of
the row ahead of it, or one whose item is at a stage that comes before the row's;
or the item was just written and is still to be read back (`Fresh`). Each
action either does what it is in charge of, loses it, or keeps it. That stale copies do
no harm is in `Working`: a copy with metadata was made before a clear, and whoever
clears lists the items afterwards.

Model-checked only: the liveness properties `NoJobStarves`, `NoStreamHangs` and
`AnnouncedIsEnqueued`, which are out of the prover's reach but for the safety halves of the
first two (`JobsStayInHand`, `StreamsHearOfTheEnd`), and the four runs that expect a
violation (`queue_bulk`, `queue_removal`, `bundle_areas`, `artifacts_relink`). Every invariant,
action property and refinement of the passing runs is also proved; `ClaimsInOrder` and
`PrioritizedFirst` are proved and not run.

## Not modelled

* **Streaming** only reads the bundles that `TranscodeBundle` models.
* **Media tools** (`pkg/ffmpeg`, thumbnails, subtitles): command lines and the parsing
  of what the programs print. What their success or failure does is in the models.
* **Wiring and middleware**: the order of start-up is in the models (recovery comes
  first, the listener subscribes late); the rest has no state.
* **Settings, profiles and libraries** beyond what the models use: single statements
  with no protocol between them.
* **Web user interface**: outside the server. `docs.go` is generated.
* In the modelled components: progress percentages, error messages, listings, counts,
  titles and all other columns no control flow depends on; the deletion of users,
  registration tokens, source downloads; a second library beside the first; rows of
  other items in `TranscodeBundle`; reads of the store that fail in `LibraryScan`, otherwise than
  by cancellation. Two artifact runs at once are in the theorems and not in the runs.
