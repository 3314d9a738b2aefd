# VideoScope: a TLA+ model of durable video indexing and search

VideoScope indexes uploaded videos on one machine: a FastAPI process stores
videos in SQLite, a dispatcher thread runs the indexing stages (scenes, speech,
OCR, objects, text vectors, and two external visual indexes), model workers run
in processes of their own, and search reads the generations that the last
completed attempt released. Programs beside the server benchmark it, run
regression batches and review annotations. This directory holds TLA+ modules
translated from the source, TLC configurations that check them on small
instances, and TLAPS proofs of their theorems.

    tlc -workers 2 -config VideoIndexJobs_release.cfg MCVideoIndexJobs
    tlc -workers 2 -config MCServer.cfg MCServer
    tlapm VideoIndexJobs_proofs.tla

Paths below are relative to `src/backend/src/videoscope/` unless they begin
with `scripts/` (`src/scripts/`) or `frontend/` (`src/frontend/`).

## Inventory

| Component | State it keeps | Operations | Interacts with | Hard behaviour |
|---|---|---|---|---|
| Job table (`jobs.py`, `repository.py` 3828-5222) | `video_index_jobs`, quarantines, `videos.status` | create, reindex, claim, cancel, complete, fail, retry, recover, quarantine | handlers, dispatcher, startup | two threads and restarts write the same rows; damaged rows |
| Stage runs and release (`artifacts.py`, `repository.py` 4566-6894) | `stage_runs`, `*_generations`, `active_*` pointers | create, transition, commit, activate | indexer thread, search | a release mixes new and retained generations |
| Dispatcher and indexer (`processing/`) | the job in hand | claim, run stage by stage, terminalize | job table, providers | every await on a provider is a window for cancellation |
| Text vector builds and collection (`repository.py` 7433-9490, `runtime_lifecycle.py` 84-395) | reservations, leases, GC jobs, tombstones, storage gate | reserve, heartbeat, commit, recover, claim, delete | indexer, collector, Qdrant | leases that expire under a live owner |
| Schema (`repository.py`, migrations) | CHECKs, keys, triggers, version | any SQL statement; migrate, repair | every program that opens the file | raw SQL; two programs upgrade at once |
| Runtime lifecycle (`runtime.py`, `runtime_lifecycle.py` 397-614, `api.py`) | lock file, threads, shutdown flags | start, close, reap, finalize | all threads, scripts | a close that answers late, failing cleanup |
| Model workers and clients (`providers/`) | device models, permits, private copies, caches | one request at a time, with a deadline | indexer, search | the client is gone and the worker works on; files change underneath |
| Text embedding (`search/embeddings.py`) | model, private copy | embed, verify, close | indexer, search | close against an operation that holds the lock |
| Files of stages (`processing/indexer.py`, `search/visual_index.py`, the Lighthouse store) | directories of generations | stage, rename, publish, remove | rows that name them | failure or death between two steps |
| Search (`search/service.py`) | none; a pinned session | read each kind of evidence, validate, certify | releases, stores, files | reads at several moments while releases are replaced |
| Uploads, exports, media identity (`api.py`, `clips.py`, `repository.py`) | files, assets | receive, cut, hash, link | API, job table | partial files; rewritten media |
| Benchmark (`benchmark/`) | private copies, registry, environment | snapshot, run, publish, close | the product's lock and stores | signals in any call; a source that changes |
| Regression batch (`benchmark/managed_workers.py`, `regression_fixture.py`) | worker processes | start, retire, stop, publish | all workers | crashes, lost ports, interrupts |
| Annotation review (`annotation_review/server.py`) | one file per answer | save | several servers, one directory | kills and power losses |
| Annotation workbench, frontend, evaluation, attestation, scripts | documents, page state | | | not modelled, see the end |

What makes each correct:

* Job table: attempts on one video are sequential; a job ends once and for the
  reason that won the race; every queued job ends; a retry has one child; the
  public status of a video follows its jobs.
* Release: what search reads is one coherent release, replaced only by
  completion; history is immutable.
* Text vectors: nothing released or being committed is collected; every orphan
  is eventually collected; the holder of an expired lease changes nothing.
* Schema: what the tables promise holds for every writer; an upgrade loses no
  work.
* Lifecycle: one writer at a time owns the data directory, and the lock is held
  while any worker thread lives.
* Workers: answers are of the bytes that were asked about; what an inference
  uses stays; copies of media and child processes can always be found again.
* Files: what a row or receipt names is whole and of the right video.
* Search: an answer is of one release; a certified answer was true.
* Programs beside the server: give back what they took; publish only what was
  sound; keep what they acknowledged.

## Modules

A component has a module of its own. Components that interact through the
database or a lock are one module (`VideoIndexJobs` is handlers, dispatcher and
recovery together). The others are composed into three groups.

| Module | Models |
|---|---|
| `VideoIndexJobs` | job table, stage runs, release activation, dispatcher, handlers, startup recovery, shutdown, crash, damaged rows |
| `VideoRelease` | abstract: one attempt at a time on a video; a release is replaced in one step, by an attempt nobody asked to stop, from its own outputs and the release before |
| `TextVectorGenerations` | reservation, writing to Qdrant under a lease, commit, and the collector that recovers and deletes what was dropped |
| `GenerationLife` | abstract: vectors are written to reserved generations only, a published one is whole and never touched, a dropped one loses its vectors until it is erased or given up |
| `RuntimeLifecycle` | lock, start, bounded close, reaper, scripts that take the same lock |
| `DirectoryOwnership` | abstract: one owner at a time, only the owner writes |
| `VisionWorker`, `WhisperWorker`, `QwenWorker`, `PaddleOcr`, `LighthouseWorker` | a model worker with its client, from a request to its answer |
| `ReviewedEmbedding` | the verified text model, its operations and its close |
| `MediaArtifacts` | directories of scenes and dense vectors, and the rows that name them |
| `SearchCatalog` | what searches read, and every move others make on it |
| `ProductSearch`, `PinnedSession` | the readers, each extending `SearchCatalog`: a search statement by statement, a pinned session with its certification |
| `IndexJobSchema`, `VectorSchema` | the job and vector tables under any SQL statement of one row |
| `SchemaUpgrade` | migrations, repair and opening, by programs of several versions |
| `AssetIdentity`, `LegacyAdoption`, `MediaFiles` | hashing and linking of media, adoption of queued videos, uploads and exports |
| `StorageSnapshot` | a private copy of a storage tree that somebody may be changing |
| `BenchmarkEnvironment`, `BenchmarkRun` | the resources of a benchmark command, and the command over them |
| `RunRegistry`, `RegressionBatch`, `AnnotationReview` | published runs, the batch with its workers, the review store |
| `MCVideoIndexJobs`, `MCTextVectorGenerations` | values of the constants for TLC |
| `MCServer`, `MCRetrieval`, `MCDatabase`, `MCTools` | the groups, see below |
| `*_proofs` | theorems and proofs |

The comment at the head of each module says what an action is, what is
abstracted and what is left out; `PROJECT.json` maps each definition to lines.

### Groups

The processes of an installation share no variable in these models: what one
takes from another is an input chosen by `\E` (a file that somebody rewrites, a
client that goes away). A group extends one module and instantiates the others
over disjoint variables; a variable `of` names the part that moves in a
behaviour, and the other parts stay as they began. So a group has the behaviours
of each part alone, nothing else is interleaved, and the states are the sum
rather than the product of those of the parts. A part that needs one bound for
one question and another bound for the next is instantiated with a parameter, a
record of bounds (`Vision(b)`, `Lighthouse(b)`, `Search(b)`): `of` is then the
part with one of the members of `VisionBounds`, `LighthouseBounds` or
`SearchBounds`, and the theorems hold for any set of such bounds. The variables
of a part that is absent are `Nil`. A property of a group is the conjunction of
what its parts contribute to one promise.

| Group | Extends | Parts |
|---|---|---|
| `MCServer` | `RuntimeLifecycle` | vision worker for each of `VisionBounds`, whisper worker, qwen worker, OCR, embedding |
| `MCRetrieval` | `VectorSchema` | Lighthouse worker for each of `LighthouseBounds`, media artifacts, search for each of `SearchBounds`, pinned session |
| `MCDatabase` | `IndexJobSchema` | upgrade, asset identity, legacy adoption, media files |
| `MCTools` | `StorageSnapshot` | snapshot with faults, benchmark run, registry, regression batch, review |

`VideoIndexJobs` sees the text vector stage as one reservation and one
commit; `TextVectorGenerations` sees the job as running, asked to stop, or ended.
They share no variable: the second takes from the first that one attempt works
on a video at a time and that its job ends in one transaction, which also drops
its build. Both take from `RuntimeLifecycle` that one process at a time writes.

### How VideoIndexJobs corresponds to the code

One action is one SQLite transaction (every repository method runs inside one
`BEGIN IMMEDIATE` transaction) or one step of the dispatcher thread between two
transactions.

| Variable | Code |
|---|---|
| `job`, `count` | rows of `video_index_jobs` in `sequence_no` order |
| `run` | `stage_runs` owned by a job, one per stage |
| `inputs` | `text_vector_generation_inputs` of the job's reservation |
| `active` | the `active_*_generations` pointers of a video |
| `status` | `videos.status` |
| `quarantined`, `damaged` | `video_index_job_quarantines`, and rows that `_video_index_job_from_row` refuses |
| `exec` | the dispatcher thread: where `process_durable` is, in which job and stage |
| `phase`, `starts` | the process: down, in startup recovery, serving, draining |
| `left` | history: the jobs whose ending the database refused since the start |

Handlers are `CreateIngest`, `EnqueueReindex`, `CancelQueued`, `CancelRunning`
and `Retry`; startup recovery is `RecoverDamaged`, `RecoverCancelled`,
`RecoverAbandoned` and `Serve`; the dispatcher is `Claim`, `ClaimNone` and the
actions of `Executes`, with `Abort` for an exception that leaves
`process_durable`, and `Decide`, `FailOwned`, `CancelOwned` and
`TerminalizationLost` for `_terminalize_owned_failure`, whose read and write
are two transactions. `TerminalizationFails` is either of them raising
(SQLite's busy timeout, an error of the disk, a damaged build of the job at
`repository.py:5077`): the dispatcher logs it and goes on to the next job, and
the row stays running until the next start.

Abstractions. A job makes at most one run of a stage, so a published generation
carries the number of its job and 0 is "none". A job is claimed at most once, so
its execution token is valid exactly while it is running. Progress values,
timestamps and error codes are left out. A transaction of startup recovery that
fails is a start that fails, a `Crash`; one of a handler that fails changes
nothing, and the request is answered with an error. A video's source is immutable, so generations
of one video share its hash. `Damage` stands for corruption from outside: the
code handles rows that do not validate, and so does the model.

### How TextVectorGenerations corresponds to the code

One action is one SQLite transaction, one write to or deletion from Qdrant, or
one passage of the storage gate.

| Variable | Code |
|---|---|
| `attempt` | an indexing attempt that reached the vector stage: its job and its stage run |
| `build`, `leased` | rows of `text_vector_builds` with their `recovery_state`, and whether `lease_expires_at` is still ahead |
| `tomb` | `text_vector_generation_tombstones.lifecycle_state` |
| `gc`, `gcQuarantine` | `artifact_gc_jobs` (state, attempt, and whether `available_at` or the lease is over) and `artifact_gc_quarantines` |
| `stored` | what Qdrant holds of a generation: points, manifest |
| `gate` | the three fields of `TextVectorStorageGate` |
| `builder` | the dispatcher thread in `_build_text_vector_generation`; `lost` is an error its heartbeat thread met |
| `collector` | the thread of `ArtifactGarbageCollector`, with the claim it holds |
| `phase`, `damaged`, `faults` | the process, rows that no longer validate, faults so far |

The builder is `Begin`, `Enter` (the gate), `Reserve`, `WritePoints`,
`WriteManifest`, `StopHeartbeat`, `Commit`, `BuildRefused` and `BuildRaises`
(one of these raises), `FailBuild` and `Leave`; then the job ends by
`CompleteJob`, `AbortJob` or, when that raises, `JobLeft`. The collector is
`StartMaintenance`, `RecoverExpired`, `Claim`, `Delete` (or `DeleteFails`,
`DeleteRefused`), `Finish`, `EndBatch`, `EndMaintenance` and `CollectorRaises`. Heartbeats that
succeed change nothing the model sees; `HeartbeatFails` and `GCHeartbeatFails`
are those that do not, which stop the heartbeat thread for good.
`BuildLeaseExpires` and `GCFallsDue` are time passing a deadline. Startup is
`RecoverBuilds` and `RecoverJobs`.

Abstractions. An attempt reserves at most once, so attempt and generation have
one number. Time is what it makes possible: on which side of its deadline a row
stands. The lease token of a claim is the number of the claim. A claim examines
rows in any order, which covers the code's order by deadline. Points are never
found under a fresh generation id, and inputs do not change under a build, since
only its own job publishes on the video.

Two behaviours of the code the model shows and no document denies: completion
does not drop a build whose cleanup was deferred, so that build blocks the next
attempt on the video until its lease runs out; and a damaged build makes the
failure or cancellation of its job raise, which leaves the job running until the
next start.

### How the other modules correspond to the code

* `RuntimeLifecycle`: a session is a lifespan of the application or a run of a
  script; `flock` excludes file descriptions, so processes need not be told
  apart. `lock` and `fd` are the lock file and the descriptor; `thread`, `stop`
  and `reaper` the threads `Runtime.close` waits for, `mutex` its shutdown lock.
  File checks on the lock path are left out.
* `VisionWorker`: one slot per HTTP request, from transmission to answer, also
  after its client gave up; `holder` is the inference lock, `permits` the
  capacity semaphore. `QwenWorker` adds the reranker's cache on disk and the
  state the language model keeps between requests; admission and copy are one
  step in the code and two in the model. Its private copies leak if it is killed.
* `WhisperWorker`: the lock of the work root, the private directories with
  owner record and lease, and the steps of their removal. A kill between `mkdir`
  and the owner record, or between the owner's `unlink` and `rmdir`, leaves an
  empty directory nobody owns; the property is about directories with copies.
* `PaddleOcr`: reader, its lock, the child and the three kinds of private files
  (bundle, frames, models). A child that SIGTERM ends leaves its copy of the models.
  Waiting for the hello of a child can fail in the system itself (`OSError`, which
  `_load_worker` does not catch): `Forget` then leaves a child nobody remembers,
  which ends when it finds its pipes closed. Its only further step is that end.
* `LighthouseWorker`: snapshots of the video around the encoding, staging,
  `os.replace` of the generation, `active.json`, bound and unbound searches.
  Power losses are left out, and a rewrite of a finished generation does not
  restore old bytes.
* `MediaArtifacts`: one build is one attempt at a stage with a directory of its
  own. The video may be replaced at any step, also by bytes it had before, and the
  visual builder compares digests only at the ends; `restored` remembers the builds
  between whose digests the bytes came back. Dense directories of failed builds stay
  unreferenced.
* `SearchCatalog` with `ProductSearch` and `PinnedSession`: speech and OCR stand
  for the three semantic segment stages. Speech and OCR are two reads in the
  code and may be of two releases; what a search finds by meaning may not.
* `IndexJobSchema`, `VectorSchema`: one action is one INSERT, UPDATE or DELETE
  of one row by any program, admitted or aborted by CHECKs, unique indexes,
  foreign keys and triggers; REPLACE and the deletion of videos are left out,
  UNIQUE over video, spec, source and attempt is ignored (more is admitted). A
  tombstone begins as `building`, as the one INSERT of the program makes it.
  A generation has a name, taken once in the segment and text tables and once for
  each video and kind in the external one (`NameFree`); `MovePointer` is an UPDATE
  of the key of a pointer alone, which the owner triggers do not watch, and `moved`
  remembers the pointers that such an UPDATE has put where they are.
* `SchemaUpgrade`: a database is its version marker, the schema really there,
  what is missing from it, and the rows that migrations rewrite. The retry of
  the WAL pragma is left out.
* `StorageSnapshot`: two scans file by file; the state of a file is a change
  time that no two changes share. Subdirectories are one level deep. An
  interrupt skips the cleanup, which the scratch directory above it takes over;
  a sync that fails after the rename makes the cleanup empty a directory under
  its final name, which is never returned.
* `BenchmarkRun` over `BenchmarkEnvironment`: every call may raise an error or
  meet one of two signals. An interrupt during a failed setup whose cleanup also
  fails leaves the environment open (`gaveUp`), and one while a measurement
  starts leaves its session open. `CloseAttempts` 2 stands for 16.
* `RunRegistry`, `AnnotationReview`: steps between two system calls, what a
  power loss may take is what was not synced. The root of the registry is there
  and its own entry durable. The review begins in a new batch or in one that is in
  use; `vanished` remembers what had been acknowledged when the power took the
  annotations directory.

## Runs

| Run | Instance | Shows |
|---|---|---|
| `jobs_release` | one video, two plans that differ in a semantic stage, three stages, two jobs | with every outcome of every stage and every cancellation race: types, `CoherentRelease`, `ReleaseOnlyByCompletion`, and that the detailed model implements `VideoRelease` |
| `jobs_recovery` | one video, three jobs, two starts with a crash or a shutdown at any step | `SequentialAttempts`, `SettledAttempts`, `StatusReflectsJobs`, `RetryLineage`, `RunningIsOwned`, `TerminalImmutable` |
| `jobs_liveness` | two videos, two jobs, two starts, one damaged row, a scan of one row | `QueuedJobsEnd`: queued jobs end although rows in front of them are unreadable, or are let go of by a refused ending and end at the next start |
| `jobs_cancel_race` | one video, one job | a requested cancellation may stay unanswered while the process lives |
| `jobs_stale_prior` | one video, three jobs | a retry of a superseded attempt, cancelled, hides a released video from search |
| `text_safety` | one or two videos, two attempts, three faults, batch and scan of one | `TablesAgree`, `StorageFollowsTables`, `RetriesAreUnblocked`, and that the detailed model implements `GenerationLife` |
| `text_liveness` | one video, two attempts, two faults | `GarbageIsCollected`, `BuildsAreAdmitted`, `AbandonedBuildsEnd` |
| `text_startup` | two videos, two attempts, two faults, batches of one row | `StartupCompletes`: repeated starts get through more builds than one accepts |
| `server` | two servers and a script; each worker with two requests | `SingleWriter` and `ImplementsDirectoryOwnership`; `EvidenceIsExact` (vision, whisper, qwen), `InUseStays` (vision, whisper, embedding), `CopiesAreReclaimable`, `LiveChildrenAreOwned` |
| `retrieval` | two generations; two Lighthouse calls; two builds of a video that is replaced and put back; one video under search | `CollectedIsNotPublished` and the implementation of `GenerationLife` by the tables; `ReceiptsDescribeTheirVideo`, `RowsNameWholeArtifacts` (but for bytes that came back between the two digests), `AnswersAreOfOneRelease`, `CertifiedAnswersHold` |
| `database` | one job with two external stages, two names for generations; two openers and a reader on every database an older program may leave; two callers on one file; five legacy videos; three requests | `ReleasedIsCommitted` (but for pointers whose key was updated), `CompletedWithReceipts`; `WorkIsKept` (upgrade, adoption), `FilesAreWhatRowsSay` (identity, media) |
| `tools` | two files and a subdirectory; one run, two registry clients, two workers, two review servers in a batch new or in use | `OneMoment`; `NothingIsLeftBehind` (snapshot, benchmark, batch), `AcknowledgedIsKept` (registry, review), `PublishedIsSound` (benchmark, batch) |

The runs `jobs_cancel_race` and `jobs_stale_prior` are violated by what the code does. In the first, a
cancellation commits between the read and the write of
`_terminalize_owned_failure`; `fail_video_index_job` raises and the dispatcher
goes on with the next job, so the row stays running until the next process start. In the
second, `retry_job` copies `prior_video_state` from its parent although a
completed reindex has superseded it.

Four properties name what the code does not keep, each narrowed to exactly that:

* `RunningIsOwned`, `QueuedJobsEnd`: a job that was asked to stop, whose row is
  damaged or whose ending the database refused is let go of until the next start.
* `RowsNameWholeArtifacts`: a build between whose two digests the video's bytes
  went and came back.
* `ReleasedIsCommitted`: a pointer of the external table whose video or stage kind
  was changed by an UPDATE.
* `NothingIsLeftBehind`: a snapshot that an interrupt stopped (its `except
  Exception` does not run) or whose cleanup failed and was reported, a benchmark
  that gave up, a batch whose stops failed or were cut short.
  `AcknowledgedIsKept`: an answer acknowledged while the annotations directory was
  not synced, if the power takes that directory.

### Bounds

`MaxJobs` bounds the rows inserted: two attempts are enough for a release that
mixes outputs of two attempts, three for a retry of a retry or a retry of a
superseded attempt. `MaxStarts` bounds process starts; the last start is not
interrupted, and inserts leave recovery one row for each start still to come, so
that the bound never blocks recovery. `MaxDamaged` bounds damaged rows, and
`MaxLeft` the endings the database refuses in one process: one is enough for the
next job to be claimed, or not, beside it. The two violated runs have none, so
that their traces show the race alone. `ScanLimit` is
a parameter of the code (`recovery_batch_size`); 1 makes a damaged head row
fill a scan. Three of seven stages cover the three ways a stage
depends on another: on the frames of scenes, on the semantic segments, on
nothing. The properties of the recovery run do not depend on what a plan pins,
so that run has one plan and the two mandatory stages.

In the text vector runs two attempts are enough for a retry beside the garbage
of its predecessor, and on two videos for two interrupted builds at once.
`MaxFaults` counts crashes, stalls past a lease, heartbeats, storage and database errors and
damaged rows together: three reach a build that loses its lease, is dropped and
whose deletion then fails or meets a crash. A deadline that nobody renews passes
without counting as a fault. `BatchSize`, `ScanLimit` and `StartupLimit` are
parameters of the code (32, 16 and 1000), `MaxBatch` is the largest batch the repository serves (1000); at 1 every
limit is reached. The videos of the safety run are symmetric; liveness runs use no symmetry.

In the groups, two requests, searches or callers are what it takes for one to
meet the other or what the other left behind; three private directories let a
whisper worker find two of its predecessors. A rewrite of a file needs two
changes to be undone, and the Lighthouse worker has them: bytes that go and come back are
what its fingerprints are for. `OtherVideos` counts the contents besides the
asset's; one is enough for a dense build to see the video go and come back. `MaxRewrites`, `MaxCrashes`, `MaxFailures`,
`MaxFaults`, `MaxDamage`, `MaxStops`, `MaxInterrupts` bound what comes from
outside; where two kinds of trouble need not meet, they are in two members of
the bounds of a part (one permit of the vision worker or two; a Lighthouse worker
dies while a generation is rewritten, or the video is replaced; evidence comes
and goes within one release, or files do between two). The job tables
have one job with two runs, enough for a receipt too many, too few or of the
wrong stage. Both stages are external, where the key of a pointer is its video,
kind and name, so that a pointer can be moved to a generation of the same name; one
video is enough for that. Moves between videos and pointers of the segment and
text tables are in the proof. The vector tables have two generations of one video, one of them
released.

The runs of `VideoIndexJobs` and of the groups set `CHECK_DEADLOCK FALSE`: with
nothing queued and the bounds reached the system is at rest, as the idle
dispatcher is, and a benchmark, batch or upgrade ends.

### Fairness

`Fairness` of `VideoIndexJobs` asks that a process that is down is started again, that startup
recovery goes on, that a draining process stops, that the dispatcher claims
while rows are claimable and that the job in hand goes on, by a stage, by an
exception or by an ending that is refused. These are threads of one process that never wait for each other:
every transaction is bounded by SQLite's busy timeout and every provider call
by its own deadline. Nothing is assumed of users, crashes or damage.

In `TextVectorGenerations`, `Fairness` asks that each thread goes on (the
dispatcher in a build, the end of the job, the collector's polling loop), that
startup is tried again after a failed one, and that deadlines nobody renews
pass: they are points in time. Weak fairness of `Builds` is enough for a build
at the gate although the collector takes the gate again and again, because a
waiting build keeps the next pass out. Faults are finite in number, so liveness
is a statement about what happens once they stop.

The groups check safety only and state no fairness.

## Proofs

Each theorem holds for all values of the constants that satisfy the assumption
named in its module; TLC evaluates the assumptions in every run.

**`VideoIndexJobs_proofs`**, for any sets of videos and plans, any stage
order that contains scenes and text vectors, and any bounds:
`TypeCorrect` (`TypeOK`), `HistoryImmutable` (`TerminalImmutable`),
`AttemptsAreSequential` (`SequentialAttempts`), `ReleaseIsCoherent`
(`CoherentRelease`), `ReleaseChangesByCompletion` (`ReleaseOnlyByCompletion`).
The inductive invariant is `Base`: types (`TypeOK`), rows filled in order (`Rows`),
the position of the dispatcher in the stage order (`Located`) and the
dispatcher holding a running job of a process that is up (`ExecOwns`). `TypeOK`
alone is not inductive: that a projection is a status needs the row it projects
to exist, and that the stage counter stays in range needs `Located`. From
`Base`, `HistoryStep` shows that no step touches a row that has ended: inserts
fill a blank row, and the dispatcher writes only to the running job it holds.
History makes the released generations of a video constant until a completion
selects others, and `SelectedCoherent` shows that what a completion selects is
coherent; the same split gives `ReleaseStep`. `SequentialStep` splits a step by
`RowSteps` into one that appends a row through `Insert`, one that appends
the child of an abandoned attempt, and one that appends nothing.

The same module goes on to the other properties of the job table: `AttemptsAreSettled` (`SettledAttempts`), `RunningAttemptsAreOwned`
(`RunningIsOwned`), `RetriesFormChains` (`RetryLineage`), `StatusIsRight`
(`StatusReflectsJobs`) and `JobsImplementRelease` (`ImplementsVideoRelease`).
`StepKinds` says what a step may do to the rows (append, start, end one of them,
or touch none), and each invariant is an argument about those kinds.
`StatusReflectsJobs` is not inductive: what a cancelled reindex restores is the
status saved in its row, so `PriorSound` says that a saved status `ready` had a
completed job behind it. The refinement maps each kind of step to a step of
`VideoRelease` or to a stutter.

**`TextVectorGenerations_proofs`**, for any videos, number of attempts and of
faults, and any limits: `TypesHold` (`TypeOK`), `TablesHold` (`TablesAgree`),
`StorageHolds` (`StorageFollowsTables`), `RetriesUnblocked`
(`RetriesAreUnblocked`), `Refinement` (`ImplementsGenerationLife`).
They rest on one inductive invariant, `Inv`. `TablesAgree` is not inductive:
that a commit finds its reservation needs `BuilderSound` (the dispatcher writes
under its own reservation, and what it has written so far is stored), which
recovery of expired builds would break but for `GateHeld` (the collector is out
of the idle state only while no build is inside the gate); that a completed
collection is one of garbage needs `CollectorSound` (the generation being
deleted is garbage, and a success not yet recorded left nothing stored).
`EveryMove` reduces every step to one of eight moves of tombstones and storage;
`StorageStep` and the refinement (`MoveRefines`) are then about moves only.
`RetriesUnblocked` needs `Unblocked`, about the attempts whose job has ended and
the builds that are left to recovery.

**`RuntimeLifecycle_proofs`**, for any servers and scripts: `OneWriter`
(`SingleWriter`), `LockIsRetained`, `ResourcesLast`, `Refinement`
(`ImplementsDirectoryOwnership`).

**`MCDatabase_proofs`**, for any programs, callers, requests, videos, names and
bounds: `DatabaseWork` (`WorkIsKept`) and `DatabaseFiles` (`FilesAreWhatRowsSay`);
and of the job tables, for any sequence of statements, `Lineage`, `ReleaseGate`
(`ReleasedIsCommitted`) and `ReceiptsAreExact` (`CompletedWithReceipts`).

* Media files: an export that has reserved a name owns it until it gives it back
  (`ExportsOwn`), so that what others write is elsewhere; a row's upload is past
  the steps that refuse it (`UploadsHold`).
* Asset identity: `Faithful` says that as long as the file a call has open bears
  the stamp the call was told, what it has read of the file is still there. A
  write gives the file a stamp no call knows, so a digest that passes the last
  comparison is that of the file at the path at that moment.
* Adoption: a batch that is not full holds every candidate (`FirstOfIsAll`, an
  argument about the least and the greatest element of a finite set of numbers),
  and none is left out of it until it is adopted (`BatchCovers`).
* Upgrade: `Follows` relates the found database to the committed one and to the
  working copy, and is transitive; each migration that succeeds keeps it
  (`Migrations`). From schema 7 on a generation has one GC job at most, and after
  migration 8 no failure is one that could be retried. What may be found is
  assumed in `ConstantsAssumption` (`LeftBehind`), which TLC evaluates over the
  databases of the run.
* Job tables: the completion trigger counts receipts and compares counts; that two
  equal counts and an injective matching leave exactly one receipt per stage is an
  argument about cardinalities. `ReleaseGate` needs to know which generation a
  pointer resolves to when its key is updated: `OneRowPerName` (the primary keys)
  and `PointersFit` (the foreign keys) leave no other than the one it named, except
  in the external table, where the property exempts what was moved.

**`VectorSchema_proofs`**, for any sequence of statements: `NeverCollectsPublished`
(`CollectedIsNotPublished`) and `SchemaImplementsLife` (`ImplementsGenerationLife`).

**`MCTools_proofs`**, for any tree and any changes: `SnapshotOfOneMoment`
(`OneMoment`) and `SnapshotIsDurable`; and for any clients, servers, runs, roles,
profiles and any set of bounds, `ToolsLeaveNothing` (`NothingIsLeftBehind`),
`ToolsKeep` (`AcknowledgedIsKept`) and `ToolsPublishSound` (`PublishedIsSound`).

* Snapshot: the invariant says what the two scans know of each name: a file seen
  twice with one change time had one content in between. When calls fail, a
  staging name that is gone has nothing left under it.
* Benchmark: `close` goes through `ClosingOrder`, and `RunResources` says that all
  before its position has been given back; that nothing is left is then a matter
  of the last position (`ClosesUp`). An altered copy is found at the position of
  the copy or was found before, so a command that goes on to publish has none.
* Registry: `RegistryKept` says of an acknowledged run, beyond the promise, what a
  power loss may leave of it (the one manifest, in every index that is readable)
  and what any index about to be written says of it. It comes from `RegistryAdds`,
  which follows an `add` through its steps: if `runs/` could not be synced, the
  run is not acknowledged.
* Batch: a live worker is owned unless a stop was cut short, and what a stop works
  on is everything that is owned (`BatchProcesses`).
* Review: `Durable` says how far down the way to an event, below the annotations
  directory, has been synced at each step of `save`, so an acknowledged answer hangs
  on directories that no loss of power takes as long as it spares annotations; once
  annotations is synced none takes it, so that answers acknowledged from then on do
  not vanish. The lock makes the number a server has checked the next one until
  it links its file (`ReviewGoes`).

**`MCServer_proofs`**, for any workers, clients, requests, contents and any set of
bounds: `ServerEvidence` (`EvidenceIsExact`), `ServerInUse` (`InUseStays`),
`ServerCopies` (`CopiesAreReclaimable`), `ServerChildren`
(`LiveChildrenAreOwned`), and of the vision worker also `VisionModelStays`,
`VisionPermits` and `VisionReleases`. Each part has an inductive invariant of its
own; `GroupInv` puts them together, and `GroupSteps` shows that a step of the
group is a step of one part and a stutter of the others. The vision worker's
invariant counts permits against occupied slots and ties each slot to the
inference lock. That of the whisper worker starts from the root lock: who lives
holds it, so that while a worker lives no other does anything (`WhisperAlone`),
and the directory it makes or serves from is recognisable at each step. That of
the qwen worker adds that a search has one request at most, about the clip it
waits for, and that the model is clean when the inference lock is taken. In
the OCR reader the one child that may live without being lost is that of the thread
with the lock, if it has one in hand, or else the reader's (`OcrOwned`); the embedding's says
who has the lock when `close` gives up the model.

**`MCRetrieval_proofs`**, for any builds, calls, videos and any set of bounds:
`RetrievalRowsAreWhole` (`RowsNameWholeArtifacts`), `RetrievalReceipts`
(`ReceiptsDescribeTheirVideo`), `RetrievalAnswers` (`AnswersAreOfOneRelease`),
`RetrievalCertified` (`CertifiedAnswersHold`), and of the media artifacts also
`MediaRowsAreWhole`, `MediaFilesStay` and `MediaIsTidy`.

* Media artifacts: `ArtifactsSound` says of each build separately what is on disk,
  and `ArtifactsElsewhere` that the others leave it alone.
* Lighthouse: that a receipt names the bytes that were encoded is not inductive,
  since the file may change under the encoding and come back. The invariant says
  of a call that the mark it has seen is at most that of the source, that equal
  marks mean equal content, and that what was read while the marks are equal is
  of that content; so a change shows at the second comparison.
* Search: `SearchCatalogInv` says that in every state the active pointers have had
  the vectors are those of the segments active with them. `SearchSound` adds where
  a search is: its bound files were active together, its vectors were active at
  some time, and what was found is of what was read at first. An answer is then of
  the state its vectors were active in.
* Pinned session: `PinnedGone` is the strengthening. What an answer came too late
  for does not come back: generations are numbered as they are published, so a
  pointer that has moved never returns, and lost or changed files stay so
  (`PinnedStaysGone`). No comparison of such a video succeeds (`PinnedNotices`),
  so `close` fails.

The invariants of these parts know the shape of a record by its domain and the
fields the argument needs, rather than the whole type: the types are checked by
TLC with the part's type invariant.

### Only model-checked

Liveness (`QueuedJobsEnd`, `GarbageIsCollected`, `BuildsAreAdmitted`,
`AbandonedBuildsEnd`, `StartupCompletes`) is out of the prover's reach. The two
violated properties have counterexamples.

Every other property of a passing run is stated by a theorem.

## Disagreements not kept as runs

Besides the two violated runs, modelling met these; they are not in the modules'
properties:

* Search: without a Lighthouse provider every default search over a ready video
  with a job fails (`search/service.py:1165`; `docs/lighthouse-worker.md:85` says
  the rest of search goes on); a ready video whose optional frame or moment
  stage failed makes every search that includes it and asks for that kind fail
  (`search/service.py:1535`; `docs/architecture.md:116`); `search_for_evaluation`
  asks the legacy `active.json` of videos with jobs (`search/service.py:1895`;
  `docs/architecture.md:131`).
* OCR: a failed read discards the child before it removes its frame, so the
  bundle's directory stays (`providers/paddle_ocr.py:1197`;
  `tests/test_paddle_ocr_attestation.py:1610`). A child is left untracked when
  waiting for its hello raises an `OSError` (`providers/paddle_ocr.py:1102`; the
  comment at 1024 rules that out for a failed kill only).
* Visual index: the builder digests the video before and after the extraction, so
  frames of bytes that were there in between only are taken for the asset's
  (`search/visual_index.py:1047`, `1112`).
* Schema: no trigger looks at an inserted row with state `complete`
  (`repository.py:2330`). The owner triggers of the pointers watch `generation_id`
  and `activated_at` only (`repository.py:2645`), and an external generation is
  unique by video, kind and name (`repository.py:2519`), so an UPDATE of
  `stage_kind` or `video_id` can release the output of an unfinished job; the
  program has no such statement.
* Registry: a rebuild registers directories it never syncs
  (`benchmark/storage.py:203`, `42`).
* Regression batch: an interrupt while workers are being stopped leaves those
  that ignored SIGTERM (`benchmark/managed_workers.py:161`).
* Review: a server that finds the annotations directory does not sync its entry
  (`annotation_review/server.py:152`), so what it acknowledges while the one that
  made the directory has not synced it, or was killed before, may go with the power;
  `AcknowledgedIsKept` exempts exactly that loss.
* Exports: the empty or partly written file stands under the name it is served by
  (`clips.py:51`).
* Adoption: a queued video without an asset fails every start
  (`repository.py:5275`); the run gives every video one.
* Frontend: an answer that arrives late replaces the list of jobs
  (`frontend/src/App.tsx:58`).

## Not modelled

Media decoding, model inference, embedding and ranking arithmetic, query
analysis, HTTP parsing and validation, range streaming: data transformations
whose state does not interact with the protocols above. The frontend, the
annotation workbench with its editor, annotation preparation, evaluation reports
and glossary are programs of their own beside the durable jobs. Attestation,
evidence and policy documents are digests over files that are read once. The
measurement of processes is one step of `BenchmarkRun`. RoboFlow, InternVideo and
the in-process models are outcomes of a stage. `ThreadedProcessingQueue` is
constructed by tests only. Configuration, installers and deployment hold no
protocol state. `PROJECT.json` lists every component with its status.
