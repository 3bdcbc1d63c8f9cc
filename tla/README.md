# Verification of VIOS

VIOS collects short videos, keeps them in a Telegram channel, runs a long series
of analysis passes over them on machines that are wiped every few hours, and
serves the result as a searchable atlas. Nothing in it runs to completion in one
process: Kaggle ends a session after 12 hours, the GPU loses its context, Redis
is flushed, leases lapse, rate limits put work off. What the code promises is
therefore nearly always a statement about interleavings and deaths: *no job is
lost, none is done twice, none is retried for ever, none is given up for the
wrong reason.* Those are the statements this directory models, checks and proves.

Contents: 1 inventory; 2 plan; 3 the models; 4 runs, bounds, fairness; 5 proofs;
6 where code and documents disagree; 7 what is not modelled.

## 1. Inventory

The program's planes share a process or a machine, a Redis server, SQLite files
and the channel. The channel is the only thing that outlives a machine.

### 1.1 Job queues: `queue_manager.py`

State: per queue (`QUEUE_VISION`, `QUEUE_ANALYZE`, `QUEUE_OMNI`) a default lane, a
priority lane, a `_PROCESSING` list of envelopes in flight and a `_DLQ`; a hash per
job with its state and lease. Operations: `push_job`, `claim_job`, `ack_job`,
`fail_job`, `recover_processing_jobs`, `replay_dlq`, `purge` and reports.
Consumers: `frame_worker.py`, `model_manager.py`, `omni_engine.py`, one process
each, kept alive by `boot.py` (`run_with_watchdog`). Producers: `ui_server.py`
(harvester, bot, `prioritize_video`), `frame_worker.py` for the next stage.
Hard: every operation is one or two Redis commands and a process may die between
any two; a reply may be lost; the engine's CUDA context may die with the job that
killed it, again and again. Correct when a job is in exactly one list, the list
entry is the one the handler will remove, the retry and recovery counts are
exact, an acknowledged job does not come back, and the queue runs dry.

### 1.2 Processing plan: `vios/process/coverage.py`

State: a row per (video, component): state (`queued`, `running`, `done`, `failed`,
`skipped`), attempts, revivals, worker, lease, `next_try_at`. Operations: `plan`,
`reclaim_stale`, `revive_failed`, `reconcile`, `candidates`, `claim_for`, `renew`,
`release`, `done`, `fail`, `defer`, `skip`, `requeue`, `reset_component`. SQLite
serialises them; the callers are two threads, their predecessors that died, and
the operator. Hard: nearly every statement overwrites what it finds, so the order
of callers carries the correctness; attempts, revivals and backoffs are counted
by different statements. Correct when a pass in flight is never settled under its
lane, failures are bounded and not given up early, and settled rows stay settled.

### 1.3 Processing engine: `vios/process/engine.py`, `lanes.py`, `registry.py`, `runners/`

State: per lane its thread's locals (cohort, list of videos, claimed passes, the
row states read of the video), the stop flag, the models on the card, the working
files of each video, the evidence in `store.py`. Operations: start, stop, reset; the
rotation (restore shards, plan, reclaim, revive, reconcile), the cohorts, the video,
the pass with its gate and its eight outcomes, eviction, publishing.
`DualGpuCoordinator` runs two lanes over one table, one for the language passes.
Hard: what a lane read it uses later, while the other lane, the operator and time go
on; a session dies between the commit of evidence and that of the row; files and
rows a pass reads may have gone with a machine or with the cache. Correct when the
lanes use the table as 1.2 needs, nothing claimed is forgotten, done means evidence,
evidence is not earned twice, an input that is merely late or evicted never makes a
pass be given up, what is resident fits the card, and the sweep ends.

### 1.4 Evidence that survives: `store.py`, `intake.py`, `engine._publish*`

State: every worker's `evidence.db`, four watermarks, a sequence number, the list of
shards it has seen; per stage the bundle last recorded, and whether one is pending;
in the channel the documents of shards and of stage bundles. Operations: commit of a
pass, export and upload of a shard in parts, the five commits after it, restore,
`reconcile_now`, `_publish_stage`, `_retry_pending_stages`. Hard: an upload is
refused or its answer lost, a death between any two commits, a disk gone with its
session, two workers that read each other's shards. Correct when whatever a watermark
has passed can be restored, a shard noted is held, what is recorded as published is in
the channel, and all workers converge.

### 1.5 Capture: `vios/capture/`

State: the ledger (`item`: queued, fetching, uploaded, failed, unavailable, with
position, attempts, revivals, `next_try_at`), the scan mark, the engine's
run/pause/stop flags, the asset backfill's state, the pinned snapshot. Operations:
`add*`, `claim_next`, `repair_stale`, `mark_uploaded`, `mark_failed`,
`mark_unavailable`, `mark_assets`, `requeue`, `adopt`; the engine's `_run`, `_one`,
`_seed`, `_snapshot`; the side scan; the backfill. Hard: killed at any moment, between
an upload and its record too; resumed from a snapshot older than what it did; a scan
that works beside the engine and may be cut short. Correct when a reel whose video
the mark covers is recorded as uploaded and never sent again, and every imported reel
is settled in the end.

### 1.6 Harvester and control: `ui_server.py`, `dedup_manager.py`, `system_control.py`, `admin_backend.py`

State: the lake (`scanned_ids`, `posts`, `capture_retries`, `videos`), the queue of categories in the
process and in Redis, the dedup set, the vision queue, pause flags, heartbeats, the
reset's status. Operations: scan, download, save, dedup and push; scan triggers, category
choices, priorities, clean-up; pause, resume, factory reset. Hard: the dedup set and the
queue are changed by two commands with a lock around neither; both are lost with Redis;
a reset deletes the lake under a harvester that is not restarted. Correct when a video is
not queued twice, a harvested one has its job, posts are not left behind, and a reset
gives a running system back.

### 1.7 Bundles: `db_export.py`, `db_restore.py`

State: numbered bundles of parts and a manifest in the channel, the pin, the local
databases, a directory per unfinished bundle. Operations: build, upload with resume, pin,
cancel; inspect, choose, download, join, load; the boot's own restore. Hard: death between
parts and manifest, lost answers, cancellation, an older bundle chosen over a newer one.
Correct when a posted manifest names a whole bundle, a resume sends nothing again, and the
lake only ever becomes the snapshot of one posted bundle, the one that was shown.

### 1.8 Atlas: `atlas/`

State: `atlas.db` with imported rows and the moment index, fingerprints and build ids, dense
vectors on disk and in memory, the status of boot and scan; per video the cached file, the
sparse file and its index, downloads in flight. Operations: boot, scan, merge, rebuild, embed,
live refresh; range requests, fill, warm-up, download, promotion, eviction. Hard: the index,
its labels and its vectors are written in several commits by several threads; a file may be
evicted under a reader and an index outlive its file. Correct when no id is passed over
without rows of it, rows that are here can be searched, vectors belong to the index they
are used with, and neither what becomes the cached file nor what is served has a hole.

### 1.9 The rest

Pacing and parsing of Instagram exports, decoding and models, ranking and graph layout,
credentials and logging, web pages and tests. See section 7.

## 2. Plan

| Step | Modules | Content | Proofs |
|---|---|---|---|
| 1 | `JobLifecycle`, `JobQueue` | queues and consumers; the lifecycle of a job as the abstract specification | `JobQueueProofs`: every safety property, and the refinement |
| 2 | `Coverage`, `ProcessEngine` | the table under every order sequential lanes allow; the sweep, shown to implement it | `ProcessEngineProofs`: every safety property, and the refinement |
| 3 | `CaptureLedger`, `CaptureEngine` | the ledger's statements; the thread, the scan, the backfill and the operator over them | `CaptureProofs`: both safety properties |
| 4 | `SystemControl`, `Harvest` | pause, resume and reset; the harvester and the CV engine's end of the queue | `HarvestProofs`: both invariants |
| 5 | `Registry`, `Runners`, `Pipeline` | the real catalogue and its cohorts; what every pass reads and leaves; one video through it | `PipelineProofs`: all three invariants |
| 6 | `Shards` | evidence in shards and stage bundles, restored by other workers | `ShardsProofs`: the safety invariant, `ShardsInv` |
| 7 | `Bundles` | export and restore of both databases | `BundlesProofs`: all four safety properties |
| 8 | `Media`, `Atlas` | playback of a video that is still in the channel; import, index, vectors | `AtlasProofs`: all safety properties of both |

The order follows the cost of an error: a job or pass that is lost or wrongly given
up is not noticed by anybody, and the layers of steps 1 and 2 carry all the GPU
time the system spends.

Conventions: parameters are CONSTANTS with a named ASSUME; one action per statement
that commits or per read that is used later; bounds are parameters and appear in
guards (`Spend`, `Fault`, `Disturb`, `MaxEvents`, `MaxMishaps`); history variables are marked as
such; `MC*` modules hold the instances; `*Proofs` modules hold theorems and the
predicates they need. Operators whose comment begins with `mutant:` or `A mutant:` are
plausible bugs. No action uses them; each is there to show that a property notices
when it replaces the definition it stands above.

`Harvest` composes with `SystemControl`, `CaptureEngine` with `CaptureLedger`,
`Pipeline` with `Registry` and `Runners`, `ProcessEngine` with `Coverage` (which it
implements), `JobQueue` with `JobLifecycle` (which it implements).

## 3. The models

### 3.1 The job queues

**`JobQueue`** models one queue with its consumer, its producers, the watchdog,
and both recovery sweeps. An action is one Redis command or one MULTI pipeline.
`Queue` selects the consumer:

| Queue | Consumer | What differs |
|---|---|---|
| `QUEUE_VISION` | `frame_worker.py` | two lanes, hands on to the GPU stage after the ack, discards a malformed payload, has a DLQ replay |
| `QUEUE_ANALYZE` | `model_manager.py` | one lane |
| `QUEUE_OMNI` | `omni_engine.py` | two lanes, sweeps its orphans at start, exits when the CUDA context is lost, survives an error in `fail_job` |

State and code: `prio`, `default`, `processing`, `dlq` are the Redis keys, entries
being envelopes (job, retries, recoveries); `processing` is a set because its
order is never used. `pc` and `hand` are the consumer's program counter and the
envelope its handler holds, so the two commands of `fail_job` (`FailRemove`,
`FailPush`) and of the engine's sweep (`SweepMove`, `SweepRewrite`) are separate
steps. `replaying` is the envelope between RPOP and LPUSH of `replay_dlq`. `Kill`
strikes anywhere, `Reboot` is `boot.py` run again, `CudaLost` is `_die_if_cuda_lost`.
The `*Error(applied)` actions are commands whose reply is lost, applied or not,
with the handler's own path afterwards. `completed`, `handed`, `failures`,
`cudaDeaths`, `uncounted`, `pushed` are history.

**`JobLifecycle`** is the lifecycle drawn in the header of `queue_manager.py`, with
the losses and reopenings that two-command operations make possible.
`JobQueue!LifecycleSpec` is the refinement, through `Status`.

Properties: `SingleCopy` (a second copy would run next to the first: RPOPLPUSH and
LREM work on serialised envelopes), `TriesExact` (the retry bound from both sides),
`AckIsFinal`, `PoisonQuarantined` (the engine's guard against a job that kills it),
`LossWindows` (the crash windows are the two known ones), `Settles` (queues run dry).

Abstractions: a job id is pushed once; job contents, the state hash and counters are
left out, the lease is one step (`StampLease`), for nothing reads it; one consumer
per queue (the omni process runs its loops in threads on one context and dies as
one). Producers stop while `boot.py` runs.

### 3.2 The coverage table and the sweep

**`Coverage`** is the table of `coverage.py`, one action per method, but for `fail`, which reads
the attempts in one statement and writes its verdict in another: `Decided` is what it makes of
the attempts, `MayDecide` what it may hold by the time it writes (`Fail`). Its callers are
only constrained by being sequential lanes: a lane finishes what it claimed before
it sweeps or claims again (`Sweep`, `Finish`). Which passes a `reconcile` finds
evidence for is left open. Clocks are two flags per row: `lapsed` for
`lease_until`, `waiting` for `next_try_at`. `held` is the set of passes a lane has in
hand; `fails` is history. `Die` takes lanes away without giving rows back.
This is the abstract specification of what the engine may do with the table.

**`ProcessEngine`** is the engine's threads. `lane[l]` holds the locals of the thread
and `pc` the statement it is at; an action is one committed statement or one read
that is used later. The preamble is `Restore`, `PlanRows`, `Reclaim`, `Revive`,
`ReconcileNow` or `ReconcileFails` (an exception is logged and the sweep goes on); a cohort is
`Scan`, `Claim`, `KeysDone`, `CohortEnds`; a video
`Fetch` (which reads the row states once, `snap`), `FetchFails`, then for each pass `UnfetchedLooks` and
`FailUnfetched` (the two halves of `fail`), `UnfetchedOver`, or
`PassesOver`; a pass `GiveBack`, `GateSkip`, `GateDefer`, `Run` and then one of
`RunSkips`, `RunDefers`, `RunTransient`, `FailLooks` and `RunFails`, `RunEmits`, `RunEmitsNothing`,
followed by `StorePart`, `StoreAll`, `MarkDone`. `Start`, `Stop`, `Reset`, `Requeue`
are the operator's, `Crash` is a session killed or a sweep ended by an error.
`ev` is the evidence a pass has in the store; its value `empty` stands for none,
too, but remembers that the pass ran and had nothing to say. `cause` is history.

`TableUse` says that the engine implements `Coverage`. So what holds of the table
under any sequential lanes holds of this engine. `HeldIsTodo`: a lane forgets no claim.
`GateSkipsForCause`: the gate skips a pass only for an input that failed, was declined or was reset,
never for one that is merely deferred; proved until an operator first presses a button (a requeue
zeroes the failures on record; a reset and the run after it clear the cause). That is the gate alone:
what a runner skips because an input that is late left it nothing to read is not prevented by this
code (section 6), and no property says it is. `FailedIsSpent`: a row fails for good only with
its attempts spent, or by the one failure that a reset overtook inside `fail`. `RedoneOnlyIfLapsed`: with one
lane, complete evidence is earned twice only after a lapse, a reset, or a reconcile that raised.

Abstractions. The worker, checkpoint and token columns are left out: no statement
in use reads them as a guard, except `renew` and `release`, whose guard (the row
still runs) is modelled. Candidates come in any order and without the limit of 64.
Runners are their outcomes; which outcomes a pass may have depends on `Inapplicable`,
`Declining` (runners that turn a model failure into a skip) and on whether what it
reads is stored. A lapse while a lane works on the pass costs budget, as does each
deferral a runner makes and each reconcile that raises; deferrals of the gate that follow from
others do not. `Stop` and the operator's buttons share one budget. `Start` is one step: what the
primary sweeps between its own start and the refusal of the language lane (lanes.py:119) is left out.

### 3.3 One video through the catalogue

**`Registry`** is the catalogue of `registry.py` as it stands: all passes with what they
need and load, the default selection, the order (`TopoSort`, which takes of the passes that are
`Ready` the `Foremost`) and the cohorts that fit a card (`PlanCohorts`). **`Runners`** says for each pass what its runner demands of the video before
it says anything, what makes it skip, what it loads and what it leaves behind. **`Pipeline`**
takes one video through both: `Visit` and `Work` are a visit and its passes with the files
brought back first (`EnsureInputs`; any of these rebuilds may fail, which the code logs and passes over), `Evict` the cache, `Checkpoint` what goes to the channel, `Restart`
and `NewContainer` a session that ends on the same container or a new one. A film is a set of traits
(sound, speech, faces, text ...); a pass finds what the film has.

`NothingLost`: what one undisturbed visit would do (`Undisturbed`) is given up (`Forgone`), however
visits, evictions and deaths cut it, only if a rebuild failed for that pass (`unmade`) or a pass it
builds on (`Leans`) was given up. Nothing builds on itself, so behind every pass given up stands a failed rebuild. `WritersBeforeReaders` (in `PipelineInv`): nothing is read
before its writer, declared or not, had its turn. `FitsTheCard`: what is resident was counted and
is within the budget, but for the tower that two passes borrow, and for a pass whose weights
are larger than the budget (which is less than the card by the headroom): `plan_cohorts` gives it
a cohort nonetheless, where it is alone.

An eviction may fall between any two passes, as one by the other lane can. Not in it: deferrals, retries,
leases and the work of the other lane (3.2); model loads and fetches that
fail; several videos; machines that cannot run the whole selection
(`EveryCardRunsTheSelection`; `_sweep` takes what is unrunnable out before it plans). The run has the default
selection, the proofs any.

### 3.4 Shards and stage bundles

**`Shards`** has a database, a pass and a stage per worker. A pass commits its rows table by
table (`Write`), a shard is exported above the watermarks (`Exported`), split, uploaded
part by part (`SendPart`; `UploadFails` with the part there or not), noted (`Note`), and the
watermarks move (`MoveMarks`); a death falls before the note, after it, or cuts the commits that
follow anywhere. `Import` reads what a shard id means from all documents that carry it (`Restored`);
the replay of a row may fail, which is counted as a fault and kept beside the entry. A stage whose rows are settled goes up as
a bundle behind its shard and is recorded in four commits; a refused one stays pending.

`ShardsInv`: what lies below a watermark is in the channel and is read from there
(`WatermarkIsRestorable`), a shard noted is held but for rows whose replay failed (`KnownIsHeld`), what `stage_done` names is
there (`RecordedIsThere`), and shards are not behind a bundle (`ShardsGoAhead`) - each but for
the case it names. `Converges`: all rows end up in all databases.

Abstractions: two tables stand for four, one pass for the work of a partition; a stage's
signature is a Boolean; the commits after an upload are one step of which a death applies any
prefix. A shard id keeps its meaning once whole, so a restore is one shard per step; the rows of
a shard that are new to the database are appended in any order.

### 3.5 Capture

**`CaptureLedger`** is `ledger.py`, one action per statement that moves a reel, with two flags
per row for its clocks (`cooling`, `recent`). **`CaptureEngine`** is who calls it: the thread
(`Repair`, the scan, `ClaimNext`, `FetchFails`, `SendVideo`, `SendRecord`, `Mark`, `RecordAssets`,
`Snapshot`), the scan by the engine or beside it (`ScanRead`, `ScanAdopt`, `ScanMark`), the
backfill, the operator, the half hours, the death of the process or of the machine. `channel`
holds videos and asset manifests in order, `high` is the scan mark, `pinned` the snapshot's
copy of ledger and mark. A restore is three steps, `RestoreAsk`, `RestoreGet` and `RestoreSwap`,
for the page's word is read before the download and not again before the swap (engine.py:821-841);
`copy` is what it has downloaded. `closed` is a handle a restore closed under a running thread;
`excused` the reels the code is known to send again, `dropped` those whose rows are gone.

`KnownBelowMark` (in `CaptureInv`): a reel whose video lies at or below the mark, or the pinned
one, or that of a restore's copy, is uploaded in that ledger. `NeverTwice`: no reel whose video lies
at or below the mark is sent again. Both except by name the reel that was adopted or restored while
the engine had it in hand, and the reels of messages that a scan cut short passed over.
`CaptureCompletes`: every queued reel is settled, or its row is gone with a wiped machine or with a
restore that puts in place a copy pinned before the reel was imported. The code does not bring
such a row back by itself (only another import does, or a scan that finds the video), so the
property does not claim it.

### 3.6 Harvester and system control

**`SystemControl`** is pause, resume and the reset's steps, with Redis refusing any of them: the
reset looks at no answer. **`Harvest`** is the Ghost Worker
of `ui_server.py` (`ghost`: the cycle's top, scan batches, `Select`, `Download`, `Save`, `Add`,
`Push`, its sleeps), the dedup set, the categories in memory (`local`) and in Redis (`admin`),
the CV engine's end of the queue (`cv`), the buttons that touch them, deaths of each process and
of Redis, and the boot. The panel's requests run in the web server's thread beside the worker, so
they are in steps: a priority leaves the dedup set and then pushes (`Prioritize`, `PushPriority`), a
clean-up removes files, then rows, then places in the set (`Cleanup`, `CleanupRows`,
`CleanupDedup`); `panel` holds the requests in progress. The job's retries are 3.1's. One video per scan batch instead of 200.
`ShortTries` stands for the five attempts whose back-off is shorter than the worker's sleep.

`QueuedOnce` (in `HarvestInv`), `HarvestedIsUnderway`, `Settles`, `ResetEndsRunning`: the
comments on them say which events they except and where the code makes them necessary.

### 3.7 Bundles

**`Bundles`** has the export thread (`exp`), the restore thread (`res`), the lake, Postgres, the
channel, the pin and the directories of unfinished bundles (`disk`). `Build`, `Probe`, `Send`,
`Save`, `StopUpload`, `Pin`, `FinishExport`; `Find` (pin or scan of the last `Window`
messages), `Fetch`, `Join`, `LoadLake`, `LoadPostgres`; `Harvest` adds rows meanwhile, `PostOther`
and `PinStage` are the channel's other posters. `SaveLocal` may fail, which leaves the old record or
a torn one, and whoever called it goes on. Lost replies, failed saves, cut downloads, a
start in the instant another thread starts, and deaths share one budget.

`BundleIsWhole` (in `BundlesInv`), `ExtraCopiesHaveACause`, `ReplacedByOneBundle`,
`AppliesWhatWasShown`. Abstracted: the options for counts, keeping and linking, the safety
copy, two exports spawned at once; `pg_dump` is available.

### 3.8 Playback and Atlas

**`Media`** is one video: `mp4` and `part` are the cached and the sparse file as sets of chunks,
`marks` the chunk sets of index objects, `current` the video's own. Viewers, the background
fill and the warm-up (`act`) look an object up once and keep it (`Lookup`), write a chunk
(`Write`), record it (`Add`), promote the file (`Promote`, `Replace`); eviction, wipe and restart remove a file and
forget its index in two steps. `underfoot` is history: a promotion under an index no longer the
video's, or a file that went between a look at its index and the read; two transfers whose last chunks
overlap suffice. From then on, in this behaviour, nothing is claimed; up to there every order of steps
is held to. `CachedIsWhole` and
`IndexedIsWritten` are in `MediaInv`; `ServedIsWhole` is about every answer.

**`Atlas`** reads the channel. A message has a place and an id, `channel[m]`: the place is what it is read
by, the id is the shard or bundle number the table `bundles` knows it by (`ok`, `Known`), and a site
may give a shard's number twice (`IdsOf`). It has two rows, for an import may end between two files of a
bundle; a bundle holds the rows of the older ones (`Content`). `pin` is what is pinned: an export's manifest
if the pin succeeded, or the bundle of a stage or a checkpoint, which Atlas does not read ("other").
`mtproto` says whether the session can list the history; without it there is no walk.

The scan (`scan`), the rebuilds (`build`: begin, collect, commit, stamp), the embedding (`embed`: read, check, write,
label, load), the map, the boot, the live refresh and requests are threads. What may fail: a manifest
(`ReadFails`), a batch (`BatchFails`), a part or a file, which leaves some of a bundle's rows and tables behind
(`FetchFails`, `Leaves`), the whole scan (`ScanAborts`), a rebuild, whose deletion may be committed by the next
who commits on that connection (`BuildFails`), an embedding, which leaves its phase behind (`EmbedFails`), the graph
(`Derive`). `Reconcile` asks what `_reconcile_boot` asks: no scan and no map under way, no embedding shown, nodes in
the graph, moments in the index.

`AtlasInv`: an id is passed over only when all rows of a message that has it are here (`OkIsHeld`), and rows that
are here are indexed when all is quiet, unless a rebuild was refused, failed, never asked for or overtaken; that exception
(`missed`) ends when a rebuild has read every row (`HeldIsIndexed`). `BootLoadsCurrent`: where the build id names the
moments there are, a boot loads their vectors or none. `PublishedIsServed`: a pinned bundle is found, until another
message is pinned or a rebuild is missed, unless the phase stays where nobody repairs it (`NeverReady`).

A rebuild belongs to a builder (boot, scan, request) and is only marked as running (`BeginBuild`) after it has found
none marked (`StartBuild`), so rebuilds may overlap: the one that had read fewer rows may commit last and take
out what the other brought in, which is then missed, and the id of the first to commit may be written last.

Abstracted: the values of rows that bundles share, what asset manifests say, how graph, map and ranking come out,
the locks around the status, sessions without credentials or with `--no-scan`, a boot whose reads of `atlas.db` are
refused (ingest.py:142). Taken as one step although the code has two and no lock: that a scan finds none
running and is marked as running (ingest.py:882); two scans that begin within these lines are not in the model.
So are the two getChat of the pinned message and the looks of `_reconcile_boot`.

## 4. Runs, bounds, fairness

| Run | Question | Instance |
|---|---|---|
| `queue_vision` | the vision queue: one copy, exact tries, finality, the loss windows, the lifecycle, liveness | 2 jobs, one malformed; 2 deaths, 1 lost reply, 1 replay; 1 retry, 1 recovery |
| `queue_omni` | the engine's queue, its poison guard and sweep, liveness | 2 jobs; 1 death, 1 lost reply, any number of CUDA deaths; 1 retry, 1 recovery |
| `sweep_two` | two lanes over one table | a chain of 3 passes, the first in lane 0, two in one visit of lane 1; 1 attempt; 1 lapse, 1 deferral |
| `sweep_live` | one lane with operator, death, revival; liveness | 2 passes in 2 cohorts, a video of another slice, an inapplicable pass, a declining runner, a shard; 1 death, 1 button, 1 reconcile that raises; 1 attempt, 1 revival |
| `capture` | the capture plane, liveness | 1 reel; 2 attempts, 1 revival; 8 messages; 2 troubles (failures, deaths, buttons and backfills begun) |
| `pipeline` | one video through the 33 default passes | 3 films, 2 kinds of ledger rows; a machine with two cards, and one whose largest weights fit the card and not the budget; 1 death, 1 eviction, failed rebuilds for 1 pass |
| `bundles` | two exports and a restore | 1 part of the lake beside that of Postgres; 2 posts, 2 bundles, 7 messages; 1 fault; a scan window of 4 |
| `shards` | publishing and restoring, convergence | 2 workers, a shard of 2 parts; 1 fault (a refused part, a death, failed rows of an import, a lost disk) |
| `shards_reuse` | section 6: what a watermark passed can be read back (it cannot) | the same |
| `harvest` | harvester, CV engine and reset, liveness | 2 videos of 2 categories; any 2 of 21 events; 1 failed download |
| `media` | playback | 2 chunks, 1 viewer beside fill and warm-up; 1 mishap of 7 |
| `atlas` | import, index, vectors, liveness | 2 messages of any kind, with one id or two; 1 event of 9; with and without MTProto |

Why the bounds are enough. In the queue jobs interact only through order and through
mistaken removal, so two suffice; each crash window needs one death, and two deaths let a
sweep itself be interrupted; one retry and one recovery are enough to go under, at and over
a limit. In the sweep a chain of three has an input, a pass and one whose input's input
failed; the file-making first pass is the one `reconcile` has to infer. Videos only meet in
`candidates`; the second one of `sweep_live` shows that the slice holds. Reels of the
ledger do not interact but through the mark, which one reel and its several messages reach.
Two messages give Atlas an older and a newer one of every pair of kinds; two chunks
give a file a hole; two videos and two categories give the harvester a queue to reorder. In `media`
two chunks are also the two ends the warm-up fetches. Where a proof exists (section 5) the
bounds do not matter for what it states; while proving, the inductive invariants were checked
on larger instances as well: one lane of the sweep with every kind of disturbance and 2 attempts, capture with 3 troubles and with 2 reels, harvest with 3 events,
media with 2 mishaps, `Atlas` with 2 events, and `Bundles` with 2 faults; that of `Shards` on the instance of its
run, and that of `Pipeline` film by film on that of its run.

Every action and disjunct occurs in some run. Deadlock is checked for the queues and
capture; a sweep that is off with nothing to run, an idle harvester whose events are spent, two
databases that agree, a video that is cached may stop, and so may an Atlas whose phase stays at "indexing"
(`NeverReady`) when nothing more is published.

Fairness. The queue (`FairSpec`): weak fairness of the consumer and of the watchdog, for
the loops never end by themselves and `run_with_watchdog` restarts for ever. The sweep
(`FairEngineSpec`): of each lane's own steps, of `Start` (`routes.autostart` or the operator
starts a session that ended), and of each row's clock while no lane has it in hand. Capture
(`CaptureFair`): the engine's thread and a scan run on, the operator starts and resumes
again, time passes. Shards: a sweep that runs keeps processing and publishing, every
session starts with a restore. Harvest: each process runs while it is up and the watchdog
of `boot.py` restarts it. Atlas: threads run on, a map gets drawn, the refresh comes round, somebody has the page
open (`_reconcile_boot` is called from the status request and nowhere else). Deaths,
errors, buttons, posts and evictions have no fairness and are bounded: with endlessly many
nothing need ever settle. Bundles, Media and Pipeline state no liveness: a refused export or a
stopped player is simply over.

`Settles` of the queue excuses what stays in PROCESSING after a death of a consumer without a
sweep, and after a Redis error at the engine. `SweepCompletes` is a property of one lane: with
two, a lane that ended on an error stays off while the other runs (section 6). It is
checked without runner deferrals, whose cap would be an artefact. A failed fetch, batch or scan does not
keep a pinned bundle from being found, for the next refresh looks again, nor does the end of a session;
what does is named in `PublishedIsServed`: another pin, a missed rebuild, and a phase that stays at "indexing".

Every property of a passing run has a mutant in `PROJECT.json`: a changed definition
under which the run finds the property violated.

## 5. Proofs

All theorems hold for any sets of jobs, videos, passes, lanes, reels, categories, parts,
bundles, workers, rows, viewers, chunks, films and machines, for any selection of passes, and for all limits and
bounds. They assume only the named assumptions of the
modules (`QueueAssumption`, `CoverageAssumption`, `EngineAssumption`, `PackedOnce`, `LedgerAssumption`,
`CaptureAssumption`, `HarvestAssumption`, `BundlesAssumption`, `ShardsAssumption`,
`MediaAssumption`, `AtlasAssumption`, `PipelineAssumption`, `EveryCardRunsTheSelection`), which TLC evaluates in
every run, and two facts about the catalogue as it stands (`CatalogueIsSound`, `RunnersAreSound`; see 5.9).

### 5.1 `JobQueueProofs`, one copy

`SingleCopy` is not inductive: that pushing an envelope back makes no second copy depends
on what the handler holds being nowhere else, which depends on the LREM having removed it.
So `IInv == TypeOK /\ SingleCopy /\ HandTracked`, and `NextIInv` goes through all commands, with
lemmas on appending to, taking from and removing from a lane (`AppendFacts`, `TailFacts`,
`LRemFacts`) and one (`Placed`) for all steps that put a single envelope somewhere. From it
`TypeCorrect`, `NoSecondCopy`, `HandAgreesWithLists`.

### 5.2 `JobQueueProofs`, the promises

On top of that invariant. `TriesAreExact`: an envelope's `retries` is the number of failures
on record, but for a failure that its envelope has yet to say (`Indebted`), and never above
the limit (`CountInv`). `PoisonIsQuarantined`: the recoveries on an envelope and the engine
deaths of its job differ by what is orphaned and not yet counted (`Orphaned`); a replay may
take one envelope out of this, once (`OneReplay`). `AcknowledgedIsFinal`: what is completed is in no list
and in no hand (`AckInv`). `OnlyTwoLossWindows` is an action property: every command moves
an envelope from list to list (`ListsMove`) but the two named ones. `ImplementsLifecycle`:
each command maps, job by job, to an edge of the lifecycle or to a stutter; the hand's
settled jobs (`LifeInv`) are what makes the mapping well defined.

### 5.3 `ProcessEngineProofs`

`FailuresBounded` counts failures over all lives of a row, while the row only has the
attempts of the present one. `IInv` (with `Recorded`) therefore ties the failures on record to
revivals, attempts and to whether a lane has the pass in hand: an attempt counted by a
claim whose failure is still to come is the one that would overflow the bound. What `fail` writes
it decided on attempts that only a reset can have changed since (`DecisionStands`, `DecidedInv`). From it
`TableTypeCorrect`, `InFlightAlwaysLive`, `FailedAlwaysSpent`, `FailuresAlwaysBounded` and the
action property `SettledAlwaysFinal`.

`EInv == IInv /\ LaneInv /\ DecidedInv`, where `LaneInv` says that the locals of a lane fit together (`Shape`)
and that what it holds is what its loop still has to go through (`HeldIsTodo`). The latter is
what `Coverage` asks of its callers: `StepIsUse` takes every step of a lane to one of the table
or to a stutter, and `SweepImplementsCoverage` follows. `SweepInherits` carries the table's
theorems over. `DoneAlwaysHasEvidence` needs a second invariant, `EvInv`: a lane past the
commit has its evidence stored (`StoredFirst`), and evidence never goes away.

`GateSkipsHaveCause` is about a decision on old information: the gate looks at row states
the lane read when it fetched the video. Until a button is pressed failures stay on record and
a declined pass stays declined, so every failed or skipped row has a cause of its own
(`FailedHasFails`, `SkipHasCause`), a snapshot however old is founded in causes that are still there
(`SnapFounded`), and a lane that is about to skip has found one (`GateFounded`).

`OnceEarnedIsKept` proves `RedoneOnlyIfLapsed`, a property of one lane (`Lanes = {Primary}`): with
two, a row the other lane's restore brought between a reconcile and a claim is redone. The
reconcile takes everything with complete evidence off the queue; what comes back to it in the same rotation,
by a failure or a deferral, was tried in it (`Tried`), and is not claimed again before the
next reconcile: `seen` keeps its video out of the cohort, and no other cohort has it (`PackedOnce`:
plan_cohorts packs a pass once). What a stopping lane gives back nobody claims before it starts
again, and a rotation whose reconcile raised is excepted (`blind`). `RotationInv` says this of every
row, in hand or not.

### 5.4 `CaptureProofs`

Theorems `MarkIsKept` and `NeverSentTwice`. The mark is not the only thing that answers for a
message: a scan in progress read the mark when it began and will move it to what it read.
`Answered` names the messages either of them answers for; `LedgerKeeps` says that the reel of
each such video rests in the ledger, uploaded and not in the engine's hand; `PinKeeps` says the
same of the pinned copy and `CopyKeeps` of what a restore has downloaded, so that the swap puts
nothing worse in place. The steps that disturb it are the swap, the scan's two commits and the death (`Stirs`); all others are `Quiet`.

### 5.5 `HarvestProofs`

Theorems `NoJobIsDoubled` and `NoHarvestIsLost`. The dedup set and the queue change together but
for one window, the worker between SADD and push. `OnceInv` counts the jobs of a video and
that window as one and says that a video outside the set has neither. `UnderInv`: the set
has only videos whose post is harvested, and the worker downloads only those whose is not, so
the SADD that finds its video there, and pushes nothing, never happens to a post without a job.
`ResetInv` and `PanelInv` say that a reset or a request under way was begun, so that its later steps
fall under the exception that names it.

### 5.6 `BundlesProofs`

Theorems `BundlesAreWhole`, `NoPartIsSentTwice`, `OneBundleReplacesTheLake` and
`WhatWasShownIsApplied`. `Backed`: what a manifest in hand or on disk says is posted is in the
channel, which only grows, so a manifest that goes up with nothing unsent is whole. The count
of copies is not inductive: a part that is in the channel and that a manifest in hand or on disk does
not list (`Resendable`) may go up once more, and nothing is unsure then. `CopyInv` therefore counts it in
advance, when the answer was lost, the session ended or the save failed. The one part that was posted and whose
save is still to come is in suspense (`Charged`): it is listed on disk, or its failure counted. `SyncInv`
says that what the disk lists the upload lists. For the restore `ResTyped` ties what
was fetched to the manifest that was found, and that to the bundle that was asked for.

### 5.7 `ShardsProofs`

Theorem `WhatIsPublishedIsThere`. "Restorable" is not stable by itself: a shard id may come to
stand for other rows. `OutIn` is what is stable: a row is out once it can be read from the channel,
or one of its documents has a rival under the same id; a channel that only grows keeps it
out (`OutStays`), and a whole shard never changes its meaning (`WholeStays`). `UploadedIsOut`
is the heart: when all parts of a shard are up, its rows are out, whatever went up under its id
before. Watermarks move only then, and a death cuts only moves to such a place (`PubInv`, `MarkInv`).
`KnownIsHeld` needs to look ahead, for a publisher notes its own shard before it is whole: all documents
under the ids of a present database hold rows of that database (`ChannelInv`), so whatever the shard
comes to mean is held; who imports it finds it whole and keeps it, less what failed (`KnownInv`).
For the stage bundles `StageInv` and `FiledInv` tie the parts in the channel to the snapshot in hand and
to the one on record, under the number it was filed with; `BundlesFit` says of each document in the
channel that its rows are out or that a shard was refused.

### 5.8 `AtlasProofs`

The module has the theorems about both halves of the Atlas.

Playback: `CacheIsWhole` and `WhatIsServedIsWhole`. An index object tells the truth about the
sparse file only while it is the video's own and nobody is between a file's going and the
forgetting of its index. That window closes with no current object at all (`WindowSound`), and
an object let go is never made current again while a transfer keeps it (`LookupKeeps`). So only a
transfer that records what it has not written could break it (`AddedIsWritten`), a promotion under the
current index renames a full file (`FullAtReplace`), and who was told that a range is held finds
it (`ReadIsThere`).

Import and search: `ReaderIsComplete` and `BootLoadsItsOwn`. `ScanInv`: what is about to be recorded as
imported has its rows; so an id that is recorded has the rows of the message it was recorded for, which stay
(`ContentFacts`: a message's own rows are among what its import brings). `IndexInv`: rows that are not indexed are
on their way into a rebuild that the scan will ask for, that is about to read them or has read them (`Reads`), or are missed: a
commit that takes rows out is one that had not read them. It holds
in every state, `HeldIsIndexed` is what is left of it when all is quiet. `DenseInv`: the label of the vector file is never
ahead of its vectors, nor those of the moments; so a label that equals the generation of the moments has their vectors.

### 5.9 `PipelineProofs`

Theorems `WritersComeFirst` (`PipelineInv`), `ResidentFits` (`FitsTheCard`) and `NothingIsLost` (`NothingLost`),
from `InductiveInvariant`.

What is proved and what is evaluated. The catalogue is a table of 34 passes; what it says is a ground fact,
and TLC evaluates it: `CatalogueIsSound` (no pass needs itself, passes that share weights give one size for them, and
whatever a pass needs, however indirectly, *precedes* it) and `RunnersAreSound` (a pass loads its own
weights or the borrowed ones, declares the files it reads, and whoever writes the rows it reads
precedes it). `Precedes(w, r)` says that `r` declares `w`, or that `w` and all it needs come before `r` in the
tie break. The rest is an argument for any selection, machine and film, and holds of any catalogue
of which these two facts hold: a change of `registry.py` or of a runner that breaks one of them is one that breaks
the proof.

1. *The order.* `TopoSortIs`: the list has each pass of the selection once, and after every selected pass that
   precedes it. For the undeclared half of `Precedes` the argument is that, while `w` is not listed,
   one of `w` and what it needs is ready, and the tie break takes it first.
2. *The packing.* `PlanIsPacking`: the cohorts cut that list into consecutive pieces, and each counts its
   weights once and within the budget, or is one pass that the machine has room for. `PlanKeepsOrder`:
   so the order holds from cohort to cohort; a visit sorts its cohort's open passes again, with the same result.
3. *The undisturbed visit.* `OutcomeIs`: for whatever is not skipped there, the visit has a reel, at its turn, on which it
   got through (`Precedent`), and all evidence on that reel is of passes that are done there.
4. *The comparison.* `ClearAgain`: what that reel offered is on this one when the pass has its turn. Rows are:
   their writers precede it, so they had their turn, and if none of them was given up they were not skipped. Files are
   because `EnsureInputs` brings them back when no rebuild fails, if the rows it looks at are there: `keyframes` needs the shots, and
   the sound needs the index of the artifacts and a row of the video that knows of the sound.

Step 4 is why `NothingLost` is not inductive by itself. `IInv` adds `Planned` and `Visiting` (1 and 2 as
they stand in a session under way), `Tabled` and `Resident`, and `Remembered`: what the session, the
table and the channel keep goes together. Evidence that needed the shots is never without the shots, nor
evidence that needed the sound without the index of the sound, in the store as in the channel; so
what a reconcile takes for done because evidence was made from it can be made again. A row that has a
duration and came from a ledger without one was measured, and says whether there is sound. The
recursive definitions (`TopoSort`, `PlanCohorts`, `SumOf`, `Outcome`) are recursive functions; their unfolding is
proved by induction on sets of numbers (`Reaches`).

### 5.10 Only model-checked

Liveness (`Settles`, `SweepCompletes`, `CaptureCompletes`, `Converges`, `ResetEndsRunning`,
`PublishedIsServed`), which no prover here reaches, and the refutation of `shards_reuse`. Every invariant and
every action property of a passing run is proved.

## 6. Where code and documents disagree

Shown by a run (`shards_reuse`): **a published row can be unreadable.** engine.py:1619 says of
a shard that fails to upload that the next attempt includes it, store.py:1184 that any worker can
pull all shards and end up with the union. `shard_seq` only moves with the watermarks, so after
a lost answer, a refused later part or a death before the commits the next shard goes up
under the id of the one already there, with other rows, and a restore takes the first it sees.

Seen while modelling. The models have the behaviour (unless it says otherwise), and the
properties above except it by name where they would be false. Locations are the code's.

**Queues.** `fail_job` (queue_manager.py:279) and `replay_dlq` take the envelope out with one command
and put it back with another, so a crash can lose a job; ARCHITECTURE.md:51 and queue_manager.py:181
say it cannot. `LossWindows` says there is no other window. A retried or recovered job goes to
the default lane (queue_manager.py:297), an urgent one too; ARCHITECTURE.md:156 says it always
pre-empts; the priority lane is looked at only before a blocking pop (:194).
`replay_dlq` resets the retries of an envelope, not its recoveries; `lease_expires_at` is
written and never read; the watchdog restarts `frame_worker` and `model_manager` without a
sweep. `frame_worker` acknowledges before it pushes the analysis job (frame_worker.py:252).
Whether the Redis client resends a command (:42) depends on a version that is not pinned.

**Sweep.**
- A deferral costs an attempt (coverage.py:421 and engine.py:1237 say it does not): the claim
  counts it, and `defer` does not give it back as `release` does.
- After a transient failure (engine.py:1259) a pass reports `None`; what reads it runs, finds
  nothing and is skipped for good; engine.py:1187 says a pass waits with its input.
- Row states are read once per video (engine.py:1107) while another lane makes the input, so a
  pass can be skipped because its input was late; compare runners/base.py:55.
- Evidence of a reset component stays, so the next `reconcile` (engine.py:877) marks its rows
  done again; coverage.py:749 says it sweeps again.
- `claim_for` (coverage.py:291) takes a queued row, or a running one whose lease lapsed, whatever
  its attempts are, so a pass that kills its session each time is tried for ever;
  coverage.py:48 calls MAX_ATTEMPTS the attempts before a component stops being retried.
- A pass that failed short of MAX_ATTEMPTS reports `queued`, which the gate (engine.py:1178) does
  not look for; engine.py:1175 says what reads it should not spend a GPU second.
- Some runners turn a model that cannot be loaded or asked into `SkipPass` (runners/language.py:770),
  which is terminal, although attempts and revivals are there for it (coverage.py:66).
- `fail` reads the attempts and writes its verdict without a transaction (coverage.py:396), so a reset
  of the component in between (engine.py:2438) is overwritten: the row fails, or waits, with all
  its attempts there. A reconcile that raises (engine.py:878) is passed over, and the rotation
  earns again what the store holds.
- A pass whose evidence was committed before its session died runs again if its lease lapses after
  the rotation's reconcile; coverage.py:336 says nothing is ever reprocessed.
- A language lane that ended on an error stays off while the primary runs: `start()` returns the
  primary's refusal first (lanes.py:119).

**Catalogue.** `_run_pass` hands the runner a copy of the video row (engine.py:1216), so what the
probe measured is lost to the rest of the visit, and passes over sound can be skipped for
good; structure.py:50 says otherwise. The tower that `tag` and `aesthetic` borrow is not in the
cohort's sum (vision.py:94). On a machine without a card shots and transcription are
left out of the plan but their readers run, and skip for good. Working files some runners read
(through `frames` and `frame_at`) are not declared as inputs and are not brought back after an eviction.
Of the other lane only its own current video is safe from `evict`. A rebuild that
fails is logged (engine.py:1538-1545), and the pass that reads the file is skipped, which nothing revives, though
coverage.py:66 has attempts and revivals for what fails; so is whatever builds on it. A restored video row stays
without duration when the ledger was synced first.

**Shards.** A row whose replay fails is counted and skipped (store.py:1219-1223), and the shard is
noted all the same (intake.py:796), so that row is never read again. `reconcile_now` asks for any row, and the commits of a pass are several: a pass with
half its rows can be taken for done. A run without a connection moves the
watermark past rows that no later session publishes. The shard before a stage bundle may be refused, which nobody looks at, so
"a reader that only follows shards is never behind the bundle" (engine.py:2000) is not kept. A
refused stage goes up again under the same number and file name. A worker publishes again what it
restored. A death between the signature and the removal of the pending mark sends a stage
once more; a death before the mark is set forgets that it was due until its rows change.

**Capture.** A restore while a stopping run finishes its reel can send a reel below the restored
mark again (engine.py:821): excused by name in `NeverTwice`, and found when its proof failed. So can
a run that is started during the download. A restore of a copy older than an import takes the
imported reels out of the queue without a word (`dropped`). The
docstring of `repair_stale` says a claim respects the attempts; it does not look. The requeue route
passes the word `failed` where a list is expected. The next start repairs a stopped run only after
half an hour. A scan never fills in message ids below the mark. The backfill and the engine can both
publish an asset set. A side scan that was cut short may move the mark when the run has
stopped meanwhile. A record that cannot be sent makes the video go up again, and a locked
journal marks an uploaded reel failed. A photo post that gallery-dl is refused is
written off as unavailable. The backfill reads its list of
videos once (backfill.py:205) and does not look again.

**Harvester.** Deferred downloads whose back-off outlasts the sleep are not looked at until
something else wakes the worker (ui_server.py:592; lake_schema.py:46 says they are). A post is
committed as Harvested before its job is pushed (ui_server.py:635); ARCHITECTURE.md:55 says a crash
loses nothing. `persist_category_queue` overwrites a choice made meanwhile (ui_server.py:206). A
refused batch waits for the next trigger; a reset during a scan loses the scan; a reset of the
lake alone leaves its dedup set; a download in flight finishes after the wipe; the resume at the end
of a reset clears the operator's own pause, and a death of ui_server within it leaves everything
paused. A reset is reported done when Redis refused its resume, and leaves everything paused
(system_control.py:747, against its own comment at 760), and when the tables were not made, with only
a note (712). A refused SADD or push (ui_server.py:648) is recorded as a failed download of a post
that is Harvested already, which nobody retries. Orphans in PROCESSING are recovered at boot only; a clean-up of frames leaves posts
Harvested; a priority can double a job; a deleted message is retried for ever.

**Bundles.** The boot's restore checks that the lake is empty and then replaces it
(routes.py:329). When a pin fails, "newest" takes an older bundle without a word. A
stage bundle pins over the manifest, and a scan of 600 messages may miss it. A cancellation within a
part ends as an error. A Postgres load that times out after its DROP is reported as skipped; a
failed replay leaves one database replaced and the other torn, which the next export then dumps.
Rows between the safety copy and the load are in neither, and a failed safety copy is
ignored. `_save_local` swallows an OSError (db_export.py:521), so a resume may send again a part that is
in the channel, with no lost answer and no crash; db_export.py:457 says it must not. Counts are taken after the snapshot. The two starts share no lock. A failed probe leaves
a directory that nothing resumes.

**Playback.** A transfer that keeps an index another has let go of can promote a file with holes
(media.py:519, 923, 947, 1173): `underfoot`. `_download` that finds the file there (:267) leaves its
entry in `_INFLIGHT`. `_WARMED` keeps a video whose warm-up failed. `_SPARSE.pop(key)` may take a newer
object. Eviction removes the file before it forgets the index.

**Atlas.** A scan walks from the newest message with INSERT OR REPLACE, so the oldest bundle's values
win, and those of the oldest asset manifest in every walk; ingest.py:29 and index.py:428 say the
newest. The live refresh returns after the pinned manifest, so it never reads a shard
(server.py:285). A rebuild leaves vectors of the old index in memory, and one that ends while an
embedding runs is never embedded (index.py:920). A rescan's rebuild leaves the phase at
"indexing" until somebody asks for the status. Rows that replace others are not counted as
added, so nothing is indexed anew; nor is it after a death between merge and rebuild, or a rebuild
that was refused or failed, or an import that failed after its first file: those rows are committed with the
failure (ingest.py:426-446, 775). A rescan asked for while one runs is refused.
A shard that has the number of an earlier one (see `shards_reuse`) is passed over (ingest.py:990). An error other than
a failed part ends the whole scan (ingest.py:1050); server.py:556 says nothing is lost by waiting for the boot's scan, which is true
of what comes after it. Two rebuilds that begin within index.py:678-681 both run,
and the later commit may be of the one that read less. A failed rebuild does not roll its DELETE back (index.py:688-759), so a later commit may empty the
index. A session or a rebuild that ends between index.py:714 and 746 leaves the old build id beside new moments, and the next boot
may load the old vectors for them, though index.py:743 says the id is what tells. An encoder that
raises or finds no numpy leaves the phase "embedding" (index.py:873-905), so the status never
repairs the boot's label (server.py:478). An index asked for from the page derives no graph and sets no phase.

**Oracle** (not modelled). Rows are committed before vectors and ack, so a retry that reuses them skips
graph and entities; omni_engine.py:260 says they can be extracted again later. A reuse probe that
fails aborts the transaction that "regenerating all" then needs. A Postgres outage ends DONE with
rows in one store only.

## 7. What is not modelled, and why

Of the modelled components. Queues: `purge` and the reports. Table: `claim` and `drop_component`,
which nothing calls. Engine: the pause, the session's video limit, `kaggle_ok`, the moment
between the two starts of `DualGpuCoordinator.start`, prefetching. Shards: credentials, the lane that does not publish, artifact and shot
rows, torn shard files, the publish lock, `canonical_uid`. Capture: two restores at once, photo posts,
`skip_collections`, rebinding to another channel, videos dropped into the channel by hand, local
manifests, the pacer's state. Harvester: worker lanes, the hand-off to the oracle, the disk guard.
Bundles: what section 3.7 names. Media: `clip_fetch`, posters, `resident_keys`. Atlas: what section
3.8 names.

Hazards that are known and outside every model: two requests that spawn two exports at once;
the Redis client's resends of a command; the loop that looks at the priority lane before it
blocks on the other.

Not intended: what passes compute (signal processing, model inference, frames), the oracle's
inference and its writes to three stores (`omni_engine.py` beyond its queue, `omni_db.py`), ranking,
graph, maps and layout in `atlas/`, parsing of exports, web routes around operations modelled
elsewhere, credentials, logging, installers, front ends and tests. They are numeric or I/O code,
or have no state that the steps of several actors change.
