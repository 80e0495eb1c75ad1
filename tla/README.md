# A verification development for yral-video-storage-service

The service (Rust, axum, Postgres, Storj and Hetzner object stores) keeps an index of all videos, computes
their perceptual hashes, mirrors them from Hetzner to Storj, publishes a feed of hash changes, and drives the
generation of videos on an external GPU service. Several boxes run the same binary against one Postgres, so
most of what is hard about it is what several handlers, jobs and boxes do to the same rows, and what is left
behind when one of them is cut off.

This directory holds TLA+ models of that behaviour, configurations that check them with TLC, and proofs of the
main safety properties checked with TLAPS. `PROJECT.json` lists components, runs, mutants, hazards and theorems,
and maps definitions to the lines they model. Paths below are relative to the repository.

## The parts of the system

| Part | State | Operations | What is hard | What makes it correct |
|---|---|---|---|---|
| Media index and feed, `src/media_index/{schema,repo,feed}.rs` | master rows, two hash tables, `media_feed_events` | upserts, `append_feed_event_txn`, `list_feed_events_after` | sequence order against commit order, row locks taken around an advisory lock, deadlocks | no consumer skips an event; replaying the feed rebuilds the hash tables |
| Legacy import, `src/jobs/media_imports.rs` | run record, failures, the same tables | a page per transaction, a row per transaction after an error | a poisoned page is done again; a circuit breaker in the middle of a page; two boxes | success is complete; only systemic errors abort |
| Ingest hook, `src/jobs/ingest.rs` | master row | `on_video_ingested` from uploads and completions | a writer of the master row outside the feed | moves of hashed videos are published (they are not, see below) |
| `media_phash`, `src/jobs/media_phash.rs` | `media_job_failures`, `media_job_runs`, canonical hashes | run, page, hash, persist, cancel | backoff, failed rows that come back, dropped runs | success is complete, hashed rows are clean, retries are spaced |
| Sweep worker, `src/jobs/worker.rs` | `sweep_lease`, in-process job flags | acquire, renew, drain, discover, release | late renewals, steals, crashes, graceful stops, jobs started by hand | one box runs; the cadence of discovery is kept; work is done in the end |
| Mirror pipeline, `src/db.rs`, `src/jobs/{mirror,phash_backfill,scan_*}.rs`, `src/routes/mirror.rs` | `video_index`, `mirror_jobs`, job flags | scans, pHash, mirror, cancel, retry | late results of a page fetched long ago, refetching without a cursor | mirrored is whole and final; jobs end |
| Video generation, `src/routes/videogen/*`, `src/videogen/*` | `videogen_requests`, the upload destination, the staged image | `/generate`, `/complete`, `/drafts/in-progress` | submissions that fail here and succeed there, brokers tried in turn, callbacks that repeat and overlap, best-effort writes, dropped handlers | rows close once and for a cause; no draft is lost; nothing spins |
| Two-phase uploads and moves, `src/routes/{duplicate,move2nsfw}.rs`, `src/routes/upload/*` | objects with and without an expiry, temporary files, the post | raw upload, finalize, `update_metadata_impl`, publish, move to NSFW | overlapping finalizations share a file; dropped requests leave writes that land late | what was acknowledged stands; a finalization can be repeated; a move loses nothing |
| Chain snapshot, `src/jobs/chain_snapshot.rs`, `src/media_index/chain_repo.rs` | `yral_posts`, `yral_users` | walk, stage a page, mark stale, roll up | two walks at once, a chain that changes, a walk broken off | only complete walks mark posts; the rollup counts live rows |
| Coverage audit, `src/routes/chain.rs` | none of its own | classify, remediate | reads that are old when it writes; jobs that are busy | expected videos get covered |
| Thumbnail backfill, `src/crates/backfill-thumbnails` | staged thumbnails, a manifest of JSON lines | run, audit, verify, seed | killed anywhere, torn lines, three semaphores | manifest and bucket agree; nothing verified is overwritten |
| Signed calls, HLS copies, profile images, `src/videogen/hmac.rs`, `src/routes/{mirror,duplicate_hls}.rs`, `src/routes/user/*` | key registry, objects | sign, check, copy, delete | clocks that disagree, keys replaced box by box, uploads nobody waits for any more | refusals have a cause; acknowledged segments stand; the last call decides |
| Fingerprints, encryption, object store clients, transcoding, pHash numerics, start, telemetry, deployment | none of their own in the service | pure functions and single calls | | not modelled |

How they interact: the three writers of the feed (import, `media_phash`, ingest hook) meet in Postgres
transactions; the sweep worker starts `media_phash`, the scans and the import, behind the flags that operators'
requests also use; the mirror pipeline fills `video_index`, which the import reads; the coverage audit starts an
import and lifts the backoff of the pHash job; a completion of a generated video creates a draft through the
finalize endpoint over HTTP and the post canister, and calls the ingest hook, whose row is what `media_phash` picks
up; `/media/jobs/cancel` sets the cancellation flags all jobs read.

## The modules

Each component has its module, an `MC` module that instantiates it for TLC, and its theorems in a `...Proofs` module.
Two of those hold the proofs of two components each: `MediaTableProofs` is about `MediaFeed` and `LegacyImport`, which
write the same tables, `CanisterProofs` about `VideogenRequests` and `ChainSnapshot`, which both deal with the post
canister. Nothing of the one model is used for the other; they are only extended side by side, which is why
`LegacyImport` and `ChainSnapshot` prefix the customary names (`ImportInit`, `ChainSpec`). No module has a RECURSIVE
operator. In each module, operators named `Mutant...` are
plausible bugs: put in place of the definition that follows them, they make one property of a run fail. Some
variables exist for the properties alone (`alone` and `mark`, `seen`, `begin`, `ranAt`, `late`, `doubtful`): they
remember something of the past and no action of the code's is guarded by them.

**`FeedLog`, `MediaFeed`.** `FeedLog` is what a consumer is promised: an ordered log; `Publish` appends a set
of events after all others and `Deliver` hands a consumer a prefix extension. `MediaFeed` is the outbox, one
action per SQL statement: `NextRow` takes the row lock of `SELECT ... FOR UPDATE` and decides on the row as last
committed or as this transaction wrote it; `Upsert` writes and, if `EmitsOn` says the change is visible in the
feed, goes on to `TakeFeedLock` (`pg_advisory_xact_lock`) and `InsertEvent`, which draws a cursor from a sequence
that a rollback does not give back; `Commit` and `Rollback` free all locks. `FetchImport`, `FetchHash` and
`FetchUpload` are the three kinds of writers, `StartOn` the rows they intend to write; the import falls back to
a transaction per row by fetching one row. `DeadlockVictim` is the detector of Postgres. `Poll` is a page of
`/media/feed/events`.

**`LegacyImport`.** The run of the import around those transactions: a page after the cursor of rows the master
lacks, `CommitPage` or a rollback and then row by row, the failures that are upserted per phase, the streak
of failures that trips the breaker, the limit, the cancellation, and how the run record ends. Runs on several boxes
share the tables. Beside them scans add rows, the ingest hook registers videos, and an audit (`Audit`; its writes
are a later step, `Remediate`) computes category C, starts an import unless one is running on its box, and clears backoffs. How the
transactions of two runs interleave is `MediaFeed`'s subject; here a transaction is one step.

**`ChainSnapshot`.** `walk` is a run: fetch a page of the canister, upsert its posts one by one, go on from the last
id, and at the end mark what has another run id as stale, rebuild `yral_users`, count, and record the status.
`CreatePost`, `DeletePost` and `IsPage` are the canister, from how the code reads its answers: posts in one order, a
page no longer than asked. A page shorter than asked ends the walk. The flag against a second walk is one per box, so
two boxes may walk at once.

**`SweepLease`.** `lease` is the single row of `sweep_lease` (owner, age of the heartbeat, age of
`last_discovery_at`); `pc` is where the worker of a box stands in `run_one_pass`; `flag` the in-process flags and
`manual` the jobs operators started. Time is kept as ages capped just above the longest one compared, and advances
with `Tick`; `late` remembers that some statement or renewal once took longer than a third of the TTL, which
is what a stop of the process, a slow pool or a partition looks like. `Release` deletes the row, as the code does.

**`MediaPhash`.** A run takes a page after its cursor of rows that lack the hash and are not backing off
(`videos_missing_canonical_phash`), computes it in parallel and persists the results as they come:
`PersistHash` writes the hash and clears the failures of both phases, `PersistFailure` raises `retry_count` and
sets the next retry. `wait` is the time left of the backoff. `FailOnOverflow` is the statement whose
interval leaves the range of Postgres. `RunStatus` is `run_status`, `FailRun` a run whose future is
dropped or whose statement fails.

**`MirrorJobs`.** `status` and `retries` are `mirror_jobs`, `hetznerKey` and `storjKey` the columns of `video_index`,
`stored` the parts of a video on Storj, and `page` holds each runner's rows with the results not yet written. A runner
is a box's flag: a job of its own or the pipeline, which hashes first and mirrors then (`NextStage`). All writes have
the guards of the code's SQL and no others: in `PhashFailure` there is none. The pipeline of the code scans, hashes
and mirrors page by page; the scans are enabled always, and a pipeline is started again.

**`VideogenRequests`.** `gen` is where a handler of `/generate` stands, `row` and `age` the row of
`videogen_requests`, `image` the staged input, `vast` the job at Vast and `calls` whether Vast still calls back, `call`
where each delivery of the callback stands. Every write of the row may be lost (`CloseRowBestEffort`), each step of a
handler may be its last (`DropGenerate`, `DropCall`), a submission may fail here although Vast works on it, one
broker is tried after the other, and Vast calls back until a 200 reaches it. Two deliveries of one callback may
overlap. `Sweep` and `Purge` are the two statements of a poll of `/drafts/in-progress`.

**`UploadFlow`.** One video and the requests about it: `StartUpload` stages on Storj with an expiry and on Hetzner
without; `StartFinalize` downloads to a file of the box (`Fetch`, `FetchFails`), reads it (`Read`, which may see what
another finalization is writing) and stores again for good; with kind "publish" it goes on to `AddPost`, as
`update_metadata_impl` does. `StartMove` copies Hetzner's objects to the NSFW bucket and deletes them. A request may fail
or be dropped (`HangUp`) at each step; what it had under way goes to `strays` and may `Land` later, on Storj cut short,
because `uplink` is not killed. `Expire` is the time to live.

**`ThumbBackfill`.** The operators' tool. `run` is the invocation, `listed` and `manifest` what its plan is made from,
`task` a video's way through the three semaphores, whose permits are the numbers of tasks in the stages that hold
them. A kill may tear the last line of the manifest; the next append joins it, and then the file does not parse and
every later invocation stops at it. An upload whose task failed, was aborted or was killed goes to `strays`, because nothing
kills its `uplink`, and may `Land` whenever, whole or cut short, after the next run has listed the bucket too. `verify`, `audit`
and seeding are invocations as well; one runs at a time.

**`EdgeRoutes`.** Calls that leave no row: a copy of an HLS segment to two stores that wait for one another,
with strays as in `UploadFlow`; the profile image, whose old object is deleted, best effort, before the new one is stored
and the canister named it; and signed calls (`authorize`, `verify_hmac`, requests to moderation) with a timestamp,
attempts, time under way and a clock offset. Vast's key is replaced box by box (`stage`, `signKey`).

## The runs

`CHECK_DEADLOCK FALSE` stands in every configuration but that of `import`: the models stop when nobody has work left
or a bounded budget is used up, as the system does when it is idle. That somebody waits for ever is what the liveness
properties are for.

| Run | Shows | Bounds, and why they are enough |
|---|---|---|
| `feed` | `NoSkippedEvent`, `FeedReplaysHashes`, the refinement `ImplementsFeedLog` | two imports, two hash jobs, one ingest hook, two videos (one with a legacy hash), two contents, three transactions, pages of one event: two writers suffice for an inversion of cursors or a lost row update, the third comes behind them |
| `feed_live` | `EveryTxEnds`, `ReadersCatchUp` | two imports over the same two rows (the smallest deadlock: one holds a row and wants the advisory lock, the other the other way round), a hash job, pages of two events |
| `lease` | `SingleRunner`, `FlagsMatchJobs`, `LeaseLostFairly`, `CadenceKept` | two boxes, the least TTL with a heartbeat of its third, one graceful stop, crash, fault and request each; boxes are symmetric |
| `lease_live` | `WorkConverges` | one of two boxes may be lost for good |
| `mirror` | `MirroredIsWhole`, `MirroredIsFinal`, `JobsEnd`, `HashedIsMirrored` | a pipeline beside a mirror job; a video with a thumbnail, one that can be neither hashed nor copied, a temporary one; pages of two, two retries, two faults, and one reset, which takes the second one to the mirror jobs |
| `phash` | `CleanSlate`, `SucceededIsComplete`, `RetriesSpaced`, `RunsEnd`, `HashedInTheEnd` | a run over both videos beside a run over the first, which never decodes; pages of one, a backoff that reaches its cap and a count that reaches the overflow; two faults, so a row can fail in two windows or fail before a run is lost |
| `videogen` | `ClosedForCause`, `AcknowledgedHasDraft`, `StatusIsFinal`, `NothingSpins`, `GeneratedIsDrafted` | one request, because requests share nothing but their owner's sweep; two overlapping deliveries, two brokers, a sweep after one tick and a purge after two |
| `upload` | `AckedStands`, `FinalizeIsRepeatable`, `MovedIsKept` | three requests of any kind for one video on one box, where they share the file; downloads tried twice; one fault; requests are symmetric |
| `import` | `SucceededImportsAll`, `AbortsOnlySystemic`, `CoverageCloses` | three rows: one without keys, one Postgres refuses, a good one that spells the id of the second otherwise; pages of two, a breaker at two, limits that cut a page, two faults; one box |
| `chain` | `SnapshotExact`, `TombstonesAreDead`, `WalksComplete` | two posts in pages of one, two walks on two boxes, three iterations, one fault |
| `thumbs` | `AuditMatchesPlan`, `VerifiedStays`, `EligibleStaged` | two videos, one that never decodes, one permit at each stage; four faults, so a run that was killed in an upload can be followed by one that plans while that upload is still under way, and fails or is killed itself |
| `edge` | `RefusedForCause`, `AckedSegmentStands`, `LastCallDecides`, `CallbackGetsThrough` | two calls of any kind, two boxes with old or new keys, clocks one tick apart either way, a window of one tick, two attempts, two names for an image, one fault |

Properties that need care in reading:

- `SingleRunner` holds while statements and renewals are prompt (`late`). It is not promised otherwise: the answer of
  a renewal is thrown away, so a box that lost its lease goes on. What does hold then is `LeaseLostFairly` and
  the second half of `CadenceKept`. Its first half leaves graceful stops out, which delete the cadence.
- `MirroredIsFinal` is about one pHash runner: see "Noted without a run".
- `JobsEnd` says that a pHash job gets to its end, and of a mirror job that it does unless, from some point on, a row that
  cannot be copied is pending for ever. In `mirror` such a row occurs, and then the job stays at it. What the property
  excludes is that anything else keeps a job busy: rows whose hash fails and that come back, transient errors, cancellations,
  scans that queue rows again, a job beside it. `HashedIsMirrored` is about the rows that can be copied.
- `VerifiedStays` leaves out a video whose last verdict was written while an upload of an earlier run was still under way
  (`doubtful`): nobody can say that this upload does not land afterwards, and it may be cut short.
- `MirroredIsWhole` counts "late" as whole: the file is not flushed before `uplink` reads it.
- `CleanSlate`, `SucceededIsComplete` and `RetriesSpaced` are about videos on which one box works (`Unshared`), whatever
  the other boxes do. Shards of one split are disjoint, but nothing keeps the sweep's run over everything, or a shard of
  another split, from working on the same video: see "Noted without a run". `HashedInTheEnd` holds for shared videos too.
- `GeneratedIsDrafted` leaves out requests without an encrypted identity, whose draft the code skips, and jobs whose
  callbacks Vast gives up.
- `AckedStands`, `FinalizeIsRepeatable` and the first half of `AckedSegmentStands` speak of requests that no other
  overlapped: with overlaps the code promises nothing (a finalization may store what another has half written to the
  shared file, and a late first upload gives a finalized object an expiry again). The runs contain those behaviours.
- `SnapshotExact` and the exception in `TombstonesAreDead` do the same for two walks at once.
- `MovedIsKept` asks that the NSFW bucket has a video when Hetzner loses it, and has it as Hetzner did if no requests
  overlapped. The first half is about videos that are not flagged NSFW: a flagged one is on Hetzner only if a
  publication stored the file that a finalization of the same video had left on its box, and an upload beside the move
  may then have put an object that expires in the place of the copy.
- `EligibleStaged` holds as long as the manifest parses, which a kill in the middle of a line can end; a thumbnail cut short
  counts as staged, for the code as well.
- `ReadersCatchUp` has writers that commit while the consumer pages, but a bounded number of them.
- `RetriesSpaced`, `SnapshotExact`, `AckedStands`, `AckedSegmentStands` and `LastCallDecides` do not speak of the overlaps
  they leave out; what happens then is listed with the hazards in `PROJECT.json`.

### Fairness

Weak fairness is assumed of steps the code takes by itself: an open transaction issues its next statement and a
consumer polls (`MediaFeed`, with the deadlock detector of Postgres); a box that is up goes on with its pass, its
renewal task and the jobs it was asked for, and the clock advances (`SweepLease`); the schedule starts jobs and a job
goes on (`MirrorJobs`, `MediaPhash`); an import goes on, and an operator repeats the audit until it answers that an
import was triggered, which is strong fairness because boxes may be busy (`LegacyImport`); a walk goes on
(`ChainSnapshot`); tasks go on, and the tool is executed again while the audit reports work (`ThumbBackfill`); Vast
repeats a callback, and, as strong fairness, the network is prompt again and again (`EdgeRoutes`); nobody need change
keys. A box that stopped need not come back, no upload or request need arrive, and no fault need stop for fairness:
faults have bounds. In `VideogenRequests`, where nothing is bounded, fairness is assumed of the owner's polls while the list is not empty (the app polls), of Vast's repeated
callbacks, and, as strong fairness, of a finalization and a canister call that are asked for again and again. Nothing
is assumed of `/generate`, of the writes of the row, or of any answer reaching Vast. `UploadFlow` states safety only.

## The proofs

All are checked by TLAPS for any values of the constants that satisfy the `ASSUME`s of the modules; TLC checks the
same properties on the instances above, except type correctness and `BackfillSuccessIsComplete`, which no run repeats.
Every safety property of every run is the statement of a theorem. Assumptions are about constants only: sentinels are
not values, budgets are numbers, there is a box, `TTL >= 3` (a heartbeat of its third must be at least one tick),
a request is purged later than it is stale, clocks differ by no more than the window, pages and
thresholds are at least one, the kinds of runners are disjoint, and no connection of the feed's writers is the ingest
hook's and another's at once.

- **`MediaTableProofs`**, the feed: `FeedTypeCorrect`, `FeedNeverSkips`, `FeedReplays`, `FeedImplementsLog`.
  - A reader has everything up to its cursor because nothing is ever committed behind it: `LockInv` says that only the
    holder of the advisory lock has uncommitted events, so at most one transaction has; `CursorInv` that the sequence
    is ahead of all cursors; hence `OrderInv`, an uncommitted event lies after every committed one; `ReaderInv` follows
    for a page that is a prefix of what is new. None of these is inductive without the others. The refinement then has
    one case for a commit, one for a poll and a stutter for the rest.
  - Replaying the feed gives the rows (`FeedReplaysHashes`) because of the row locks. `RowLockInv`: a transaction holds
    the lock of every row it has written, so between its reading a row and its commit nobody else writes it and the
    comparison by which `EmitsOn` left an event out is still true as it commits. `OwedInv`: a hash row it has written is
    as it was, or has its event, or its event comes next; `TodoInv` and `AppendedInv`: it has at most one event per row,
    with what it wrote. With `OrderInv` these events come last for their rows.
- **`MediaTableProofs`**, the import: `ImportTypeCorrect`, `ImportSucceedsWithAll`, `ImportAbortsOnlySystemic`. The
  cursor moves as a page is fetched, before any of its rows is imported. So `Passed` is what the cursor has passed and
  does not wait on the page, and `Underway` says of a run: what was there at its start and is `Passed` is in the master,
  or has a failure and the run has counted one; no row is counted twice; and the streak of failures is at most the rows
  Postgres refuses among those passed, plus the faults so far. Nothing another box, a scan or an upload does takes this
  back (`ImportGrows`: the master, the index, the failures and the faults only grow), so one lemma covers every step of
  others. What remains is that a run which finds no more rows has passed them all.
- **`SweepLeaseProofs`**: `LeaseTypeCorrect`, `LeaseElectsOne`, `LeaseFlagsMatch`, `LeaseNeverTakenFresh`,
  `LeaseCadence`. The invariant `RunInv` gives, for each point of a pass, how old the heartbeat can be while all is
  prompt (`Freshness`): a third of the TTL until the drain has renewed, two thirds until the discovery has, so it is
  never old enough to be stolen in the middle of a pass. For the cadence `DiscInv` says that the table agrees with when
  discovery ran last as long as nobody has stopped gracefully, and that, while all is prompt, a box that has found
  discovery due finds it due still, because the lease is its own until it starts.
- **`MediaPhashProofs`**: `PhashTypeCorrect`, `PhashCleanSlate`, `PhashSucceededIsComplete`, `PhashRetriesSpaced`.
  The shards may overlap. `Owned` says that a row on a page is of its runner's shard and, if no other box works on it,
  unhashed and not backing off; `Progress` that, while a run has had no failure, every such row that was due as it began
  is hashed, on its page or still ahead of its cursor. `TakenOthers` is where sharing matters: a result that leaves one
  page takes no unshared row from another's.
- **`MirrorJobsProofs`**: `MirrorTypeCorrect`, `MirrorMirroredIsWhole`, `MirrorMirroredIsFinal`. `Standing` says that
  a runner without a job holds no rows, so a mirror job never inherits a result of a pHash job; `WholeInv` that a copy
  about to be written as done is whole already, with `StoredGrows`, that no attempt takes a part away; `HeldPending` that
  a row held by the only runner that hashes stays pending and unhashed, so its late failure hits no mirrored row.
- **`CanisterProofs`**, video generation: `VideogenTypeCorrect`, `VideogenClosedForCause`, `VideogenAcknowledged`,
  `VideogenStatusIsFinal`. `Ordered` says that the job is under way only after `/generate` has submitted it, so its
  identity is settled before any callback; `InHand` that a delivery in progress agrees with how the job ended and that
  the one about to close the row has its draft; `EndedBefore` that neither a complete row nor an answer precedes the end
  of the job.
- **`CanisterProofs`**, the snapshot: `SnapshotTypeCorrect`, `SnapshotIsExact`, `SnapshotTombstonesAreDead`. `Placed`
  says where a walk stands: its cursor, the page after it, and that it has counted no post twice, so no counter
  overflows. `Holds` is about the walk begun last while it is the only one (`SoleWalk`): every post that was there at
  its start, is still there and lies `Behind` its cursor bears its stamp, and each step of the end adds its part: no
  live row of another walk after the mark, no count too many after the pruning, exact counts after the counting. It is inductive because a post that was
  deleted never returns and a new one is not among those of the start, and because a walk that starts beside another one
  ends both of their claims. A walk reaches its end only when nothing on chain is ahead of its cursor.
- **`ThumbBackfillProofs`**: `BackfillTypeCorrect`, `BackfillAuditMatchesPlan`, `BackfillVerifiedStays`,
  `BackfillSuccessIsComplete`. `RecordedStaged` says that a line Completed is only written behind its upload, which
  nothing deletes, even if the process is killed in between, and a late one may only replace. A task may overwrite what a stray has
  put there since the listing, so a video on which somebody works is not safe. `SettledInv` is about the videos that verify
  passed with no stray beside them (`Settled`): such a video has its first frame, no stray of it is left, it has no task, and
  a run that has listed the bucket but not yet planned has seen it. So no later plan contains it, and with no task it gets
  no stray either. `PlannedHaveTasks` says that the exit code speaks of all of the plan.
- **`EdgeRoutesProofs`**: `EdgeTypeCorrect`, `EdgeRefusedForCause`, `EdgeAckedSegmentStands`, `EdgeLastCallDecides`.
  `GoodCall` says that an attempt is as old as its transit took, because it was signed as it was sent; `KeysOK` that no
  box forgets the old key before Vast has the new one, and that no attempt carries the new one before every box knows
  it. `SegmentInv` says that while the last call about the segment is at work or acknowledged and nothing overlapped it,
  no other call puts the segment and no stray of an earlier one is left. `PictureInv` does the same for the picture: no
  other call is at work on it, what the last call has stored or named so far stands (`Stands`), and a deletion that
  is still under way is one the call has skipped, of an image older than itself (`LateDeletion`); `NamesInv` says that no image is
  named after a second to come.
- **`UploadFlowProofs`**: `UploadTypeCorrect`, `AckStands`, `FinalizeRepeats`, `MoveKeepsVideo`. `HetznerStays`: nothing
  on Hetzner expires or is about to. `AloneInv` is about a request that no other overlapped (`Alone`): no other is
  active, no write is left under way unless the request failed by a fault, what it has stored so far stands for good
  (`StoredStands`), what it has fetched or gone without is as it found it (`FetchedIsThere`), and a move deletes
  behind a copy that is what Hetzner has (`CopyIsVideo`). `KeptInv` says for requests that do overlap that, of a video
  that is not flagged, the copy in the NSFW bucket stays once it is there and no deletion is under way before.

Only model-checked: the liveness properties `EveryTxEnds`, `ReadersCatchUp`, `WorkConverges`, `JobsEnd`,
`HashedIsMirrored`, `RunsEnd`, `HashedInTheEnd`, `NothingSpins`, `GeneratedIsDrafted`, `CoverageCloses`,
`WalksComplete`, `EligibleStaged` and `CallbackGetsThrough`. They need fairness and `ENABLED`, which the provers do not
reach. Type correctness is proved for every module and stands in no run.

## Noted without a run

What the code does where a document, or a reader, would expect something else; the models have all of it unless it says
otherwise.

- The ingest hook moves a hashed video to another serving location and appends no event; the master design has
  events appended whenever the serving location of a row changes. `FeedReplaysHashes` speaks of hashes only.
- A graceful stop deletes the lease row and the persisted cadence with it, so a restart does start a full scan again.
- A late pHash failure takes a mirrored row back, because `update_phash_failure` has no status guard: two runners that
  hash are enough.
- A row that cannot be copied is fetched again at once and for ever in the same run of the mirror job, where the design and
  a comment have it "retried next run" (`mirror.rs`, `docs/superpowers/specs/2026-05-04-storj-mirror-index-design.md`). `JobsEnd`
  names it as the one thing that keeps a job from its end. Pages have no order, so as many such rows as a page holds may starve
  the others; in `mirror` a page holds more.
- A scan of Storj between the copies of a video and of its thumbnail sets `storj_key`: the row is not fetched again if the
  thumbnail then fails, and keeps the status `phash_computed`.
- `power(2, retry_count)` overflows the interval before `LEAST` caps it, from the 35th failure on; the failure is not
  recorded and the run aborts at the row, where the comment says that it backs off to the 24 h cap.
- Two `media_phash` runs with overlapping shards, such as the sweep's beside an operator's, may both have a video on their
  page: one charges it with a failure after the other has hashed it, which leaves a failure row nobody retries, or
  a second time in one backoff window; and a run succeeds although a video it found due is skipped for the other's failure.
- `download_to_file` does not flush the file, so a mirrored copy may miss its last write.
- Rows that failed before they had a hash are reset to `phash_computed` and mirrored without one.
- The design of video generation has late and repeated callbacks refused with 409 and change nothing; the code creates
  the draft again and answers 200, and only the row is protected (`StatusIsFinal`).
- `mark_post_as_published` ignores a refusal inside the canister's answer and announces the post all the same.
- `update_metadata_impl` finalizes with `is_nsfw = false` whatever the video, from the file that an NSFW finalization of
  the same video may have left on the box: the way a flagged video gets to Hetzner. Staged copies on Hetzner never expire. Two
  names of a thumbnail are one key, so the move deletes one object on Hetzner; the copy in the SFW bucket of Storj and
  the HLS segments stay where they are.
- After three failed downloads a finalization asks only whether its file exists, so it may store a stale or a partial one
  that an earlier, failed one left behind.
- Errors in `mark_stale_posts`, the rollup or the completion of a walk leave its record running. Overlapping walks leave live
  posts marked stale until the next complete one.
- Import failures are never cleared; as many bad rows as the breaker allows abort every later run; a limited run does
  not get past rows without keys at its start. Category E of the audit cannot be reached.
- A thumbnail that was cut short in the bucket counts as staged: it is skipped by verify, and no run makes it again.
- A torn last line of the thumbnail manifest, joined with the next append, makes the file unreadable for good. A line
  of `uplink ls` that does not parse drops an object from the listing, so that its thumbnail may be staged again (not
  modelled).
- A profile picture whose upload fails after the deletion leaves the canister naming an image that is gone. The listing of
  old pictures reads one page of 1000 (not modelled).

## Not modelled, and why

- Postgres is one linearizable server; failovers of Patroni are operations around the program.
- Vast is an environment that runs one job per request, and tells a job that comes by two brokers apart by its
  `message_id`; the canister and the object stores are modelled from how the code uses them.
- Rejections that change no state (parsing, mismatched principals), listings and diagnosis routes.
- Whether an upload could be remuxed for fast start: its original bytes are stored otherwise, which no property tells
  apart.
- The bytes of HMACs, fingerprints, encryption, string handling of keys and URLs, image and video processing, clients of
  the object stores (their retries end in the failure of a write), the `pipeline` subcommand and the printing of
  `mirror-client`, configuration, telemetry: pure functions or input and output; the models take their answers as choices.
- The incremental scans resume after the greatest key they have seen and miss keys that sort before it; full scans find
  those, and `MirrorJobs` has scans find any video.
- Steps that are one where the code has two, or that are simpler than the code: `MirrorJobs.Copy` is both uploads, so a scan
  falls between them only where a fault does; `UploadFlow.StartMove` is both downloads; `UploadFlow.HangUp` fixes what is in the
  file of the box as the request is dropped, although the `uplink` that fills it may go on for a while; `SweepLease.EndDrain`
  clears the rows registered behind the run's cursor with the others; `MediaFeed` has no key-share locks of foreign
  keys, which a hash row takes on its master row, and which the deadlock detector resolves as it does the others.
- The canister is taken to fill its pages: `ChainSnapshot.IsPage` excludes a page shortened by a filter and a full page without a next
  cursor. The code ends its walk at either and marks the rest stale.
- `EdgeRoutes` models the list of keys. A single service token, which takes precedence where it is set
  (`upload_refresh.rs`, `hmac.rs`), has no overlap of keys; and operators are taken to replace keys in the order that keeps both
  valid in between.
- One clock, which never goes back, names profile images in `EdgeRoutes`; the code takes the clock of the box that has the call.
- The thumbnail tool is run by one operator: two invocations over one manifest at a time are not modelled.
- `PROJECT.json` maps the actions and the helpers that carry a decision of the code; records of initial values and helpers
  that only name a set are read with the action that uses them.

## Plan

The behaviour of the parts above is modelled, and their safety properties are proved. What is left:

1. An abstract specification of the upload flow, of what a client may rely on after an acknowledgement, and `UploadFlow`
   shown to implement it for requests that do not overlap.
2. Safety parts of the liveness properties: that a consumer whose poll finds nothing holds all that is committed, that
   a walk can still make a step as long as it has not ended.
