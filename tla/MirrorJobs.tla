----------------------------- MODULE MirrorJobs -----------------------------
(***************************************************************************)
(* The Hetzner-to-Storj mirror: the video_index and mirror_jobs tables     *)
(* (db.rs), the scans that fill them, and the pHash and mirror jobs that   *)
(* move a video's status along (jobs/phash_backfill.rs, jobs/mirror.rs).   *)
(* A job fetches a page, works on its rows in parallel, and then writes    *)
(* the results one by one.  Each kind of job has its own flag on each box, *)
(* and a pipeline, which runs both jobs in turn, has another one: several  *)
(* runners may hold the same rows, and their writes come late.             *)
(* A video id is its object key without the extension, so the one under    *)
(* the pending prefix is another video than the permanent one.             *)
(***************************************************************************)
EXTENDS Naturals, FiniteSets

CONSTANTS Videos,       \* video ids
          TempVideos,   \* the videos under TEMP_KEY_PREFIX
          HasThumb,     \* the videos with a thumbnail on Hetzner
          Corrupt,      \* the videos that cannot be hashed
          Blocked,      \* the videos that cannot be copied
          PhashJobs,    \* the boxes' job_phash_running runners
          MirrorRunners,\* the boxes' job_mirror_running runners
          Pipelines,    \* the boxes' job_pipeline_running runners
          PageSize,     \* SCAN_PAGE_SIZE
          MaxRetries,   \* MAX_PHASH_RETRIES
          MaxFaults,    \* bound: transient errors, lost jobs and cancellations
          MaxResets     \* bound: resets of failed rows

Runners == PhashJobs \cup MirrorRunners \cup Pipelines

ASSUME MirrorConstants ==
  /\ TempVideos \subseteq Videos /\ HasThumb \subseteq Videos
  /\ Corrupt \subseteq Videos /\ Blocked \subseteq Videos
  /\ PhashJobs \cap MirrorRunners = {} /\ PhashJobs \cap Pipelines = {}
  /\ MirrorRunners \cap Pipelines = {}
  /\ PageSize \in Nat \ {0} /\ MaxRetries \in Nat \ {0}
  /\ MaxFaults \in Nat /\ MaxResets \in Nat

Statuses == {"none", "pending", "phash_computed", "mirrored", "failed"}
Results == {"out", "todo", "ok", "bad"}
Parts == {"mp4", "thumb"}

VARIABLES
  hetznerKey,  \* videos with a hetzner_key in video_index
  storjKey,    \* videos with a storj_key in video_index
  hashed,      \* videos with a phash in video_index
  status,      \* the status column of mirror_jobs; "none": no row
  retries,     \* its retry_count column
  stored,      \* what Storj has of each part of a video
  stage,       \* what each runner is doing
  page,        \* the runner's rows and their results; "out": not its row
  cut,         \* runners whose cancellation token is cancelled
  faults,      \* transient errors so far
  resets       \* resets of failed rows so far

index == <<hetznerKey, storjKey, hashed>>
jobRows == <<status, retries>>
runs == <<stage, page, cut>>
vars == <<index, jobRows, stored, runs, faults, resets>>

NoPage == [v \in Videos |-> "out"]

Init ==
  /\ hetznerKey = {} /\ storjKey = {} /\ hashed = {}
  /\ status = [v \in Videos |-> "none"]
  /\ retries = [v \in Videos |-> 0]
  /\ stored = [v \in Videos |-> [p \in Parts |-> "none"]]
  /\ stage = [r \in Runners |-> "idle"]
  /\ page = [r \in Runners |-> NoPage]
  /\ cut = {}
  /\ faults = 0
  /\ resets = 0

----------------------------------------------------------------------------
(* The scans, one upsert at a time. *)

Reset == resets < MaxResets /\ resets' = resets + 1

\* upsert_hetzner_key, or upsert_hetzner_key_with_reset in a full scan: a
\* video that is hashed already skips the pHash job.
MutantRequeuesAll(v, full) ==
  IF full \/ status[v] \in {"none", "pending"}
    THEN IF v \in hashed THEN "phash_computed" ELSE "pending"
    ELSE status[v]
Rescanned(v, full) ==
  LET fresh == IF v \in hashed THEN "phash_computed" ELSE "pending"
      again == IF full THEN {"none", "pending", "failed"} ELSE {"none", "pending"}
  IN  IF status[v] \in again THEN fresh ELSE status[v]

\* Only a full scan gives a failed row another chance.
Resets(v, full) ==
  IF full /\ status[v] = "failed" THEN Reset ELSE UNCHANGED resets

ScanHetzner(v, full) ==
  /\ hetznerKey' = hetznerKey \cup {v}
  /\ status' = [status EXCEPT ![v] = Rescanned(v, full)]
  /\ retries' = [retries EXCEPT ![v] = IF full /\ status[v] = "failed" THEN 0 ELSE @]
  /\ Resets(v, full)
  /\ UNCHANGED <<storjKey, hashed, stored, runs, faults>>

\* upsert_storj_key, or upsert_storj_key_with_reset in a full scan: every mp4
\* on Storj counts as mirrored.
ScanStorj(v, full) ==
  /\ stored[v]["mp4"] # "none"
  /\ storjKey' = storjKey \cup {v}
  /\ IF full /\ status[v] = "failed"
       THEN /\ status' = [status EXCEPT ![v] = "pending"]
            /\ retries' = [retries EXCEPT ![v] = 0]
       ELSE UNCHANGED jobRows
  /\ Resets(v, full)
  /\ UNCHANGED <<hetznerKey, hashed, stored, runs, faults>>

----------------------------------------------------------------------------
(* The runners. *)

\* What a runner begins with; the two scans a pipeline runs first are the ones
\* above, which never keep it from going on.
FirstStage(r) == IF r \in MirrorRunners THEN "mirror" ELSE "phash"

\* The flag of the kind is free on the box.
Start(r) ==
  /\ stage[r] = "idle"
  /\ stage' = [stage EXCEPT ![r] = FirstStage(r)]
  /\ cut' = cut \ {r}
  /\ UNCHANGED <<index, jobRows, stored, page, faults, resets>>

\* fetch_pending_phash_batch.
PendingPhash(v) == status[v] = "pending" /\ v \in hetznerKey /\ v \notin hashed

\* fetch_pending_mirror_batch.
MutantUntriedOnly(v) == status[v] = "phash_computed" /\ v \notin storjKey /\ retries[v] = 0
PendingMirror(v) ==
  /\ status[v] = "phash_computed"
  /\ v \notin TempVideos
  /\ v \in hetznerKey
  /\ v \notin storjKey

Pending(r) == {v \in Videos : IF stage[r] = "phash" THEN PendingPhash(v) ELSE PendingMirror(v)}

BetweenPages(r) == stage[r] # "idle" /\ page[r] = NoPage

Fetch(r) ==
  /\ BetweenPages(r)
  /\ r \notin cut
  /\ \E rows \in SUBSET Pending(r) :
       /\ rows # {}
       /\ Cardinality(rows) = PageSize \/ (Cardinality(rows) < PageSize /\ rows = Pending(r))
       /\ page' = [page EXCEPT ![r] = [v \in Videos |-> IF v \in rows THEN "todo" ELSE "out"]]
  /\ UNCHANGED <<index, jobRows, stored, stage, cut, faults, resets>>

\* The job is out of rows, or cancelled; a pipeline goes on to the mirror job
\* unless it is cancelled.
NextStage(r) ==
  IF r \in Pipelines /\ stage[r] = "phash" /\ r \notin cut THEN "mirror" ELSE "idle"

EndJob(r) ==
  /\ BetweenPages(r)
  /\ r \in cut \/ Pending(r) = {}
  /\ stage' = [stage EXCEPT ![r] = NextStage(r)]
  /\ UNCHANGED <<index, jobRows, stored, page, cut, faults, resets>>

Fault == faults < MaxFaults /\ faults' = faults + 1

\* Download and hash one row, outside the database.
Hash(r, v) ==
  /\ stage[r] = "phash" /\ page[r][v] = "todo"
  /\ \/ v \notin Corrupt /\ page' = [page EXCEPT ![r][v] = "ok"] /\ UNCHANGED faults
     \/ v \in Corrupt /\ page' = [page EXCEPT ![r][v] = "bad"] /\ UNCHANGED faults
     \/ Fault /\ page' = [page EXCEPT ![r][v] = "bad"]
  /\ UNCHANGED <<index, jobRows, stored, stage, cut, resets>>

\* What uplink finds in the file (download_to_file): the bytes of one attempt, a
\* further one truncates the file first; their last write may still be under way
\* or fail unseen, for the file is not flushed.
FileContents == {"whole", "late"}

\* mirror_one: copies the mp4, then checks for the thumbnail and copies it.
MutantThumbIgnored(v, parts) == "mp4" \in parts
Copied(v, parts) ==
  v \notin Blocked /\ "mp4" \in parts /\ (v \in HasThumb => "thumb" \in parts)

\* The parts an attempt gets to replace what Storj has of them.
Refreshed(old, data) == [p \in Parts |-> IF p \in DOMAIN data THEN data[p] ELSE old[p]]

Copy(r, v) ==
  /\ stage[r] = "mirror" /\ page[r][v] = "todo"
  /\ \E parts \in SUBSET Parts : \E data \in [parts -> FileContents] :
       /\ "thumb" \in parts => ("mp4" \in parts /\ v \in HasThumb \ Blocked)
       /\ stored' = [stored EXCEPT ![v] = Refreshed(@, data)]
       /\ page' = [page EXCEPT ![r][v] = IF Copied(v, parts) THEN "ok" ELSE "bad"]
       /\ IF (Copied(v, parts) \/ v \in Blocked) /\ \A p \in parts : data[p] = "whole"
            THEN UNCHANGED faults ELSE Fault
  /\ UNCHANGED <<index, jobRows, stage, cut, resets>>

\* The results are written when all of the page is done.
MayWrite(r, v) == page[r][v] \in {"ok", "bad"} /\ \A u \in Videos : page[r][u] # "todo"
Written(r, v) == page' = [page EXCEPT ![r][v] = "out"]

\* update_phash_success: the status only if it is still pending.
PhashSuccess(r, v) ==
  /\ stage[r] = "phash" /\ page[r][v] = "ok" /\ MayWrite(r, v)
  /\ hashed' = hashed \cup {v}
  /\ status' = [status EXCEPT ![v] = IF @ = "pending" THEN "phash_computed" ELSE @]
  /\ Written(r, v)
  /\ UNCHANGED <<hetznerKey, storjKey, retries, stored, stage, cut, faults, resets>>

\* update_phash_failure: retry_count and the cap, whatever the status is.
AfterFailure(n) == IF n >= MaxRetries THEN "failed" ELSE "pending"

MutantFailureUncounted(r, v) ==
  /\ stage[r] = "phash" /\ page[r][v] = "bad" /\ MayWrite(r, v)
  /\ Written(r, v)
  /\ UNCHANGED <<index, jobRows, stored, stage, cut, faults, resets>>

PhashFailure(r, v) ==
  /\ stage[r] = "phash" /\ page[r][v] = "bad" /\ MayWrite(r, v)
  /\ retries' = [retries EXCEPT ![v] = @ + 1]
  /\ status' = [status EXCEPT ![v] = AfterFailure(retries[v] + 1)]
  /\ Written(r, v)
  /\ UNCHANGED <<index, stored, stage, cut, faults, resets>>

\* update_mirror_success: the key always, the status if it is phash_computed.
MirrorSuccess(r, v) ==
  /\ stage[r] = "mirror" /\ page[r][v] = "ok" /\ MayWrite(r, v)
  /\ storjKey' = storjKey \cup {v}
  /\ status' = [status EXCEPT ![v] = IF @ = "phash_computed" THEN "mirrored" ELSE @]
  /\ Written(r, v)
  /\ UNCHANGED <<hetznerKey, hashed, retries, stored, stage, cut, faults, resets>>

\* update_error: the message only.
MirrorFailure(r, v) ==
  /\ stage[r] = "mirror" /\ page[r][v] = "bad" /\ MayWrite(r, v)
  /\ Written(r, v)
  /\ UNCHANGED <<index, jobRows, stored, stage, cut, faults, resets>>

\* The limit is reached, a statement fails or the box does: what is not written
\* is lost.  A pipeline survives the error of its pHash job.
LoseJob(r) ==
  /\ stage[r] # "idle"
  /\ Fault
  /\ \E s \in {"idle", NextStage(r)} : stage' = [stage EXCEPT ![r] = s]
  /\ page' = [page EXCEPT ![r] = NoPage]
  /\ UNCHANGED <<index, jobRows, stored, cut, resets>>

\* cancel_all: the jobs that run on a box, whichever they are, stop at their
\* next check.
CancelAll ==
  /\ Fault
  /\ \E here \in SUBSET {r \in Runners : stage[r] # "idle"} : cut' = cut \cup here
  /\ UNCHANGED <<index, jobRows, stored, stage, page, resets>>

\* retry_failed: reset_failed_to_retry.
RetryFailed ==
  /\ Reset
  /\ status' = [v \in Videos |-> IF status[v] = "failed" THEN "phash_computed" ELSE status[v]]
  /\ retries' = [v \in Videos |-> IF status[v] = "failed" THEN 0 ELSE retries[v]]
  /\ UNCHANGED <<index, stored, runs, faults>>

Write(r) ==
  \E v \in Videos :
    PhashSuccess(r, v) \/ PhashFailure(r, v) \/ MirrorSuccess(r, v) \/ MirrorFailure(r, v)
Work(r) == \E v \in Videos : Hash(r, v) \/ Copy(r, v)
Advance(r) == Fetch(r) \/ Work(r) \/ Write(r) \/ EndJob(r)

Next ==
  \/ \E v \in Videos, full \in BOOLEAN : ScanHetzner(v, full) \/ ScanStorj(v, full)
  \/ \E r \in Runners : Start(r) \/ Advance(r) \/ LoseJob(r)
  \/ CancelAll
  \/ RetryFailed

Spec == Init /\ [][Next]_vars

\* The jobs are triggered on a schedule, and a running job advances.
FairSpec ==
  /\ Spec
  /\ \A r \in Runners : WF_vars(Start(r)) /\ WF_vars(Advance(r))

----------------------------------------------------------------------------
(* Properties. *)

TypeOK ==
  /\ hetznerKey \subseteq Videos /\ storjKey \subseteq Videos /\ hashed \subseteq Videos
  /\ status \in [Videos -> Statuses]
  /\ retries \in [Videos -> Nat]
  /\ stored \in [Videos -> [Parts -> {"none"} \cup FileContents]]
  /\ stage \in [Runners -> {"idle", "phash", "mirror"}]
  /\ page \in [Runners -> [Videos -> Results]]
  /\ cut \subseteq Runners
  /\ faults \in 0 .. MaxFaults
  /\ resets \in 0 .. MaxResets

\* A video is mirrored once Storj has its mp4 and, if there is one, its thumbnail,
\* all or none (mirror.rs, mirror_one and the write that follows), each as one
\* attempt downloaded it, be it that the last write of the file came late.
MirroredIsWhole ==
  \A v \in Videos : status[v] = "mirrored" =>
    /\ stored[v]["mp4"] \in {"whole", "late"}
    /\ v \in HasThumb => stored[v]["thumb"] \in {"whole", "late"}

\* Mirrored is final: no result that comes late, scan or reset takes it back
\* (the design's state machine).  With several pHash runners it is not: the
\* failure one of them writes has no guard on the status (update_phash_failure).
OnePhashRunner == \A r, q \in PhashJobs \cup Pipelines : r = q
MirroredIsFinal ==
  [][OnePhashRunner => \A v \in Videos : status[v] = "mirrored" => status'[v] = "mirrored"]_vars

\* The pHash job gets to the end of its rows, although the failed ones come back
\* in the same run: it counts them out.  The mirror job does not count, and stays
\* at it for ever, but only if a row that cannot be copied is left to it: no other
\* row, fault, scan, reset or job beside it keeps it busy.
JobsEnd ==
  /\ \A r \in Runners : stage[r] = "phash" ~> stage[r] # "phash"
  /\ \A r \in Runners :
       []<>(stage[r] # "mirror") \/ <>[](\E v \in Blocked : PendingMirror(v))

\* A hashed permanent video reaches Storj, through errors and cancellations.
HashedIsMirrored ==
  \A v \in Videos \ (TempVideos \cup Blocked) :
    v \in hashed /\ v \in hetznerKey ~> v \in storjKey
=============================================================================
