---------------------------- MODULE LegacyImport ----------------------------
(***************************************************************************)
(* The legacy import (jobs/media_imports.rs): it pages through the rows of *)
(* video_index that the media master lacks, each page in one transaction   *)
(* and, when a statement fails, row by row.  Its triggers are an operator's*)
(* request (routes/media.rs) and the coverage audit of the chain snapshot  *)
(* (routes/chain.rs, media_index/chain_repo.rs), whose remediation also    *)
(* lifts the backoff of videos that lack a hash.  A run belongs to a box;  *)
(* video_index, the master and the failures are shared by all boxes.       *)
(* How the transactions of two runs interleave is left to MediaFeed.       *)
(***************************************************************************)
EXTENDS Integers, FiniteSets

CONSTANTS N,               \* legacy rows, numbered in the order of their video_id
          KeyOf,           \* canonical join key of a row: several spellings of one id
          Keyless,         \* rows with neither a Storj nor a Hetzner key
          Bad,             \* rows that Postgres refuses
          Expected,        \* join keys of the staged posts that should be covered
          Boxes,
          Batch,           \* MEDIA_IMPORT_BATCH_SIZE
          MaxConsecutive,  \* MAX_CONSECUTIVE_IMPORT_FAILURES
          Limits,          \* limits asked for
          MaxFaults        \* bound: failing statements, cancellations, lost boxes

Rows == 1 .. N
NoLimit == N + 1

ASSUME ImportConstants ==
  /\ {N, MaxFaults} \subseteq Nat
  /\ {Batch, MaxConsecutive} \subseteq Nat \ {0}
  /\ Keyless \subseteq Rows /\ Bad \subseteq Rows
  /\ Keyless \cap Bad = {}
  /\ KeyOf \in [Rows -> Rows] /\ Boxes # {} /\ Expected \subseteq Rows
  /\ Limits \subseteq Int /\ NoLimit \in Limits

VARIABLES
  index,       \* rows of video_index
  master,      \* rows of all_servable_videos_on_yral
  hashed,      \* rows with the canonical hash
  backingOff,  \* rows the pHash job has failed on and will not take
  failures,    \* import failures: a row and the phase it failed in
  run,         \* the last run of each box
  audit,       \* a remediating audit between its reads and its writes
  faults       \* failures so far

tables == <<index, master, hashed, backingOff, failures>>
importVars == <<tables, run, audit, faults>>

\* What the run table and the variables of the job hold; seen is a copy of
\* video_index at its start, for the properties.
NoRun == [at |-> "idle", status |-> "none", limit |-> NoLimit, cancelled |-> FALSE,
          after |-> 0, page |-> {}, todo |-> {}, scanned |-> 0, failed |-> 0,
          streak |-> 0, tripped |-> FALSE, seen |-> {}]

NoAudit == [at |-> "none", box |-> CHOOSE b \in Boxes : TRUE, c |-> FALSE, ids |-> {}]

ImportInit ==
  /\ index \in SUBSET Rows
  /\ \E old \in SUBSET index : master = old \ (Keyless \cup Bad)
  /\ hashed = {} /\ backingOff = {} /\ failures = {}
  /\ run = [b \in Boxes |-> NoRun]
  /\ audit = NoAudit
  /\ faults = 0

Fault == faults < MaxFaults /\ faults' = faults + 1

Phases == {"storage_selection", "import_error"}

----------------------------------------------------------------------------
(* A run begins and ends. *)

Free(b) == run[b].at = "idle"

\* The flag of the box, then the record; a negative limit fails the run there.
Begun(limit) ==
  [NoRun EXCEPT !.at = IF limit < 0 THEN "idle" ELSE "fetch",
                !.status = IF limit < 0 THEN "failed" ELSE "running",
                !.limit = limit, !.seen = index]

StartImport(b) ==
  /\ Free(b)
  /\ \E limit \in Limits : run' = [run EXCEPT ![b] = Begun(limit)]
  /\ UNCHANGED <<tables, audit, faults>>

\* What is left of a run is its record.
Ended(b, status) ==
  [run EXCEPT ![b] = [NoRun EXCEPT !.status = status, !.limit = run[b].limit, !.seen = run[b].seen]]

\* `?`: the run is marked as failed as far as Postgres lets it.
Fails(b) ==
  /\ Fault
  /\ \E status \in {"failed", "running"} : run' = Ended(b, status)
  /\ UNCHANGED <<tables, audit>>

Terminal(b) ==
  IF run[b].cancelled THEN "cancelled"
  ELSE IF run[b].failed = 0 THEN "succeeded" ELSE "succeeded_with_failures"

----------------------------------------------------------------------------
(* Pages. *)

Lesser(a, b) == IF a < b THEN a ELSE b

\* fetch_missing_legacy_rows_after, the first rows after the cursor.
IsMissingPage(b, page) ==
  LET missing == {v \in index \ master : v > run[b].after}
      max == Lesser(Batch, run[b].limit - run[b].scanned)
  IN /\ page \subseteq missing
     /\ Cardinality(page) = Lesser(max, Cardinality(missing))
     /\ \A v \in page, u \in missing \ page : v < u

\* The cursor moves as the page is fetched, whatever becomes of its rows.
Cursor(page) == CHOOSE v \in page : \A u \in page : u <= v

OutOfRows(b) == run[b].scanned = run[b].limit \/ IsMissingPage(b, {})

Fetch(b) ==
  /\ run[b].at = "fetch"
  /\ ~run[b].cancelled /\ ~OutOfRows(b)
  /\ \E page \in SUBSET Rows :
       /\ IsMissingPage(b, page)
       /\ run' = [run EXCEPT ![b].at = "batch", ![b].page = page,
                             ![b].after = Cursor(page)]
  /\ UNCHANGED <<tables, audit, faults>>

Complete(b) ==
  /\ run[b].at = "fetch"
  /\ run[b].cancelled \/ OutOfRows(b)
  /\ run' = Ended(b, Terminal(b))
  /\ UNCHANGED <<tables, audit, faults>>

FetchFails(b) == run[b].at = "fetch" /\ Fails(b)

\* import_one_row_txn over some rows: the keyless ones leave a failure and are
\* none, the others go to the master.
Import(rows) ==
  /\ master' = master \cup (rows \ Keyless)
  /\ failures' = failures \cup ((rows \cap Keyless) \X {"storage_selection"})

\* The optimistic transaction of the whole page.
CommitPage(b) ==
  /\ run[b].at = "batch"
  /\ run[b].page \cap Bad = {}
  /\ Import(run[b].page)
  /\ run' = [run EXCEPT ![b].at = "fetch", ![b].streak = 0,
                        ![b].scanned = @ + Cardinality(run[b].page),
                        ![b].failed = @ + Cardinality(run[b].page \cap Keyless)]
  /\ UNCHANGED <<index, hashed, backingOff, audit, faults>>

\* A statement has failed: roll back and take the page row by row.
RollbackPage(b) ==
  /\ run[b].at = "batch"
  /\ \/ run[b].page \cap Bad # {} /\ UNCHANGED faults
     \/ Fault
  /\ run' = [run EXCEPT ![b].at = "rows", ![b].todo = run[b].page]
  /\ UNCHANGED <<tables, audit>>

\* The commit fails, and may have been carried out.
CommitFails(b) ==
  /\ run[b].at = "batch"
  /\ run[b].page \cap Bad = {}
  /\ Fault
  /\ \E status \in {"failed", "running"} : run' = Ended(b, status)
  /\ Import(run[b].page) \/ UNCHANGED <<master, failures>>
  /\ UNCHANGED <<index, hashed, backingOff, audit>>

----------------------------------------------------------------------------
(* Row by row. *)

RowAt(b) == CHOOSE v \in run[b].todo : \A u \in run[b].todo : v <= u

\* The run after one more row of its page.
AfterRow(b, failed, streak) ==
  LET rest == run[b].todo \ {RowAt(b)}
  IN [run EXCEPT ![b].todo = rest, ![b].failed = @ + failed, ![b].streak = streak,
                 ![b].at = IF rest = {} THEN "fetch" ELSE "rows",
                 ![b].scanned = IF rest = {} THEN @ + Cardinality(run[b].page) ELSE @]

ImportRow(b) ==
  /\ run[b].at = "rows"
  /\ RowAt(b) \notin Bad
  /\ Import({RowAt(b)})
  /\ run' = AfterRow(b, IF RowAt(b) \in Keyless THEN 1 ELSE 0, 0)
  /\ UNCHANGED <<index, hashed, backingOff, audit, faults>>

\* The circuit breaker: so many failures in a row are no fault of the rows.
MutantCountsAll(b) == run[b].failed + 1 >= MaxConsecutive
Trips(b) == run[b].streak + 1 >= MaxConsecutive

MutantUnrecorded(b) == {}
FailureOf(b) == {<<RowAt(b), "import_error">>}

FailRow(b) ==
  /\ run[b].at = "rows"
  /\ \/ RowAt(b) \in Bad /\ UNCHANGED faults
     \/ RowAt(b) \notin Bad /\ Fault
  /\ failures' = failures \cup FailureOf(b)
  /\ run' = IF Trips(b)
              THEN [Ended(b, "failed") EXCEPT ![b].tripped = TRUE]
              ELSE AfterRow(b, 1, run[b].streak + 1)
  /\ UNCHANGED <<index, master, hashed, backingOff, audit>>

\* A transaction cannot begin or its commit fails, that of the row or that of
\* its failure, and either may have been carried out.
RowFails(b) ==
  /\ run[b].at = "rows"
  /\ Fault
  /\ \E status \in {"failed", "running"} : run' = Ended(b, status)
  /\ \/ UNCHANGED <<master, failures>>
     \/ RowAt(b) \notin Bad /\ Import({RowAt(b)})
     \/ RowAt(b) \in Bad /\ failures' = failures \cup FailureOf(b) /\ UNCHANGED master
  /\ UNCHANGED <<index, hashed, backingOff, audit>>

----------------------------------------------------------------------------
(* The coverage audit and its remediation. *)

InMaster(k) == \E v \in master : KeyOf[v] = k
InIndex(k) == \E v \in index : KeyOf[v] = k
HasHash(k) == \E v \in hashed : KeyOf[v] = k

\* chain_audit, for the categories whose rows are servable: all the code writes.
CategoryA == {k \in Expected : InMaster(k) /\ HasHash(k)}
CategoryB == {k \in Expected : InMaster(k) /\ ~HasHash(k)}
CategoryC == {k \in Expected : ~InMaster(k) /\ InIndex(k)}

\* Below a join_key_match_rate of a half the audit ends.
Matched == {k \in Expected : InMaster(k) \/ InIndex(k)}
Plausible == 2 * Cardinality(Matched) >= Cardinality(Expected)

\* category_b_video_ids: rows as the master spells them.
MutantChainIds == CategoryB
CategoryBRows == {v \in master : KeyOf[v] \in CategoryB}

Audit(b) ==
  /\ audit.at = "none"
  /\ Plausible
  /\ audit' = [at |-> "read", box |-> b, c |-> CategoryC # {}, ids |-> CategoryBRows]
  /\ UNCHANGED <<tables, run, faults>>

\* clear_phash_failures, then an import where the box is not importing already.
Remediate ==
  /\ audit.at = "read"
  /\ backingOff' = backingOff \ audit.ids
  /\ run' = IF audit.c /\ Free(audit.box)
              THEN [run EXCEPT ![audit.box] = Begun(NoLimit)] ELSE run
  /\ audit' = NoAudit
  /\ UNCHANGED <<index, master, hashed, failures, faults>>

----------------------------------------------------------------------------
(* What happens around a run. *)

CancelJobs(b) ==
  /\ run[b].at # "idle" /\ ~run[b].cancelled
  /\ Fault
  /\ run' = [run EXCEPT ![b].cancelled = TRUE]
  /\ UNCHANGED <<tables, audit>>

\* The process of a box is lost: its run stays running for ever in the table.
Crash(b) ==
  /\ run[b].at # "idle"
  /\ Fault
  /\ run' = Ended(b, "running")
  /\ audit' = IF audit.box = b THEN NoAudit ELSE audit
  /\ UNCHANGED tables

\* A scan finds an object of another legacy video.
Scan ==
  /\ \E v \in Rows \ index : index' = index \cup {v}
  /\ UNCHANGED <<master, hashed, backingOff, failures, run, audit, faults>>

\* The ingest hook registers a video that a user uploads.
Ingest ==
  /\ \E v \in Rows \ (master \cup Keyless \cup Bad) : master' = master \cup {v}
  /\ UNCHANGED <<index, hashed, backingOff, failures, run, audit, faults>>

\* The pHash job takes a row that does not back off, as in MediaPhash; a video
\* it fails on waits for its backoff or for a remediation.
Hash(v) ==
  /\ v \in master \ (hashed \cup backingOff)
  /\ \/ hashed' = hashed \cup {v} /\ UNCHANGED <<backingOff, faults>>
     \/ backingOff' = backingOff \cup {v} /\ Fault /\ UNCHANGED hashed
  /\ UNCHANGED <<index, master, failures, run, audit>>

----------------------------------------------------------------------------

RunStep(b) ==
  \/ Fetch(b) \/ Complete(b) \/ FetchFails(b)
  \/ CommitPage(b) \/ RollbackPage(b) \/ CommitFails(b)
  \/ ImportRow(b) \/ FailRow(b) \/ RowFails(b)

ImportNext ==
  \/ \E b \in Boxes : StartImport(b) \/ RunStep(b) \/ Audit(b) \/ CancelJobs(b) \/ Crash(b)
  \/ Remediate \/ Scan \/ Ingest
  \/ \E v \in Rows : Hash(v)

ImportSpec == ImportInit /\ [][ImportNext]_importVars

\* The runtime drives a run and an audit, the sweep hashes what is due, and an
\* operator repeats the audit, of a box that does not import, until it answers
\* that an import has been triggered.
AuditIdle == \E b \in Boxes : Free(b) /\ Audit(b)
Triggers == Remediate /\ audit.c /\ Free(audit.box)

ImportFairSpec ==
  /\ ImportSpec
  /\ \A b \in Boxes : WF_importVars(RunStep(b))
  /\ SF_importVars(AuditIdle) /\ WF_importVars(Remediate) /\ SF_importVars(Triggers)
  /\ \A v \in Rows : WF_importVars(Hash(v))

----------------------------------------------------------------------------
(* Properties. *)

RunType ==
  [at : {"idle", "fetch", "batch", "rows"},
   status : {"none", "running", "succeeded", "succeeded_with_failures", "cancelled", "failed"},
   limit : Limits, cancelled : BOOLEAN, after : 0 .. N, page : SUBSET Rows,
   todo : SUBSET Rows, scanned : 0 .. N, failed : 0 .. N, streak : 0 .. MaxConsecutive - 1,
   tripped : BOOLEAN, seen : SUBSET Rows]

ImportTypeOK ==
  /\ index \in SUBSET Rows /\ master \in SUBSET Rows
  /\ hashed \in SUBSET Rows /\ backingOff \in SUBSET Rows
  /\ failures \in SUBSET (Rows \X Phases)
  /\ run \in [Boxes -> RunType]
  /\ audit \in [at : {"none", "read"}, box : Boxes, c : BOOLEAN, ids : SUBSET Rows]
  /\ faults \in 0 .. MaxFaults

\* An unlimited run recorded as succeeded has every legacy row of its start in
\* the master, although its cursor moves before the rows are imported and rows
\* come and go from the missing ones beside it; one that succeeded with failures
\* has a failure an operator can list for every row that is not there.
SucceededImportsAll ==
  \A b \in Boxes : run[b].limit = NoLimit =>
    /\ run[b].status = "succeeded" => run[b].seen \subseteq master
    /\ run[b].status = "succeeded_with_failures" =>
         \A v \in run[b].seen \ master : \E phase \in Phases : <<v, phase>> \in failures

\* Only a systemic error trips the circuit breaker: fewer bad rows and faults
\* than the threshold, however they fall into pages, never abort a run.
AbortsOnlySystemic ==
  \A b \in Boxes : run[b].tripped => Cardinality(Bad) + faults >= MaxConsecutive

\* Remediation closes the gap: an expected video with a row that can be
\* imported and hashed gets into category A, past rows Postgres refuses,
\* cancelled and aborted imports and failed hashes that back off.
CoverageCloses ==
  \A v \in {u \in Rows \ (Keyless \cup Bad) : KeyOf[u] \in Expected} :
    v \in {u \in index : Plausible} ~> KeyOf[v] \in CategoryA
=============================================================================
