----------------------------- MODULE MediaPhash -----------------------------
(***************************************************************************)
(* The media_phash job (jobs/media_phash.rs): it pages through the master  *)
(* videos that lack the canonical pHash, hashes a page in parallel and     *)
(* persists each result as it comes.  A row that fails is recorded with an *)
(* exponential backoff, per phase, and later runs try it again.  Boxes run *)
(* the job side by side: an operator gives each a shard of the video ids,  *)
(* and the sweep worker runs it over all of them.                          *)
(***************************************************************************)
EXTENDS Naturals, FiniteSets

CONSTANTS Videos,       \* video ids, ordered as the id column is
          Broken,       \* the videos that cannot be decoded
          Runners,      \* the boxes that run the job
          Shard,        \* the videos of each runner's shard
          PageSize,     \* SCAN_PAGE_SIZE
          Base,         \* the first backoff: 5 minutes
          Cap,          \* the longest backoff: 24 hours
          MaxInterval,  \* the longest interval of Postgres, in the same unit
          MaxCount,     \* bound: failures of a row that are told apart
          MaxFaults     \* bound: failed downloads and runs, cancellations, limits

ASSUME PhashConstants ==
  /\ Videos \subseteq Nat \ {0}
  /\ Broken \subseteq Videos
  /\ Shard \in [Runners -> SUBSET Videos]
  /\ {PageSize, Base, Cap, MaxCount} \subseteq Nat \ {0}
  /\ {MaxInterval, MaxFaults} \subseteq Nat

Phases == {"phash_download", "phash_decode"}

VARIABLES
  registered,  \* all_servable_videos_on_yral
  hashed,      \* videos with the canonical pHash
  count,       \* retry_count of the failure row of a video and phase; 0: no row
  wait,        \* time to its next_retry_at
  stage,       \* what each runner is doing
  cursor,      \* the last video id it has fetched
  page,        \* its page: what came of each of its videos
  cut,         \* runners whose token is cancelled
  limited,     \* runs with a limit
  failures,    \* runs with row_failures
  owed,        \* the videos that were due as the run started
  status,      \* the status of its row in media_job_runs
  faults       \* bounded events so far

rowVars == <<registered, hashed>>
failVars == <<count, wait>>
runVars == <<stage, cursor, page, limited, failures, owed, status>>
vars == <<rowVars, failVars, runVars, cut, faults>>

NoPage == [v \in Videos |-> "out"]

Init ==
  /\ registered = {} /\ hashed = {}
  /\ count = [v \in Videos |-> [p \in Phases |-> 0]]
  /\ wait = [v \in Videos |-> [p \in Phases |-> 0]]
  /\ stage = [r \in Runners |-> "idle"]
  /\ cursor = [r \in Runners |-> 0]
  /\ page = [r \in Runners |-> NoPage]
  /\ cut = {}
  /\ limited = [r \in Runners |-> FALSE]
  /\ failures = [r \in Runners |-> FALSE]
  /\ owed = [r \in Runners |-> {}]
  /\ status = [r \in Runners |-> "none"]
  /\ faults = 0

Fault == faults < MaxFaults /\ faults' = faults + 1

----------------------------------------------------------------------------
(* The backoff. *)

\* interval '5 minutes' * power(2, retry_count): an error out of range.
Overflows(v, p) == count[v][p] > 0 /\ Base * 2 ^ count[v][p] > MaxInterval

\* LEAST(..., '24 hours').
Delay(n) == IF Base * 2 ^ n \in 1 .. Cap THEN Base * 2 ^ n ELSE Cap

NotBackingOff(v) == \A p \in Phases : wait[v][p] = 0
MutantDueAtOnce(r) == (Shard[r] \cap registered) \ hashed
MutantNeverRetried(r) ==
  {v \in (Shard[r] \cap registered) \ hashed : \A p \in Phases : count[v][p] = 0}
Due(r) == {v \in (Shard[r] \cap registered) \ hashed : NotBackingOff(v)}

----------------------------------------------------------------------------
(* A run. *)

\* run: inserts the row of the run.
Start(r) ==
  /\ stage[r] = "idle"
  /\ stage' = [stage EXCEPT ![r] = "run"]
  /\ cursor' = [cursor EXCEPT ![r] = 0]
  /\ \/ limited' = [limited EXCEPT ![r] = FALSE] /\ UNCHANGED faults
     \/ limited' = [limited EXCEPT ![r] = TRUE] /\ Fault
  /\ failures' = [failures EXCEPT ![r] = FALSE]
  /\ owed' = [owed EXCEPT ![r] = Due(r)]
  /\ status' = [status EXCEPT ![r] = "running"]
  /\ cut' = cut \ {r}
  /\ UNCHANGED <<rowVars, failVars, page>>

BetweenPages(r) == stage[r] = "run" /\ page[r] = NoPage

\* videos_missing_canonical_phash: the rows after the cursor, in id order.
Ahead(r) == {v \in Due(r) : cursor[r] < v}

IsPage(r, P) ==
  /\ P # {} /\ Cardinality(P) <= PageSize
  /\ \A v \in P, u \in Ahead(r) : u < v => u \in P
  /\ Cardinality(P) = PageSize \/ P = Ahead(r) \/ limited[r]

\* The cursor moves past every fetched row, hashed or not.
Fetch(r) ==
  /\ BetweenPages(r)
  /\ r \notin cut
  /\ \E P \in SUBSET Ahead(r) :
       /\ IsPage(r, P)
       /\ page' = [page EXCEPT ![r] = [v \in Videos |-> IF v \in P THEN "todo" ELSE "out"]]
       /\ \E last \in P :
            /\ \A v \in P : v <= last
            /\ cursor' = [cursor EXCEPT ![r] = last]
  /\ UNCHANGED <<rowVars, failVars, stage, limited, failures, owed, status, cut, faults>>

\* Download, then decode and hash.
Compute(r, v) ==
  /\ page[r][v] = "todo"
  /\ \/ /\ page' = [page EXCEPT ![r][v] = IF v \in Broken THEN "phash_decode" ELSE "ok"]
        /\ UNCHANGED faults
     \/ page' = [page EXCEPT ![r][v] = "phash_download"] /\ Fault
  /\ UNCHANGED <<rowVars, failVars, stage, cursor, limited, failures, owed, status, cut>>

Taken(r, v) == page' = [page EXCEPT ![r][v] = "out"]

\* persist_one, success: the hash, and a clean slate.
MutantFailuresKept(v) == UNCHANGED failVars
ClearFailuresOf(v) ==
  /\ count' = [count EXCEPT ![v] = [p \in Phases |-> 0]]
  /\ wait' = [wait EXCEPT ![v] = [p \in Phases |-> 0]]

PersistHash(r, v) ==
  /\ page[r][v] = "ok" /\ r \notin cut
  /\ hashed' = hashed \cup {v}
  /\ ClearFailuresOf(v)
  /\ Taken(r, v)
  /\ UNCHANGED <<registered, stage, cursor, limited, failures, owed, status, cut, faults>>

\* The run ends, and what is left of its page is dropped.
EndRun(r, s) ==
  /\ stage' = [stage EXCEPT ![r] = "idle"]
  /\ page' = [page EXCEPT ![r] = NoPage]
  /\ status' = [status EXCEPT ![r] = s]
  /\ UNCHANGED <<cursor, limited, failures, owed, cut>>

\* persist_one, failure: record_row_failure_txn.
PersistFailure(r, v, p) ==
  /\ page[r][v] = p /\ r \notin cut
  /\ ~Overflows(v, p)
  /\ count' = [count EXCEPT ![v][p] = IF @ = MaxCount THEN @ ELSE @ + 1]
  /\ wait' = [wait EXCEPT ![v][p] = Delay(count[v][p])]
  /\ failures' = [failures EXCEPT ![r] = TRUE]
  /\ Taken(r, v)
  /\ UNCHANGED <<rowVars, stage, cursor, limited, owed, status, cut, faults>>

\* The backoff is out of range: the statement fails, and the run with it.
FailOnOverflow(r, v, p) ==
  /\ page[r][v] = p /\ r \notin cut
  /\ Overflows(v, p)
  /\ EndRun(r, "failed")
  /\ UNCHANGED <<rowVars, failVars, faults>>

MutantAlwaysSucceeded(r) == "succeeded"
RunStatus(r) == IF failures[r] THEN "succeeded_with_failures" ELSE "succeeded"

\* Out of rows after the cursor, or at the limit.
MutantNothingDue(r) == Due(r) = {}
OutOfRows(r) == Ahead(r) = {}

Complete(r) ==
  /\ BetweenPages(r) /\ r \notin cut
  /\ OutOfRows(r) \/ limited[r]
  /\ EndRun(r, RunStatus(r))
  /\ UNCHANGED <<rowVars, failVars, faults>>

\* The token is read before each page and before each result.
Cancelled(r) ==
  /\ stage[r] = "run" /\ r \in cut
  /\ page[r] = NoPage \/ \E v \in Videos : page[r][v] \in {"ok"} \cup Phases
  /\ EndRun(r, "cancelled")
  /\ UNCHANGED <<rowVars, failVars, faults>>

\* A statement fails, or the task is dropped: the run's row may stay running.
FailRun(r) ==
  /\ stage[r] = "run"
  /\ Fault
  /\ \E s \in {"failed", "running"} : EndRun(r, s)
  /\ UNCHANGED <<rowVars, failVars>>

----------------------------------------------------------------------------
(* Around the runs. *)

\* The import or the ingest hook.
Register(v) ==
  /\ v \notin registered
  /\ registered' = registered \cup {v}
  /\ UNCHANGED <<hashed, failVars, runVars, cut, faults>>

\* cancel_media_jobs, on the box of the runner.
CancelJobs(r) ==
  /\ stage[r] = "run" /\ r \notin cut
  /\ Fault
  /\ cut' = cut \cup {r}
  /\ UNCHANGED <<rowVars, failVars, runVars>>

\* clear_phash_failures, the remediation of the chain audit.
ClearFailures(v) ==
  /\ Fault
  /\ ClearFailuresOf(v)
  /\ UNCHANGED <<rowVars, runVars, cut>>

Tick ==
  /\ \E v \in Videos : ~NotBackingOff(v)
  /\ wait' = [v \in Videos |-> [p \in Phases |-> IF wait[v][p] > 0 THEN wait[v][p] - 1 ELSE 0]]
  /\ UNCHANGED <<rowVars, count, runVars, cut, faults>>

Work(r) ==
  \E v \in Videos :
    \/ Compute(r, v)
    \/ PersistHash(r, v)
    \/ \E p \in Phases : PersistFailure(r, v, p) \/ FailOnOverflow(r, v, p)
Advance(r) == Fetch(r) \/ Work(r) \/ Complete(r) \/ Cancelled(r)

Next ==
  \/ \E r \in Runners : Start(r) \/ Advance(r) \/ FailRun(r) \/ CancelJobs(r)
  \/ \E v \in Videos : Register(v) \/ ClearFailures(v)
  \/ Tick

Spec == Init /\ [][Next]_vars

\* Every shard is run again and again, without a limit most of the time, a run
\* goes on, and time passes.
FairSpec ==
  /\ Spec
  /\ \A r \in Runners : WF_vars(Start(r)) /\ WF_vars(Advance(r))
  /\ WF_vars(Tick)

----------------------------------------------------------------------------
(* Properties. *)

TypeOK ==
  /\ registered \subseteq Videos /\ hashed \subseteq Videos
  /\ count \in [Videos -> [Phases -> 0 .. MaxCount]]
  /\ wait \in [Videos -> [Phases -> 0 .. Cap]]
  /\ stage \in [Runners -> {"idle", "run"}]
  /\ cursor \in [Runners -> Videos \cup {0}]
  /\ page \in [Runners -> [Videos -> Phases \cup {"out", "todo", "ok"}]]
  /\ cut \subseteq Runners
  /\ limited \in [Runners -> BOOLEAN]
  /\ failures \in [Runners -> BOOLEAN]
  /\ owed \in [Runners -> SUBSET Videos]
  /\ status \in [Runners -> {"none", "running", "failed", "cancelled", "succeeded",
                             "succeeded_with_failures"}]
  /\ faults \in 0 .. MaxFaults

\* No two boxes work on the video: their shards are those of one split.
Unshared(v) == \A a, b \in Runners : v \in Shard[a] \cap Shard[b] => a = b

\* A hashed video that only one box works on keeps no failure row, of either
\* phase: no late failure survives its hash (persist_one, the clean slate).
CleanSlate ==
  \A v \in hashed : Unshared(v) => \A p \in Phases : count[v][p] = 0 /\ wait[v][p] = 0

\* A run that says succeeded has hashed every video that was due when it began,
\* through pages, backoffs and videos that are registered meanwhile, unless
\* another box works on the video too and may have charged it with a backoff.
SucceededIsComplete ==
  \A r \in Runners : status[r] = "succeeded" /\ ~limited[r] =>
    \A v \in owed[r] : Unshared(v) => v \in hashed

\* A row that one box works on is charged with one failure at most in each of
\* its backoff windows, whatever the other boxes do.
RetriesSpaced ==
  [][\A v \in Videos, p \in Phases :
       Unshared(v) /\ count'[v][p] > count[v][p] => NotBackingOff(v)]_vars

\* A run ends, although the rows that fail stay without a hash.
RunsEnd == \A r \in Runners : stage[r] = "run" ~> stage[r] = "idle"

\* A registered video is hashed, whatever rows of its shard fail beside it, as
\* long as none of them has failed so often that its backoff is out of range.
Overflowing(r) == {u \in Shard[r] : \E p \in Phases : Overflows(u, p)}
HashedInTheEnd ==
  \A r \in Runners : \A v \in Shard[r] \ Broken :
    v \in registered ~> (v \in hashed \/ Overflowing(r) # {})
=============================================================================
