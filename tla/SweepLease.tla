----------------------------- MODULE SweepLease -----------------------------
(***************************************************************************)
(* The steady-state sweep worker (jobs/worker.rs) of every box, and the    *)
(* single-row sweep_lease table that elects one of them (repo.rs).  A pass *)
(* acquires the lease, drains the videos without a pHash and, when it is   *)
(* due, rediscovers the buckets; a sibling task renews the heartbeat while *)
(* a job runs.  Boxes also run the same jobs on an operator's request,     *)
(* behind an in-process flag and without the lease.  Time is kept as ages: *)
(* of the heartbeat, of the discovery cadence and of the last renewal.     *)
(***************************************************************************)
EXTENDS Naturals

CONSTANTS Boxes,        \* NODE_NAME of each box, stable across redeploys
          Nobody,       \* the owner when the table is empty
          Never,        \* last_discovery_at IS NULL
          TTL,          \* SWEEP_LEASE_TTL
          Cadence,      \* DISCOVERY_INTERVAL
          MaxShutdowns, \* bound: graceful stops
          MaxCrashes,   \* bound: boxes lost without one
          MaxFaults,    \* bound: passes or jobs that fail
          MaxRequests   \* bound: jobs started or cancelled by an operator

ASSUME LeaseConstants ==
  /\ Nobody \notin Boxes
  /\ TTL \in Nat /\ TTL >= 3
  /\ Cadence \in Nat \ {0}
  /\ Never \notin Nat
  /\ {MaxShutdowns, MaxCrashes, MaxFaults, MaxRequests} \subseteq Nat

Interval == TTL \div 3

Jobs == {"drain", "discover"}

VARIABLES
  lease,     \* the row: owner, age of the heartbeat, age of last_discovery_at
  pc,        \* where each box's worker stands
  flag,      \* job_media_phash_running and job_media_import_running
  manual,    \* the jobs an operator has running
  cut,       \* the pass's cancellation token is cancelled
  renewIn,   \* age of the renewal that runs beside a job
  missing,   \* some registered video is eligible for hashing
  hidden,    \* some bucket object is not registered
  ranAt,     \* age of the last discovery a worker recorded
  late,      \* some statement or renewal has taken a tick or longer
  budget     \* the events the bounds still allow

leaseVars == <<lease, ranAt>>
workVars == <<missing, hidden>>
vars == <<leaseVars, workVars, pc, flag, manual, cut, renewIn, late, budget>>

Init ==
  /\ lease = [owner |-> Nobody, beat |-> 0, disc |-> Never]
  /\ ranAt = Never
  /\ pc = [b \in Boxes |-> "sleep"]
  /\ flag = [b \in Boxes |-> [j \in Jobs |-> FALSE]]
  /\ manual = [b \in Boxes |-> {}]
  /\ cut = [b \in Boxes |-> FALSE]
  /\ renewIn = [b \in Boxes |-> 0]
  /\ missing = TRUE
  /\ hidden = TRUE
  /\ late = FALSE
  /\ budget = [shutdown |-> MaxShutdowns, crash |-> MaxCrashes,
               fault |-> MaxFaults, request |-> MaxRequests]

Spend(kind) == budget[kind] > 0 /\ budget' = [budget EXCEPT ![kind] = @ - 1]

----------------------------------------------------------------------------
(* The lease. *)

\* acquire_or_renew_lease: insert, renew, or steal from a stale owner.
MutantNoSteal(b) == lease.owner \in {Nobody, b}
MutantStealEarly(b) == lease.owner \in {Nobody, b} \/ lease.beat >= Interval
CanAcquire(b) == lease.owner \in {Nobody, b} \/ lease.beat > TTL

Acquired(b) == lease' = [owner |-> b, beat |-> 0, disc |-> lease.disc]

\* release_lease: deletes the row, last_discovery_at included.
NoRow == [owner |-> Nobody, beat |-> 0, disc |-> Never]
MutantReleaseAny(b) == NoRow
Released(b) == IF lease.owner = b THEN NoRow ELSE lease

\* with_heartbeat_renew: both jobs run beside a task that renews every
\* Interval; the result of the renewal is ignored.
Renewing(b) == pc[b] \in Jobs

Renew(b) ==
  /\ Renewing(b)
  /\ renewIn[b] >= Interval
  /\ IF CanAcquire(b) THEN Acquired(b) ELSE lease' = lease
  /\ renewIn' = [renewIn EXCEPT ![b] = 0]
  /\ UNCHANGED <<ranAt, workVars, pc, flag, manual, cut, budget, late>>

----------------------------------------------------------------------------
(* A pass: run_one_pass. *)

\* Not the owner: the pass ends at once and the box sleeps on.
BeginPass(b) ==
  /\ pc[b] = "sleep"
  /\ CanAcquire(b)
  /\ Acquired(b)
  /\ pc' = [pc EXCEPT ![b] = "elected"]
  /\ cut' = [cut EXCEPT ![b] = FALSE]
  /\ UNCHANGED <<ranAt, workVars, flag, manual, renewIn, budget, late>>

\* cas_guarded: the job runs only if the box's flag is free.
MutantLoadThenStore(b, job) == TRUE
FlagFree(b, job) == ~flag[b][job]

StartJob(b, job, otherwise) ==
  /\ IF FlagFree(b, job)
       THEN /\ flag' = [flag EXCEPT ![b][job] = TRUE]
            /\ pc' = [pc EXCEPT ![b] = job]
       ELSE /\ flag' = flag
            /\ pc' = [pc EXCEPT ![b] = otherwise]
  /\ renewIn' = [renewIn EXCEPT ![b] = 0]

CheckEligible(b) ==
  /\ pc[b] = "elected"
  /\ IF missing
       THEN StartJob(b, "drain", "drained")
       ELSE pc' = [pc EXCEPT ![b] = "drained"] /\ UNCHANGED <<flag, renewIn>>
  /\ UNCHANGED <<leaseVars, workVars, manual, cut, budget, late>>

\* The guard frees the flag whenever the job's future is dropped.
FlagsDropped(b) ==
  [flag EXCEPT ![b] = [j \in Jobs |-> IF pc[b] = j THEN FALSE ELSE flag[b][j]]]

\* media_phash has hashed every eligible row, or it was cancelled or failed:
\* then the error is logged, and the pass goes on.  (A video registered behind
\* the run's cursor is hashed here too; the code leaves it to the next pass.)
EndDrain(b) ==
  /\ pc[b] = "drain"
  /\ \/ ~cut[b] /\ missing' = FALSE /\ UNCHANGED budget
     \/ UNCHANGED missing /\ ((cut[b] /\ UNCHANGED budget) \/ Spend("fault"))
  /\ flag' = FlagsDropped(b)
  /\ pc' = [pc EXCEPT ![b] = "drained"]
  /\ UNCHANGED <<leaseVars, hidden, manual, cut, renewIn, late>>

\* discovery_due over the persisted last_discovery_at.
DiscoveryDue(disc) == disc = Never \/ disc >= Cadence

ReadCadence(b) ==
  /\ pc[b] = "drained"
  /\ pc' = [pc EXCEPT ![b] = IF DiscoveryDue(lease.disc) THEN "due" ELSE "sleep"]
  /\ UNCHANGED <<leaseVars, workVars, flag, manual, cut, renewIn, budget, late>>

StartDiscovery(b) ==
  /\ pc[b] = "due"
  /\ StartJob(b, "discover", "sleep")
  /\ UNCHANGED <<leaseVars, workVars, manual, cut, budget, late>>

\* Both buckets scanned and the new objects imported, or a part of it
\* cancelled or failed: its error is logged, and the pass goes on as well.
EndDiscovery(b) ==
  /\ pc[b] = "discover"
  /\ \/ /\ ~cut[b]
        /\ hidden' = FALSE
        /\ missing' = (missing \/ hidden)
        /\ UNCHANGED budget
     \/ /\ (cut[b] /\ UNCHANGED budget) \/ Spend("fault")
        /\ UNCHANGED workVars
  /\ flag' = FlagsDropped(b)
  /\ pc' = [pc EXCEPT ![b] = "record"]
  /\ UNCHANGED <<leaseVars, manual, cut, renewIn, late>>

\* set_last_discovery_at, guarded by the owner.
MutantRecordUnguarded(b) == TRUE
MayRecord(b) == lease.owner = b

RecordDiscovery(b) ==
  /\ pc[b] = "record"
  /\ IF MayRecord(b)
       THEN lease' = [lease EXCEPT !.disc = 0] /\ ranAt' = 0
       ELSE UNCHANGED leaseVars
  /\ pc' = [pc EXCEPT ![b] = "sleep"]
  /\ UNCHANGED <<workVars, flag, manual, cut, renewIn, budget, late>>

\* An error or a panic ends the pass; the loop goes on.
FailPass(b) ==
  /\ pc[b] \notin {"sleep", "stopping", "down"}
  /\ Spend("fault")
  /\ flag' = FlagsDropped(b)
  /\ pc' = [pc EXCEPT ![b] = "sleep"]
  /\ UNCHANGED <<leaseVars, workVars, manual, cut, renewIn, late>>

----------------------------------------------------------------------------
(* Stopping and starting. *)

\* The shutdown token wins the select: the pass is dropped where it stands.
Shutdown(b) ==
  /\ pc[b] \notin {"stopping", "down"}
  /\ Spend("shutdown")
  /\ flag' = FlagsDropped(b)
  /\ pc' = [pc EXCEPT ![b] = "stopping"]
  /\ UNCHANGED <<leaseVars, workVars, manual, cut, renewIn, late>>

\* The box leaves for good; nothing of its memory survives.
Stop(b) ==
  /\ pc' = [pc EXCEPT ![b] = "down"]
  /\ flag' = [flag EXCEPT ![b] = [j \in Jobs |-> FALSE]]
  /\ manual' = [manual EXCEPT ![b] = {}]
  /\ UNCHANGED <<ranAt, workVars, cut, renewIn, late>>

Release(b) ==
  /\ pc[b] = "stopping"
  /\ lease' = Released(b)
  /\ UNCHANGED budget
  /\ Stop(b)

Crash(b) ==
  /\ pc[b] # "down"
  /\ Spend("crash")
  /\ UNCHANGED lease
  /\ Stop(b)

Restart(b) ==
  /\ pc[b] = "down"
  /\ pc' = [pc EXCEPT ![b] = "sleep"]
  /\ UNCHANGED <<leaseVars, workVars, flag, manual, cut, renewIn, budget, late>>

----------------------------------------------------------------------------
(* The operator, the world and the clock. *)

\* run_phash and import_video_index answer 409 when the flag is taken.
StartManual(b, job) ==
  /\ pc[b] # "down"
  /\ ~flag[b][job]
  /\ Spend("request")
  /\ flag' = [flag EXCEPT ![b][job] = TRUE]
  /\ manual' = [manual EXCEPT ![b] = @ \cup {job}]
  /\ UNCHANGED <<leaseVars, workVars, pc, cut, renewIn, late>>

EndManual(b, job) ==
  /\ job \in manual[b]
  /\ flag' = [flag EXCEPT ![b][job] = FALSE]
  /\ manual' = [manual EXCEPT ![b] = @ \ {job}]
  /\ UNCHANGED <<leaseVars, workVars, pc, cut, renewIn, budget, late>>

\* cancel_media_jobs cancels the token the running pass has taken.
CancelJobs(b) ==
  /\ pc[b] \notin {"sleep", "stopping", "down"}
  /\ Spend("request")
  /\ cut' = [cut EXCEPT ![b] = TRUE]
  /\ UNCHANGED <<leaseVars, workVars, pc, flag, manual, renewIn, late>>

\* A new object in a bucket, or a video registered as it is ingested.
NewVideo ==
  /\ \/ hidden' = TRUE /\ UNCHANGED missing
     \/ missing' = TRUE /\ UNCHANGED hidden
  /\ UNCHANGED <<leaseVars, pc, flag, manual, cut, renewIn, budget, late>>

Older(age, most) == IF age = Never \/ age = most THEN age ELSE age + 1

\* Between two statements of a pass no work runs and nobody renews.
Busy(b) == pc[b] \in {"elected", "drained", "due", "record"}

InTime(b) == ~Busy(b) /\ (Renewing(b) => renewIn[b] < Interval)

Tick ==
  /\ late' = (late \/ \E b \in Boxes : ~InTime(b))
  /\ lease' = [lease EXCEPT !.beat = Older(@, TTL + 1), !.disc = Older(@, Cadence)]
  /\ ranAt' = Older(ranAt, Cadence)
  /\ renewIn' = [b \in Boxes |-> IF Renewing(b) THEN Older(renewIn[b], Interval) ELSE 0]
  /\ UNCHANGED <<workVars, pc, flag, manual, cut, budget>>

PassStep(b) ==
  \/ BeginPass(b) \/ CheckEligible(b) \/ EndDrain(b) \/ ReadCadence(b)
  \/ StartDiscovery(b) \/ EndDiscovery(b) \/ RecordDiscovery(b)

Next ==
  \/ \E b \in Boxes :
       \/ PassStep(b) \/ Renew(b) \/ FailPass(b)
       \/ Shutdown(b) \/ Release(b) \/ Crash(b) \/ Restart(b)
       \/ \E job \in Jobs : StartManual(b, job) \/ EndManual(b, job)
       \/ CancelJobs(b)
  \/ NewVideo
  \/ Tick

Spec == Init /\ [][Next]_vars

\* A running box runs its passes, its renewals and its requests to the end.
\* A box that stops need not come back.
FairSpec ==
  /\ Spec
  /\ WF_vars(Tick)
  /\ \A b \in Boxes :
       /\ WF_vars(PassStep(b))
       /\ WF_vars(Renew(b))
       /\ WF_vars(Release(b))
       /\ \A job \in Jobs : WF_vars(EndManual(b, job))

----------------------------------------------------------------------------
(* Properties. *)

TypeOK ==
  /\ lease \in [owner : Boxes \cup {Nobody}, beat : 0 .. TTL + 1, disc : (0 .. Cadence) \cup {Never}]
  /\ ranAt \in (0 .. Cadence) \cup {Never}
  /\ pc \in [Boxes -> Jobs \cup {"sleep", "elected", "drained", "due", "record",
                                 "stopping", "down"}]
  /\ flag \in [Boxes -> [Jobs -> BOOLEAN]]
  /\ manual \in [Boxes -> SUBSET Jobs]
  /\ cut \in [Boxes -> BOOLEAN]
  /\ renewIn \in [Boxes -> 0 .. Interval]
  /\ missing \in BOOLEAN
  /\ hidden \in BOOLEAN
  /\ late \in BOOLEAN
  /\ budget \in [{"shutdown", "crash", "fault", "request"} -> Nat]

\* While statements and renewals are prompt, the lease elects one runner:
\* boxes crash, stop, restart and steal, and never two of them run a job.
SingleRunner == ~late => \A a, b \in Boxes : Renewing(a) /\ Renewing(b) => a = b

\* A flag is taken exactly while one job runs behind it: no worker job beside
\* a manual one, and no flag left behind by a job that was dropped.
FlagsMatchJobs ==
  \A b \in Boxes, job \in Jobs :
    /\ flag[b][job] <=> (pc[b] = job \/ job \in manual[b])
    /\ ~(pc[b] = job /\ job \in manual[b])

\* An owner loses the lease only to a peer that found its heartbeat stale, or
\* by its own graceful stop (release_lease: never the lease of a peer).
LeaseLostFairly ==
  [][lease'.owner # lease.owner /\ lease.owner # Nobody
     => lease.beat > TTL \/ pc[lease.owner] = "stopping"]_vars

StartsDiscovery(b) == pc[b] # "discover" /\ pc'[b] = "discover"
CadenceElapsed == ranAt = Never \/ ranAt >= Cadence

\* Discovery, the scan of both buckets, starts no sooner than its cadence after
\* the last one recorded, whichever box that was, through crashes and steals.
\* A box that lost the lease in the middle of its own leaves the record of the
\* new owner alone (set_last_discovery_at).
CadenceKept ==
  [][\A b \in Boxes :
       /\ StartsDiscovery(b) /\ ~late /\ budget["shutdown"] = MaxShutdowns => CadenceElapsed
       /\ pc[b] = "record" /\ pc'[b] = "sleep" /\ lease'.disc # lease.disc
            => lease.owner = b]_vars

\* A video without a hash is hashed in the end, and an object in a bucket is
\* registered, although boxes stop for good.
WorkConverges ==
  /\ missing ~> ~missing
  /\ hidden ~> ~hidden
=============================================================================
