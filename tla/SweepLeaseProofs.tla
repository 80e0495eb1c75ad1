-------------------------- MODULE SweepLeaseProofs --------------------------
(***************************************************************************)
(* Proofs about SweepLease for any number of boxes, any TTL and cadence    *)
(* and any number of stops, crashes, faults and requests.                  *)
(***************************************************************************)
EXTENDS SweepLease, TLAPS

LEMMA IntervalFacts == Interval \in Nat /\ 1 <= Interval /\ 2 * Interval <= TTL
BY LeaseConstants DEF Interval

(* Type correctness. *)

LEMMA InitTypeOK == Init => TypeOK
<1> SUFFICES ASSUME Init PROVE TypeOK
  OBVIOUS
<1>1. lease \in [owner : Boxes \cup {Nobody}, beat : 0 .. TTL + 1, disc : (0 .. Cadence) \cup {Never}]
  BY LeaseConstants DEF Init
<1>2. budget \in [{"shutdown", "crash", "fault", "request"} -> Nat]
  BY LeaseConstants DEF Init
<1>3. flag \in [Boxes -> [Jobs -> BOOLEAN]]
  BY DEF Init
<1>4. cut \in [Boxes -> BOOLEAN]
  BY DEF Init
<1>5. renewIn \in [Boxes -> 0 .. Interval]
  BY IntervalFacts DEF Init
<1> QED BY <1>1, <1>2, <1>3, <1>4, <1>5 DEF Init, TypeOK

LEMMA SpendType ==
  ASSUME TypeOK, NEW kind \in {"shutdown", "crash", "fault", "request"}, Spend(kind)
  PROVE  budget' \in [{"shutdown", "crash", "fault", "request"} -> Nat]
BY DEF TypeOK, Spend

LEMMA OlderType ==
  ASSUME NEW most \in Nat, NEW age \in (0 .. most) \cup {Never}
  PROVE  Older(age, most) \in (0 .. most) \cup {Never}
         /\ (age # Never => Older(age, most) \in 0 .. most)
BY LeaseConstants DEF Older

LEMMA FlagsDroppedType ==
  ASSUME TypeOK, NEW b \in Boxes
  PROVE  FlagsDropped(b) \in [Boxes -> [Jobs -> BOOLEAN]]
<1> DEFINE own == [j \in Jobs |-> IF pc[b] = j THEN FALSE ELSE flag[b][j]]
<1>1. flag \in [Boxes -> [Jobs -> BOOLEAN]]
  BY DEF TypeOK
<1>2. own \in [Jobs -> BOOLEAN]
  BY <1>1
<1>3. FlagsDropped(b) = [flag EXCEPT ![b] = own]
  BY DEF FlagsDropped
<1> HIDE DEF own
<1> QED
  BY <1>1, <1>2, <1>3

LEMMA StartJobType ==
  ASSUME TypeOK, NEW b \in Boxes, NEW job \in Jobs, NEW otherwise \in {"drained", "sleep"},
         StartJob(b, job, otherwise)
  PROVE  /\ flag' \in [Boxes -> [Jobs -> BOOLEAN]]
         /\ pc' \in [Boxes -> Jobs \cup {"sleep", "elected", "drained", "due", "record",
                                         "stopping", "down"}]
         /\ renewIn' \in [Boxes -> 0 .. Interval]
<1>1. flag' \in [Boxes -> [Jobs -> BOOLEAN]]
  <2>1. [flag EXCEPT ![b][job] = TRUE] \in [Boxes -> [Jobs -> BOOLEAN]]
    BY ZenonT(30) DEF TypeOK
  <2> QED BY <2>1 DEF TypeOK, StartJob
<1>2. pc' \in [Boxes -> Jobs \cup {"sleep", "elected", "drained", "due", "record",
                                   "stopping", "down"}]
  BY DEF TypeOK, StartJob
<1>3. renewIn' \in [Boxes -> 0 .. Interval]
  BY IntervalFacts DEF TypeOK, StartJob
<1> QED BY <1>1, <1>2, <1>3

LEMMA StepTypeOK == TypeOK /\ [Next]_vars => TypeOK'
<1> SUFFICES ASSUME TypeOK, [Next]_vars PROVE TypeOK'
  OBVIOUS
<1> USE IntervalFacts, LeaseConstants
<1>1. ASSUME NEW b \in Boxes, BeginPass(b) PROVE TypeOK'
  <2>1. cut' \in [Boxes -> BOOLEAN]
    BY <1>1, Zenon DEF TypeOK, BeginPass
  <2>2. lease' \in [owner : Boxes \cup {Nobody}, beat : 0 .. TTL + 1, disc : (0 .. Cadence) \cup {Never}]
    BY <1>1 DEF TypeOK, BeginPass, Acquired
  <2> QED BY <1>1, <2>1, <2>2 DEF TypeOK, BeginPass, workVars
<1>2. ASSUME NEW b \in Boxes, CheckEligible(b) PROVE TypeOK'
  BY <1>2, StartJobType DEF TypeOK, CheckEligible, leaseVars, workVars, Jobs
<1>3. ASSUME NEW b \in Boxes, EndDrain(b) PROVE TypeOK'
  BY <1>3, FlagsDroppedType, SpendType DEF TypeOK, EndDrain, leaseVars
<1>4. ASSUME NEW b \in Boxes, ReadCadence(b) PROVE TypeOK'
  BY <1>4 DEF TypeOK, ReadCadence, leaseVars, workVars
<1>5. ASSUME NEW b \in Boxes, StartDiscovery(b) PROVE TypeOK'
  BY <1>5, StartJobType DEF TypeOK, StartDiscovery, leaseVars, workVars, Jobs
<1>6. ASSUME NEW b \in Boxes, EndDiscovery(b) PROVE TypeOK'
  <2>1. missing' \in BOOLEAN /\ hidden' \in BOOLEAN
    BY <1>6 DEF TypeOK, EndDiscovery, workVars
  <2>2. budget' \in [{"shutdown", "crash", "fault", "request"} -> Nat]
    BY <1>6, SpendType DEF TypeOK, EndDiscovery
  <2> QED BY <1>6, <2>1, <2>2, FlagsDroppedType DEF TypeOK, EndDiscovery, leaseVars
<1>7. ASSUME NEW b \in Boxes, RecordDiscovery(b) PROVE TypeOK'
  BY <1>7 DEF TypeOK, RecordDiscovery, leaseVars, workVars
<1>8. ASSUME NEW b \in Boxes, Renew(b) PROVE TypeOK'
  <2>1. lease' \in [owner : Boxes \cup {Nobody}, beat : 0 .. TTL + 1, disc : (0 .. Cadence) \cup {Never}]
    BY <1>8 DEF TypeOK, Renew, Acquired
  <2>2. renewIn' \in [Boxes -> 0 .. Interval]
    BY <1>8 DEF TypeOK, Renew
  <2> QED BY <1>8, <2>1, <2>2 DEF TypeOK, Renew, workVars
<1>9. ASSUME NEW b \in Boxes, FailPass(b) PROVE TypeOK'
  BY <1>9, FlagsDroppedType, SpendType DEF TypeOK, FailPass, leaseVars, workVars
<1>10. ASSUME NEW b \in Boxes, Shutdown(b) PROVE TypeOK'
  BY <1>10, FlagsDroppedType, SpendType DEF TypeOK, Shutdown, leaseVars, workVars
<1>11. ASSUME NEW b \in Boxes, Release(b) PROVE TypeOK'
  BY <1>11 DEF TypeOK, Release, Released, NoRow, Stop, workVars
<1>12. ASSUME NEW b \in Boxes, Crash(b) PROVE TypeOK'
  BY <1>12, SpendType DEF TypeOK, Crash, Stop, workVars
<1>13. ASSUME NEW b \in Boxes, Restart(b) PROVE TypeOK'
  BY <1>13 DEF TypeOK, Restart, leaseVars, workVars
<1>14. ASSUME NEW b \in Boxes, NEW job \in Jobs, StartManual(b, job) PROVE TypeOK'
  BY <1>14, SpendType DEF TypeOK, StartManual, leaseVars, workVars
<1>15. ASSUME NEW b \in Boxes, NEW job \in Jobs, EndManual(b, job) PROVE TypeOK'
  BY <1>15 DEF TypeOK, EndManual, leaseVars, workVars
<1>16. ASSUME NEW b \in Boxes, CancelJobs(b) PROVE TypeOK'
  BY <1>16, SpendType DEF TypeOK, CancelJobs, leaseVars, workVars
<1>17. CASE NewVideo
  BY <1>17 DEF TypeOK, NewVideo, leaseVars
<1>18. CASE Tick
  <2>1. lease' \in [owner : Boxes \cup {Nobody}, beat : 0 .. TTL + 1, disc : (0 .. Cadence) \cup {Never}]
    <3>1. Older(lease.beat, TTL + 1) \in 0 .. TTL + 1
      BY OlderType DEF TypeOK
    <3>2. Older(lease.disc, Cadence) \in (0 .. Cadence) \cup {Never}
      BY OlderType DEF TypeOK
    <3> QED BY <1>18, <3>1, <3>2 DEF TypeOK, Tick
  <2>2. ranAt' \in (0 .. Cadence) \cup {Never}
    BY <1>18, OlderType DEF TypeOK, Tick
  <2>3. renewIn' \in [Boxes -> 0 .. Interval]
    <3>1. \A b \in Boxes : Older(renewIn[b], Interval) \in 0 .. Interval
      BY OlderType DEF TypeOK
    <3> QED BY <1>18, <3>1 DEF Tick
  <2> QED BY <1>18, <2>1, <2>2, <2>3 DEF TypeOK, Tick, workVars
<1>19. CASE UNCHANGED vars
  BY <1>19 DEF TypeOK, vars, leaseVars, workVars
<1> QED
  BY <1>1, <1>2, <1>3, <1>4, <1>5, <1>6, <1>7, <1>8, <1>9, <1>10, <1>11, <1>12, <1>13,
     <1>14, <1>15, <1>16, <1>17, <1>18, <1>19 DEF Next, PassStep

\* Every variable keeps its type: in particular the ages stay within their caps.
THEOREM LeaseTypeCorrect == Spec => []TypeOK
BY InitTypeOK, StepTypeOK, PTL DEF Spec

----------------------------------------------------------------------------
(* One runner.  While everything is prompt, a box in the middle of a pass  *)
(* owns the lease, and its heartbeat is too young to be stolen: it ages by *)
(* one Interval at most until the drain's renewal, and by another one      *)
(* until the discovery's first.                                            *)

Freshness(b) ==
  CASE pc[b] = "elected" -> 0
    [] pc[b] = "drain" -> renewIn[b]
    [] pc[b] \in {"drained", "due"} -> Interval
    [] pc[b] = "discover" -> Interval + renewIn[b]
    [] OTHER -> TTL

InPass(b) == pc[b] \in {"elected", "drain", "drained", "due", "discover"}

RunInv ==
  ~late => \A b \in Boxes : InPass(b) => lease.owner = b /\ lease.beat <= Freshness(b)

LEMMA FreshBelowTTL ==
  ASSUME TypeOK, NEW b \in Boxes, InPass(b)
  PROVE  Freshness(b) \in Nat /\ Freshness(b) <= TTL
BY IntervalFacts, LeaseConstants DEF TypeOK, InPass, Freshness, Jobs

\* A steal fails as long as somebody else is in the middle of a pass.
LEMMA NoStealFromRunner ==
  ASSUME TypeOK, RunInv, ~late, NEW b \in Boxes, NEW c \in Boxes, InPass(c), CanAcquire(b)
  PROVE  b = c
<1>1. lease.owner = c /\ lease.beat <= Freshness(c)
  BY DEF RunInv
<1>2. lease.beat <= TTL
  BY <1>1, FreshBelowTTL, LeaseConstants DEF TypeOK
<1> QED BY <1>1, <1>2, LeaseConstants DEF CanAcquire, TypeOK

LEMMA InitRunInv == Init => RunInv
BY DEF Init, RunInv, InPass

\* A step of box b that leaves the lease and everybody else's pass alone.
LEMMA LocalStepRunInv ==
  ASSUME TypeOK, RunInv, NEW b \in Boxes, late' = late,
         lease' = lease \/ lease' = [lease EXCEPT !.disc = 0],
         \A c \in Boxes \ {b} : pc'[c] = pc[c] /\ renewIn'[c] = renewIn[c],
         ~late /\ InPass(b)' => InPass(b) /\ lease.beat <= Freshness(b)'
  PROVE  RunInv'
<1> SUFFICES ASSUME ~late, NEW c \in Boxes, InPass(c)'
             PROVE  lease'.owner = c /\ lease'.beat <= Freshness(c)'
  BY DEF RunInv
<1>1. lease'.owner = lease.owner /\ lease'.beat = lease.beat
  BY DEF TypeOK
<1>2. CASE c = b
  BY <1>1, <1>2 DEF RunInv
<1>3. CASE c # b
  <2>1. InPass(c) /\ Freshness(c)' = Freshness(c)
    BY <1>3 DEF InPass, Freshness
  <2> QED BY <1>1, <2>1 DEF RunInv
<1> QED BY <1>2, <1>3

LEMMA StepRunInv == TypeOK /\ RunInv /\ [Next]_vars => RunInv'
<1> SUFFICES ASSUME TypeOK, RunInv, [Next]_vars PROVE RunInv'
  OBVIOUS
<1> USE IntervalFacts
<1>1. ASSUME NEW b \in Boxes, BeginPass(b) PROVE RunInv'
  <2> SUFFICES ASSUME ~late, NEW c \in Boxes, InPass(c)'
               PROVE  lease'.owner = c /\ lease'.beat <= Freshness(c)'
    BY <1>1 DEF RunInv, BeginPass
  <2>1. c = b
    BY <1>1, NoStealFromRunner DEF BeginPass, InPass, TypeOK
  <2> QED BY <1>1, <2>1 DEF BeginPass, Acquired, Freshness, TypeOK
<1>2. ASSUME NEW b \in Boxes, CheckEligible(b) PROVE RunInv'
  <2>1. ~late => lease.owner = b /\ lease.beat = 0
    BY <1>2 DEF RunInv, CheckEligible, InPass, Freshness, TypeOK
  <2>2. (InPass(b) /\ lease.beat <= Freshness(b)') \/ late
    BY <1>2, <2>1 DEF CheckEligible, StartJob, InPass, Freshness, TypeOK
  <2> QED BY <1>2, <2>2, LocalStepRunInv DEF CheckEligible, StartJob, leaseVars, TypeOK
<1>3. ASSUME NEW b \in Boxes, EndDrain(b) PROVE RunInv'
  <2>1. InPass(b) /\ (~late => lease.beat <= Freshness(b)')
    BY <1>3 DEF RunInv, EndDrain, InPass, Freshness, TypeOK
  <2> QED BY <1>3, <2>1, LocalStepRunInv DEF EndDrain, leaseVars, TypeOK
<1>4. ASSUME NEW b \in Boxes, ReadCadence(b) PROVE RunInv'
  <2>1. InPass(b) /\ (~late /\ InPass(b)' => lease.beat <= Freshness(b)')
    BY <1>4 DEF RunInv, ReadCadence, InPass, Freshness, TypeOK
  <2> QED BY <1>4, <2>1, LocalStepRunInv DEF ReadCadence, leaseVars, TypeOK
<1>5. ASSUME NEW b \in Boxes, StartDiscovery(b) PROVE RunInv'
  <2>1. InPass(b) /\ (~late /\ InPass(b)' => lease.beat <= Freshness(b)')
    BY <1>5 DEF RunInv, StartDiscovery, StartJob, InPass, Freshness, TypeOK
  <2> QED BY <1>5, <2>1, LocalStepRunInv DEF StartDiscovery, StartJob, leaseVars, TypeOK
<1>6. ASSUME NEW b \in Boxes, EndDiscovery(b) PROVE RunInv'
  BY <1>6, LocalStepRunInv DEF EndDiscovery, leaseVars, TypeOK, InPass
<1>7. ASSUME NEW b \in Boxes, RecordDiscovery(b) PROVE RunInv'
  BY <1>7, LocalStepRunInv DEF RecordDiscovery, leaseVars, TypeOK, InPass
<1>8. ASSUME NEW b \in Boxes, Renew(b) PROVE RunInv'
  <2> SUFFICES ASSUME ~late, NEW c \in Boxes, InPass(c)'
               PROVE  lease'.owner = c /\ lease'.beat <= Freshness(c)'
    BY <1>8 DEF RunInv, Renew
  <2>1. InPass(b) /\ InPass(c)
    BY <1>8 DEF Renew, Renewing, InPass, Jobs
  <2>2. c = b /\ CanAcquire(b)
    BY <2>1 DEF RunInv, CanAcquire
  <2>3. lease'.owner = b /\ lease'.beat = 0
    BY <1>8, <2>2 DEF Renew, Acquired, TypeOK
  <2>4. Freshness(b)' \in {0, Interval}
    BY <1>8 DEF Renew, Renewing, Jobs, Freshness, TypeOK
  <2> QED BY <2>2, <2>3, <2>4
<1>9. ASSUME NEW b \in Boxes, FailPass(b) PROVE RunInv'
  BY <1>9, LocalStepRunInv DEF FailPass, leaseVars, TypeOK, InPass
<1>10. ASSUME NEW b \in Boxes, Shutdown(b) PROVE RunInv'
  BY <1>10, LocalStepRunInv DEF Shutdown, leaseVars, TypeOK, InPass
<1>11. ASSUME NEW b \in Boxes, Release(b) PROVE RunInv'
  <2>1. \A c \in Boxes : InPass(c)' => c # b /\ InPass(c) /\ Freshness(c)' = Freshness(c)
    BY <1>11 DEF Release, Stop, InPass, Freshness, TypeOK
  <2>2. late' = late /\ (lease.owner # b => lease' = lease)
    BY <1>11 DEF Release, Released, Stop
  <2> QED BY <2>1, <2>2 DEF RunInv
<1>12. ASSUME NEW b \in Boxes, Crash(b) PROVE RunInv'
  BY <1>12, LocalStepRunInv DEF Crash, Stop, TypeOK, InPass
<1>13. ASSUME NEW b \in Boxes, Restart(b) PROVE RunInv'
  BY <1>13, LocalStepRunInv DEF Restart, leaseVars, TypeOK, InPass
<1>14. ASSUME UNCHANGED <<lease, late, pc, renewIn>> PROVE RunInv'
  BY <1>14 DEF RunInv, InPass, Freshness
<1>15. ASSUME NEW b \in Boxes, NEW job \in Jobs,
              StartManual(b, job) \/ EndManual(b, job) \/ CancelJobs(b)
       PROVE RunInv'
  BY <1>14, <1>15 DEF StartManual, EndManual, CancelJobs, leaseVars
<1>16. CASE NewVideo
  BY <1>14, <1>16 DEF NewVideo, leaseVars
<1>17. CASE Tick
  <2> SUFFICES ASSUME ~late', NEW b \in Boxes, InPass(b)'
               PROVE  lease'.owner = b /\ lease'.beat <= Freshness(b)'
    BY DEF RunInv
  <2>1. ~late /\ InTime(b) /\ InPass(b)
    BY <1>17 DEF Tick, InPass
  <2>2. pc[b] \in Jobs /\ renewIn[b] < Interval
    BY <2>1 DEF InTime, Busy, InPass, Renewing, Jobs
  <2>3. renewIn'[b] = renewIn[b] + 1 /\ pc'[b] = pc[b]
    BY <1>17, <2>2, LeaseConstants DEF Tick, Older, Renewing, TypeOK
  <2>4. lease'.owner = lease.owner /\ lease'.beat <= lease.beat + 1
    BY <1>17, LeaseConstants DEF Tick, Older, TypeOK
  <2>5. Freshness(b)' = Freshness(b) + 1 /\ Freshness(b) \in Nat
    <3>1. renewIn[b] \in Nat
      BY DEF TypeOK
    <3>2. CASE pc[b] = "drain"
      BY <2>3, <3>1, <3>2 DEF Freshness
    <3>3. CASE pc[b] = "discover"
      BY <2>3, <3>1, <3>3 DEF Freshness
    <3> QED BY <2>2, <3>2, <3>3 DEF Jobs
  <2>6. lease.owner = b /\ lease.beat <= Freshness(b) /\ lease.beat \in Nat /\ lease'.beat \in Nat
    <3>1. lease'.beat \in Nat
      BY <1>17, OlderType DEF Tick, TypeOK, Older
    <3> QED BY <2>1, <3>1 DEF RunInv, TypeOK
  <2> QED BY <2>4, <2>5, <2>6
<1>18. CASE UNCHANGED vars
  BY <1>14, <1>18 DEF vars, leaseVars
<1>19. ASSUME NEW b \in Boxes,
              \/ PassStep(b) \/ Renew(b) \/ FailPass(b)
              \/ Shutdown(b) \/ Release(b) \/ Crash(b) \/ Restart(b)
              \/ \E job \in Jobs : StartManual(b, job) \/ EndManual(b, job)
              \/ CancelJobs(b)
       PROVE RunInv'
  <2>1. CASE PassStep(b)
    BY <2>1, <1>1, <1>2, <1>3, <1>4, <1>5, <1>6, <1>7 DEF PassStep
  <2>2. CASE CancelJobs(b)
    BY <2>2, <1>15 DEF Jobs
  <2> QED BY <1>19, <2>1, <2>2, <1>8, <1>9, <1>10, <1>11, <1>12, <1>13, <1>15
<1> QED
  BY <1>16, <1>17, <1>18, <1>19 DEF Next

\* With prompt statements and renewals no two boxes ever run a job of the
\* worker, however they crash, stop, restart and steal.
THEOREM LeaseElectsOne == Spec => []SingleRunner
<1>1. TypeOK /\ RunInv => SingleRunner
  BY DEF RunInv, SingleRunner, Renewing, InPass, Jobs
<1> QED BY <1>1, InitTypeOK, StepTypeOK, InitRunInv, StepRunInv, PTL DEF Spec

----------------------------------------------------------------------------
(* The flags of a box. *)

\* What a job's start and end do to the flags, one box and job at a time.
LEMMA StartJobFlags ==
  ASSUME TypeOK, FlagsMatchJobs, NEW b \in Boxes, NEW job \in Jobs,
         NEW otherwise \in {"drained", "sleep"}, pc[b] \notin Jobs,
         StartJob(b, job, otherwise), manual' = manual
  PROVE  FlagsMatchJobs'
BY DEF TypeOK, FlagsMatchJobs, StartJob, FlagFree, Jobs

LEMMA EndJobFlags ==
  ASSUME TypeOK, FlagsMatchJobs, NEW b \in Boxes, NEW next, next \notin Jobs,
         flag' = FlagsDropped(b), pc' = [pc EXCEPT ![b] = next], manual' = manual
  PROVE  FlagsMatchJobs'
BY DEF TypeOK, FlagsMatchJobs, FlagsDropped

\* A step of a box outside its jobs.
LEMMA OtherStepFlags ==
  ASSUME TypeOK, FlagsMatchJobs, NEW b \in Boxes, NEW next, next \notin Jobs, pc[b] \notin Jobs,
         pc' = [pc EXCEPT ![b] = next], UNCHANGED <<flag, manual>>
  PROVE  FlagsMatchJobs'
BY DEF TypeOK, FlagsMatchJobs

LEMMA StepFlags == TypeOK /\ FlagsMatchJobs /\ [Next]_vars => FlagsMatchJobs'
<1> SUFFICES ASSUME TypeOK, FlagsMatchJobs, [Next]_vars PROVE FlagsMatchJobs'
  OBVIOUS
<1>1. ASSUME UNCHANGED <<pc, flag, manual>> PROVE FlagsMatchJobs'
  BY <1>1 DEF FlagsMatchJobs
<1>2. ASSUME NEW b \in Boxes, PassStep(b) PROVE FlagsMatchJobs'
  <2>1. CASE BeginPass(b)
    BY <2>1, OtherStepFlags DEF BeginPass, Jobs
  <2>2. CASE CheckEligible(b)
    BY <2>2, StartJobFlags, OtherStepFlags DEF CheckEligible, Jobs
  <2>3. CASE EndDrain(b)
    BY <2>3, EndJobFlags DEF EndDrain, Jobs
  <2>4. CASE ReadCadence(b)
    BY <2>4, OtherStepFlags DEF ReadCadence, Jobs
  <2>5. CASE StartDiscovery(b)
    BY <2>5, StartJobFlags DEF StartDiscovery, Jobs
  <2>6. CASE EndDiscovery(b)
    BY <2>6, EndJobFlags DEF EndDiscovery, Jobs
  <2>7. CASE RecordDiscovery(b)
    BY <2>7, OtherStepFlags DEF RecordDiscovery, Jobs
  <2> QED BY <1>2, <2>1, <2>2, <2>3, <2>4, <2>5, <2>6, <2>7 DEF PassStep
<1>3. ASSUME NEW b \in Boxes, Renew(b) \/ CancelJobs(b) PROVE FlagsMatchJobs'
  BY <1>1, <1>3 DEF Renew, CancelJobs
<1>4. ASSUME NEW b \in Boxes, FailPass(b) \/ Shutdown(b) PROVE FlagsMatchJobs'
  BY <1>4, EndJobFlags DEF FailPass, Shutdown, Jobs
<1>5. ASSUME NEW b \in Boxes, Stop(b) PROVE FlagsMatchJobs'
  BY <1>5 DEF TypeOK, FlagsMatchJobs, Stop, Jobs
<1>6. ASSUME NEW b \in Boxes, Release(b) \/ Crash(b) PROVE FlagsMatchJobs'
  BY <1>5, <1>6 DEF Release, Crash
<1>7. ASSUME NEW b \in Boxes, Restart(b) PROVE FlagsMatchJobs'
  BY <1>7, OtherStepFlags DEF Restart, Jobs
<1>8. ASSUME NEW b \in Boxes, NEW job \in Jobs, StartManual(b, job) PROVE FlagsMatchJobs'
  BY <1>8 DEF TypeOK, FlagsMatchJobs, StartManual
<1>9. ASSUME NEW b \in Boxes, NEW job \in Jobs, EndManual(b, job) PROVE FlagsMatchJobs'
  BY <1>9 DEF TypeOK, FlagsMatchJobs, EndManual
<1>10. CASE NewVideo \/ Tick \/ UNCHANGED vars
  BY <1>1, <1>10 DEF NewVideo, Tick, vars
<1> QED BY <1>2, <1>3, <1>4, <1>6, <1>7, <1>8, <1>9, <1>10 DEF Next

\* Behind each flag of each box at most one job runs, and a flag is never left
\* taken by a job that ended, failed, panicked or was dropped.
THEOREM LeaseFlagsMatch == Spec => []FlagsMatchJobs
<1>1. Init => FlagsMatchJobs
  BY DEF Init, FlagsMatchJobs, Jobs
<1> QED BY <1>1, InitTypeOK, StepTypeOK, StepFlags, PTL DEF Spec

----------------------------------------------------------------------------
(* Losing the lease. *)

\* No step takes a fresh lease from an owner that is not stopping itself.
THEOREM LeaseNeverTakenFresh == Spec => LeaseLostFairly
<1> DEFINE Fair == lease'.owner # lease.owner /\ lease.owner # Nobody
                   => lease.beat > TTL \/ pc[lease.owner] = "stopping"
<1>1. TypeOK /\ [Next]_vars => [Fair]_vars
  <2> SUFFICES ASSUME TypeOK, Next PROVE Fair
    OBVIOUS
  <2>1. ASSUME lease'.owner = lease.owner PROVE Fair
    BY <2>1
  <2>2. ASSUME NEW b \in Boxes, BeginPass(b) \/ Renew(b) PROVE Fair
    BY <2>2 DEF BeginPass, Renew, CanAcquire, Acquired
  <2>3. ASSUME NEW b \in Boxes, Release(b) PROVE Fair
    BY <2>3 DEF Release, Released
  <2>4. ASSUME NEW b \in Boxes, RecordDiscovery(b) PROVE Fair
    BY <2>1, <2>4 DEF RecordDiscovery, leaseVars, TypeOK
  <2>5. CASE Tick
    BY <2>1, <2>5 DEF Tick, TypeOK
  <2>6. ASSUME UNCHANGED lease PROVE Fair
    BY <2>6
  <2>7. ASSUME NEW b \in Boxes, PassStep(b) PROVE Fair
    BY <2>2, <2>4, <2>6, <2>7 DEF PassStep, CheckEligible, EndDrain, ReadCadence,
       StartDiscovery, EndDiscovery, leaseVars
  <2>8. ASSUME NEW b \in Boxes,
               \/ FailPass(b) \/ Shutdown(b) \/ Crash(b) \/ Restart(b) \/ CancelJobs(b)
               \/ \E job \in Jobs : StartManual(b, job) \/ EndManual(b, job)
        PROVE  Fair
    BY <2>6, <2>8 DEF FailPass, Shutdown, Crash, Restart, CancelJobs, StartManual, EndManual,
       leaseVars
  <2>9. CASE NewVideo
    BY <2>6, <2>9 DEF NewVideo, leaseVars
  <2> HIDE DEF Fair
  <2> QED BY <2>2, <2>3, <2>5, <2>7, <2>8, <2>9 DEF Next
<1> QED BY <1>1, InitTypeOK, StepTypeOK, PTL DEF Spec, LeaseLostFairly

----------------------------------------------------------------------------
(* The cadence of discovery.  Only a release takes it away from the table;  *)
(* a box that has read it owns the lease until it starts, so that nobody    *)
(* records another discovery in between.                                    *)

NoStopYet == budget["shutdown"] = MaxShutdowns

DiscInv ==
  /\ budget["shutdown"] <= MaxShutdowns
  /\ NoStopYet => lease.disc = ranAt /\ \A b \in Boxes : pc[b] # "stopping"
  /\ ~late => \A b \in Boxes : pc[b] = "due" => DiscoveryDue(lease.disc)

LEMMA InitDiscInv == Init => DiscInv
<1> SUFFICES ASSUME Init PROVE DiscInv
  OBVIOUS
<1>1. budget["shutdown"] = MaxShutdowns /\ MaxShutdowns \in Nat
  BY LeaseConstants DEF Init
<1>2. lease.disc = ranAt /\ \A b \in Boxes : pc[b] = "sleep"
  BY DEF Init
<1> QED BY <1>1, <1>2 DEF DiscInv

\* What is spent does not come back.
LEMMA SpendShutdowns ==
  ASSUME TypeOK, NEW kind \in {"crash", "fault", "request"}, Spend(kind)
  PROVE  budget'["shutdown"] = budget["shutdown"]
BY DEF TypeOK, Spend

\* A step of box b that leaves the cadence alone and does not stop.
LEMMA LocalStepDiscInv ==
  ASSUME TypeOK, DiscInv, NEW b \in Boxes, late' = late, ranAt' = ranAt,
         lease'.disc = lease.disc,
         budget'["shutdown"] = budget["shutdown"],
         \A c \in Boxes \ {b} : pc'[c] = pc[c],
         pc'[b] # "stopping" \/ pc'[b] = pc[b],
         pc'[b] = "due" => pc[b] = "due" \/ DiscoveryDue(lease.disc)
  PROVE  DiscInv'
<1>1. NoStopYet' = NoStopYet
  BY DEF NoStopYet
<1>2. \A c \in Boxes : pc'[c] = "stopping" => pc[c] = "stopping"
  OBVIOUS
<1>3. ~late /\ (\E c \in Boxes : pc'[c] = "due") => DiscoveryDue(lease.disc)
  BY DEF DiscInv
<1>4. DiscoveryDue(lease.disc) => DiscoveryDue(lease.disc)'
  BY DEF DiscoveryDue
<1> QED BY <1>1, <1>2, <1>3, <1>4 DEF DiscInv

\* An acquired lease keeps the cadence of the one before.
LEMMA AcquiredDisc ==
  ASSUME NEW b \in Boxes, Acquired(b)
  PROVE  lease'.disc = lease.disc
BY DEF Acquired

LEMMA PassStepDiscInv ==
  ASSUME TypeOK, RunInv, DiscInv, NEW b \in Boxes, PassStep(b)
  PROVE  DiscInv'
<1>1. CASE BeginPass(b)
  BY <1>1, AcquiredDisc, LocalStepDiscInv DEF BeginPass, TypeOK
<1>2. CASE CheckEligible(b)
  BY <1>2, LocalStepDiscInv DEF CheckEligible, StartJob, leaseVars, TypeOK
<1>3. CASE EndDrain(b)
  BY <1>3, SpendShutdowns, LocalStepDiscInv DEF EndDrain, leaseVars, TypeOK
<1>4. CASE ReadCadence(b)
  BY <1>4, LocalStepDiscInv DEF ReadCadence, leaseVars, TypeOK
<1>5. CASE StartDiscovery(b)
  BY <1>5, LocalStepDiscInv DEF StartDiscovery, StartJob, leaseVars, TypeOK
<1>6. CASE EndDiscovery(b)
  BY <1>6, SpendShutdowns, LocalStepDiscInv DEF EndDiscovery, leaseVars, TypeOK
<1>7. CASE RecordDiscovery(b)
  <2>1. CASE ~MayRecord(b)
    BY <1>7, <2>1, LocalStepDiscInv DEF RecordDiscovery, leaseVars, TypeOK
  <2>2. CASE MayRecord(b)
    <3>1. lease'.disc = ranAt' /\ UNCHANGED <<late, budget>>
      BY <1>7, <2>2 DEF RecordDiscovery, TypeOK
    <3>2. \A c \in Boxes : pc'[c] = "stopping" => pc[c] = "stopping"
      BY <1>7 DEF RecordDiscovery, TypeOK
    <3>3. \A c \in Boxes : pc'[c] = "due" => c # b /\ InPass(c)
      BY <1>7 DEF RecordDiscovery, InPass, TypeOK
    <3>4. ~late => \A c \in Boxes : pc'[c] # "due"
      BY <2>2, <3>3 DEF RunInv, MayRecord
    <3> QED BY <3>1, <3>2, <3>4 DEF DiscInv, NoStopYet
  <2> QED BY <2>1, <2>2
<1> QED BY <1>1, <1>2, <1>3, <1>4, <1>5, <1>6, <1>7 DEF PassStep

LEMMA StepDiscInv == TypeOK /\ RunInv /\ DiscInv /\ [Next]_vars => DiscInv'
<1> SUFFICES ASSUME TypeOK, RunInv, DiscInv, [Next]_vars PROVE DiscInv'
  OBVIOUS
<1>1. ASSUME NEW b \in Boxes, Renew(b) PROVE DiscInv'
  <2>1. lease'.disc = lease.disc
    BY <1>1, AcquiredDisc DEF Renew
  <2> QED BY <1>1, <2>1, LocalStepDiscInv DEF Renew
<1>2. ASSUME NEW b \in Boxes, FailPass(b) PROVE DiscInv'
  BY <1>2, SpendShutdowns, LocalStepDiscInv DEF FailPass, leaseVars, TypeOK
<1>3. ASSUME NEW b \in Boxes, Shutdown(b) PROVE DiscInv'
  <2>1. budget'["shutdown"] = budget["shutdown"] - 1 /\ budget["shutdown"] \in Nat
    BY <1>3 DEF Shutdown, Spend, TypeOK
  <2>2. budget'["shutdown"] < MaxShutdowns
    BY <2>1, LeaseConstants DEF DiscInv
  <2>3. UNCHANGED <<lease, late>> /\ \A c \in Boxes : pc'[c] = "due" => pc[c] = "due"
    BY <1>3 DEF Shutdown, leaseVars, TypeOK
  <2>4. DiscoveryDue(lease.disc) => DiscoveryDue(lease.disc)'
    BY <2>3 DEF DiscoveryDue
  <2>5. budget'["shutdown"] <= MaxShutdowns /\ ~NoStopYet'
    BY <2>1, <2>2, LeaseConstants DEF NoStopYet
  <2> QED BY <2>3, <2>4, <2>5 DEF DiscInv
<1>4. ASSUME NEW b \in Boxes, Release(b) PROVE DiscInv'
  <2>1. ~NoStopYet /\ ~NoStopYet' /\ UNCHANGED <<budget, late>>
    BY <1>4 DEF Release, Stop, DiscInv, NoStopYet
  <2>2. \A c \in Boxes : pc'[c] = "due" => pc[c] = "due"
    BY <1>4 DEF Release, Stop, TypeOK
  <2>3. DiscoveryDue(lease.disc) => DiscoveryDue(lease.disc)'
    BY <1>4 DEF DiscoveryDue, Release, Released, NoRow
  <2> QED BY <2>1, <2>2, <2>3 DEF DiscInv
<1>5. ASSUME NEW b \in Boxes, Crash(b) PROVE DiscInv'
  BY <1>5, SpendShutdowns, LocalStepDiscInv DEF Crash, Stop, TypeOK
<1>6. ASSUME NEW b \in Boxes, Restart(b) PROVE DiscInv'
  BY <1>6, LocalStepDiscInv DEF Restart, leaseVars, TypeOK
<1>7. ASSUME UNCHANGED <<lease, ranAt, pc, late>>, budget'["shutdown"] = budget["shutdown"]
      PROVE  DiscInv'
  BY <1>7 DEF DiscInv, NoStopYet, DiscoveryDue
<1>8. ASSUME NEW b \in Boxes, NEW job \in Jobs,
             StartManual(b, job) \/ EndManual(b, job) \/ CancelJobs(b)
      PROVE  DiscInv'
  BY <1>7, <1>8, SpendShutdowns DEF StartManual, EndManual, CancelJobs, leaseVars
<1>9. CASE NewVideo
  BY <1>7, <1>9 DEF NewVideo, leaseVars
<1>10. CASE Tick
  <2>1. UNCHANGED <<pc, budget>> /\ ranAt' = Older(ranAt, Cadence)
        /\ lease'.disc = Older(lease.disc, Cadence)
    BY <1>10 DEF Tick, TypeOK
  <2>2. ~late' => \A b \in Boxes : pc[b] # "due"
    BY <1>10 DEF Tick, InTime, Busy
  <2> QED BY <2>1, <2>2 DEF DiscInv, NoStopYet
<1>11. CASE UNCHANGED vars
  BY <1>7, <1>11 DEF vars, leaseVars
<1>12. ASSUME NEW b \in Boxes, CancelJobs(b) PROVE DiscInv'
  BY <1>8, <1>12 DEF Jobs
<1> QED
  BY <1>1, <1>2, <1>3, <1>4, <1>5, <1>6, <1>8, <1>9, <1>10, <1>11, <1>12, PassStepDiscInv
  DEF Next

\* A box that leaves "record", and with it the cadence changed, has recorded it.
Keeps(b) ==
  /\ StartsDiscovery(b) /\ ~late /\ NoStopYet => CadenceElapsed
  /\ pc[b] = "record" /\ pc'[b] = "sleep" /\ lease'.disc # lease.disc => lease.owner = b

\* A step that leaves the place of a box alone, or the cadence.
LEMMA QuietKeeps ==
  ASSUME NEW b \in Boxes,
         pc'[b] = pc[b] \/ (pc'[b] # "discover" /\ lease'.disc = lease.disc)
  PROVE  Keeps(b)
BY DEF Keeps, StartsDiscovery

\* Until a box has been stopped gracefully, and as long as statements and
\* renewals are prompt, discovery keeps its cadence across all boxes; and only
\* the owner of the lease records one.
THEOREM LeaseCadence == Spec => CadenceKept
<1> DEFINE AllKeep ==
      \A b \in Boxes :
        /\ StartsDiscovery(b) /\ ~late /\ budget["shutdown"] = MaxShutdowns => CadenceElapsed
        /\ pc[b] = "record" /\ pc'[b] = "sleep" /\ lease'.disc # lease.disc => lease.owner = b
<1>1. TypeOK /\ DiscInv /\ [Next]_vars => [AllKeep]_vars
  <2> SUFFICES ASSUME TypeOK, DiscInv, Next, NEW b \in Boxes PROVE Keeps(b)
    BY DEF Keeps, NoStopYet
  <2> HIDE DEF AllKeep
  <2>1. ASSUME UNCHANGED pc PROVE Keeps(b)
    BY <2>1, QuietKeeps
  <2>2. ASSUME NEW c \in Boxes, NEW next, pc' = [pc EXCEPT ![c] = next], c # b PROVE Keeps(b)
    BY <2>2, QuietKeeps DEF TypeOK
  <2>3. ASSUME NEW next, pc' = [pc EXCEPT ![b] = next], next # "discover",
               lease'.disc = lease.disc
        PROVE  Keeps(b)
    BY <2>3, QuietKeeps DEF TypeOK
  <2>4. ASSUME NEW c \in Boxes, NEW next, next # "discover", pc' = [pc EXCEPT ![c] = next],
               lease'.disc = lease.disc
        PROVE  Keeps(b)
    BY <2>2, <2>3, <2>4
  <2>5. ASSUME NEW c \in Boxes, PassStep(c) PROVE Keeps(b)
    <3>1. CASE BeginPass(c)
      BY <2>4, <3>1, AcquiredDisc DEF BeginPass
    <3>2. CASE CheckEligible(c)
      BY <2>4, <3>2 DEF CheckEligible, StartJob, leaseVars
    <3>3. CASE EndDrain(c)
      BY <2>4, <3>3 DEF EndDrain, leaseVars
    <3>4. CASE ReadCadence(c)
      BY <2>4, <3>4 DEF ReadCadence, leaseVars
    <3>5. CASE StartDiscovery(c)
      <4>1. CASE c # b
        BY <2>2, <3>5, <4>1 DEF StartDiscovery, StartJob
      <4>2. CASE c = b
        <5>1. ~late /\ NoStopYet => CadenceElapsed
          BY <3>5, <4>2 DEF StartDiscovery, DiscInv, DiscoveryDue, CadenceElapsed
        <5> QED BY <3>5, <4>2, <5>1 DEF StartDiscovery, Keeps
      <4> QED BY <4>1, <4>2
    <3>6. CASE EndDiscovery(c)
      BY <2>4, <3>6 DEF EndDiscovery, leaseVars
    <3>7. CASE RecordDiscovery(c)
      <4>1. CASE c # b
        BY <2>2, <3>7, <4>1 DEF RecordDiscovery
      <4>2. CASE c = b
        BY <3>7, <4>2 DEF RecordDiscovery, MayRecord, leaseVars, Keeps, StartsDiscovery, TypeOK
      <4> QED BY <4>1, <4>2
    <3> QED BY <2>5, <3>1, <3>2, <3>3, <3>4, <3>5, <3>6, <3>7 DEF PassStep
  <2>6. ASSUME NEW c \in Boxes, FailPass(c) \/ Shutdown(c) \/ Restart(c) PROVE Keeps(b)
    BY <2>4, <2>6 DEF FailPass, Shutdown, Restart, leaseVars
  <2>7. ASSUME NEW c \in Boxes, Release(c) \/ Crash(c) PROVE Keeps(b)
    <3>1. CASE c # b
      BY <2>2, <2>7, <3>1 DEF Release, Crash, Stop
    <3>2. CASE c = b
      BY <2>7, <3>2 DEF Release, Crash, Stop, Keeps, StartsDiscovery, TypeOK
    <3> QED BY <3>1, <3>2
  <2>8. ASSUME NEW c \in Boxes,
               Renew(c) \/ CancelJobs(c) \/ \E job \in Jobs : StartManual(c, job) \/ EndManual(c, job)
        PROVE  Keeps(b)
    BY <2>1, <2>8 DEF Renew, CancelJobs, StartManual, EndManual
  <2>9. CASE NewVideo \/ Tick
    BY <2>1, <2>9 DEF NewVideo, Tick
  <2> QED BY <2>5, <2>6, <2>7, <2>8, <2>9 DEF Next
<1> QED
  BY <1>1, InitTypeOK, StepTypeOK, InitRunInv, StepRunInv, InitDiscInv, StepDiscInv,
     PTL DEF Spec, CadenceKept
=============================================================================
