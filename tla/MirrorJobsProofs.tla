------------------------- MODULE MirrorJobsProofs -------------------------
(***************************************************************************)
(* Safety of MirrorJobs, for any videos, runners, page size and bounds.    *)
(***************************************************************************)
EXTENDS MirrorJobs, TLAPS

Whole(v) ==
  /\ stored[v]["mp4"] \in FileContents
  /\ v \in HasThumb => stored[v]["thumb"] \in FileContents

\* Where a runner may stand: it holds rows only while it works, and the mirror
\* jobs never hash.
Standing ==
  /\ \A r \in Runners : stage[r] = "idle" => page[r] = NoPage
  /\ \A r \in MirrorRunners : stage[r] # "phash"

\* A copy that counts as done, or that a runner is about to write as done, is
\* whole.
WholeInv ==
  /\ \A v \in Videos : status[v] = "mirrored" => Whole(v)
  /\ \A r \in Runners, v \in Videos :
       stage[r] = "mirror" /\ page[r][v] = "ok" => Whole(v)

\* While one runner hashes, the rows it holds stay as it fetched them.
HeldPending ==
  OnePhashRunner =>
    \A r \in Runners, v \in Videos :
      stage[r] = "phash" /\ page[r][v] # "out" => status[v] = "pending" /\ v \notin hashed

----------------------------------------------------------------------------

\* The columns and pages keep their types under every statement and step.
THEOREM MirrorTypeCorrect == Spec => []TypeOK
<1>1. Init => TypeOK
  BY MirrorConstants DEF Init, TypeOK, Statuses, Results, NoPage
<1>2. TypeOK /\ [Next]_vars => TypeOK'
  <2> SUFFICES ASSUME TypeOK, [Next]_vars PROVE TypeOK'
    OBVIOUS
  <2> USE MirrorConstants DEF TypeOK
  <2>1. ASSUME NEW v \in Videos, NEW full \in BOOLEAN, ScanHetzner(v, full) PROVE TypeOK'
    BY <2>1 DEF ScanHetzner, Rescanned, Resets, Reset, runs, Statuses
  <2>2. ASSUME NEW v \in Videos, NEW full \in BOOLEAN, ScanStorj(v, full) PROVE TypeOK'
    <3>1. CASE full /\ status[v] = "failed"
      <4>1. /\ status' = [status EXCEPT ![v] = "pending"]
            /\ retries' = [retries EXCEPT ![v] = 0]
        BY <2>2, <3>1 DEF ScanStorj
      <4> QED
        BY <2>2, <4>1 DEF ScanStorj, Resets, Reset, runs, Statuses
    <3>2. CASE ~(full /\ status[v] = "failed")
      <4>1. status' = status /\ retries' = retries
        BY <2>2, <3>2 DEF ScanStorj, jobRows
      <4> QED
        BY <2>2, <4>1 DEF ScanStorj, Resets, Reset, runs
    <3> QED
      BY <3>1, <3>2
  <2>3. ASSUME NEW r \in Runners, Start(r) PROVE TypeOK'
    BY <2>3 DEF Start, FirstStage, index, jobRows
  <2>4. ASSUME NEW r \in Runners, Fetch(r) PROVE TypeOK'
    BY <2>4 DEF Fetch, index, jobRows, Results
  <2>5. ASSUME NEW r \in Runners, NEW v \in Videos, Hash(r, v) PROVE TypeOK'
    BY <2>5 DEF Hash, Fault, index, jobRows, Results
  <2>6. ASSUME NEW r \in Runners, NEW v \in Videos, Copy(r, v) PROVE TypeOK'
    <3>0. PICK parts \in SUBSET Parts : \E data \in [parts -> FileContents] :
            /\ stored' = [stored EXCEPT ![v] = Refreshed(@, data)]
            /\ page' = [page EXCEPT ![r][v] = IF Copied(v, parts) THEN "ok" ELSE "bad"]
            /\ UNCHANGED faults \/ Fault
      BY <2>6 DEF Copy
    <3>1. PICK data \in [parts -> FileContents] :
            /\ stored' = [stored EXCEPT ![v] = Refreshed(@, data)]
            /\ page' = [page EXCEPT ![r][v] = IF Copied(v, parts) THEN "ok" ELSE "bad"]
            /\ UNCHANGED faults \/ Fault
      BY <3>0
    <3>2. Refreshed(stored[v], data) \in [Parts -> {"none"} \cup FileContents]
      BY DEF Refreshed
    <3>3. stored' \in [Videos -> [Parts -> {"none"} \cup FileContents]]
      BY <3>1, <3>2
    <3>4. page' \in [Runners -> [Videos -> Results]] /\ faults' \in 0 .. MaxFaults
      BY <3>1 DEF Results, Fault
    <3> QED
      BY <2>6, <3>3, <3>4 DEF Copy, index, jobRows
  <2>7. ASSUME NEW r \in Runners, NEW v \in Videos, PhashSuccess(r, v) PROVE TypeOK'
    BY <2>7 DEF PhashSuccess, Written, Results, Statuses
  <2>8. ASSUME NEW r \in Runners, NEW v \in Videos, PhashFailure(r, v) PROVE TypeOK'
    BY <2>8 DEF PhashFailure, AfterFailure, Written, Results, Statuses, index
  <2>9. ASSUME NEW r \in Runners, NEW v \in Videos, MirrorSuccess(r, v) PROVE TypeOK'
    BY <2>9 DEF MirrorSuccess, Written, Results, Statuses
  <2>10. ASSUME NEW r \in Runners, NEW v \in Videos, MirrorFailure(r, v) PROVE TypeOK'
    BY <2>10 DEF MirrorFailure, Written, Results, index, jobRows
  <2>11. ASSUME NEW r \in Runners, EndJob(r) PROVE TypeOK'
    BY <2>11 DEF EndJob, NextStage, index, jobRows
  <2>12. ASSUME NEW r \in Runners, LoseJob(r) PROVE TypeOK'
    <3>1. NoPage \in [Videos -> Results]
      BY DEF NoPage, Results
    <3> QED
      BY <2>12, <3>1 DEF LoseJob, NextStage, Fault, index, jobRows
  <2>13. CASE CancelAll
    BY <2>13 DEF CancelAll, Fault, index, jobRows
  <2>14. CASE RetryFailed
    BY <2>14 DEF RetryFailed, Reset, index, runs, Statuses
  <2>15. CASE UNCHANGED vars
    BY <2>15 DEF vars, index, jobRows, runs
  <2> QED
    BY <2>1, <2>2, <2>3, <2>4, <2>5, <2>6, <2>7, <2>8, <2>9, <2>10, <2>11, <2>12, <2>13,
       <2>14, <2>15 DEF Next, Advance, Work, Write
<1> QED
  BY <1>1, <1>2, PTL DEF Spec

\* The runners' places, a premise of what follows.
THEOREM MirrorStanding == Spec => []Standing
<1>1. Init => Standing
  BY MirrorConstants DEF Init, Standing, Runners
<1>2. TypeOK /\ Standing /\ [Next]_vars => Standing'
  <2> SUFFICES ASSUME TypeOK, Standing, [Next]_vars PROVE Standing'
    OBVIOUS
  <2> USE MirrorConstants DEF TypeOK, Standing
  <2>1. ASSUME NEW r \in Runners, Start(r) PROVE Standing'
    BY <2>1 DEF Start, FirstStage, Runners
  <2>2. ASSUME NEW r \in Runners, Fetch(r) PROVE Standing'
    BY <2>2 DEF Fetch, BetweenPages
  <2>3. ASSUME NEW r \in Runners, EndJob(r) PROVE Standing'
    BY <2>3 DEF EndJob, BetweenPages, NextStage, Runners
  <2>4. ASSUME NEW r \in Runners, LoseJob(r) PROVE Standing'
    BY <2>4 DEF LoseJob, NextStage, Runners
  <2>5. ASSUME NEW r \in Runners, Work(r) \/ Write(r) PROVE Standing'
    <3>1. stage' = stage /\ stage[r] # "idle"
      BY <2>5 DEF Work, Write, Hash, Copy, PhashSuccess, PhashFailure, MirrorSuccess,
                  MirrorFailure
    <3>2. \A q \in Runners \ {r} : page'[q] = page[q]
      BY <2>5 DEF Work, Write, Hash, Copy, PhashSuccess, PhashFailure, MirrorSuccess,
                  MirrorFailure, Written
    <3> QED
      BY <3>1, <3>2 DEF NoPage
  <2>6. CASE UNCHANGED <<stage, page>>
    BY <2>6 DEF NoPage
  <2>7. ASSUME NEW v \in Videos, NEW full \in BOOLEAN, ScanHetzner(v, full) \/ ScanStorj(v, full)
        PROVE UNCHANGED <<stage, page>>
    BY <2>7 DEF ScanHetzner, ScanStorj, runs
  <2>8. CancelAll \/ RetryFailed \/ UNCHANGED vars => UNCHANGED <<stage, page>>
    BY DEF CancelAll, RetryFailed, vars, runs
  <2> QED
    BY <2>1, <2>2, <2>3, <2>4, <2>5, <2>6, <2>7, <2>8 DEF Next, Advance
<1> QED
  BY <1>1, <1>2, MirrorTypeCorrect, PTL DEF Spec

\* What is on Storj stays on Storj: a copy never takes a part away.
LEMMA StoredGrows ==
  ASSUME TypeOK, [Next]_vars, NEW v \in Videos, Whole(v)
  PROVE  Whole(v)'
<1> USE DEF Whole
<1>1. ASSUME NEW r \in Runners, NEW u \in Videos, Copy(r, u) PROVE Whole(v)'
  <2>0. PICK parts \in SUBSET Parts : \E data \in [parts -> FileContents] :
          stored' = [stored EXCEPT ![u] = Refreshed(@, data)]
    BY <1>1 DEF Copy
  <2>1. PICK data \in [parts -> FileContents] : stored' = [stored EXCEPT ![u] = Refreshed(@, data)]
    BY <2>0
  <2>2. \A p \in Parts : stored'[v][p] = stored[v][p] \/ stored'[v][p] \in FileContents
    <3>1. \A p \in Parts : Refreshed(stored[u], data)[p] = stored[u][p]
                           \/ Refreshed(stored[u], data)[p] \in FileContents
      BY DEF Refreshed, TypeOK
    <3> QED
      BY <2>1, <3>1 DEF TypeOK
  <2> QED
    BY <2>2 DEF Parts
<1>2. CASE UNCHANGED stored
  BY <1>2
<1>3. (\E r \in Runners, u \in Videos : Copy(r, u)) \/ UNCHANGED stored
  BY DEF Next, Advance, Work, Write, ScanHetzner, ScanStorj, Start, Fetch, Hash, EndJob,
         PhashSuccess, PhashFailure, MirrorSuccess, MirrorFailure, LoseJob, CancelAll,
         RetryFailed, vars
<1> QED
  BY <1>1, <1>2, <1>3

\* A copy that ends well leaves the video whole.
LEMMA CopiedIsWhole ==
  ASSUME TypeOK, NEW r \in Runners, NEW v \in Videos, Copy(r, v), page'[r][v] = "ok"
  PROVE  Whole(v)'
<1>0. PICK parts \in SUBSET Parts : \E data \in [parts -> FileContents] :
        /\ stored' = [stored EXCEPT ![v] = Refreshed(@, data)]
        /\ page' = [page EXCEPT ![r][v] = IF Copied(v, parts) THEN "ok" ELSE "bad"]
  BY DEF Copy
<1>1. PICK data \in [parts -> FileContents] :
        /\ stored' = [stored EXCEPT ![v] = Refreshed(@, data)]
        /\ page' = [page EXCEPT ![r][v] = IF Copied(v, parts) THEN "ok" ELSE "bad"]
  BY <1>0
<1>2. Copied(v, parts)
  BY <1>1 DEF TypeOK
<1>3. stored'[v] = Refreshed(stored[v], data)
  BY <1>1 DEF TypeOK
<1>4. \A p \in parts : (Refreshed(stored[v], data))[p] \in FileContents
  BY DEF Refreshed
<1> QED
  BY <1>2, <1>3, <1>4 DEF Whole, Copied, Parts

\* A mirrored video is whole on Storj: status follows a copy of all its parts,
\* which no later attempt takes away (mirror_one, update_mirror_success).
THEOREM MirrorMirroredIsWhole == Spec => []MirroredIsWhole
<1>1. Init => WholeInv
  BY DEF Init, WholeInv, NoPage
<1>2. TypeOK /\ Standing /\ WholeInv /\ [Next]_vars => WholeInv'
  <2> SUFFICES ASSUME TypeOK, Standing, WholeInv, [Next]_vars PROVE WholeInv'
    OBVIOUS
  <2> USE DEF WholeInv
  <2>1. \A v \in Videos : Whole(v) => Whole(v)'
    BY StoredGrows
  <2>2. SUFFICES
          /\ \A v \in Videos : status'[v] = "mirrored" =>
               \/ status[v] = "mirrored"
               \/ \E r \in Runners : stage[r] = "mirror" /\ page[r][v] = "ok"
          /\ \A r \in Runners, v \in Videos : stage'[r] = "mirror" /\ page'[r][v] = "ok" =>
               \/ stage[r] = "mirror" /\ page[r][v] = "ok"
               \/ Copy(r, v)
    BY <2>1, CopiedIsWhole
  <2>3. \A v \in Videos : status'[v] = "mirrored" =>
          \/ status[v] = "mirrored"
          \/ \E r \in Runners : stage[r] = "mirror" /\ page[r][v] = "ok"
    <3>1. ASSUME NEW u \in Videos, NEW full \in BOOLEAN, ScanHetzner(u, full) \/ ScanStorj(u, full)
          PROVE \A v \in Videos : status'[v] = "mirrored" => status[v] = "mirrored"
      BY <3>1 DEF ScanHetzner, ScanStorj, Rescanned, jobRows, TypeOK
    <3>2. ASSUME NEW r \in Runners, NEW u \in Videos, PhashSuccess(r, u) \/ PhashFailure(r, u)
          PROVE \A v \in Videos : status'[v] = "mirrored" => status[v] = "mirrored"
      BY <3>2 DEF PhashSuccess, PhashFailure, AfterFailure, TypeOK
    <3>3. ASSUME NEW r \in Runners, NEW u \in Videos, MirrorSuccess(r, u)
          PROVE \A v \in Videos : status'[v] = "mirrored" => status[v] = "mirrored" \/ v = u
      BY <3>3 DEF MirrorSuccess, TypeOK
    <3>4. CASE RetryFailed
      BY <3>4 DEF RetryFailed, TypeOK
    <3>5. CASE UNCHANGED status
      BY <3>5
    <3> QED
      BY <3>1, <3>2, <3>3, <3>4, <3>5
      DEF Next, Advance, Work, Write, Start, Fetch, Hash, Copy, EndJob, MirrorSuccess,
          MirrorFailure, LoseJob, CancelAll, vars, jobRows
  <2>4. \A r \in Runners, v \in Videos : stage'[r] = "mirror" /\ page'[r][v] = "ok" =>
          \/ stage[r] = "mirror" /\ page[r][v] = "ok"
          \/ Copy(r, v)
    <3> USE DEF TypeOK
    <3>1. ASSUME NEW q \in Runners, Start(q) \/ EndJob(q)
          PROVE /\ page' = page /\ page[q] = NoPage
                /\ \A r \in Runners : r # q => stage'[r] = stage[r]
      BY <3>1 DEF Start, EndJob, BetweenPages, Standing
    <3>2. ASSUME NEW q \in Runners, Fetch(q) \/ LoseJob(q)
          PROVE /\ \A v \in Videos : page'[q][v] # "ok"
                /\ \A r \in Runners : r # q => stage'[r] = stage[r] /\ page'[r] = page[r]
      BY <3>2 DEF Fetch, LoseJob, NoPage
    <3>3. ASSUME NEW q \in Runners, NEW u \in Videos, Hash(q, u) \/ Copy(q, u)
          PROVE /\ stage' = stage
                /\ \A r \in Runners, v \in Videos :
                     page'[r][v] = page[r][v] \/ (r = q /\ v = u)
                /\ stage[q] = "mirror" => Copy(q, u)
      <4>1. CASE Hash(q, u)
        BY <4>1 DEF Hash
      <4>2. CASE Copy(q, u)
        <5>1. PICK parts \in SUBSET Parts :
                page' = [page EXCEPT ![q][u] = IF Copied(u, parts) THEN "ok" ELSE "bad"]
          BY <4>2 DEF Copy
        <5>2. stage' = stage
          BY <4>2 DEF Copy
        <5> QED
          BY <4>2, <5>1, <5>2
      <4> QED
        BY <3>3, <4>1, <4>2
    <3>4. ASSUME NEW q \in Runners, NEW u \in Videos,
                 PhashSuccess(q, u) \/ PhashFailure(q, u) \/ MirrorSuccess(q, u) \/ MirrorFailure(q, u)
          PROVE /\ stage' = stage
                /\ \A r \in Runners, v \in Videos :
                     page'[r][v] = page[r][v] \/ page'[r][v] = "out"
      BY <3>4 DEF PhashSuccess, PhashFailure, MirrorSuccess, MirrorFailure, Written
    <3>5. CASE UNCHANGED <<stage, page>>
      BY <3>5
    <3>6. (\E v \in Videos, full \in BOOLEAN : ScanHetzner(v, full) \/ ScanStorj(v, full))
          \/ CancelAll \/ RetryFailed \/ UNCHANGED vars => UNCHANGED <<stage, page>>
      BY DEF ScanHetzner, ScanStorj, CancelAll, RetryFailed, vars, runs
    <3>7. ASSUME NEW q \in Runners, Start(q) \/ EndJob(q)
          PROVE \A r \in Runners, v \in Videos : stage'[r] = "mirror" /\ page'[r][v] = "ok" =>
                  stage[r] = "mirror" /\ page[r][v] = "ok"
      BY <3>1, <3>7 DEF NoPage
    <3>8. ASSUME NEW q \in Runners, Work(q)
          PROVE \A r \in Runners, v \in Videos : stage'[r] = "mirror" /\ page'[r][v] = "ok" =>
                  \/ stage[r] = "mirror" /\ page[r][v] = "ok"
                  \/ Copy(r, v)
      <4>1. PICK u \in Videos : Hash(q, u) \/ Copy(q, u)
        BY <3>8 DEF Work
      <4> HIDE DEF TypeOK
      <4>2. /\ stage' = stage
            /\ \A r \in Runners, v \in Videos : page'[r][v] = page[r][v] \/ (r = q /\ v = u)
            /\ stage[q] = "mirror" => Copy(q, u)
        BY <3>3, <4>1
      <4> QED
        BY <4>2
    <3>9. ASSUME NEW q \in Runners, Write(q)
          PROVE \A r \in Runners, v \in Videos : stage'[r] = "mirror" /\ page'[r][v] = "ok" =>
                  stage[r] = "mirror" /\ page[r][v] = "ok"
      BY <3>4, <3>9 DEF Write
    <3> QED
      BY <3>2, <3>5, <3>6, <3>7, <3>8, <3>9 DEF Next, Advance
  <2> QED
    BY <2>2, <2>3, <2>4
<1>3. WholeInv => MirroredIsWhole
  BY DEF WholeInv, MirroredIsWhole, Whole, FileContents
<1> QED
  BY <1>1, <1>2, <1>3, MirrorTypeCorrect, MirrorStanding, PTL DEF Spec

----------------------------------------------------------------------------

\* The one runner that hashes is the only one whose results touch the rows it
\* holds.
LEMMA HeldStays ==
  ASSUME TypeOK, Standing, HeldPending, [Next]_vars
  PROVE  HeldPending'
<1> SUFFICES ASSUME OnePhashRunner, NEW r \in Runners, NEW v \in Videos,
                    stage'[r] = "phash", page'[r][v] # "out"
             PROVE  status'[v] = "pending" /\ v \notin hashed'
  BY DEF HeldPending, OnePhashRunner
<1> USE DEF TypeOK
<1>1. \A q \in Runners : stage[q] = "phash" => q \in PhashJobs \cup Pipelines
  BY DEF Standing, Runners
<1>2. CASE stage[r] = "phash" /\ page[r][v] # "out"
  <2>1. status[v] = "pending" /\ v \notin hashed
    BY <1>2 DEF HeldPending
  <2>2. \A q \in Runners : stage[q] = "phash" => q = r
    BY <1>1, <1>2 DEF OnePhashRunner
  <2>3. ASSUME NEW u \in Videos, NEW full \in BOOLEAN, ScanHetzner(u, full) \/ ScanStorj(u, full)
        PROVE status'[v] = "pending" /\ v \notin hashed'
    BY <2>1, <2>3 DEF ScanHetzner, ScanStorj, Rescanned, jobRows
  <2>4. ASSUME NEW q \in Runners, NEW u \in Videos, PhashSuccess(q, u) \/ PhashFailure(q, u)
        PROVE status'[v] = "pending" /\ v \notin hashed'
    <3>1. q = r /\ page'[q][u] = "out"
      BY <2>2, <2>4 DEF PhashSuccess, PhashFailure, Written
    <3>2. u # v
      BY <3>1
    <3> QED
      BY <2>1, <2>4, <3>2 DEF PhashSuccess, PhashFailure, index
  <2>5. ASSUME NEW q \in Runners, NEW u \in Videos, MirrorSuccess(q, u)
        PROVE status'[v] = "pending" /\ v \notin hashed'
    BY <2>1, <2>5 DEF MirrorSuccess
  <2>6. CASE RetryFailed
    BY <2>1, <2>6 DEF RetryFailed, index
  <2>7. CASE UNCHANGED <<status, hashed>>
    BY <2>1, <2>7
  <2> QED
    BY <2>3, <2>4, <2>5, <2>6, <2>7
    DEF Next, Advance, Work, Write, Start, Fetch, Hash, Copy, EndJob, MirrorFailure, LoseJob,
        CancelAll, vars, index, jobRows
<1>3. CASE ~(stage[r] = "phash" /\ page[r][v] # "out")
  <2>1. ASSUME NEW q \in Runners, Fetch(q) PROVE status'[v] = "pending" /\ v \notin hashed'
    <3>1. UNCHANGED <<stage, status, hashed>> /\ q = r
      BY <2>1, <1>3 DEF Fetch, index, jobRows
    <3>2. v \in Pending(r)
      BY <2>1, <3>1 DEF Fetch
    <3> QED
      BY <3>1, <3>2 DEF Pending, PendingPhash
  <2>2. ASSUME NEW q \in Runners, Start(q) \/ EndJob(q) \/ LoseJob(q) PROVE FALSE
    BY <2>2, <1>3 DEF Start, EndJob, BetweenPages, LoseJob, NextStage, NoPage, Standing
  <2>3. ASSUME NEW q \in Runners, NEW u \in Videos, Hash(q, u) \/ Copy(q, u) PROVE FALSE
    <3>1. stage' = stage
      BY <2>3 DEF Hash, Copy
    <3>2. /\ page[q][u] = "todo"
          /\ \E result \in Results : page' = [page EXCEPT ![q][u] = result]
      BY <2>3 DEF Hash, Copy, Results
    <3>3. page'[r][v] # "out" => page[r][v] # "out"
      BY <3>2, TypeOK DEF TypeOK
    <3> QED
      BY <3>1, <3>3, <1>3
  <2>4. ASSUME NEW q \in Runners, NEW u \in Videos,
               PhashSuccess(q, u) \/ PhashFailure(q, u) \/ MirrorSuccess(q, u) \/ MirrorFailure(q, u)
        PROVE FALSE
    <3>1. stage' = stage /\ (page'[r][v] = page[r][v] \/ page'[r][v] = "out")
      BY <2>4 DEF PhashSuccess, PhashFailure, MirrorSuccess, MirrorFailure, Written
    <3> QED
      BY <3>1, <1>3
  <2>5. ~UNCHANGED <<stage, page>>
    BY <1>3
  <2> QED
    BY <2>1, <2>2, <2>3, <2>4, <2>5
    DEF Next, Advance, Work, Write, ScanHetzner, ScanStorj, CancelAll, RetryFailed, vars, runs
<1> QED
  BY <1>2, <1>3

\* Mirrored is final where one runner hashes: the failure it may write late,
\* which has no guard on the status (update_phash_failure), is of a row that is
\* still pending.
THEOREM MirrorMirroredIsFinal == Spec => MirroredIsFinal
<1>1. Init => HeldPending
  BY DEF Init, HeldPending
<1>2. TypeOK /\ Standing /\ HeldPending /\ [Next]_vars => HeldPending'
  BY HeldStays
<1>3. TypeOK /\ HeldPending /\ [Next]_vars =>
        [OnePhashRunner => \A v \in Videos : status[v] = "mirrored" => status'[v] = "mirrored"]_vars
  <2> SUFFICES ASSUME TypeOK, HeldPending, [Next]_vars, OnePhashRunner,
                      NEW v \in Videos, status[v] = "mirrored"
               PROVE  status'[v] = "mirrored"
    OBVIOUS
  <2> USE DEF TypeOK
  <2>1. ASSUME NEW u \in Videos, NEW full \in BOOLEAN, ScanHetzner(u, full) \/ ScanStorj(u, full)
        PROVE status'[v] = "mirrored"
    BY <2>1 DEF ScanHetzner, ScanStorj, Rescanned, jobRows
  <2>2. ASSUME NEW q \in Runners, NEW u \in Videos, PhashFailure(q, u)
        PROVE status'[v] = "mirrored"
    <3>1. status[u] = "pending"
      BY <2>2 DEF PhashFailure, HeldPending
    <3> QED
      BY <2>2, <3>1 DEF PhashFailure
  <2>3. ASSUME NEW q \in Runners, NEW u \in Videos, PhashSuccess(q, u) \/ MirrorSuccess(q, u)
        PROVE status'[v] = "mirrored"
    BY <2>3 DEF PhashSuccess, MirrorSuccess
  <2>4. CASE RetryFailed
    BY <2>4 DEF RetryFailed
  <2>5. CASE UNCHANGED status
    BY <2>5
  <2> QED
    BY <2>1, <2>2, <2>3, <2>4, <2>5
    DEF Next, Advance, Work, Write, Start, Fetch, Hash, Copy, EndJob, MirrorFailure, LoseJob,
        CancelAll, vars, jobRows
<1> QED
  BY <1>1, <1>2, <1>3, MirrorTypeCorrect, MirrorStanding, PTL DEF Spec, MirroredIsFinal
=============================================================================
