-------------------------- MODULE MediaPhashProofs --------------------------
(***************************************************************************)
(* Proofs about MediaPhash for any videos, any shards, overlapping or not, *)
(* any page size and any backoff.                                          *)
(***************************************************************************)
EXTENDS MediaPhash, TLAPS

(* Type correctness. *)

LEMMA InitTypeOK == Init => TypeOK
<1> SUFFICES ASSUME Init PROVE TypeOK
  OBVIOUS
<1> USE PhashConstants
<1>1. count \in [Videos -> [Phases -> 0 .. MaxCount]] /\ wait \in [Videos -> [Phases -> 0 .. Cap]]
  BY DEF Init
<1>2. page \in [Runners -> [Videos -> Phases \cup {"out", "todo", "ok"}]]
  BY DEF Init, NoPage
<1>3. limited \in [Runners -> BOOLEAN] /\ failures \in [Runners -> BOOLEAN]
  BY DEF Init
<1> QED BY <1>1, <1>2, <1>3 DEF Init, TypeOK

LEMMA FaultType == TypeOK /\ Fault => faults' \in 0 .. MaxFaults
BY PhashConstants DEF TypeOK, Fault

LEMMA DelayType == ASSUME NEW n PROVE Delay(n) \in 0 .. Cap
BY PhashConstants DEF Delay

LEMMA ClearType ==
  ASSUME TypeOK, NEW v \in Videos, ClearFailuresOf(v)
  PROVE  /\ count' \in [Videos -> [Phases -> 0 .. MaxCount]]
         /\ wait' \in [Videos -> [Phases -> 0 .. Cap]]
BY PhashConstants DEF TypeOK, ClearFailuresOf

LEMMA EndRunType ==
  ASSUME TypeOK, NEW r \in Runners, NEW s, EndRun(r, s),
         s \in {"failed", "running", "cancelled", "succeeded", "succeeded_with_failures"}
  PROVE  /\ stage' \in [Runners -> {"idle", "run"}]
         /\ page' \in [Runners -> [Videos -> Phases \cup {"out", "todo", "ok"}]]
         /\ status' \in [Runners -> {"none", "running", "failed", "cancelled", "succeeded",
                                     "succeeded_with_failures"}]
BY DEF TypeOK, EndRun, NoPage

LEMMA TakenType ==
  ASSUME TypeOK, NEW r \in Runners, NEW v \in Videos, Taken(r, v)
  PROVE  page' \in [Runners -> [Videos -> Phases \cup {"out", "todo", "ok"}]]
BY DEF TypeOK, Taken

LEMMA StepTypeOK == TypeOK /\ [Next]_vars => TypeOK'
<1> SUFFICES ASSUME TypeOK, [Next]_vars PROVE TypeOK'
  OBVIOUS
<1> USE PhashConstants DEF rowVars, failVars, runVars
<1>1. ASSUME NEW r \in Runners, Start(r) PROVE TypeOK'
  <2>1. Due(r) \in SUBSET Videos
    BY DEF TypeOK, Due
  <2>2. limited' \in [Runners -> BOOLEAN] /\ faults' \in 0 .. MaxFaults
    BY <1>1, FaultType DEF TypeOK, Start
  <2>3. failures' \in [Runners -> BOOLEAN]
    BY <1>1 DEF TypeOK, Start
  <2> QED BY <1>1, <2>1, <2>2, <2>3 DEF TypeOK, Start
<1>2. ASSUME NEW r \in Runners, Fetch(r) PROVE TypeOK'
  <2>1. PICK P \in SUBSET Ahead(r) :
          /\ page' = [page EXCEPT ![r] = [v \in Videos |-> IF v \in P THEN "todo" ELSE "out"]]
          /\ \E last \in P : cursor' = [cursor EXCEPT ![r] = last]
    BY <1>2 DEF Fetch
  <2>2. page' \in [Runners -> [Videos -> Phases \cup {"out", "todo", "ok"}]]
    BY <2>1 DEF TypeOK
  <2>3. cursor' \in [Runners -> Videos \cup {0}]
    BY <2>1 DEF TypeOK, Ahead, Due
  <2> QED BY <1>2, <2>2, <2>3 DEF TypeOK, Fetch
<1>3. ASSUME NEW r \in Runners, NEW v \in Videos, Compute(r, v) PROVE TypeOK'
  <2>1. PICK out \in Phases \cup {"ok"} : page' = [page EXCEPT ![r][v] = out]
    BY <1>3 DEF Compute, Phases
  <2>2. page' \in [Runners -> [Videos -> Phases \cup {"out", "todo", "ok"}]]
    BY <2>1 DEF TypeOK
  <2>3. faults' \in 0 .. MaxFaults
    BY <1>3, FaultType DEF TypeOK, Compute
  <2> QED BY <1>3, <2>2, <2>3 DEF TypeOK, Compute
<1>4. ASSUME NEW r \in Runners, NEW v \in Videos, PersistHash(r, v) PROVE TypeOK'
  BY <1>4, ClearType, TakenType DEF TypeOK, PersistHash
<1>5. ASSUME NEW r \in Runners, NEW v \in Videos, NEW p \in Phases, PersistFailure(r, v, p)
      PROVE TypeOK'
  <2>1. count' \in [Videos -> [Phases -> 0 .. MaxCount]]
    <3>1. count[v][p] \in 0 .. MaxCount
      BY DEF TypeOK
    <3> DEFINE n == IF count[v][p] = MaxCount THEN count[v][p] ELSE count[v][p] + 1
    <3>2. n \in 0 .. MaxCount
      BY <3>1
    <3>3. count' = [count EXCEPT ![v][p] = n]
      BY <1>5 DEF TypeOK, PersistFailure
    <3> HIDE DEF n
    <3> QED BY <3>2, <3>3 DEF TypeOK
  <2>2. wait' \in [Videos -> [Phases -> 0 .. Cap]]
    BY <1>5, DelayType DEF TypeOK, PersistFailure
  <2>3. failures' \in [Runners -> BOOLEAN]
    BY <1>5 DEF TypeOK, PersistFailure
  <2> QED BY <1>5, <2>1, <2>2, <2>3, TakenType DEF TypeOK, PersistFailure
<1>6. ASSUME NEW r \in Runners, NEW v \in Videos, NEW p \in Phases, FailOnOverflow(r, v, p)
      PROVE TypeOK'
  <2>1. EndRun(r, "failed")
    BY <1>6 DEF FailOnOverflow
  <2> QED BY <1>6, <2>1, EndRunType DEF TypeOK, FailOnOverflow, EndRun
<1>7. ASSUME NEW r \in Runners, Complete(r) PROVE TypeOK'
  <2>1. EndRun(r, RunStatus(r)) /\ RunStatus(r) \in {"succeeded", "succeeded_with_failures"}
    BY <1>7 DEF Complete, RunStatus
  <2> QED BY <1>7, <2>1, EndRunType DEF TypeOK, Complete, EndRun
<1>8. ASSUME NEW r \in Runners, Cancelled(r) PROVE TypeOK'
  <2>1. EndRun(r, "cancelled") /\ UNCHANGED <<rowVars, failVars, faults>>
    BY <1>8 DEF Cancelled
  <2> QED BY <2>1, EndRunType DEF TypeOK, EndRun
<1>9. ASSUME NEW r \in Runners, FailRun(r) PROVE TypeOK'
  <2>1. PICK s \in {"failed", "running"} : EndRun(r, s)
    BY <1>9 DEF FailRun
  <2> QED BY <1>9, <2>1, EndRunType, FaultType DEF TypeOK, FailRun, EndRun
<1>10. ASSUME NEW r \in Runners, CancelJobs(r) PROVE TypeOK'
  BY <1>10, FaultType DEF TypeOK, CancelJobs
<1>11. ASSUME NEW v \in Videos, Register(v) PROVE TypeOK'
  BY <1>11 DEF TypeOK, Register
<1>12. ASSUME NEW v \in Videos, ClearFailures(v) PROVE TypeOK'
  BY <1>12, ClearType, FaultType DEF TypeOK, ClearFailures
<1>13. CASE Tick
  BY <1>13 DEF TypeOK, Tick
<1>14. CASE UNCHANGED vars
  BY <1>14 DEF TypeOK, vars
<1> QED
  BY <1>1, <1>2, <1>3, <1>4, <1>5, <1>6, <1>7, <1>8, <1>9, <1>10, <1>11, <1>12, <1>13, <1>14
     DEF Next, Advance, Work

\* Every variable keeps its type; in particular no wait exceeds the cap of the
\* backoff (LEAST in record_row_failure_txn).
THEOREM PhashTypeCorrect == Spec => []TypeOK
BY InitTypeOK, StepTypeOK, PTL DEF Spec

----------------------------------------------------------------------------
(* The inductive invariant.  A row on the page of a run is of its shard and *)
(* was neither hashed nor backing off as it was fetched; if no other box    *)
(* works on it, nobody has hashed it or charged it with a failure since.    *)
(* While a run has had no failure, whatever such row was due as it started  *)
(* is hashed, on its page, or due and still ahead of its cursor.            *)

Owned ==
  \A r \in Runners, v \in Videos : page[r][v] # "out" =>
    /\ stage[r] = "run" /\ v \in Shard[r]
    /\ Unshared(v) => v \notin hashed /\ NotBackingOff(v)

Progress ==
  \A r \in Runners : stage[r] = "run" /\ ~failures[r] =>
    \A v \in owed[r] : Unshared(v) => v \in hashed \/ page[r][v] # "out" \/ v \in Ahead(r)

Inv == TypeOK /\ CleanSlate /\ Owned /\ Progress /\ SucceededIsComplete

LEMMA InitInv == Init => Inv
<1> SUFFICES ASSUME Init PROVE Inv
  OBVIOUS
<1>1. CleanSlate /\ SucceededIsComplete /\ Progress
  BY DEF Init, CleanSlate, SucceededIsComplete, Progress
<1>2. Owned
  BY DEF Init, Owned, NoPage
<1> QED BY <1>1, <1>2, InitTypeOK DEF Inv

\* A row that is due stays due for a runner as long as its failure rows do not grow.
LEMMA AheadKept ==
  ASSUME NEW r \in Runners, NEW v \in Ahead(r),
         registered \subseteq registered', v \notin hashed', cursor'[r] = cursor[r],
         NotBackingOff(v) => NotBackingOff(v)'
  PROVE  v \in Ahead(r)'
BY DEF Ahead, Due

\* A step that leaves the runs alone, hashes nothing and lets no wait begin.
LEMMA QuietStep ==
  ASSUME Inv, TypeOK', UNCHANGED <<hashed, runVars>>, registered \subseteq registered',
         \A v \in Videos : NotBackingOff(v) => NotBackingOff(v)',
         CleanSlate'
  PROVE  Inv'
<1> USE DEF runVars
<1>1. Owned'
  BY DEF Inv, Owned
<1>2. Progress'
  <2> SUFFICES ASSUME NEW r \in Runners, stage[r] = "run", ~failures[r], NEW v \in owed[r],
                      Unshared(v), v \notin hashed, page[r][v] = "out"
               PROVE  v \in Ahead(r)'
    BY DEF Progress
  <2>1. v \in Ahead(r) /\ v \in Videos
    BY DEF Inv, Progress, Ahead, Due, TypeOK
  <2> QED BY <2>1, AheadKept
<1>3. SucceededIsComplete'
  BY DEF Inv, SucceededIsComplete
<1> QED BY <1>1, <1>2, <1>3 DEF Inv

\* The end of a run disturbs nothing, if a run that says succeeded is complete.
LEMMA EndInv ==
  ASSUME Inv, TypeOK', NEW r \in Runners, NEW s, EndRun(r, s), UNCHANGED <<rowVars, failVars>>,
         s = "succeeded" /\ ~limited[r] => \A v \in owed[r] : Unshared(v) => v \in hashed
  PROVE  Inv'
<1> USE DEF rowVars, failVars
<1>1. CleanSlate'
  BY DEF Inv, CleanSlate
<1>2. Owned'
  BY DEF Inv, TypeOK, Owned, EndRun, NoPage, NotBackingOff
<1>3. Progress'
  <2> SUFFICES ASSUME NEW q \in Runners, stage'[q] = "run", ~failures'[q], NEW v \in owed'[q],
                      Unshared(v)
               PROVE  v \in hashed' \/ page'[q][v] # "out" \/ v \in Ahead(q)'
    BY DEF Progress
  <2>1. q # r /\ stage[q] = "run" /\ page'[q] = page[q]
    BY DEF Inv, TypeOK, EndRun
  <2>2. v \in hashed \/ page[q][v] # "out" \/ v \in Ahead(q)
    BY <2>1 DEF Inv, Progress, EndRun
  <2> QED BY <2>1, <2>2 DEF EndRun, Ahead, Due, NotBackingOff
<1>4. SucceededIsComplete'
  BY DEF Inv, TypeOK, SucceededIsComplete, EndRun
<1> QED BY <1>1, <1>2, <1>3, <1>4 DEF Inv

LEMMA StartInv ==
  ASSUME Inv, TypeOK', NEW r \in Runners, Start(r)
  PROVE  Inv'
<1> USE DEF Start, rowVars, failVars
<1>1. CleanSlate'
  BY DEF Inv, CleanSlate
<1>2. Owned'
  BY DEF Inv, TypeOK, Owned, NotBackingOff
<1>3. Progress'
  <2> SUFFICES ASSUME NEW q \in Runners, stage'[q] = "run", ~failures'[q], NEW v \in owed'[q],
                      Unshared(v)
               PROVE  v \in hashed' \/ page'[q][v] # "out" \/ v \in Ahead(q)'
    BY DEF Progress
  <2>1. CASE q = r
    <3>1. owed'[q] = Due(r) /\ cursor'[q] = 0
      BY <2>1 DEF Inv, TypeOK
    <3>2. v \in Nat \ {0}
      BY <3>1, PhashConstants DEF Due, Inv, TypeOK
    <3> QED BY <2>1, <3>1, <3>2 DEF Ahead, Due, NotBackingOff
  <2>2. CASE q # r
    <3>1. v \in hashed \/ page[q][v] # "out" \/ v \in Ahead(q)
      BY <2>2 DEF Inv, TypeOK, Progress
    <3> QED BY <2>2, <3>1 DEF Inv, TypeOK, Ahead, Due, NotBackingOff
  <2> QED BY <2>1, <2>2
<1>4. SucceededIsComplete'
  BY DEF Inv, TypeOK, SucceededIsComplete
<1> QED BY <1>1, <1>2, <1>3, <1>4 DEF Inv

LEMMA FetchInv ==
  ASSUME Inv, TypeOK', NEW r \in Runners, Fetch(r)
  PROVE  Inv'
<1> USE DEF rowVars, failVars
<1>0. PICK P \in SUBSET Ahead(r) :
        /\ IsPage(r, P)
        /\ page' = [page EXCEPT ![r] = [v \in Videos |-> IF v \in P THEN "todo" ELSE "out"]]
        /\ \E last \in P : cursor' = [cursor EXCEPT ![r] = last]
  BY DEF Fetch
<1>1. PICK last \in P : cursor' = [cursor EXCEPT ![r] = last]
  BY <1>0
<1>2. UNCHANGED <<rowVars, failVars, stage, limited, failures, owed, status>>
      /\ stage[r] = "run" /\ page[r] = NoPage
  BY DEF Fetch, BetweenPages
<1>3. CleanSlate' /\ SucceededIsComplete'
  BY <1>2 DEF Inv, CleanSlate, SucceededIsComplete
<1>4. Owned'
  <2> SUFFICES ASSUME NEW q \in Runners, NEW v \in Videos, page'[q][v] # "out"
               PROVE  /\ stage[q] = "run" /\ v \in Shard[q]
                      /\ Unshared(v) => v \notin hashed /\ NotBackingOff(v)
    BY <1>2 DEF Owned, NotBackingOff
  <2>1. CASE q = r
    BY <1>0, <1>1, <1>2, <2>1 DEF Inv, TypeOK, Ahead, Due
  <2>2. CASE q # r
    BY <1>0, <1>1, <2>2 DEF Inv, TypeOK, Owned
  <2> QED BY <2>1, <2>2
<1>5. Progress'
  <2> SUFFICES ASSUME NEW q \in Runners, stage'[q] = "run", ~failures'[q], NEW v \in owed'[q],
                      Unshared(v)
               PROVE  v \in hashed' \/ page'[q][v] # "out" \/ v \in Ahead(q)'
    BY DEF Progress
  <2>1. v \in Videos /\ (v \in hashed \/ page[q][v] # "out" \/ v \in Ahead(q))
    BY <1>2 DEF Inv, TypeOK, Progress
  <2>2. CASE q = r
    <3>1. v \in hashed \/ v \in Ahead(r)
      BY <1>2, <2>1, <2>2 DEF NoPage
    <3>2. CASE v \in P
      BY <1>0, <1>1, <2>1, <2>2, <3>2 DEF Inv, TypeOK
    <3>3. CASE v \in Ahead(r) /\ v \notin P
      <4>1. v \in Nat /\ last \in Nat
        BY <2>1, PhashConstants DEF Ahead, Due, Inv, TypeOK
      <4>2. ~(v < last)
        BY <1>0, <3>3 DEF IsPage
      <4>3. last < v
        BY <3>3, <4>1, <4>2
      <4> QED BY <1>0, <1>1, <1>2, <2>2, <3>3, <4>3 DEF Ahead, Due, NotBackingOff, Inv, TypeOK
    <3> QED BY <1>2, <3>1, <3>2, <3>3
  <2>3. CASE q # r
    BY <1>0, <1>1, <1>2, <2>1, <2>3 DEF Inv, TypeOK, Ahead, Due, NotBackingOff
  <2> QED BY <2>2, <2>3
<1> QED BY <1>3, <1>4, <1>5 DEF Inv

\* A result leaves the page of its run: what the other runs have is not touched.
LEMMA TakenOthers ==
  ASSUME Inv, NEW r \in Runners, NEW v \in Videos, Taken(r, v), page[r][v] # "out",
         NEW q \in Runners, NEW u \in Videos, page'[q][u] # "out"
  PROVE  page[q][u] # "out" /\ (Unshared(u) => u # v)
<1>1. page[q][u] # "out" /\ (q = r => u # v)
  BY DEF Taken, Inv, TypeOK
<1>2. u = v /\ Unshared(u) => q = r
  BY <1>1 DEF Inv, Owned, Unshared
<1> QED BY <1>1, <1>2

LEMMA PersistHashInv ==
  ASSUME Inv, TypeOK', NEW r \in Runners, NEW v \in Videos, PersistHash(r, v)
  PROVE  Inv'
<1> USE DEF PersistHash
<1>1. page[r][v] # "out"
  OBVIOUS
<1>2. CleanSlate'
  BY DEF Inv, TypeOK, CleanSlate, ClearFailuresOf
<1>3. \A u \in Videos : NotBackingOff(u) => NotBackingOff(u)'
  BY DEF Inv, TypeOK, NotBackingOff, ClearFailuresOf
<1>4. Owned'
  <2> SUFFICES ASSUME NEW q \in Runners, NEW u \in Videos, page'[q][u] # "out"
               PROVE  /\ stage[q] = "run" /\ u \in Shard[q]
                      /\ Unshared(u) => u \notin hashed' /\ NotBackingOff(u)'
    BY DEF Owned
  <2>1. page[q][u] # "out" /\ (Unshared(u) => u # v)
    BY <1>1, TakenOthers
  <2> QED BY <1>3, <2>1 DEF Inv, Owned
<1>5. Progress'
  <2> SUFFICES ASSUME NEW q \in Runners, stage[q] = "run", ~failures[q], NEW u \in owed[q],
                      Unshared(u), u \notin hashed', page'[q][u] = "out"
               PROVE  u \in Ahead(q)'
    BY DEF Progress
  <2>1. u \in Videos /\ u # v /\ page[q][u] = "out"
    BY DEF Inv, TypeOK, Taken
  <2>2. u \in Ahead(q)
    BY <2>1 DEF Inv, Progress
  <2> QED BY <1>3, <2>1, <2>2, AheadKept
<1>6. SucceededIsComplete'
  BY DEF Inv, SucceededIsComplete
<1> QED BY <1>2, <1>4, <1>5, <1>6 DEF Inv

LEMMA PersistFailureInv ==
  ASSUME Inv, TypeOK', NEW r \in Runners, NEW v \in Videos, NEW p \in Phases,
         PersistFailure(r, v, p)
  PROVE  Inv'
<1> USE DEF PersistFailure, rowVars
<1>1. page[r][v] # "out" /\ v \in Shard[r] /\ (Unshared(v) => v \notin hashed)
  BY DEF Phases, Inv, Owned
<1>2. \A u \in Videos \ {v} : \A x \in Phases : count'[u][x] = count[u][x] /\ wait'[u][x] = wait[u][x]
  BY DEF Inv, TypeOK
<1>3. CleanSlate'
  BY <1>1, <1>2 DEF Inv, TypeOK, CleanSlate
<1>4. Owned'
  <2> SUFFICES ASSUME NEW q \in Runners, NEW u \in Videos, page'[q][u] # "out"
               PROVE  /\ stage[q] = "run" /\ u \in Shard[q]
                      /\ Unshared(u) => u \notin hashed /\ NotBackingOff(u)'
    BY DEF Owned
  <2>1. page[q][u] # "out" /\ (Unshared(u) => u # v)
    BY <1>1, TakenOthers
  <2> QED BY <1>2, <2>1 DEF Inv, Owned, NotBackingOff
<1>5. Progress'
  <2> SUFFICES ASSUME NEW q \in Runners, stage[q] = "run", ~failures'[q], NEW u \in owed[q],
                      Unshared(u), u \notin hashed, page'[q][u] = "out"
               PROVE  u \in Ahead(q)'
    BY DEF Progress
  <2>1. q # r /\ ~failures[q] /\ page[q][u] = "out"
    BY DEF Inv, TypeOK, Taken
  <2>2. u \in Ahead(q)
    BY <2>1 DEF Inv, Progress
  <2>3. u \in Videos /\ u # v
    BY <1>1, <2>1, <2>2 DEF Ahead, Due, Inv, TypeOK, Unshared
  <2>4. NotBackingOff(u) => NotBackingOff(u)'
    BY <1>2, <2>3 DEF NotBackingOff
  <2> QED BY <2>2, <2>4, AheadKept
<1>6. SucceededIsComplete'
  BY DEF Inv, SucceededIsComplete
<1> QED BY <1>3, <1>4, <1>5, <1>6 DEF Inv

LEMMA ComputeInv ==
  ASSUME Inv, TypeOK', NEW r \in Runners, NEW v \in Videos, Compute(r, v)
  PROVE  Inv'
<1> USE DEF rowVars, failVars
<1>1. UNCHANGED <<rowVars, failVars, stage, cursor, limited, failures, owed, status>>
  BY DEF Compute
<1>2. \A q \in Runners, u \in Videos : page'[q][u] # "out" <=> page[q][u] # "out"
  <2>1. PICK out \in Phases \cup {"ok"} : page' = [page EXCEPT ![r][v] = out]
    BY DEF Compute, Phases
  <2>2. out # "out" /\ page[r][v] # "out"
    BY DEF Compute, Phases
  <2> QED BY <2>1, <2>2 DEF Inv, TypeOK
<1>3. CleanSlate' /\ SucceededIsComplete'
  BY <1>1 DEF Inv, CleanSlate, SucceededIsComplete
<1>4. Owned'
  BY <1>1, <1>2 DEF Inv, Owned, NotBackingOff
<1>5. Progress'
  <2> SUFFICES ASSUME NEW q \in Runners, stage[q] = "run", ~failures[q], NEW u \in owed[q],
                      Unshared(u), u \notin hashed, page'[q][u] = "out"
               PROVE  u \in Ahead(q)'
    BY <1>1 DEF Progress
  <2>1. u \in Videos
    BY DEF Inv, TypeOK
  <2>2. u \in Ahead(q)
    BY <1>2, <2>1 DEF Inv, Progress
  <2>3. NotBackingOff(u) => NotBackingOff(u)'
    BY <1>1 DEF NotBackingOff
  <2> QED BY <1>1, <2>2, <2>3, AheadKept
<1> QED BY <1>3, <1>4, <1>5 DEF Inv

LEMMA StepInv == Inv /\ [Next]_vars => Inv'
<1> SUFFICES ASSUME Inv, [Next]_vars PROVE Inv'
  OBVIOUS
<1>0. TypeOK'
  BY StepTypeOK DEF Inv
<1>1. ASSUME NEW r \in Runners, Start(r) PROVE Inv'
  BY <1>0, <1>1, StartInv
<1>2. ASSUME NEW r \in Runners, Fetch(r) PROVE Inv'
  BY <1>0, <1>2, FetchInv
<1>3. ASSUME NEW r \in Runners, NEW v \in Videos, Compute(r, v) PROVE Inv'
  BY <1>0, <1>3, ComputeInv
<1>4. ASSUME NEW r \in Runners, NEW v \in Videos, PersistHash(r, v) PROVE Inv'
  BY <1>0, <1>4, PersistHashInv
<1>5. ASSUME NEW r \in Runners, NEW v \in Videos, NEW p \in Phases, PersistFailure(r, v, p)
      PROVE Inv'
  BY <1>0, <1>5, PersistFailureInv
<1>6. ASSUME NEW r \in Runners, NEW v \in Videos, NEW p \in Phases, FailOnOverflow(r, v, p)
      PROVE Inv'
  <2>1. EndRun(r, "failed") /\ UNCHANGED <<rowVars, failVars>>
    BY <1>6 DEF FailOnOverflow
  <2> QED BY <1>0, <2>1, EndInv
<1>7. ASSUME NEW r \in Runners, Complete(r) PROVE Inv'
  <2>1. EndRun(r, RunStatus(r)) /\ UNCHANGED <<rowVars, failVars>>
        /\ stage[r] = "run" /\ page[r] = NoPage /\ (Ahead(r) = {} \/ limited[r])
    BY <1>7 DEF Complete, BetweenPages, OutOfRows
  <2>2. RunStatus(r) = "succeeded" /\ ~limited[r] => \A v \in owed[r] : Unshared(v) => v \in hashed
    <3> SUFFICES ASSUME ~failures[r], ~limited[r], NEW v \in owed[r], Unshared(v)
                 PROVE  v \in hashed
      BY DEF RunStatus
    <3> QED BY <2>1 DEF Inv, TypeOK, Progress, NoPage
  <2> QED BY <1>0, <2>1, <2>2, EndInv
<1>8. ASSUME NEW r \in Runners, Cancelled(r) PROVE Inv'
  <2>1. EndRun(r, "cancelled") /\ UNCHANGED <<rowVars, failVars>>
    BY <1>8 DEF Cancelled
  <2> QED BY <1>0, <2>1, EndInv
<1>9. ASSUME NEW r \in Runners, FailRun(r) PROVE Inv'
  <2>1. PICK s \in {"failed", "running"} : EndRun(r, s)
    BY <1>9 DEF FailRun
  <2>2. UNCHANGED <<rowVars, failVars>>
    BY <1>9 DEF FailRun
  <2> QED BY <1>0, <2>1, <2>2, EndInv
<1>10. ASSUME NEW r \in Runners, CancelJobs(r) PROVE Inv'
  BY <1>0, <1>10, QuietStep DEF CancelJobs, rowVars, failVars, Inv, CleanSlate, NotBackingOff
<1>11. ASSUME NEW v \in Videos, Register(v) PROVE Inv'
  BY <1>0, <1>11, QuietStep DEF Register, failVars, Inv, CleanSlate, NotBackingOff
<1>12. ASSUME NEW v \in Videos, ClearFailures(v) PROVE Inv'
  <2>1. CleanSlate' /\ \A u \in Videos : NotBackingOff(u) => NotBackingOff(u)'
    BY <1>12 DEF ClearFailures, ClearFailuresOf, rowVars, Inv, TypeOK, CleanSlate, NotBackingOff
  <2> QED BY <1>0, <1>12, <2>1, QuietStep DEF ClearFailures, rowVars
<1>13. CASE Tick
  <2>1. CleanSlate' /\ \A u \in Videos : NotBackingOff(u) => NotBackingOff(u)'
    BY <1>13 DEF Tick, rowVars, Inv, TypeOK, CleanSlate, NotBackingOff
  <2> QED BY <1>0, <1>13, <2>1, QuietStep DEF Tick, rowVars
<1>14. CASE UNCHANGED vars
  BY <1>0, <1>14, QuietStep DEF vars, rowVars, failVars, Inv, CleanSlate, NotBackingOff
<1> QED
  BY <1>1, <1>2, <1>3, <1>4, <1>5, <1>6, <1>7, <1>8, <1>9, <1>10, <1>11, <1>12, <1>13, <1>14
     DEF Next, Advance, Work

\* No failure row of a hashed video is left, as long as one box works on it: the
\* result of a row is persisted once, and its hash clears both phases (persist_one).
THEOREM PhashCleanSlate == Spec => []CleanSlate
<1>1. Inv => CleanSlate
  BY DEF Inv
<1> QED BY <1>1, InitInv, StepInv, PTL DEF Spec

\* succeeded means complete: no page boundary, no backoff and no box that works on
\* other videos makes an unlimited run skip one that was due as it started
\* (run_inner, run_status).
THEOREM PhashSucceededIsComplete == Spec => []SucceededIsComplete
<1>1. Inv => SucceededIsComplete
  BY DEF Inv
<1> QED BY <1>1, InitInv, StepInv, PTL DEF Spec

\* retry_count grows only on a row that has waited out its backoff, so a row of one
\* box is not charged twice in one window (record_row_failure_txn).
THEOREM PhashRetriesSpaced == Spec => RetriesSpaced
<1> DEFINE Spaced == \A v \in Videos, p \in Phases :
                       Unshared(v) /\ count'[v][p] > count[v][p] => NotBackingOff(v)
<1>1. Inv /\ [Next]_vars => [Spaced]_vars
  <2> SUFFICES ASSUME Inv, Next, NEW v \in Videos, NEW p \in Phases, Unshared(v),
                      count'[v][p] > count[v][p]
               PROVE  NotBackingOff(v)
    OBVIOUS
  <2>1. count[v][p] \in Nat
    BY PhashConstants DEF Inv, TypeOK
  <2>2. ASSUME NEW r \in Runners, NEW u \in Videos, NEW x \in Phases, PersistFailure(r, u, x)
        PROVE  NotBackingOff(v)
    <3>1. u = v
      BY <2>1, <2>2 DEF PersistFailure, Inv, TypeOK
    <3>2. page[r][u] # "out"
      BY <2>2 DEF PersistFailure, Phases
    <3> QED BY <3>1, <3>2 DEF Inv, Owned
  <2>3. ASSUME NEW u \in Videos, ClearFailuresOf(u) PROVE FALSE
    BY <2>1, <2>3 DEF ClearFailuresOf, Inv, TypeOK
  <2>4. ASSUME UNCHANGED count PROVE FALSE
    BY <2>1, <2>4
  <2> QED
    BY <2>2, <2>3, <2>4
       DEF Next, Start, Advance, Work, Fetch, Compute, PersistHash, FailOnOverflow, Complete,
           Cancelled, FailRun, CancelJobs, Register, ClearFailures, Tick, failVars
<1> QED BY <1>1, InitInv, StepInv, PTL DEF Spec, RetriesSpaced
=============================================================================
