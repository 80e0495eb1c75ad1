------------------------ MODULE ThumbBackfillProofs ------------------------
(***************************************************************************)
(* Proofs about ThumbBackfill for any videos, any number of permits and    *)
(* any number of faults and kills.                                         *)
(***************************************************************************)
EXTENDS ThumbBackfill, TLAPS

(* Type correctness, action by action. *)

LEMMA FaultType == TypeOK /\ Fault => faults' \in 0 .. MaxFaults
BY BackfillConstants DEF TypeOK, Fault

LEMMA UploadType ==
  /\ Frame \in {"first", "other"}
  /\ \A v \in Videos : UploadOf(v) \in [video : Videos, frame : {"first", "other"}]
BY DEF Frame, UploadOf

\* What is left of a run that ends early are uploads of its tasks.
LEMMA LeaveStraysType ==
  ASSUME LeaveStrays
  PROVE  /\ UNCHANGED <<present, staged>>
         /\ TypeOK => strays' \subseteq [video : Videos, frame : {"first", "other"}]
         /\ \A s \in strays' \ strays : s.video \in Videos /\ task[s.video] = "upload"
<1>1. PICK left \in SUBSET {UploadOf(v) : v \in InStage("upload")} : strays' = strays \cup left
  BY DEF LeaveStrays
<1>2. \A s \in left : \E v \in Videos : task[v] = "upload" /\ s = UploadOf(v)
  BY DEF InStage
<1>3. \A v \in Videos : UploadOf(v).video = v
  BY DEF UploadOf
<1>4. \A s \in strays' \ strays : s.video \in Videos /\ task[s.video] = "upload"
  BY <1>1, <1>2, <1>3
<1>5. TypeOK => strays' \subseteq [video : Videos, frame : {"first", "other"}]
  BY <1>1, <1>2, UploadType DEF TypeOK
<1> QED BY <1>4, <1>5 DEF LeaveStrays

LEMMA ManifestType ==
  ASSUME TypeOK, NEW done \in SUBSET Videos
  PROVE  LET Manifests == [completed : SUBSET Videos, tail : {"clean", "torn"}, parses : BOOLEAN]
         IN Appended(done) \in Manifests /\ HalfAppended \subseteq Manifests
BY DEF TypeOK, Appended, HalfAppended

LEMMA EndAsType ==
  ASSUME TypeOK, NEW code \in {"none", "success", "failure"}, EndAs(code)
  PROVE  /\ run' \in [at : {"idle", "load", "tasks"}, seek : BOOLEAN, execute : BOOLEAN]
         /\ run'.at = "idle"
         /\ exit' \in {"none", "success", "failure"}
         /\ task' \in [Videos -> Stages]
BY DEF TypeOK, EndAs, Stages

LEMMA StartRunType == TypeOK /\ StartRun => TypeOK'
<1> SUFFICES ASSUME TypeOK, StartRun PROVE TypeOK'
  OBVIOUS
<1>1. run' \in [at : {"idle", "load", "tasks"}, seek : BOOLEAN, execute : BOOLEAN]
  <2>1. PICK o \in Invocations : run' = [at |-> "load", seek |-> o.seek, execute |-> o.execute]
    BY DEF StartRun
  <2>2. o.seek \in BOOLEAN /\ o.execute \in BOOLEAN
    BY DEF Invocations
  <2> QED BY <2>1, <2>2
<1>2. listed' \in SUBSET Videos
  BY DEF StartRun, StagedKeys, TypeOK
<1> QED BY <1>1, <1>2 DEF StartRun, TypeOK, bucketVars, verifyVars

LEMMA LoadManifestType == TypeOK /\ LoadManifest => TypeOK'
<1> SUFFICES ASSUME TypeOK, LoadManifest PROVE TypeOK'
  OBVIOUS
<1>1. UNCHANGED <<present, staged, strays, manifest, listed, verdict, doubtful, faults>>
  BY DEF LoadManifest, bucketVars, verifyVars
<1>2. CASE Loads /\ run.execute
  <2>1. run' = [run EXCEPT !.at = "tasks"] /\ exit' = exit /\ planned' = Plan(listed)
        /\ task' = [v \in Videos |-> IF v \in Plan(listed) THEN "queued" ELSE "none"]
    BY <1>2 DEF LoadManifest
  <2>2. run' \in [at : {"idle", "load", "tasks"}, seek : BOOLEAN, execute : BOOLEAN]
    BY <2>1 DEF TypeOK
  <2>3. task' \in [Videos -> Stages] /\ planned' \in SUBSET Videos
    BY <2>1 DEF TypeOK, Plan, Stages
  <2> QED BY <1>1, <2>1, <2>2, <2>3 DEF TypeOK
<1>3. CASE ~(Loads /\ run.execute)
  <2>1. EndAs(IF Loads THEN exit ELSE "failure") /\ planned' = planned
    BY <1>3 DEF LoadManifest
  <2> QED BY <1>1, <2>1, EndAsType DEF TypeOK
<1> QED BY <1>2, <1>3

LEMMA TaskStepType == ASSUME TypeOK, NEW v \in Videos, TaskStep(v) PROVE TypeOK'
<1>1. task' \in [Videos -> Stages]
  BY DEF TaskStep, TakePermit, Download, Decode, Upload, Record, TaskTo, TypeOK, Stages
<1>2. faults' \in 0 .. MaxFaults
  BY FaultType DEF TaskStep, TakePermit, Download, Decode, Upload, Record, TypeOK
<1>3. /\ staged' \in [Videos -> {"none", "first", "other", "cut"}]
      /\ strays' \subseteq [video : Videos, frame : {"first", "other"}]
  BY UploadType DEF TaskStep, TakePermit, Download, Decode, Upload, Record, TypeOK, bucketVars
<1>4. manifest' \in [completed : SUBSET Videos, tail : {"clean", "torn"}, parses : BOOLEAN]
  <2>1. CASE Record(v)
    <3>1. Completes(v) \in SUBSET Videos
      BY DEF Completes
    <3>2. manifest' = Appended(Completes(v)) \/ manifest' \in HalfAppended
      BY <2>1 DEF Record
    <3> QED BY <3>1, <3>2, ManifestType
  <2>2. CASE ~Record(v)
    BY <2>2 DEF TaskStep, TakePermit, Download, Decode, Upload, TypeOK
  <2> QED BY <2>1, <2>2
<1>5. UNCHANGED <<present, run, listed, exit, planned, verdict, doubtful>>
  BY DEF TaskStep, TakePermit, Download, Decode, Upload, Record, bucketVars, verifyVars
<1> QED BY <1>1, <1>2, <1>3, <1>4, <1>5 DEF TypeOK

LEMMA EndRunType == TypeOK /\ EndRun => TypeOK'
<1> SUFFICES ASSUME TypeOK, EndRun PROVE TypeOK'
  OBVIOUS
<1>1. ExitCode \in {"none", "success", "failure"}
  BY DEF ExitCode
<1> QED BY <1>1, EndAsType DEF EndRun, TypeOK, bucketVars, verifyVars

LEMMA AbortRunType == TypeOK /\ AbortRun => TypeOK'
BY EndAsType, LeaveStraysType DEF AbortRun, TypeOK, verifyVars

LEMMA KillType == TypeOK /\ Kill => TypeOK'
<1> SUFFICES ASSUME TypeOK, Kill PROVE TypeOK'
  OBVIOUS
<1>1. manifest' \in [completed : SUBSET Videos, tail : {"clean", "torn"}, parses : BOOLEAN]
  BY ManifestType DEF Kill, TypeOK
<1> QED BY <1>1, EndAsType, LeaveStraysType, FaultType DEF Kill, TypeOK, verifyVars

LEMMA VerifyType == TypeOK /\ Verify => TypeOK'
<1> SUFFICES ASSUME TypeOK, Verify PROVE TypeOK'
  OBVIOUS
<1>1. verdict' \in [Videos -> {"none", "PASS", "FAIL", "SKIP"}] /\ doubtful' \subseteq Videos
  BY DEF Verify, Verdict, StagedKeys, TypeOK
<1>2. faults' \in 0 .. MaxFaults
  BY FaultType DEF Verify, TypeOK
<1> QED BY <1>1, <1>2 DEF Verify, TypeOK, bucketVars, runVars

LEMMA SeedType == TypeOK /\ Seed => TypeOK'
BY DEF Seed, TypeOK, runVars, verifyVars

LEMMA LandType == ASSUME TypeOK, NEW s \in strays, Land(s) PROVE TypeOK'
<1>1. staged' \in [Videos -> {"none", "first", "other", "cut"}]
  BY DEF Land, TypeOK
<1>2. strays' \subseteq strays
  BY DEF Land
<1> QED BY <1>1, <1>2 DEF Land, TypeOK, runVars, verifyVars

LEMMA StepTypeOK == TypeOK /\ [Next]_vars => TypeOK'
<1> SUFFICES ASSUME TypeOK, [Next]_vars PROVE TypeOK'
  OBVIOUS
<1>1. CASE Next
  BY <1>1, StartRunType, LoadManifestType, TaskStepType, EndRunType, AbortRunType, KillType,
     VerifyType, SeedType, LandType DEF Next, RunStep
<1>2. CASE UNCHANGED vars
  BY <1>2 DEF vars, bucketVars, runVars, verifyVars, TypeOK
<1> QED BY <1>1, <1>2

LEMMA InitTypeOK == Init => TypeOK
BY BackfillConstants DEF Init, TypeOK, Stages

\* The variables of the tool keep their types.
THEOREM BackfillTypeCorrect == Spec => []TypeOK
BY InitTypeOK, StepTypeOK, PTL DEF Spec

(* The invariant: what each stage of a run knows of bucket and manifest. *)

InFlight == {"queued", "download", "downloaded", "decode", "decoded", "upload"}

\* A Completed line is written behind its upload, and nothing deletes.
RecordedStaged == \A v \in manifest.completed : staged[v] # "none"
UploadedStaged == \A v \in Videos : task[v] \in {"good", "completed"} => staged[v] # "none"

\* Videos that verify has passed with no stray of theirs about.  No task is made
\* for them, for they are listed, and so no stray comes up later.
Settled == {v \in Videos \ doubtful : verdict[v] = "PASS"}
SettledIsFirst == \A v \in Settled : staged[v] = "first"
SettledNoStray == \A s \in strays : s.video \notin Settled
SettledNoTask == \A v \in Settled : task[v] \notin InFlight
SettledListed == run.at = "load" => \A v \in Settled : v \in present => v \in listed

\* Tasks are those of the run under way, and each planned video has one.
IdleNoTasks == run.at # "tasks" => \A v \in Videos : task[v] = "none"
PlannedHaveTasks == run.at = "tasks" => \A v \in planned : task[v] # "none"
SuccessIsStaged ==
  run.at # "tasks" /\ exit = "success" => \A v \in planned : staged[v] # "none"

BucketInv == RecordedStaged /\ UploadedStaged /\ SuccessIsStaged
SettledInv == SettledIsFirst /\ SettledNoStray /\ SettledNoTask /\ SettledListed
TaskInv == IdleNoTasks /\ PlannedHaveTasks

Inv == BucketInv /\ SettledInv /\ TaskInv

LEMMA InitInv == Init => Inv
BY DEF Init, Inv, BucketInv, SettledInv, TaskInv, RecordedStaged, UploadedStaged,
   SuccessIsStaged, Settled, SettledIsFirst, SettledNoStray, SettledNoTask, SettledListed,
   IdleNoTasks, PlannedHaveTasks

LEMMA StartRunInv == TypeOK /\ Inv /\ StartRun => Inv'
<1> SUFFICES ASSUME TypeOK, Inv, StartRun PROVE Inv'
  OBVIOUS
<1>1. /\ run.at = "idle" /\ run'.at = "load" /\ listed' = StagedKeys
      /\ UNCHANGED <<present, staged, strays, manifest, task, exit, planned, verdict, doubtful>>
  BY DEF StartRun, Invocations, bucketVars, verifyVars
<1>2. SettledListed'
  BY <1>1 DEF Inv, SettledInv, SettledIsFirst, SettledListed, Settled, StagedKeys
<1>3. BucketInv' /\ TaskInv'
  BY <1>1 DEF Inv, BucketInv, TaskInv, RecordedStaged, UploadedStaged, SuccessIsStaged,
     IdleNoTasks, PlannedHaveTasks
<1> QED BY <1>1, <1>2, <1>3 DEF Inv, SettledInv, Settled, SettledIsFirst, SettledNoStray,
     SettledNoTask

\* Only planned videos get a task, and they are not listed.
LEMMA LoadManifestInv == TypeOK /\ Inv /\ LoadManifest => Inv'
<1> SUFFICES ASSUME TypeOK, Inv, LoadManifest PROVE Inv'
  OBVIOUS
<1>1. /\ run.at = "load"
      /\ UNCHANGED <<present, staged, strays, manifest, listed, verdict, doubtful>>
  BY DEF LoadManifest, bucketVars, verifyVars
<1>2. Settled' = Settled /\ SettledIsFirst' /\ SettledNoStray'
  BY <1>1 DEF Inv, SettledInv, Settled, SettledIsFirst, SettledNoStray
<1>3. CASE Loads /\ run.execute
  <2>1. /\ run' = [run EXCEPT !.at = "tasks"] /\ planned' = Plan(listed)
        /\ task' = [v \in Videos |-> IF v \in Plan(listed) THEN "queued" ELSE "none"]
    BY <1>3 DEF LoadManifest
  <2>2. run'.at = "tasks"
    BY <2>1 DEF TypeOK
  <2>3. \A v \in Settled : v \in Videos /\ v \notin Plan(listed)
    BY <1>1 DEF Plan, Inv, SettledInv, SettledListed, Settled
  <2>4. SettledNoTask' /\ SettledListed'
    BY <1>2, <2>1, <2>2, <2>3 DEF SettledNoTask, SettledListed, InFlight
  <2>5. BucketInv' /\ TaskInv'
    BY <1>1, <2>1, <2>2 DEF Inv, BucketInv, TaskInv, RecordedStaged, UploadedStaged,
       SuccessIsStaged, IdleNoTasks, PlannedHaveTasks, Plan, TypeOK
  <2> QED BY <1>2, <2>4, <2>5 DEF Inv, SettledInv
<1>4. CASE ~(Loads /\ run.execute)
  <2>1. /\ run'.at = "idle" /\ planned' = planned
        /\ task' = [v \in Videos |-> "none"]
        /\ exit' = exit \/ exit' = "failure"
    BY <1>4 DEF LoadManifest, EndAs, TypeOK
  <2>2. SettledNoTask' /\ SettledListed'
    BY <1>2, <2>1 DEF SettledNoTask, SettledListed, Settled, InFlight
  <2>3. BucketInv' /\ TaskInv'
    BY <1>1, <2>1 DEF Inv, BucketInv, TaskInv, RecordedStaged, UploadedStaged,
       SuccessIsStaged, IdleNoTasks, PlannedHaveTasks
  <2> QED BY <1>2, <2>2, <2>3 DEF Inv, SettledInv
<1> QED BY <1>3, <1>4

LEMMA TasksRun ==
  ASSUME Inv, NEW v \in Videos, task[v] # "none"
  PROVE  run.at = "tasks"
BY DEF Inv, TaskInv, IdleNoTasks

\* A step of a task that leaves bucket and manifest alone.
LEMMA QuietTaskInv ==
  ASSUME TypeOK, Inv, NEW v \in Videos, NEW to \in InFlight \cup {"bad"},
         task[v] \in InFlight, task' = [task EXCEPT ![v] = to],
         UNCHANGED <<present, staged, strays, manifest, run, listed, exit, planned, verdict,
                     doubtful>>
  PROVE  Inv'
<1>1. run.at = "tasks"
  BY TasksRun DEF InFlight
<1>2. \A w \in Videos : task'[w] = IF w = v THEN to ELSE task[w]
  BY DEF TypeOK
<1>3. Settled' = Settled /\ v \notin Settled
  BY DEF Settled, Inv, SettledInv, SettledNoTask
<1>4. SettledInv'
  BY <1>1, <1>2, <1>3 DEF Inv, SettledInv, SettledIsFirst, SettledNoStray, SettledNoTask,
     SettledListed, Settled
<1>5. BucketInv' /\ TaskInv'
  BY <1>1, <1>2 DEF Inv, BucketInv, TaskInv, RecordedStaged, UploadedStaged, SuccessIsStaged,
     IdleNoTasks, PlannedHaveTasks, InFlight, TypeOK
<1> QED BY <1>4, <1>5 DEF Inv

LEMMA UploadInv == ASSUME TypeOK, Inv, NEW v \in Videos, Upload(v) PROVE Inv'
<1>1. /\ task[v] = "upload"
      /\ UNCHANGED <<present, manifest, run, listed, exit, planned, verdict, doubtful>>
  BY DEF Upload, TaskTo, verifyVars
<1>2. run.at = "tasks"
  BY <1>1, TasksRun
<1>3. Settled' = Settled /\ v \notin Settled
  BY <1>1 DEF Settled, Inv, SettledInv, SettledNoTask, InFlight
<1>4. PICK to \in {"good", "bad"} : task' = [task EXCEPT ![v] = to]
  BY DEF Upload, TaskTo
<1>5. /\ \A w \in Videos \ {v} : staged'[w] = staged[w] /\ task'[w] = task[w]
      /\ task'[v] = to
  BY <1>4 DEF Upload, TypeOK
<1>6. staged'[v] = IF to = "good" THEN Frame ELSE staged[v]
  BY <1>4, <1>5 DEF Upload, TaskTo, TypeOK
<1>7. \A s \in strays' : s \in strays \/ s.video = v
  BY DEF Upload, UploadOf
<1>8. SettledInv'
  BY <1>1, <1>2, <1>3, <1>5, <1>7 DEF Inv, SettledInv, SettledIsFirst, SettledNoStray,
     SettledNoTask, SettledListed, Settled
<1>9. \A w \in Videos : staged[w] # "none" => staged'[w] # "none"
  BY <1>5, <1>6, UploadType
<1>10. BucketInv'
  BY <1>1, <1>2, <1>5, <1>6, <1>9, UploadType DEF Inv, BucketInv, RecordedStaged,
     UploadedStaged, SuccessIsStaged, TypeOK
<1>11. TaskInv'
  BY <1>1, <1>2, <1>5 DEF Inv, TaskInv, IdleNoTasks, PlannedHaveTasks, TypeOK
<1> QED BY <1>8, <1>10, <1>11 DEF Inv

\* A half-written line says nothing, a whole one at most what the task has done.
LEMMA RecordInv == ASSUME TypeOK, Inv, NEW v \in Videos, Record(v) PROVE Inv'
<1>1. /\ task[v] \in {"good", "bad"}
      /\ UNCHANGED <<present, staged, strays, run, listed, exit, planned, verdict, doubtful>>
  BY DEF Record, bucketVars, verifyVars
<1>2. run.at = "tasks"
  BY <1>1, TasksRun
<1>3. manifest'.completed \subseteq manifest.completed \cup Completes(v)
  BY DEF Record, Appended, HalfAppended, TypeOK
<1>4. \A w \in Completes(v) : w \in Videos /\ staged[w] # "none"
  BY DEF Completes, Inv, BucketInv, UploadedStaged
<1>5. RecordedStaged'
  BY <1>1, <1>3, <1>4 DEF Inv, BucketInv, RecordedStaged
<1>6. PICK to \in {"completed", "failed", "error"} :
        /\ task' = [task EXCEPT ![v] = to]
        /\ to = "completed" => task[v] = "good"
  BY <1>1 DEF Record
<1>7. \A w \in Videos : task'[w] = IF w = v THEN to ELSE task[w]
  BY <1>6 DEF TypeOK
<1>8. BucketInv' /\ TaskInv'
  BY <1>1, <1>2, <1>5, <1>6, <1>7 DEF Inv, BucketInv, TaskInv, UploadedStaged,
     SuccessIsStaged, IdleNoTasks, PlannedHaveTasks, TypeOK
<1>9. SettledInv'
  BY <1>1, <1>2, <1>7 DEF Inv, SettledInv, SettledIsFirst, SettledNoStray, SettledNoTask,
     SettledListed, Settled, InFlight
<1> QED BY <1>8, <1>9 DEF Inv

LEMMA TaskStepInv == ASSUME TypeOK, Inv, NEW v \in Videos, TaskStep(v) PROVE Inv'
<1>1. CASE TakePermit(v, "queued", "download") \/ TakePermit(v, "downloaded", "decode")
           \/ TakePermit(v, "decoded", "upload")
  BY <1>1, QuietTaskInv DEF TakePermit, InFlight, bucketVars, verifyVars
<1>2. CASE Download(v) \/ Decode(v)
  BY <1>2, QuietTaskInv DEF Download, Decode, TaskTo, InFlight, bucketVars, verifyVars
<1> QED BY <1>1, <1>2, UploadInv, RecordInv DEF TaskStep

\* A run that ends leaves strays of its own tasks at most, of videos that are not
\* settled.
LEMMA EndingInv ==
  ASSUME TypeOK, Inv, NEW code \in {"success", "failure"}, EndAs(code),
         UNCHANGED <<present, staged, listed, planned, verdict, doubtful>>,
         \A s \in strays' \ strays : s.video \in Videos /\ task[s.video] = "upload",
         manifest'.completed = manifest.completed,
         code = "success" => \A v \in planned : staged[v] # "none"
  PROVE  Inv'
<1>1. run'.at = "idle" /\ exit' = code /\ task' = [v \in Videos |-> "none"]
  BY DEF EndAs, TypeOK
<1>2. SettledInv'
  BY <1>1 DEF Inv, SettledInv, SettledIsFirst, SettledNoStray, SettledNoTask, SettledListed,
     Settled, InFlight
<1>3. BucketInv' /\ TaskInv'
  BY <1>1 DEF Inv, BucketInv, TaskInv, RecordedStaged, UploadedStaged, SuccessIsStaged,
     IdleNoTasks, PlannedHaveTasks
<1> QED BY <1>2, <1>3 DEF Inv

LEMMA EndRunInv == TypeOK /\ Inv /\ EndRun => Inv'
<1> SUFFICES ASSUME TypeOK, Inv, EndRun PROVE Inv'
  OBVIOUS
<1>1. ExitCode = "success" => \A v \in planned : staged[v] # "none"
  BY DEF EndRun, ExitCode, InStage, Inv, TaskInv, BucketInv, PlannedHaveTasks, UploadedStaged,
     TypeOK
<1>2. ExitCode \in {"success", "failure"}
  BY DEF ExitCode
<1> QED BY <1>1, <1>2, EndingInv DEF EndRun, bucketVars, verifyVars

LEMMA AbortRunInv == TypeOK /\ Inv /\ AbortRun => Inv'
BY EndingInv, LeaveStraysType DEF AbortRun, verifyVars

LEMMA KillInv == TypeOK /\ Inv /\ Kill => Inv'
<1> SUFFICES ASSUME TypeOK, Inv, Kill PROVE Inv'
  OBVIOUS
<1>1. manifest'.completed = manifest.completed
  BY DEF Kill, HalfAppended, TypeOK
<1> QED BY <1>1, EndingInv, LeaveStraysType DEF Kill, verifyVars

\* A stray lands on a video that is not settled, and un-stages nothing.
LEMMA LandInv == ASSUME TypeOK, Inv, NEW s \in strays, Land(s) PROVE Inv'
<1>1. /\ s.video \in Videos /\ s.video \notin Settled
      /\ s.frame \in {"first", "other"}
  BY DEF TypeOK, Inv, SettledInv, SettledNoStray
<1>2. /\ strays' \subseteq strays
      /\ UNCHANGED <<present, manifest, run, listed, task, exit, planned, verdict, doubtful>>
  BY DEF Land, runVars, verifyVars
<1>3. /\ \A w \in Videos \ {s.video} : staged'[w] = staged[w]
      /\ staged'[s.video] \in {staged[s.video], s.frame, "cut"}
  BY <1>1 DEF Land, TypeOK
<1>4. \A w \in Videos : staged[w] # "none" => staged'[w] # "none"
  BY <1>1, <1>3
<1>5. BucketInv' /\ TaskInv'
  BY <1>2, <1>4 DEF Inv, BucketInv, TaskInv, RecordedStaged, UploadedStaged, SuccessIsStaged,
     IdleNoTasks, PlannedHaveTasks, TypeOK
<1>6. SettledInv'
  BY <1>1, <1>2, <1>3 DEF Inv, SettledInv, SettledIsFirst, SettledNoStray, SettledNoTask,
     SettledListed, Settled
<1> QED BY <1>5, <1>6 DEF Inv

\* What verify passes is settled if no stray of it is about; no task is, either.
LEMMA VerifyInv == TypeOK /\ Inv /\ Verify => Inv'
<1> SUFFICES ASSUME TypeOK, Inv, Verify PROVE Inv'
  OBVIOUS
<1>1. /\ run.at = "idle"
      /\ UNCHANGED <<present, staged, strays, manifest, run, listed, task, exit, planned>>
  BY DEF Verify, bucketVars, runVars
<1>2. \A v \in Settled' :
         v \in Videos /\ (v \in Settled \/ (staged[v] = "first" /\ v \notin Straying))
  BY DEF Verify, Verdict, Settled, TypeOK
<1>3. SettledInv'
  BY <1>1, <1>2 DEF Inv, SettledInv, TaskInv, IdleNoTasks, SettledIsFirst, SettledNoStray,
     SettledNoTask, SettledListed, Straying, InFlight
<1>4. BucketInv' /\ TaskInv'
  BY <1>1 DEF Inv, BucketInv, TaskInv, RecordedStaged, UploadedStaged, SuccessIsStaged,
     IdleNoTasks, PlannedHaveTasks
<1> QED BY <1>3, <1>4 DEF Inv

LEMMA SeedInv == TypeOK /\ Inv /\ Seed => Inv'
<1> SUFFICES ASSUME TypeOK, Inv, Seed PROVE Inv'
  OBVIOUS
<1>1. /\ run.at = "idle"
      /\ UNCHANGED <<staged, strays, manifest, run, listed, task, exit, planned, verdict, doubtful>>
  BY DEF Seed, runVars, verifyVars
<1>2. SettledInv'
  BY <1>1 DEF Inv, SettledInv, SettledIsFirst, SettledNoStray, SettledNoTask, SettledListed,
     Settled
<1>3. BucketInv' /\ TaskInv'
  BY <1>1 DEF Inv, BucketInv, TaskInv, RecordedStaged, UploadedStaged, SuccessIsStaged,
     IdleNoTasks, PlannedHaveTasks
<1> QED BY <1>2, <1>3 DEF Inv

LEMMA StepInv == TypeOK /\ Inv /\ [Next]_vars => Inv'
<1> SUFFICES ASSUME TypeOK, Inv, [Next]_vars PROVE Inv'
  OBVIOUS
<1>1. CASE Next
  BY <1>1, StartRunInv, LoadManifestInv, TaskStepInv, EndRunInv, AbortRunInv, KillInv,
     VerifyInv, SeedInv, LandInv DEF Next, RunStep
<1>2. CASE UNCHANGED vars
  <2>1. BucketInv' /\ TaskInv'
    BY <1>2 DEF vars, bucketVars, runVars, Inv, BucketInv, TaskInv, RecordedStaged,
       UploadedStaged, SuccessIsStaged, IdleNoTasks, PlannedHaveTasks
  <2>2. SettledInv'
    BY <1>2 DEF vars, bucketVars, runVars, verifyVars, Inv, SettledInv, SettledIsFirst,
       SettledNoStray, SettledNoTask, SettledListed, Settled
  <2> QED BY <2>1, <2>2 DEF Inv
<1> QED BY <1>1, <1>2

LEMMA BackfillInv == Spec => [](TypeOK /\ Inv)
BY InitTypeOK, InitInv, StepTypeOK, StepInv, PTL DEF Spec

\* The count of audit and the plan of the next run agree, wherever tasks failed
\* and processes were killed: a line of the manifest that says Completed is true.
THEOREM BackfillAuditMatchesPlan == Spec => []AuditMatchesPlan
<1>1. TypeOK /\ Inv => AuditMatchesPlan
  BY DEF TypeOK, Inv, BucketInv, RecordedStaged, AuditMatchesPlan, Remaining, Plan, StagedKeys
<1> QED BY <1>1, BackfillInv, PTL

\* A thumbnail that verify has passed is not overwritten, by no run and by no
\* upload that has outlived its run: tasks are only made for videos without a
\* thumbnail, strays only come from tasks, and those under way as verify looked
\* are in doubtful.
THEOREM BackfillVerifiedStays == Spec => []VerifiedStays
<1>1. TypeOK /\ Inv => VerifiedStays
  BY DEF Inv, SettledInv, SettledIsFirst, Settled, VerifiedStays
<1> QED BY <1>1, BackfillInv, PTL

\* A run whose exit code is success has staged all that it planned.
THEOREM BackfillSuccessIsComplete == Spec => []SuccessIsComplete
<1>1. TypeOK /\ Inv => SuccessIsComplete
  BY DEF Inv, BucketInv, SuccessIsStaged, SuccessIsComplete
<1> QED BY <1>1, BackfillInv, PTL
=============================================================================
