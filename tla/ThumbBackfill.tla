---------------------------- MODULE ThumbBackfill ----------------------------
(***************************************************************************)
(* backfill-thumbnails, the operators' tool that stages a first-frame      *)
(* thumbnail beside every historical video (crates/backfill-thumbnails).   *)
(* An invocation lists the bucket, loads the manifest of earlier runs,     *)
(* plans what is left and works it off in one task per video; tasks share  *)
(* three semaphores and append their outcome to the manifest, a file of    *)
(* JSON lines that is only ever appended to.  The process may be killed at *)
(* any point, in the middle of a line too, and is then invoked again.      *)
(* Uploads do not end with their task: an uplink process whose task failed,*)
(* was aborted or was killed goes on by itself, and stores what it has got.*)
(***************************************************************************)
EXTENDS Naturals, FiniteSets

CONSTANTS Videos,     \* .mp4 objects under the prefix, modified before the cutoff
          Broken,     \* those ffmpeg cannot take a frame from
          Downloads,  \* --download-concurrency
          Decoders,   \* --ffmpeg-concurrency
          Uploads,    \* --upload-concurrency
          MaxFaults   \* bound: operations that fail, and kills

ASSUME BackfillConstants ==
  /\ Broken \subseteq Videos
  /\ {Downloads, Decoders, Uploads} \subseteq Nat
  /\ MaxFaults \in Nat

VARIABLES
  present,   \* the videos in the bucket
  staged,    \* the frame in each staged thumbnail, "cut" off, or "none"
  strays,    \* uploads that go on without their task
  manifest,  \* what the file says, how it ends, and whether it parses
  run,       \* the invocation under way: its stage and its options
  listed,    \* the staged thumbnails it has seen in the bucket
  task,      \* where the task of each video stands
  exit,      \* exit code of the last executed run
  planned,   \* what that run planned to process
  verdict,   \* the last line verify wrote about each video
  doubtful,  \* history: the videos whose last line was written beside a stray
  faults     \* failures so far

bucketVars == <<present, staged, strays>>
runVars == <<run, listed, task, exit, planned>>
verifyVars == <<verdict, doubtful>>
vars == <<bucketVars, manifest, runVars, verifyVars, faults>>

\* What clap makes of the command line: writes need --execute, and only run
\* takes it; a seek stages another frame than the first.
Invocations ==
  [command : {"run"}, execute : BOOLEAN, seek : BOOLEAN]
    \cup [command : {"verify", "seed-test-data"}, execute : {FALSE}, seek : {FALSE}]

Init ==
  /\ present \in SUBSET Videos
  /\ staged = [v \in Videos |-> "none"]
  /\ strays = {}
  /\ manifest = [completed |-> {}, tail |-> "clean", parses |-> TRUE]
  /\ run = [at |-> "idle", seek |-> FALSE, execute |-> FALSE]
  /\ listed = {}
  /\ task = [v \in Videos |-> "none"]
  /\ exit = "none"
  /\ planned = {}
  /\ verdict = [v \in Videos |-> "none"]
  /\ doubtful = {}
  /\ faults = 0

Fault == faults < MaxFaults /\ faults' = faults + 1

----------------------------------------------------------------------------
(* The manifest. *)

\* append_jsonl: the line goes where the file ends, be it in a torn line.
Appended(completes) ==
  IF manifest.tail = "torn"
    THEN [manifest EXCEPT !.tail = "clean", !.parses = FALSE]
    ELSE [manifest EXCEPT !.completed = @ \cup completes]

\* The write fails, or the process is killed in it: nothing, or half a line.
HalfAppended ==
  {manifest,
   IF manifest.tail = "torn" THEN manifest ELSE [manifest EXCEPT !.tail = "torn"]}

\* parse_manifest_entries: only the last line may be torn.
MutantTornFails == manifest.parses /\ manifest.tail = "clean"
Loads == manifest.parses

----------------------------------------------------------------------------
(* run: list, load, plan. *)

StagedKeys == {v \in present : staged[v] # "none"}

\* build_run_plan: what is in the bucket wins over what the manifest says.
MutantForgetsRemote(remote) == {v \in present : v \notin manifest.completed}
Plan(remote) == {v \in present : v \notin remote /\ v \notin manifest.completed}

\* execute_audit: remaining work is counted from the bucket alone.
Remaining == {v \in present : v \notin StagedKeys}

StartRun ==
  /\ run.at = "idle"
  /\ \E o \in Invocations :
       /\ o.command = "run"
       /\ run' = [at |-> "load", seek |-> o.seek, execute |-> o.execute]
  /\ listed' = StagedKeys
  /\ UNCHANGED <<bucketVars, manifest, task, exit, planned, verifyVars, faults>>

EndAs(code) ==
  /\ run' = [run EXCEPT !.at = "idle"]
  /\ exit' = code
  /\ task' = [v \in Videos |-> "none"]

\* A manifest that does not parse ends the run before it has done anything.
LoadManifest ==
  /\ run.at = "load"
  /\ IF Loads /\ run.execute
       THEN /\ run' = [run EXCEPT !.at = "tasks"]
            /\ planned' = Plan(listed)
            /\ task' = [v \in Videos |-> IF v \in Plan(listed) THEN "queued" ELSE "none"]
            /\ exit' = exit
       ELSE /\ EndAs(IF Loads THEN exit ELSE "failure")
            /\ planned' = planned
  /\ UNCHANGED <<bucketVars, manifest, listed, verifyVars, faults>>

----------------------------------------------------------------------------
(* A task: download, take the frame, upload, record. *)

InStage(stage) == {v \in Videos : task[v] = stage}

Permits(stage) ==
  CASE stage = "download" -> Downloads
    [] stage = "decode" -> Decoders
    [] stage = "upload" -> Uploads

\* acquire_owned: a permit of the next stage, the last one's being dropped.
TakePermit(v, from, stage) ==
  /\ task[v] = from
  /\ Cardinality(InStage(stage)) < Permits(stage)
  /\ task' = [task EXCEPT ![v] = stage]
  /\ UNCHANGED <<bucketVars, manifest, run, listed, exit, planned, verifyVars, faults>>

TaskTo(v, from, to) == task[v] = from /\ task' = [task EXCEPT ![v] = to]

Download(v) ==
  /\ \/ TaskTo(v, "download", "downloaded") /\ UNCHANGED faults
     \/ TaskTo(v, "download", "bad") /\ Fault
  /\ UNCHANGED <<bucketVars, manifest, run, listed, exit, planned, verifyVars>>

Decode(v) ==
  /\ \/ v \notin Broken /\ TaskTo(v, "decode", "decoded") /\ UNCHANGED faults
     \/ v \in Broken /\ TaskTo(v, "decode", "bad") /\ UNCHANGED faults
     \/ v \notin Broken /\ TaskTo(v, "decode", "bad") /\ Fault
  /\ UNCHANGED <<bucketVars, manifest, run, listed, exit, planned, verifyVars>>

Frame == IF run.seek THEN "other" ELSE "first"
UploadOf(v) == [video |-> v, frame |-> Frame]

\* upload_bytes: a good one waits for uplink to exit; one that fails leaves a
\* child that may not be done, for nothing kills it.
Upload(v) ==
  /\ \/ TaskTo(v, "upload", "good") /\ UNCHANGED <<strays, faults>>
        /\ staged' = [staged EXCEPT ![v] = Frame]
     \/ TaskTo(v, "upload", "bad") /\ Fault /\ UNCHANGED staged
        /\ strays' \in {strays, strays \cup {UploadOf(v)}}
  /\ UNCHANGED <<present, manifest, run, listed, exit, planned, verifyVars>>

\* A stray lands, whenever that is, or comes to nothing: whole, or as the part
\* it had read when its pipe was closed.  An equal one may still be under way.
Land(s) ==
  /\ \E content \in {staged[s.video], s.frame, "cut"} :
       staged' = [staged EXCEPT ![s.video] = content]
  /\ strays' \in {strays, strays \ {s}}
  /\ UNCHANGED <<present, manifest, runVars, verifyVars, faults>>

\* A Completed or a Failed line; a task that cannot write it fails the run.
MutantRecordsFailures(v) == {v}
Completes(v) == IF task[v] = "good" THEN {v} ELSE {}

Record(v) ==
  /\ task[v] \in {"good", "bad"}
  /\ \/ /\ manifest' = Appended(Completes(v))
        /\ task' = [task EXCEPT ![v] = IF task[v] = "good" THEN "completed" ELSE "failed"]
        /\ UNCHANGED faults
     \/ /\ manifest' \in HalfAppended \cup {Appended(Completes(v))}
        /\ task' = [task EXCEPT ![v] = "error"]
        /\ Fault
  /\ UNCHANGED <<bucketVars, run, listed, exit, planned, verifyVars>>

----------------------------------------------------------------------------
(* The end of a run. *)

\* join_next until all tasks are done; main fails if any of them has failed.
ExitCode == IF InStage("failed") = {} THEN "success" ELSE "failure"

EndRun ==
  /\ run.at = "tasks"
  /\ \A v \in Videos : task[v] \in {"none", "completed", "failed"}
  /\ EndAs(ExitCode)
  /\ UNCHANGED <<bucketVars, manifest, listed, planned, verifyVars, faults>>

\* The uploads whose tasks end under them go on, or end too.
LeaveStrays ==
  /\ \E left \in SUBSET {UploadOf(v) : v \in InStage("upload")} : strays' = strays \cup left
  /\ UNCHANGED <<present, staged>>

\* result??: the first task that could not record ends the run, and dropping
\* the JoinSet aborts the others where they stand.
AbortRun ==
  /\ run.at = "tasks"
  /\ InStage("error") # {}
  /\ LeaveStrays
  /\ EndAs("failure")
  /\ UNCHANGED <<manifest, listed, planned, verifyVars, faults>>

\* The process is killed, maybe in the middle of a line.
Kill ==
  /\ run.at # "idle"
  /\ Fault
  /\ LeaveStrays
  /\ IF InStage("good") \cup InStage("bad") # {}
       THEN manifest' \in HalfAppended
       ELSE manifest' = manifest
  /\ EndAs("failure")
  /\ UNCHANGED <<listed, planned, verifyVars>>

----------------------------------------------------------------------------
(* The other commands. *)

\* execute_verify of a sample: each staged thumbnail against a fresh first frame
\* of its video; what cannot be fetched or decoded is skipped.
Verdict(v) ==
  IF v \in Broken \/ staged[v] = "cut" THEN "SKIP"
  ELSE IF staged[v] = "first" THEN "PASS" ELSE "FAIL"

Straying == {s.video : s \in strays}

Verify ==
  /\ run.at = "idle"
  /\ \/ /\ \E sample \in SUBSET StagedKeys :
             /\ verdict' = [v \in Videos |-> IF v \in sample THEN Verdict(v) ELSE verdict[v]]
             /\ doubtful' = (doubtful \ sample) \cup (sample \cap Straying)
        /\ UNCHANGED faults
     \/ /\ \E v \in StagedKeys : verdict' = [verdict EXCEPT ![v] = "SKIP"]
        /\ Fault /\ UNCHANGED doubtful
  /\ UNCHANGED <<bucketVars, manifest, runVars>>

\* execute_seed_test_data: a video, and a legacy thumbnail under another name.
Seed ==
  /\ run.at = "idle"
  /\ \E v \in Videos \ present : present' = present \cup {v}
  /\ UNCHANGED <<staged, strays, manifest, runVars, verifyVars, faults>>

----------------------------------------------------------------------------

TaskStep(v) ==
  \/ TakePermit(v, "queued", "download") \/ Download(v)
  \/ TakePermit(v, "downloaded", "decode") \/ Decode(v)
  \/ TakePermit(v, "decoded", "upload") \/ Upload(v)
  \/ Record(v)

RunStep == LoadManifest \/ EndRun \/ AbortRun

Next ==
  \/ StartRun \/ RunStep
  \/ \E v \in Videos : TaskStep(v)
  \/ \E s \in strays : Land(s)
  \/ Kill \/ Verify \/ Seed

Spec == Init /\ [][Next]_vars

\* The runtime drives every task, and the operator executes again as long as
\* the audit reports work.
StartExecute == StartRun /\ run'.execute /\ Remaining # {}

FairSpec ==
  /\ Spec
  /\ SF_vars(StartExecute)
  /\ WF_vars(RunStep)
  /\ \A v \in Videos : WF_vars(TaskStep(v))

----------------------------------------------------------------------------
(* Properties. *)

Stages == {"none", "queued", "download", "downloaded", "decode", "decoded", "upload",
           "good", "bad", "completed", "failed", "error"}

TypeOK ==
  /\ present \in SUBSET Videos
  /\ staged \in [Videos -> {"none", "first", "other", "cut"}]
  /\ strays \subseteq [video : Videos, frame : {"first", "other"}]
  /\ manifest \in [completed : SUBSET Videos, tail : {"clean", "torn"}, parses : BOOLEAN]
  /\ run \in [at : {"idle", "load", "tasks"}, seek : BOOLEAN, execute : BOOLEAN]
  /\ listed \in SUBSET Videos
  /\ task \in [Videos -> Stages]
  /\ exit \in {"none", "success", "failure"}
  /\ planned \in SUBSET Videos
  /\ verdict \in [Videos -> {"none", "PASS", "FAIL", "SKIP"}]
  /\ doubtful \subseteq Videos
  /\ faults \in 0 .. MaxFaults

\* The work audit reports is the work the next run plans, although one counts
\* the bucket and the other trusts the manifest as well: no line says Completed
\* of a thumbnail that is not there, whatever failed or was killed in between.
AuditMatchesPlan == run.at = "idle" => Remaining = Plan(StagedKeys)

\* A run that exits with success has staged everything it planned, and said so.
SuccessIsComplete ==
  run.at = "idle" /\ exit = "success" => \A v \in planned : staged[v] # "none"

\* What verify has passed stays right (README: nothing that exists is touched):
\* later runs, seeks, retries and kills never overwrite it, and neither does an
\* upload of theirs that outlives its task and lands after the next listing.  Not
\* so where an upload left by an earlier run was still under way as verify looked.
VerifiedStays ==
  \A v \in Videos \ doubtful : verdict[v] = "PASS" => staged[v] = "first"

\* As long as the manifest parses, every video that decodes has a thumbnail in
\* the end, be it one cut off, which no run makes again: neither a kill, nor an aborted run, nor a video that never decodes
\* holds up the others.
EligibleStaged ==
  [](manifest.parses) => \A v \in Videos \ Broken : v \in present ~> staged[v] # "none"
=============================================================================
