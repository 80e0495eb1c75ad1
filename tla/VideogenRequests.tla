-------------------------- MODULE VideogenRequests --------------------------
(***************************************************************************)
(* The life of a video-generation request (routes/videogen/generate.rs,    *)
(* complete.rs, drafts.rs, videogen/request_store.rs).  /generate stores   *)
(* the input image, asks moderation, records a pending row, reserves an    *)
(* upload destination and submits the job to Vast, a GPU service, over     *)
(* HTTP or by a broker.  Vast calls /complete back, again and again until  *)
(* it gets an answer that ends the matter, perhaps while an earlier call   *)
(* is still being handled.  The completion registers a draft with the post *)
(* canister and closes the row; the owner's polls of /drafts/in-progress   *)
(* sweep stale rows and purge old ones.  The row is only ever written      *)
(* best-effort: every write of it may be lost.                             *)
(***************************************************************************)
EXTENDS Naturals

CONSTANTS Requests,   \* calls of /generate
          Calls,      \* deliveries of a completion callback that may overlap
          Brokers,    \* brokers to publish to, in turn; 1 stands for HTTP, too
          Stale,      \* ticks after which a pending row is swept
          Retention   \* ticks after which a row is purged

\* By default 40 minutes and 30 days; both come from the environment.
ASSUME VideogenConstants ==
  /\ Brokers \in Nat \ {0}
  /\ Stale \in Nat
  /\ Retention \in Nat
  /\ Stale < Retention

VARIABLES
  gen,       \* where each handler of /generate stands
  tried,     \* brokers the handler has tried
  image,     \* the staged input image in Storj
  row,       \* the status of the row in videogen_requests, or "none"
  age,       \* ticks since created_at
  dest,      \* the upload destination
  identity,  \* the job carries the encrypted identity of its user
  vast,      \* the job at Vast
  calls,     \* whether Vast still calls back: "open", "answered" or "givenUp"
  call,      \* where each delivery of the callback stands
  post       \* the draft post is in the canister

genVars == <<gen, tried, identity>>
rowVars == <<row, age>>
vastVars == <<vast, calls>>
vars == <<gen, tried, image, row, age, dest, identity, vast, calls, call, post>>

Init ==
  /\ gen = [r \in Requests |-> "start"]
  /\ tried = [r \in Requests |-> 0]
  /\ image = [r \in Requests |-> "none"]
  /\ row = [r \in Requests |-> "none"]
  /\ age = [r \in Requests |-> 0]
  /\ dest = [r \in Requests |-> "none"]
  /\ identity = [r \in Requests |-> FALSE]
  /\ vast = [r \in Requests |-> "none"]
  /\ calls = [r \in Requests |-> "open"]
  /\ call = [r \in Requests |-> [c \in Calls |-> "idle"]]
  /\ post = [r \in Requests |-> FALSE]

----------------------------------------------------------------------------
(* The rows. *)

\* mark_complete and mark_failed close a row only while it is pending.
MutantClosedAgain(r, status) == IF row[r] # "none" THEN status ELSE "none"
ClosedAs(r, status) == IF row[r] = "pending" THEN status ELSE row[r]

\* record_terminal_best_effort: the database may be unreachable.
CloseRow(r, status) ==
  /\ row' = [row EXCEPT ![r] = ClosedAs(r, status)]
  /\ age' = age

CloseRowBestEffort(r, status) == CloseRow(r, status) \/ UNCHANGED rowVars

\* uplink_rm of the staged image, spawned and forgotten.
DeleteImage(r) ==
  \/ UNCHANGED image
  \/ image[r] = "staged" /\ image' = [image EXCEPT ![r] = "deleted"]

\* The release endpoint may be unset or fail: the destination is leaked.
ReleaseDest(r) ==
  \/ UNCHANGED dest
  \/ dest[r] = "reserved" /\ dest' = [dest EXCEPT ![r] = "released"]

----------------------------------------------------------------------------
(* /generate. *)

GenTo(r, from, to) == gen[r] = from /\ gen' = [gen EXCEPT ![r] = to]

\* The identity and the input are sound, and an image that comes with them is
\* stored: moderation looks at URLs only.
Staged(r) == {image, [image EXCEPT ![r] = "staged"]}

Stage(r) ==
  /\ GenTo(r, "start", "moderate")
  /\ image' \in Staged(r)
  /\ UNCHANGED <<rowVars, dest, identity, tried, vastVars, call, post>>

\* They are not, or the image is not stored in time, though it may be there.
StageFails(r) ==
  /\ GenTo(r, "start", "refused")
  /\ image' \in Staged(r)
  /\ UNCHANGED <<rowVars, dest, identity, tried, vastVars, call, post>>

\* Unsafe content, or a moderation service that cannot be asked.
RefuseRequest(r) ==
  /\ GenTo(r, "moderate", "refused")
  /\ DeleteImage(r)
  /\ UNCHANGED <<rowVars, dest, identity, tried, vastVars, call, post>>

\* record_pending: without the database the counter comes from the clock, and
\* no row will ever answer to it.
Record(r) ==
  /\ GenTo(r, "moderate", "reserve")
  /\ row' \in {row, [row EXCEPT ![r] = "pending"]}
  /\ UNCHANGED <<age, image, dest, identity, tried, vastVars, call, post>>

\* IdentityCrypto: the identity is encrypted if there is a key.
Sealed(r) == {identity, [identity EXCEPT ![r] = TRUE]}

\* reserve_upload_destination: the video gets its id.
Reserve(r) ==
  /\ GenTo(r, "reserve", "submit")
  /\ dest' = [dest EXCEPT ![r] = "reserved"]
  /\ identity' \in Sealed(r)
  /\ UNCHANGED <<rowVars, image, tried, vastVars, call, post>>

\* The profile of the user cannot be read.
ReserveFails(r) ==
  /\ GenTo(r, "reserve", "fail")
  /\ UNCHANGED <<rowVars, image, dest, identity, tried, vastVars, call, post>>

\* submit_vast puts the job on its way and waits for the answer.  Vast knows a
\* job it has already got from another broker by its message_id.
Submit(r) ==
  /\ tried[r] < Brokers
  /\ GenTo(r, "submit", "wait")
  /\ tried' = [tried EXCEPT ![r] = @ + 1]
  /\ vast' = [vast EXCEPT ![r] = IF @ = "none" THEN "sent" ELSE @]
  /\ UNCHANGED <<rowVars, image, dest, identity, calls, call, post>>

Submitted(r) ==
  /\ GenTo(r, "wait", "ok")
  /\ vast[r] \notin {"none", "sent"}
  /\ UNCHANGED <<rowVars, image, dest, identity, tried, vastVars, call, post>>

\* Refused, unreachable, or not confirmed in time: Vast may have the job all the
\* same.  The next broker is tried, after the last one the request fails.
NextBroker(r) ==
  /\ tried[r] < Brokers
  /\ GenTo(r, "wait", "submit")
  /\ UNCHANGED <<rowVars, image, dest, identity, tried, vastVars, call, post>>

SubmitFails(r) ==
  /\ tried[r] = Brokers
  /\ GenTo(r, "wait", "fail")
  /\ UNCHANGED <<rowVars, image, dest, identity, tried, vastVars, call, post>>

\* fail_after_submit.
MarkRequestFailed(r) ==
  /\ GenTo(r, "fail", "release")
  /\ CloseRowBestEffort(r, "failed")
  /\ UNCHANGED <<image, dest, identity, tried, vastVars, call, post>>

ReleaseAfterFailure(r) ==
  /\ GenTo(r, "release", "failed")
  /\ ReleaseDest(r)
  /\ UNCHANGED <<rowVars, image, identity, tried, vastVars, call, post>>

\* The client hangs up, or the box is lost.
DropGenerate(r) ==
  /\ gen[r] \notin {"refused", "ok", "failed", "dropped"}
  /\ gen' = [gen EXCEPT ![r] = "dropped"]
  /\ UNCHANGED <<rowVars, image, dest, identity, tried, vastVars, call, post>>

----------------------------------------------------------------------------
(* Vast, as the handlers see it. *)

\* By Vast, or by the broker on its way there.
Accept(r) ==
  /\ vast[r] = "sent"
  /\ vast' = [vast EXCEPT ![r] = "working"]
  /\ UNCHANGED <<genVars, image, rowVars, dest, calls, call, post>>

Finish(r) ==
  /\ vast[r] = "working"
  /\ vast' \in {[vast EXCEPT ![r] = "success"], [vast EXCEPT ![r] = "failure"]}
  /\ UNCHANGED <<genVars, image, rowVars, dest, calls, call, post>>

\* A first delivery, or one more: the last was refused or not answered in time.
Deliver(r, c) ==
  /\ vast[r] \in {"success", "failure"}
  /\ calls[r] = "open"
  /\ call[r][c] = "idle"
  /\ call' = [call EXCEPT ![r][c] = IF vast[r] = "success" THEN "finalize" ELSE "release"]
  /\ UNCHANGED <<genVars, image, rowVars, dest, vastVars, post>>

GiveUp(r) ==
  /\ vast[r] \in {"success", "failure"}
  /\ calls[r] = "open"
  /\ calls' = [calls EXCEPT ![r] = "givenUp"]
  /\ UNCHANGED <<genVars, image, rowVars, dest, vast, call, post>>

----------------------------------------------------------------------------
(* /complete. *)

CallTo(r, c, from, to) ==
  /\ call[r][c] = from
  /\ call' = [call EXCEPT ![r][c] = to]

\* 503 makes Vast try again and 200 ends the matter, if the answer gets there.
MutantEndsAnyway(status) == TRUE
EndsCallbacks(status) == status = "200"

Answer(r, status) ==
  /\ \/ UNCHANGED calls
     \/ EndsCallbacks(status) /\ calls' = [calls EXCEPT ![r] = "answered"]
  /\ DeleteImage(r)

\* Without the identity of the user the draft is skipped, and all is well.
MutantNeverDrafts(r) == TRUE
SkipsDraft(r) == ~identity[r]

SkipDraft(r, c) ==
  /\ SkipsDraft(r)
  /\ CallTo(r, c, "finalize", "close")
  /\ UNCHANGED <<genVars, image, rowVars, dest, vastVars, post>>

FinalizeUpload(r, c) ==
  /\ identity[r]
  /\ CallTo(r, c, "finalize", "post")
  /\ UNCHANGED <<genVars, image, rowVars, dest, vastVars, post>>

\* add_post_v_1; the canister may take a post it already has, or refuse it.
AddPost(r, c) ==
  /\ CallTo(r, c, "post", "close")
  /\ post' = [post EXCEPT ![r] = TRUE]
  /\ UNCHANGED <<genVars, image, rowVars, dest, vastVars>>

\* The identity cannot be decrypted, the finalization or the canister fails;
\* the post may be there all the same.
DraftFails(r, c) ==
  /\ identity[r]
  /\ \/ CallTo(r, c, "finalize", "idle") /\ UNCHANGED post
     \/ CallTo(r, c, "post", "idle") /\ post' \in {post, [post EXCEPT ![r] = TRUE]}
  /\ Answer(r, "503")
  /\ UNCHANGED <<genVars, rowVars, dest, vast>>

\* register_ingested writes the master row (MediaFeed), and the row is closed.
CloseComplete(r, c) ==
  /\ CallTo(r, c, "close", "idle")
  /\ CloseRowBestEffort(r, "complete")
  /\ Answer(r, "200")
  /\ UNCHANGED <<genVars, dest, vast, post>>

\* A job that failed: its destination is released, then its row closed.
ReleaseFailed(r, c) ==
  /\ CallTo(r, c, "release", "closeFailed")
  /\ ReleaseDest(r)
  /\ UNCHANGED <<genVars, image, rowVars, vastVars, post>>

CloseFailed(r, c) ==
  /\ CallTo(r, c, "closeFailed", "idle")
  /\ CloseRowBestEffort(r, "failed")
  /\ Answer(r, "200")
  /\ UNCHANGED <<genVars, dest, vast, post>>

\* The caller hangs up, or the box is lost: no answer.
DropCall(r, c) ==
  /\ call[r][c] # "idle"
  /\ call' = [call EXCEPT ![r][c] = "idle"]
  /\ UNCHANGED <<genVars, image, rowVars, dest, vastVars, post>>

----------------------------------------------------------------------------
(* /drafts/in-progress: each statement may fail without the other. *)

MutantSweepsAny(r) == row[r] = "pending"
MutantSweepsInWindow(r) == row[r] = "pending" /\ age[r] = Stale + 1
IsStale(r) == row[r] = "pending" /\ age[r] > Stale

Sweep ==
  /\ \E r \in Requests : IsStale(r)
  /\ row' = [r \in Requests |-> IF IsStale(r) THEN "failed" ELSE row[r]]
  /\ UNCHANGED <<genVars, image, age, dest, vastVars, call, post>>

\* Rows of any status.
IsExpired(r) == row[r] # "none" /\ age[r] > Retention

Purge ==
  /\ \E r \in Requests : IsExpired(r)
  /\ row' = [r \in Requests |-> IF IsExpired(r) THEN "none" ELSE row[r]]
  /\ UNCHANGED <<genVars, image, age, dest, vastVars, call, post>>

\* list_pending: what is left after the two.
Listed(r) == row[r] = "pending"

\* Ages beyond Retention are alike.
Tick ==
  /\ \E r \in Requests : row[r] # "none" /\ age[r] <= Retention
  /\ age' = [r \in Requests |->
       IF row[r] # "none" /\ age[r] <= Retention THEN age[r] + 1 ELSE age[r]]
  /\ UNCHANGED <<genVars, image, row, dest, vastVars, call, post>>

----------------------------------------------------------------------------

Generate(r) ==
  \/ Stage(r) \/ Record(r) \/ Reserve(r) \/ Submit(r) \/ MarkRequestFailed(r) \/ ReleaseAfterFailure(r)

GenerateFaults(r) ==
  \/ StageFails(r) \/ RefuseRequest(r) \/ ReserveFails(r)
  \/ NextBroker(r) \/ SubmitFails(r) \/ DropGenerate(r)

Complete(r, c) ==
  \/ SkipDraft(r, c) \/ FinalizeUpload(r, c) \/ AddPost(r, c) \/ CloseComplete(r, c)
  \/ ReleaseFailed(r, c) \/ CloseFailed(r, c)

Next ==
  \/ \E r \in Requests :
       \/ Generate(r) \/ GenerateFaults(r) \/ Submitted(r)
       \/ Accept(r) \/ Finish(r) \/ GiveUp(r)
  \/ \E r \in Requests, c \in Calls :
       Deliver(r, c) \/ Complete(r, c) \/ DraftFails(r, c) \/ DropCall(r, c)
  \/ Sweep \/ Purge \/ Tick

Spec == Init /\ [][Next]_vars

\* The owner polls while the list is not empty and a sweep gets through; Vast
\* repeats a callback; finalization and the canister succeed if asked often
\* enough, and so does an answer.
FairSpec ==
  /\ Spec
  /\ WF_vars(Tick) /\ WF_vars(Sweep)
  /\ \A r \in Requests, c \in Calls :
       /\ WF_vars(Deliver(r, c))
       /\ SF_vars(FinalizeUpload(r, c)) /\ SF_vars(AddPost(r, c))

----------------------------------------------------------------------------
(* Properties. *)

TypeOK ==
  /\ gen \in [Requests -> {"start", "moderate", "refused", "reserve", "submit", "wait",
                           "ok", "fail", "release", "failed", "dropped"}]
  /\ tried \in [Requests -> 0 .. Brokers]
  /\ image \in [Requests -> {"none", "staged", "deleted"}]
  /\ row \in [Requests -> {"none", "pending", "complete", "failed"}]
  /\ age \in [Requests -> 0 .. Retention + 1]
  /\ dest \in [Requests -> {"none", "reserved", "released"}]
  /\ identity \in [Requests -> BOOLEAN]
  /\ vast \in [Requests -> {"none", "sent", "working", "success", "failure"}]
  /\ calls \in [Requests -> {"open", "answered", "givenUp"}]
  /\ call \in [Requests -> [Calls -> {"idle", "finalize", "post", "close",
                                      "release", "closeFailed"}]]
  /\ post \in [Requests -> BOOLEAN]

\* A request leaves the list of its owner for a cause: it is visible as a draft
\* (or has none to show), its submission or its job has failed, or it is stale
\* (complete.rs: "the request never disappears from /drafts/in-progress before
\* it is visible as a draft").
ClosedForCause ==
  \A r \in Requests :
    /\ row[r] = "complete" => post[r] \/ ~identity[r]
    /\ row[r] = "failed" =>
         \/ gen[r] \in {"release", "failed", "dropped"}
         \/ vast[r] = "failure"
         \/ age[r] > Stale

\* A closed row is closed once and for all: callbacks that come late or twice, a
\* submission that fails late and the sweep do not rewrite one another.
StatusIsFinal ==
  [][\A r \in Requests : row[r] \in {"complete", "failed"} => row'[r] \in {row[r], "none"}]_vars

\* Vast is told to stop only when the draft of its video is there: the answer is
\* what lets it forget the video.
AcknowledgedHasDraft ==
  \A r \in Requests : calls[r] = "answered" /\ vast[r] = "success" /\ identity[r] => post[r]

\* No request stays in the list of its owner for ever (drafts.rs: "an abandoned
\* generation cannot spin in the UI forever").
NothingSpins == \A r \in Requests : Listed(r) ~> ~Listed(r)

\* A generated video becomes a draft unless Vast gives up on its callbacks, no
\* matter how its row was closed in the meantime.
GeneratedIsDrafted ==
  \A r \in Requests :
    vast[r] = "success" /\ identity[r] ~> post[r] \/ calls[r] = "givenUp"
=============================================================================
