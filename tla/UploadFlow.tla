----------------------------- MODULE UploadFlow -----------------------------
(***************************************************************************)
(* The two-phase upload of one video: /duplicate_raw/upload stages the     *)
(* bytes on Storj with an expiry (and on Hetzner without one),             *)
(* /duplicate_raw/finalize downloads them to a file of the box and stores  *)
(* them again for good, /update-video-metadata finalizes and then adds the *)
(* post to the canister, /mark-post-as-published flips it, and             *)
(* /move-to-nsfw copies the Hetzner object to the NSFW bucket and deletes  *)
(* it.  Requests overlap, fail and are dropped; a dropped request closes   *)
(* the pipe of its uplink, which may then store a truncated object later.  *)
(* The two names of a thumbnail are one key; uplink, Hetzner and the       *)
(* canister are modelled from how the code calls them.                     *)
(***************************************************************************)
EXTENDS Naturals, FiniteSets

CONSTANTS
    Calls,          \* the requests that may be made for the video
    Boxes,          \* the instances, each with its own /tmp
    MaxAttempts,    \* max_retries of a download of the finalization
    MaxFaults,      \* bound: failures and hang-ups of one behaviour
    Nobody          \* a value that is no call

ASSUME CallsAssumption == Nobody \notin Calls
ASSUME BoxesAssumption == Boxes # {}
ASSUME AttemptsAssumption == MaxAttempts \in Nat \ {0}
ASSUME FaultsAssumption == MaxFaults \in Nat

VARIABLES
    nsfw,       \* the is_nsfw flag of the video's requests
    objects,    \* the objects of the two Storj buckets and of Hetzner
    temp,       \* box -> its files /tmp/storj-finalize-...
    call,       \* the requests
    strays,     \* writes whose request is gone, that may still land
    post,       \* the post on the canister
    faults,     \* faults so far
    alone,      \* the last request begun, if no other overlapped it
    mark        \* faults when the last request began

vars == <<nsfw, objects, temp, call, strays, post, faults, alone, mark>>
ghosts == <<alone, mark>>

Keys == {"mp4", "thumb"}
Stores == {"sfw", "nsfw", "hetzner"}
Contents == {"none", "cut", "whole"}
Places == Stores \X Keys
Absent == [data |-> "none", ttl |-> FALSE]
NoFiles == [k \in Keys |-> "none"]
Whole == [k \in Keys |-> "whole"]

Idle == [step |-> "idle", kind |-> "none", box |-> CHOOSE b \in Boxes : TRUE,
         tries |-> 0, todo |-> {}, has |-> NoFiles]

Steps == {"idle", "fetch mp4", "fetch thumb", "read", "storing", "clearing",
          "posting", "moving", "moving thumb", "deleting", "deleting thumb",
          "acked", "failed"}
Kinds == {"none", "upload", "finalize", "publish", "move"}

TypeOK ==
    /\ nsfw \in BOOLEAN
    /\ objects \in [Places -> [data : Contents, ttl : BOOLEAN]]
    /\ temp \in [Boxes -> [Keys -> Contents]]
    /\ call \in [Calls -> [step : Steps, kind : Kinds, box : Boxes,
                           tries : 0 .. (MaxAttempts - 1),
                           todo : SUBSET Places, has : [Keys -> Contents]]]
    /\ strays \subseteq [at : Places, data : Contents, ttl : BOOLEAN]
    /\ post \in {"none", "draft", "published"}
    /\ faults \in 0 .. MaxFaults
    /\ alone \in Calls \cup {Nobody}
    /\ mark \in 0 .. MaxFaults

Init ==
    /\ nsfw \in BOOLEAN
    /\ objects = [p \in Places |-> Absent]
    /\ temp = [b \in Boxes |-> NoFiles]
    /\ call = [c \in Calls |-> Idle]
    /\ strays = {}
    /\ post = "none"
    /\ faults = 0
    /\ alone = Nobody
    /\ mark = 0

-----------------------------------------------------------------------------
(* Where a request reads and writes                                        *)

Active(c) == call[c].step \notin {"idle", "acked", "failed"}

(* update_metadata_impl finalizes with is_nsfw = false whatever the video. *)
Flag(kind) == nsfw /\ kind # "publish"

(* (bucket, grant): the Storj bucket a request reads and writes            *)
Bucket(kind) == IF Flag(kind) THEN "nsfw" ELSE "sfw"

(* Storj always, Hetzner too unless the video is NSFW.                     *)
Targets(kind) ==
    (IF Flag(kind) THEN {"nsfw"} ELSE {"sfw", "hetzner"}) \X Keys

(* Mutant of Expires: the finalization keeps the expiry.                   *)
MutantKeepsExpiry(kind, p) == p[1] # "hetzner"

(* --expires is given by the first phase, to Storj only.                   *)
Expires(kind, p) == kind = "upload" /\ p[1] # "hetzner"

(* One of the writes of request c, as it lands                             *)
Copy(c, p) == [data |-> call[c].has[p[2]], ttl |-> Expires(call[c].kind, p)]

(* A request that ends before its writes do drops them: uplink is not      *)
(* killed, reads the end of its input and may store what it has.           *)
Dropped(c, ps) ==
    {[at |-> p, data |-> Copy(c, p).data, ttl |-> Copy(c, p).ttl] : p \in ps}

Begin(c, r) ==
    /\ call[c] = Idle
    /\ call' = [call EXCEPT ![c] = r]
    /\ alone' = IF (\E d \in Calls : Active(d)) \/ strays # {} THEN Nobody ELSE c
    /\ mark' = faults

Goto(c, s) == call' = [call EXCEPT ![c].step = s]
Fault == faults < MaxFaults /\ faults' = faults + 1

-----------------------------------------------------------------------------
(* handler_raw_upload_initial                                              *)

StartUpload(c) ==
    /\ Begin(c, [Idle EXCEPT !.step = "storing", !.kind = "upload",
                             !.todo = Targets("upload"), !.has = Whole])
    /\ UNCHANGED <<nsfw, objects, temp, strays, post, faults>>

(* A body without a file, or without a frame for the thumbnail, is refused *)
(* before anything is stored; one that cannot be remuxed is stored as sent.*)
RejectUpload(c) ==
    /\ Begin(c, [Idle EXCEPT !.step = "failed", !.kind = "upload"])
    /\ UNCHANGED <<nsfw, objects, temp, strays, post, faults>>

(* Where a request goes once all its writes are done                       *)
AfterStoring(kind) == IF kind = "upload" THEN "acked" ELSE "clearing"

(* One of the writes joined by try_join! succeeds.                         *)
Put(c, p) ==
    LET todo == call[c].todo \ {p} IN
    /\ call[c].step = "storing"
    /\ p \in call[c].todo
    /\ objects' = [objects EXCEPT ![p] = Copy(c, p)]
    /\ call' = [call EXCEPT ![c].todo = todo,
                    ![c].step = IF todo = {} THEN AfterStoring(call[c].kind) ELSE @]
    /\ UNCHANGED <<nsfw, temp, strays, post, faults, ghosts>>

(* One of them fails: the request ends and its other writes are dropped.   *)
PutFails(c, p) ==
    /\ call[c].step = "storing"
    /\ p \in call[c].todo
    /\ Fault
    /\ call' = [call EXCEPT ![c].step = "failed", ![c].todo = {}]
    /\ strays' = strays \cup Dropped(c, call[c].todo \ {p})
    /\ UNCHANGED <<nsfw, objects, temp, post, ghosts>>

(* A dropped write lands (whole, or on Storj truncated), or never does.    *)
Land(s) ==
    /\ strays' = strays \ {s}
    /\ \/ \E d \in {s.data} \cup (IF s.at[1] = "hetzner" THEN {} ELSE {"cut"}) :
            objects' = [objects EXCEPT ![s.at] = [data |-> d, ttl |-> s.ttl]]
       \/ UNCHANGED objects
    /\ UNCHANGED <<nsfw, temp, call, post, faults, ghosts>>

-----------------------------------------------------------------------------
(* handler_raw_finalize                                                    *)

StartFinalize(c, kind, b) ==
    /\ Begin(c, [Idle EXCEPT !.step = "fetch mp4", !.kind = kind, !.box = b])
    /\ UNCHANGED <<nsfw, objects, temp, strays, post, faults>>

Fetching(c) == IF call[c].step = "fetch mp4" THEN "mp4" ELSE "thumb"
Fetches(c) == call[c].step \in {"fetch mp4", "fetch thumb"}

(* Mutant of Source: only an object still pending is finalized.            *)
MutantNeedsPending(c) ==
    LET o == objects[<<Bucket(call[c].kind), Fetching(c)>>]
    IN  IF o.ttl THEN o.data ELSE "none"

Source(c) == objects[<<Bucket(call[c].kind), Fetching(c)>>].data
NextStep(c) == IF call[c].step = "fetch mp4" THEN "fetch thumb" ELSE "read"

(* uplink cp from Storj to the file succeeds.                              *)
Fetch(c) ==
    /\ Fetches(c)
    /\ Source(c) # "none"
    /\ temp' = [temp EXCEPT ![call[c].box][Fetching(c)] = Source(c)]
    /\ call' = [call EXCEPT ![c].step = NextStep(c), ![c].tries = 0]
    /\ UNCHANGED <<nsfw, objects, strays, post, faults, ghosts>>

(* After the last attempt only the existence of the file is asked.         *)
Exists(f) == f # "none"

(* An attempt fails, and may leave a part of the object in the file.       *)
FetchFails(c) ==
    LET b == call[c].box
        k == Fetching(c)
        last == call[c].tries + 1 = MaxAttempts
    IN
    /\ Fetches(c)
    /\ IF Source(c) = "none" THEN UNCHANGED <<temp, faults>>
       ELSE /\ Fault
            /\ \E f \in {temp[b][k], "cut"} : temp' = [temp EXCEPT ![b][k] = f]
    /\ call' = [call EXCEPT
            ![c].tries = IF last THEN 0 ELSE @ + 1,
            ![c].step = IF ~last THEN @
                        ELSE IF Exists(temp'[b][k]) THEN NextStep(c) ELSE "failed"]
    /\ UNCHANGED <<nsfw, objects, strays, post, ghosts>>

(* Another finalization on the box may be rewriting file k.                *)
Rewriting(c, k) ==
    \E d \in Calls \ {c} : /\ Fetches(d) /\ Fetching(d) = k
                           /\ call[d].box = call[c].box

(* What reading file k may give                                            *)
Seen(c, k) ==
    {temp[call[c].box][k]} \cup (IF Rewriting(c, k) THEN {"cut"} ELSE {})

(* Both files are read, one of them perhaps while it is being written; a   *)
(* file another finalization has removed fails the request.                *)
Read(c) ==
    /\ call[c].step = "read"
    /\ \E v \in Seen(c, "mp4"), t \in Seen(c, "thumb") :
         call' = IF v = "none" \/ t = "none"
                 THEN [call EXCEPT ![c].step = "failed"]
                 ELSE [call EXCEPT ![c].step = "storing",
                           ![c].has = [mp4 |-> v, thumb |-> t],
                           ![c].todo = Targets(call[c].kind)]
    /\ UNCHANGED <<nsfw, objects, temp, strays, post, faults, ghosts>>

(* The files are removed and the request answers 200.                      *)
Clear(c) ==
    /\ call[c].step = "clearing"
    /\ temp' = [temp EXCEPT ![call[c].box] = NoFiles]
    /\ Goto(c, IF call[c].kind = "publish" THEN "posting" ELSE "acked")
    /\ UNCHANGED <<nsfw, objects, strays, post, faults, ghosts>>

-----------------------------------------------------------------------------
(* update_metadata_impl after its finalization; mark_post_as_published     *)

AddPost(c) ==
    /\ call[c].step = "posting"
    /\ \/ /\ post = "none"
          /\ post' \in {"draft", "published"}
          /\ Goto(c, "acked")
          /\ UNCHANGED faults
       \/ /\ post # "none"
          /\ Goto(c, "failed")
          /\ UNCHANGED <<post, faults>>
       \/ /\ Fault              \* the answer of the canister is lost, or it fails
          /\ post' \in IF post = "none" THEN {"none", "draft", "published"} ELSE {post}
          /\ Goto(c, "failed")
    /\ UNCHANGED <<nsfw, objects, temp, strays, ghosts>>

MarkPublished ==
    /\ post = "draft"
    /\ post' = "published"
    /\ UNCHANGED <<nsfw, objects, temp, call, strays, faults, ghosts>>

-----------------------------------------------------------------------------
(* /move-to-nsfw                                                           *)

(* The Hetzner video must be there; its thumbnail need not, and one whose  *)
(* download fails is passed over like one that is not there.               *)
StartMove(c) ==
    LET video == objects[<<"hetzner", "mp4">>].data
        thumb == objects[<<"hetzner", "thumb">>].data
    IN
    \E t \in {thumb} \cup (IF video = "none" THEN {} ELSE {"none"}) :
      /\ IF t = thumb THEN UNCHANGED faults ELSE Fault
      /\ Begin(c, [Idle EXCEPT !.kind = "move",
                      !.has = [k \in Keys |-> IF k = "mp4" THEN video ELSE t],
                      !.step = IF video = "none" THEN "failed" ELSE "moving"])
      /\ UNCHANGED <<nsfw, objects, temp, strays, post>>

AfterMoving(c) == IF call[c].has["thumb"] = "none" THEN "deleting" ELSE "moving thumb"

(* Mutant of MoveVideo: a failed copy is passed over like a thumbnail's.   *)
MutantIgnoresCopy(c) ==
    /\ call[c].step = "moving"
    /\ \/ /\ objects' = [objects EXCEPT ![<<"nsfw", "mp4">>] = Copy(c, <<"nsfw", "mp4">>)]
          /\ UNCHANGED faults
       \/ Fault /\ UNCHANGED objects
    /\ Goto(c, AfterMoving(c))
    /\ UNCHANGED <<nsfw, temp, strays, post, ghosts>>

MoveVideo(c) ==
    /\ call[c].step = "moving"
    /\ \/ /\ objects' = [objects EXCEPT ![<<"nsfw", "mp4">>] = Copy(c, <<"nsfw", "mp4">>)]
          /\ Goto(c, AfterMoving(c))
          /\ UNCHANGED faults
       \/ /\ Fault
          /\ Goto(c, "failed")
          /\ UNCHANGED objects
    /\ UNCHANGED <<nsfw, temp, strays, post, ghosts>>

(* A thumbnail that cannot be moved does not stop the move.                *)
MoveThumb(c) ==
    /\ call[c].step = "moving thumb"
    /\ \/ /\ objects' = [objects EXCEPT ![<<"nsfw", "thumb">>] = Copy(c, <<"nsfw", "thumb">>)]
          /\ UNCHANGED faults
       \/ Fault /\ UNCHANGED objects
    /\ Goto(c, "deleting")
    /\ UNCHANGED <<nsfw, temp, strays, post, ghosts>>

DeleteVideo(c) ==
    /\ call[c].step = "deleting"
    /\ \/ /\ objects' = [objects EXCEPT ![<<"hetzner", "mp4">>] = Absent]
          /\ Goto(c, IF call[c].has["thumb"] = "none" THEN "acked" ELSE "deleting thumb")
          /\ UNCHANGED faults
       \/ /\ Fault
          /\ Goto(c, "failed")
          /\ objects' \in {objects, [objects EXCEPT ![<<"hetzner", "mp4">>] = Absent]}
    /\ UNCHANGED <<nsfw, temp, strays, post, ghosts>>

DeleteThumb(c) ==
    /\ call[c].step = "deleting thumb"
    /\ \/ /\ objects' = [objects EXCEPT ![<<"hetzner", "thumb">>] = Absent]
          /\ UNCHANGED faults
       \/ Fault /\ UNCHANGED objects
    /\ Goto(c, "acked")
    /\ UNCHANGED <<nsfw, temp, strays, post, ghosts>>

-----------------------------------------------------------------------------
(* The environment                                                         *)

Removal(k) == [at |-> <<"hetzner", k>>, data |-> "none", ttl |-> FALSE]

(* What a request dropped now has under way                                *)
Pending(c) ==
    CASE call[c].step = "storing" -> Dropped(c, call[c].todo)
      [] call[c].step = "moving" -> Dropped(c, {<<"nsfw", "mp4">>})
      [] call[c].step = "moving thumb" -> Dropped(c, {<<"nsfw", "thumb">>})
      [] call[c].step = "deleting" -> {Removal("mp4")}
      [] call[c].step = "deleting thumb" -> {Removal("thumb")}
      [] OTHER -> {}

(* The caller hangs up, the box stops, or the pipe to an uplink breaks (its *)
(* `?` ends the request): the future is dropped.                           *)
HangUp(c) ==
    LET b == call[c].box
        k == Fetching(c)
    IN
    /\ Active(c)
    /\ Fault
    /\ strays' = strays \cup Pending(c)
    /\ \E f \in IF Fetches(c) /\ Source(c) # "none" THEN {temp[b][k], "cut"} ELSE {temp[b][k]} :
         temp' = [temp EXCEPT ![b][k] = f]
    /\ call' = [call EXCEPT ![c].step = "failed", ![c].todo = {}]
    /\ UNCHANGED <<nsfw, objects, post, ghosts>>

(* An object stored with an expiry is gone after an hour.                  *)
Expire(p) ==
    /\ objects[p].ttl
    /\ objects' = [objects EXCEPT ![p] = Absent]
    /\ UNCHANGED <<nsfw, temp, call, strays, post, faults, ghosts>>

Next ==
    \/ \E c \in Calls :
         \/ StartUpload(c) \/ RejectUpload(c)
         \/ \E b \in Boxes, k \in {"finalize", "publish"} : StartFinalize(c, k, b)
         \/ StartMove(c)
         \/ \E p \in Places : Put(c, p) \/ PutFails(c, p)
         \/ Fetch(c) \/ FetchFails(c) \/ Read(c) \/ Clear(c)
         \/ AddPost(c)
         \/ MoveVideo(c) \/ MoveThumb(c) \/ DeleteVideo(c) \/ DeleteThumb(c)
         \/ HangUp(c)
    \/ \E s \in strays : Land(s)
    \/ \E p \in Places : Expire(p)
    \/ MarkPublished

Spec == Init /\ [][Next]_vars

-----------------------------------------------------------------------------
(* Safety                                                                  *)

(* A finalization that answered 200 with no request beside it leaves every *)
(* object it is answerable for as it read it, for good; an upload that did *)
(* leaves them whole, on Storj until they expire.                          *)
AckedStands ==
    \A c \in Calls : c = alone /\ call[c].step \in {"posting", "acked"} =>
        /\ call[c].kind \in {"finalize", "publish"} =>
             \A p \in Targets(call[c].kind) :
                 objects[p] = [data |-> call[c].has[p[2]], ttl |-> FALSE]
        /\ call[c].kind = "upload" =>
             \A p \in Targets("upload") :
                 \/ objects[p].data = "whole"
                 \/ p[1] # "hetzner" /\ objects[p] = Absent

(* A finalization can be asked for again: with no request beside it and no *)
(* fault, it fails only if an object it reads is missing or may expire.    *)
FinalizeIsRepeatable ==
    \A c \in Calls :
        c = alone /\ call[c].kind = "finalize" /\ call[c].step = "failed" /\ mark = faults =>
            \E k \in Keys : LET o == objects[<<Bucket("finalize"), k>>] IN
                            o.data = "none" \/ o.ttl

(* Hetzner loses the video only once the NSFW bucket has it, and, unless   *)
(* two requests overlapped, has it as Hetzner did.  A video flagged NSFW is *)
(* on Hetzner only if a publication took the file that a finalization left *)
(* on its box; an upload beside the move may then have put an object that  *)
(* expires in the place of the copy.                                       *)
MovedIsKept ==
    [][ LET old == objects[<<"hetzner", "mp4">>].data
            kept == objects[<<"nsfw", "mp4">>].data
        IN  old # "none" /\ objects'[<<"hetzner", "mp4">>].data = "none" =>
                /\ ~nsfw => kept # "none"
                /\ alone # Nobody => kept = old ]_vars

=============================================================================
