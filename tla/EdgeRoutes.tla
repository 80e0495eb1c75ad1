----------------------------- MODULE EdgeRoutes -----------------------------
(***************************************************************************)
(* The calls at the edge of the service that leave no row in Postgres:     *)
(* the copies of an HLS segment (/hls/duplicate), the profile image of a   *)
(* user, and the signed calls, that carry a timestamp and an HMAC over it: *)
(* requests of operators (authorize), callbacks of Vast (verify_hmac) and  *)
(* the service's own requests to moderation.  Time passes between signing  *)
(* and checking, on clocks that disagree; keys are replaced box by box.    *)
(* A handler that fails or is dropped leaves writes behind that may still  *)
(* land: uplink is not killed, and then stores what it has read.           *)
(***************************************************************************)
EXTENDS Integers, FiniteSets

CONSTANTS
    Calls,      \* the calls that may be made, numbered
    Boxes,      \* the instances, each with its own registry of keys
    Offsets,    \* receiver's clock minus sender's clock, in ticks
    Window,     \* the skew allowed, in ticks (300 s, or 120 s for Vast)
    MaxTries,   \* MODERATION_MAX_ATTEMPTS
    MaxTransit, \* bound: ticks that one attempt is under way
    MaxSecond,  \* bound: seconds of the clock that names profile images
    MaxFaults,  \* bound: failures and hang-ups of one behaviour
    Nobody      \* a value that is no call

ASSUME EdgeAssumption ==
    /\ Calls \subseteq Nat \ {0} /\ Nobody \notin Calls
    /\ Window \in Nat /\ Offsets \subseteq (-Window) .. Window
    /\ MaxTries \in Nat \ {0} /\ {MaxTransit, MaxSecond, MaxFaults} \subseteq Nat

VARIABLES
    call,       \* the calls
    offset,     \* how far the receiver's clock is ahead
    stage,      \* box -> how far the replacement of the callback key got there
    signKey,    \* the key Vast signs with
    segment,    \* what each store holds of the segment
    images,     \* second -> the call whose image has that name
    url,        \* profile_picture_url in the canister
    second,     \* the clock that names profile images
    strays,     \* writes whose handler is gone, that may still land
    faults,     \* faults so far
    alone,      \* object -> its last call, if no other overlapped it
    mark        \* object -> faults when its last call began

clockVars == <<offset, stage, signKey>>
imageVars == <<images, url, second>>
auditVars == <<alone, mark>>
vars == <<call, clockVars, segment, imageVars, strays, faults, auditVars>>

Signed == {"job", "moderation", "callback", "hls", "hls nsfw"}
Pictures == {"upload", "delete"}
Stores == {"sfw", "nsfw", "hetzner"}
Seconds == 0 .. MaxSecond
Untouched == 0        \* the image there was before
Cleared == -1         \* the empty URL

Idle == [kind |-> "none", step |-> "idle", stamp |-> 0, transit |-> 0, tries |-> 0,
         key |-> "old", todo |-> {}]

Object(kind) == IF kind \in Pictures THEN "picture" ELSE "segment"
Ended == {"idle", "ok", "refused", "rejected", "failed"}
Working(c) == call[c].step \notin Ended \cup {"signed", "backoff"}
Of(obj) == {c \in Calls : call[c].kind # "none" /\ Object(call[c].kind) = obj}

Init ==
    /\ call = [c \in Calls |-> Idle]
    /\ offset \in Offsets
    /\ stage = [b \in Boxes |-> 0]
    /\ signKey = "old"
    /\ segment = [s \in Stores |-> <<Nobody, "whole">>]
    /\ images = [t \in Seconds |-> IF t = 0 THEN Untouched ELSE Nobody]
    /\ url = 0
    /\ second = 0
    /\ strays = {}
    /\ faults = 0
    /\ alone = [o \in {"segment", "picture"} |-> Nobody]
    /\ mark = [o \in {"segment", "picture"} |-> 0]

TypeOK ==
    /\ \A c \in Calls :
         /\ call[c].kind \in {"none"} \cup Signed \cup Pictures
         /\ call[c].step \in Ended \cup {"signed", "backoff", "put", "list", "clear",
                                         "image", "canister"}
         /\ call[c].tries \in 0 .. MaxTries /\ call[c].key \in {"old", "new"}
         /\ call[c].transit \in 0 .. MaxTransit
    /\ offset \in Offsets /\ stage \in [Boxes -> 0 .. 2] /\ signKey \in {"old", "new"}
    /\ segment \in [Stores -> (Calls \cup {Nobody}) \X {"whole", "cut"}]
    /\ images \in [Seconds -> Calls \cup {Nobody, Untouched}]
    /\ url \in Seconds \cup {Cleared} /\ second \in Seconds
    /\ faults \in 0 .. MaxFaults

Fault == faults < MaxFaults /\ faults' = faults + 1
Goto(c, s) == call' = [call EXCEPT ![c].step = s]

\* An attempt that is over needs no timestamp.
Settled(c, s) == [Idle EXCEPT !.kind = call[c].kind, !.step = s]
Settle(c, s) == call' = [call EXCEPT ![c] = Settled(c, s)]

\* Calls are alike: they begin in their order.
Begun(c) == call[c] = Idle /\ \A d \in Calls : d < c => call[d] # Idle

\* The handler begins to work on the object of its kind.
Begins(c, kind) ==
    LET obj == Object(kind) IN
    /\ alone' = [alone EXCEPT ![obj] =
         IF (\E d \in Of(obj) \ {c} : Working(d)) \/ \E w \in strays : w.of = obj
         THEN Nobody ELSE c]
    /\ mark' = [mark EXCEPT ![obj] = faults]

-----------------------------------------------------------------------------
(* Signed calls: an operator's client, the service itself, Vast.            *)

\* An attempt, signed at the moment it is sent.
MutantSignsOnce(c) == [call[c] EXCEPT !.step = "signed", !.transit = 0,
                         !.tries = @ + 1, !.key = signKey]
SignedNow(c) == [call[c] EXCEPT !.step = "signed", !.stamp = 0, !.transit = 0,
                   !.tries = IF call[c].kind = "moderation" THEN @ + 1 ELSE @,
                   !.key = signKey]

Call(c, kind) ==
    /\ Begun(c)
    /\ call' = [call EXCEPT ![c].kind = kind, ![c].step = "backoff"]
    /\ UNCHANGED <<clockVars, segment, imageVars, strays, faults, auditVars>>

\* The first attempt or one more, after the backoff: moderation is asked
\* MaxTries times, Vast calls back until it is heard.
Sign(c) ==
    /\ call[c].step = "backoff" \/ (call[c].kind = "callback" /\ call[c].step = "refused")
    /\ call' = [call EXCEPT ![c] = SignedNow(c)]
    /\ UNCHANGED <<clockVars, segment, imageVars, strays, faults, auditVars>>

\* An attempt is under way, or the sender backs off.
Wait(c) ==
    /\ \/ call[c].step = "signed" /\ call[c].transit < MaxTransit
          /\ call' = [call EXCEPT ![c].stamp = @ + 1, ![c].transit = @ + 1]
       \/ call[c].step = "backoff" /\ call[c].tries > 0 /\ call[c].stamp <= MaxTransit
          /\ call' = [call EXCEPT ![c].stamp = @ + 1]
    /\ UNCHANGED <<clockVars, segment, imageVars, strays, faults, auditVars>>

\* |now - timestamp| <= window, whichever of the clocks is ahead.
Fresh(c) == call[c].stamp + offset \in (-Window) .. Window

\* The keys of a box: VIDEOGEN_COMPLETION_HMAC_KEYS lists the old one, then
\* both, then the new one.  (With VIDEOGEN_SERVICE_AUTH_TOKEN there is one key,
\* and replacing it has no overlap.)  The list guards /complete and the refresh
\* of upload URLs alike: a callback is either.
MutantLastKey(b) == IF stage[b] = 0 THEN {"old"} ELSE {"new"}
Registry(b) ==
    {k \in {"old", "new"} : IF k = "old" THEN stage[b] < 2 ELSE stage[b] > 0}

Knows(b, c) == call[c].kind = "callback" => call[c].key \in Registry(b)

Verified(c, b) == Fresh(c) /\ Knows(b, c)

\* The stores of a segment: an NSFW one is kept off the public ones.
Targets(kind) == IF kind = "hls" THEN {"sfw", "hetzner"} ELSE {"nsfw"}

\* The signature holds.  A callback or a text to moderate is answered at once;
\* a segment goes to its stores.
Admit(c, b) ==
    /\ call[c].step = "signed" /\ Verified(c, b)
    /\ IF call[c].kind \in {"hls", "hls nsfw"}
       THEN /\ call' = [call EXCEPT ![c] = [Settled(c, "put") EXCEPT !.todo = Targets(call[c].kind)]]
            /\ Begins(c, call[c].kind)
       ELSE Settle(c, "ok") /\ UNCHANGED auditVars
    /\ UNCHANGED <<clockVars, segment, imageVars, strays, faults>>

Refuse(c, b) ==
    /\ call[c].step = "signed" /\ ~Verified(c, b)
    /\ Goto(c, "refused")
    /\ UNCHANGED <<clockVars, segment, imageVars, strays, faults, auditVars>>

\* No connection, a timeout, a 5xx or a 429: worth another attempt.
Lose(c) ==
    /\ call[c].step = "signed" /\ Fault
    /\ IF \/ call[c].kind = "callback"
          \/ call[c].kind = "moderation" /\ call[c].tries < MaxTries
       THEN Goto(c, "backoff")
       ELSE Settle(c, "failed")
    /\ UNCHANGED <<clockVars, segment, imageVars, strays, auditVars>>

\* The moderation service answers with another 4xx: no attempt will do better.
Reject(c) ==
    /\ call[c].step = "signed" /\ call[c].kind = "moderation" /\ Fault
    /\ Settle(c, "rejected")
    /\ UNCHANGED <<clockVars, segment, imageVars, strays, auditVars>>

\* A box is started again with the next list of keys, in the order that
\* overlaps: all boxes know the new key before Vast signs with it, and none
\* forgets the old one earlier than that.
Redeploy(b) ==
    /\ stage[b] = 0 \/ (stage[b] = 1 /\ signKey = "new")
    /\ stage' = [stage EXCEPT ![b] = @ + 1]
    /\ UNCHANGED <<call, offset, signKey, segment, imageVars, strays, faults, auditVars>>

SwitchKey ==
    /\ signKey = "old" /\ \A b \in Boxes : stage[b] = 1
    /\ signKey' = "new"
    /\ UNCHANGED <<call, offset, stage, segment, imageVars, strays, faults, auditVars>>

-----------------------------------------------------------------------------
(* HLS segments and profile images: each write is one of three kinds.      *)

Segment(c, s) == [of |-> "segment", by |-> c, place |-> s]
Image(c, t) == [of |-> "picture", by |-> c, place |-> t, what |-> "image"]
Deletion(c, t) == [of |-> "picture", by |-> c, place |-> t, what |-> "deletion"]
Url(c, u) == [of |-> "picture", by |-> c, place |-> u, what |-> "url"]

\* A write lands: in full, or what uplink has read of a broken pipe.
Land(w, data) ==
    IF w.of = "segment"
    THEN /\ segment' = [segment EXCEPT ![w.place] = <<w.by, data>>]
         /\ UNCHANGED imageVars
    ELSE /\ images' = CASE w.what = "image" -> [images EXCEPT ![w.place] = w.by]
                        [] w.what = "deletion" -> [images EXCEPT ![w.place] = Nobody]
                        [] OTHER -> images
         /\ url' = IF w.what = "url" THEN w.place ELSE url
         /\ UNCHANGED <<segment, second>>

\* A write that did not report success is lost, or will land (at once, or when
\* nobody expects it any more).
Fails(ws) ==
    /\ Fault
    /\ \E left \in SUBSET ws : strays' = strays \cup left
    /\ UNCHANGED <<segment, imageVars>>

LandStray(w) ==
    /\ w \in strays
    /\ strays' = strays \ {w}
    /\ \E data \in {"whole", "cut"} :
         /\ data = "cut" => w.of = "segment" /\ w.place # "hetzner"
         /\ Land(w, data)
    /\ UNCHANGED <<call, clockVars, faults, auditVars>>

LoseStray(w) ==
    /\ w \in strays
    /\ strays' = strays \ {w}
    /\ UNCHANGED <<call, clockVars, segment, imageVars, faults, auditVars>>

\* The uploads of a segment run side by side; the answer waits for all.
MutantFirstAnswers(todo) == TRUE
Answered(todo) == todo = {}

Put(c, s) ==
    /\ call[c].step = "put" /\ s \in call[c].todo
    /\ LET todo == call[c].todo \ {s} IN
       call' = [call EXCEPT ![c].todo = todo,
                            ![c].step = IF Answered(todo) THEN "ok" ELSE @]
    /\ Land(Segment(c, s), "whole")
    /\ UNCHANGED <<clockVars, strays, faults, auditVars>>

\* The writes of a handler that are under way.
UnderWay(c) ==
    CASE call[c].step = "put" -> {Segment(c, s) : s \in call[c].todo}
      [] call[c].step = "clear" -> {Deletion(c, t) : t \in call[c].todo}
      [] call[c].step = "image" -> {Image(c, t) : t \in call[c].todo}
      [] call[c].step = "canister" -> {Url(c, u) : u \in call[c].todo}
      [] OTHER -> {}

\* The first failure ends the request and aborts the other uploads of a segment;
\* so does the caller that hangs up.
Fail(c) ==
    /\ Working(c)
    /\ Settle(c, "failed")
    /\ \E w \in SUBSET UnderWay(c) :
         /\ call[c].step = "clear" => Cardinality(w) <= 1
         /\ Fails(w)
    /\ UNCHANGED <<clockVars, auditVars>>

-----------------------------------------------------------------------------
(* The profile image.                                                      *)

\* An image that does not decode is refused before anything is touched.
StartPicture(c, kind) ==
    /\ Begun(c)
    /\ \/ /\ call' = [call EXCEPT ![c].kind = kind, ![c].step = "list", ![c].stamp = second]
          /\ Begins(c, kind)
       \/ /\ kind = "upload"
          /\ call' = [call EXCEPT ![c].kind = kind, ![c].step = "rejected"]
          /\ UNCHANGED auditVars
    /\ UNCHANGED <<clockVars, segment, imageVars, strays, faults>>

\* Prior images are deleted first, then the new one is stored, then the
\* canister is told; a deletion tells it that there is none.
MutantForgetsUrl(kind, todo) ==
    IF todo # {} THEN "clear" ELSE IF kind = "upload" THEN "image" ELSE "ok"
StepAfter(kind, todo) ==
    IF todo # {} THEN "clear" ELSE IF kind = "upload" THEN "image" ELSE "canister"

\* The name of the new image is taken when the deletions are over.
ClearTo(c, todo) ==
    LET to == StepAfter(call[c].kind, todo) IN
    call' = [call EXCEPT ![c].step = to,
                         ![c].todo = CASE to = "canister" -> {Cleared}
                                       [] to = "image" -> {second}
                                       [] OTHER -> todo]

\* delete_profile_images: all names with the prefix of the user.
List(c) ==
    /\ call[c].step = "list"
    /\ ClearTo(c, {t \in Seconds : images[t] # Nobody})
    /\ UNCHANGED <<clockVars, segment, imageVars, strays, faults, auditVars>>

Clear(c, t) ==
    /\ call[c].step = "clear" /\ t \in call[c].todo
    /\ ClearTo(c, call[c].todo \ {t})
    /\ Land(Deletion(c, t), "whole")
    /\ UNCHANGED <<clockVars, strays, faults, auditVars>>

\* An upload goes on without: the deletion is best-effort.
SkipClear(c) ==
    /\ call[c].step \in {"list", "clear"} /\ call[c].kind = "upload"
    /\ call' = [call EXCEPT ![c].step = "image", ![c].todo = {second}]
    /\ \E w \in SUBSET UnderWay(c) : Cardinality(w) <= 1 /\ Fails(w)
    /\ UNCHANGED <<clockVars, auditVars>>

\* profile-<seconds>.jpg
PutImage(c) ==
    /\ call[c].step = "image"
    /\ Goto(c, "canister")
    /\ \E t \in call[c].todo : Land(Image(c, t), "whole")
    /\ UNCHANGED <<clockVars, strays, faults, auditVars>>

SetUrl(c) ==
    /\ call[c].step = "canister"
    /\ Goto(c, "ok")
    /\ \E u \in call[c].todo : Land(Url(c, u), "whole")
    /\ UNCHANGED <<clockVars, strays, faults, auditVars>>

Tick ==
    /\ second < MaxSecond
    /\ second' = second + 1
    /\ UNCHANGED <<call, clockVars, segment, images, url, strays, faults, auditVars>>

-----------------------------------------------------------------------------

Next ==
    \/ \E c \in Calls :
         \/ \E k \in Signed : Call(c, k)
         \/ \E k \in Pictures : StartPicture(c, k)
         \/ Sign(c) \/ Wait(c) \/ Lose(c) \/ Reject(c)
         \/ \E b \in Boxes : Admit(c, b) \/ Refuse(c, b)
         \/ \E s \in Stores : Put(c, s)
         \/ List(c) \/ SkipClear(c) \/ PutImage(c) \/ SetUrl(c) \/ Fail(c)
         \/ \E t \in Seconds : Clear(c, t)
    \/ \E b \in Boxes : Redeploy(b)
    \/ SwitchKey \/ Tick
    \/ \E w \in strays : LandStray(w) \/ LoseStray(w)

Spec == Init /\ [][Next]_vars

\* A callback is repeated until it is heard, and the network is prompt again
\* and again.
FairSpec ==
    /\ Spec
    /\ \A c \in Calls :
         /\ WF_vars(Sign(c))
         /\ WF_vars(\E b \in Boxes : Refuse(c, b))
         /\ SF_vars(\E b \in Boxes : Admit(c, b))

-----------------------------------------------------------------------------
(* Properties.                                                             *)

\* Only a call whose very last attempt took too long is refused, however long
\* the attempts and backoffs before it took (generate.rs: "each retry carries a
\* fresh anti-replay window"), or a callback signed before Vast got the new key.
RefusedForCause ==
    \A c \in Calls : call[c].step = "refused" =>
        \/ call[c].transit + offset \notin (-Window) .. Window
        \/ call[c].kind = "callback" /\ call[c].key = "old" /\ signKey = "new"

\* A callback is heard in the end, also while the keys are being replaced.
CallbackGetsThrough ==
    \A c \in Calls : call[c].kind = "callback" ~> call[c].step = "ok"

\* An acknowledged segment is whole in every store it belongs to, until another
\* upload of it begins, unless it overlapped with one, or with what one that
\* failed had left behind.
AckedSegmentStands ==
    LET c == alone["segment"] IN
    c # Nobody /\ call[c].step = "ok" =>
        \A s \in Targets(call[c].kind) : segment[s] = <<c, "whole">>

\* The last call about a profile image decides: the canister names an image that
\* is there, and it is the only one if all deletions succeeded; or it names none
\* and there is none.  (A deletion that fails late can hit an image of the same
\* second.)
LastCallDecides ==
    LET c == alone["picture"] IN
    c # Nobody /\ call[c].step = "ok" =>
        IF call[c].kind = "delete"
        THEN url = Cleared /\ \A t \in Seconds : images[t] = Nobody
        ELSE /\ {url} = call[c].todo
             /\ url > call[c].stamp \/ faults = mark["picture"] => images[url] = c
             /\ faults = mark["picture"] => \A t \in Seconds \ {url} : images[t] = Nobody
=============================================================================
