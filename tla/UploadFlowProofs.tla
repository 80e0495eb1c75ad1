-------------------------- MODULE UploadFlowProofs --------------------------
(***************************************************************************)
(* Proofs about UploadFlow for any number of requests, boxes, attempts and *)
(* faults.                                                                 *)
(***************************************************************************)
EXTENDS UploadFlow, TLAPS

Records == [step : Steps, kind : Kinds, box : Boxes, tries : 0 .. (MaxAttempts - 1),
            todo : SUBSET Places, has : [Keys -> Contents]]
Storers == {"upload", "finalize", "publish"}
Finalizers == {"finalize", "publish"}
Video == <<"hetzner", "mp4">>
Moved == <<"nsfw", "mp4">>

\* What the step of a request says about the rest of it.
GoodCall(r) ==
  /\ r.step # "storing" => r.todo = {}
  /\ r.step = "storing" =>
       /\ r.kind \in Storers /\ r.todo \subseteq Targets(r.kind)
       /\ \A k \in Keys : r.has[k] # "none"
       /\ r.kind = "upload" => \A k \in Keys : r.has[k] = "whole"
  /\ r.step \in {"fetch mp4", "fetch thumb", "read", "clearing", "posting"} =>
       r.kind \in Finalizers
  /\ r.step = "posting" => r.kind = "publish"
  /\ r.step \in {"moving", "moving thumb", "deleting", "deleting thumb"} =>
       r.kind = "move" /\ r.has["mp4"] # "none"

CallsOK == call \in [Calls -> Records] /\ \A c \in Calls : GoodCall(call[c])

\* Nothing on Hetzner expires, whether it is there or may still land there.
HetznerStays ==
  /\ \A k \in Keys : ~objects[<<"hetzner", k>>].ttl
  /\ \A s \in strays : s.at[1] = "hetzner" => ~s.ttl

Inv == TypeOK /\ CallsOK /\ HetznerStays /\ mark <= faults

\* What a request with no other beside it knows: nothing lands unless it
\* failed by a fault; what it has stored stands; what it has fetched is there;
\* and the copy it deletes the video for is the video.
StoredStands(c) ==
  LET r == call[c] IN
  /\ r.kind \in Finalizers /\ r.step \in {"storing", "clearing", "posting", "acked"} =>
       \A p \in Targets(r.kind) \ r.todo :
          objects[p].data = r.has[p[2]] /\ ~objects[p].ttl
  /\ r.kind = "upload" /\ r.step \in {"storing", "acked"} =>
       \A p \in Targets("upload") \ r.todo :
          objects[p].data = "whole" \/ (p[1] # "hetzner" /\ objects[p] = Absent)

FetchedIsThere(c) ==
  LET r == call[c] IN
  /\ r.step \in {"fetch thumb", "read"} => temp[r.box]["mp4"] # "none"
  /\ r.step = "read" => temp[r.box]["thumb"] # "none"
  /\ r.step = "failed" /\ r.kind = "finalize" /\ mark = faults =>
       \E k \in Keys : LET o == objects[<<Bucket("finalize"), k>>] IN
                       o.data = "none" \/ o.ttl

CopyIsVideo(c) ==
  LET r == call[c] IN
  /\ r.step \in {"moving", "moving thumb", "deleting"} => objects[Video].data = r.has["mp4"]
  /\ r.step \in {"moving thumb", "deleting"} =>
       objects[Moved].data = r.has["mp4"] /\ ~objects[Moved].ttl
  /\ \A s \in strays : s.at = Video /\ s.data = "none" =>
       /\ strays = {s} /\ ~objects[Moved].ttl
       /\ objects[Video].data \in {"none", objects[Moved].data}

Alone(c) ==
  /\ \A d \in Calls \ {c} : ~Active(d)
  /\ call[c].step # "failed" \/ mark = faults => strays = {}
  /\ StoredStands(c) /\ FetchedIsThere(c) /\ CopyIsVideo(c)

AloneInv == \A c \in Calls : c = alone => Alone(c)

\* For a video that is not NSFW only a move writes to the NSFW bucket: once
\* the copy is there it stays, and no deletion is under way before it is.
KeptInv ==
  ~nsfw =>
    /\ ~objects[Moved].ttl
    /\ \A s \in strays : s.at = Moved => s.data # "none" /\ ~s.ttl
    /\ (\E c \in Calls : call[c].step \in {"moving thumb", "deleting"})
         \/ (\E s \in strays : s.at = Video /\ s.data = "none")
       => objects[Moved].data # "none"

-----------------------------------------------------------------------------
(* Facts about the operators of the model *)

LEMMA Constants ==
  /\ Nobody \notin Calls /\ Boxes # {} /\ MaxFaults \in Nat
  /\ MaxAttempts \in Nat /\ MaxAttempts > 0
BY CallsAssumption, BoxesAssumption, AttemptsAssumption, FaultsAssumption

LEMMA FileLists == NoFiles \in [Keys -> Contents] /\ Whole \in [Keys -> Contents]
BY DEF NoFiles, Whole, Contents, Keys

LEMMA IdleIsGood ==
  /\ Idle \in Records /\ Idle.step = "idle" /\ Idle.kind = "none" /\ Idle.todo = {}
  /\ Idle.tries = 0 /\ Idle.has = NoFiles /\ GoodCall(Idle)
BY Constants, FileLists DEF Idle, Records, Steps, Kinds, GoodCall

LEMMA AbsentType == Absent \in [data : Contents, ttl : BOOLEAN]
                    /\ Absent.data = "none" /\ Absent.ttl = FALSE
BY DEF Absent, Contents

LEMMA TargetsArePlaces ==
  ASSUME NEW kind
  PROVE  /\ Targets(kind) \subseteq Places
         /\ \A p \in Targets(kind) : p[2] \in Keys /\ p[1] \in Stores
         /\ ~nsfw => \A p \in Targets(kind) : p[1] # "nsfw"
<1>1. {"nsfw"} \X Keys \subseteq Places /\ {"sfw", "hetzner"} \X Keys \subseteq Places
  BY DEF Places, Stores
<1>2. CASE Flag(kind)
  BY <1>1, <1>2 DEF Targets, Flag, Places
<1>3. CASE ~Flag(kind)
  BY <1>1, <1>3 DEF Targets, Places
<1> QED BY <1>2, <1>3

LEMMA PlaceFacts ==
  /\ Video \in Places /\ Moved \in Places /\ Video # Moved
  /\ Video[1] = "hetzner" /\ Moved[1] = "nsfw" /\ Video[2] = "mp4" /\ Moved[2] = "mp4"
  /\ \A k \in Keys : <<"hetzner", k>> \in Places /\ <<"nsfw", k>> \in Places /\ <<"sfw", k>> \in Places
  /\ \A p \in Places : p = <<p[1], p[2]>> /\ p[1] \in Stores /\ p[2] \in Keys
  /\ "mp4" \in Keys /\ "thumb" \in Keys
BY DEF Video, Moved, Places, Stores, Keys

LEMMA CopyType ==
  ASSUME CallsOK, NEW c \in Calls, NEW p \in Places
  PROVE  /\ Copy(c, p) \in [data : Contents, ttl : BOOLEAN]
         /\ Copy(c, p).data = call[c].has[p[2]]
         /\ Copy(c, p).ttl = Expires(call[c].kind, p)
         /\ p[1] = "hetzner" \/ call[c].kind # "upload" => Copy(c, p).ttl = FALSE
<1>1. call[c].has \in [Keys -> Contents] /\ p[2] \in Keys
  BY PlaceFacts DEF CallsOK, Records
<1> QED BY <1>1 DEF Copy, Expires

\* The writes a request that ends drops
LEMMA DroppedWrites ==
  ASSUME CallsOK, NEW c \in Calls, NEW ps, ps \subseteq Places, NEW w \in Dropped(c, ps)
  PROVE  /\ w \in [at : Places, data : Contents, ttl : BOOLEAN]
         /\ w.at \in ps /\ w.data = call[c].has[w.at[2]]
         /\ w.at[1] = "hetzner" \/ call[c].kind # "upload" => ~w.ttl
<1>1. PICK p \in ps : w = [at |-> p, data |-> Copy(c, p).data, ttl |-> Copy(c, p).ttl]
  BY DEF Dropped
<1>2. /\ Copy(c, p).data \in Contents /\ Copy(c, p).ttl \in BOOLEAN
      /\ Copy(c, p).data = call[c].has[p[2]]
      /\ p[1] = "hetzner" \/ call[c].kind # "upload" => Copy(c, p).ttl = FALSE
  BY CopyType
<1>3. w.at = p /\ w.data = Copy(c, p).data /\ w.ttl = Copy(c, p).ttl
  BY <1>1
<1> QED BY <1>1, <1>2, <1>3

LEMMA CallUpdate ==
  ASSUME CallsOK, NEW c \in Calls, NEW r \in Records, GoodCall(r),
         call' = [call EXCEPT ![c] = r], nsfw' = nsfw
  PROVE  CallsOK' /\ call'[c] = r /\ \A d \in Calls \ {c} : call'[d] = call[d]
<1>1. call' \in [Calls -> Records] /\ call'[c] = r /\ \A d \in Calls \ {c} : call'[d] = call[d]
  BY DEF CallsOK
<1>2. GoodCall(r)' /\ \A d \in Calls : GoodCall(call[d])
  BY DEF CallsOK, GoodCall, Targets, Flag
<1>3. ASSUME NEW d \in Calls PROVE GoodCall(call[d])'
  <2>1. CASE d = c
    BY <1>1, <1>2, <2>1 DEF GoodCall
  <2>2. CASE d # c
    <3>1. call'[d] = call[d] /\ GoodCall(call[d])
      BY <1>1, <1>2, <2>2
    <3> QED BY <3>1 DEF GoodCall, Targets, Flag
  <2> QED BY <2>1, <2>2
<1> QED BY <1>1, <1>3 DEF CallsOK

\* A request that moves to a step in which it stores nothing
LEMMA GotoUpdate ==
  ASSUME CallsOK, NEW c \in Calls, NEW s \in Steps, s # "storing", call[c].todo = {},
         s \in {"fetch mp4", "fetch thumb", "read", "clearing", "posting"} =>
            call[c].kind \in Finalizers,
         s = "posting" => call[c].kind = "publish",
         s \in {"moving", "moving thumb", "deleting", "deleting thumb"} =>
            call[c].kind = "move" /\ call[c].has["mp4"] # "none",
         Goto(c, s), nsfw' = nsfw
  PROVE  /\ CallsOK' /\ \A d \in Calls \ {c} : call'[d] = call[d]
         /\ call'[c].step = s /\ call'[c].kind = call[c].kind /\ call'[c].box = call[c].box
         /\ call'[c].has = call[c].has /\ call'[c].todo = {}
<1> DEFINE r == [call[c] EXCEPT !.step = s]
<1>1. call[c] \in Records
  BY DEF CallsOK
<1>2. /\ r.step = s /\ r.kind = call[c].kind /\ r.box = call[c].box
      /\ r.has = call[c].has /\ r.todo = {} /\ r \in Records
  BY <1>1 DEF Records
<1>3. call' = [call EXCEPT ![c] = r]
  BY <1>1 DEF Goto, CallsOK
<1> HIDE DEF r
<1>4. GoodCall(r)
  BY <1>2 DEF GoodCall
<1>5. CallsOK' /\ call'[c] = r /\ \A d \in Calls \ {c} : call'[d] = call[d]
  BY <1>2, <1>3, <1>4, CallUpdate
<1> QED BY <1>2, <1>5

\* A request that fails
LEMMA FailUpdate ==
  ASSUME CallsOK, NEW c \in Calls, nsfw' = nsfw,
         call' = [call EXCEPT ![c].step = "failed", ![c].todo = {}]
  PROVE  /\ CallsOK' /\ \A d \in Calls \ {c} : call'[d] = call[d]
         /\ call'[c].step = "failed" /\ call'[c].kind = call[c].kind
<1> DEFINE r == [call[c] EXCEPT !.step = "failed", !.todo = {}]
<1>1. call[c] \in Records
  BY DEF CallsOK
<1>2. r.step = "failed" /\ r.kind = call[c].kind /\ r.todo = {} /\ r \in Records
  BY <1>1 DEF Records, Steps
<1>3. call' = [call EXCEPT ![c] = r]
  BY <1>1 DEF CallsOK
<1> HIDE DEF r
<1>4. GoodCall(r)
  BY <1>2 DEF GoodCall
<1>5. CallsOK' /\ call'[c] = r /\ \A d \in Calls \ {c} : call'[d] = call[d]
  BY <1>2, <1>3, <1>4, CallUpdate
<1> QED BY <1>2, <1>5

-----------------------------------------------------------------------------
(* The invariant is kept *)

Things == [Places -> [data : Contents, ttl : BOOLEAN]]
Writes == [at : Places, data : Contents, ttl : BOOLEAN]

LEMMA InvFrom ==
  ASSUME Inv, CallsOK', HetznerStays', nsfw' = nsfw, objects' \in Things,
         temp' \in [Boxes -> [Keys -> Contents]], strays' \subseteq Writes,
         post' \in {"none", "draft", "published"}, faults' \in 0 .. MaxFaults,
         alone' \in Calls \cup {Nobody}, mark' \in 0 .. MaxFaults, mark' <= faults'
  PROVE  Inv'
<1>1. call' \in [Calls -> Records]
  BY DEF CallsOK
<1>2. TypeOK'
  BY <1>1 DEF Inv, TypeOK, Records, Things, Writes
<1> QED BY <1>2 DEF Inv

LEMMA TypeFacts ==
  Inv => /\ nsfw \in BOOLEAN /\ objects \in Things /\ strays \subseteq Writes
         /\ temp \in [Boxes -> [Keys -> Contents]] /\ post \in {"none", "draft", "published"}
         /\ faults \in 0 .. MaxFaults /\ mark \in 0 .. MaxFaults /\ mark <= faults
         /\ alone \in Calls \cup {Nobody} /\ faults \in Nat /\ mark \in Nat
         /\ call \in [Calls -> Records] /\ CallsOK /\ HetznerStays
BY Constants DEF Inv, TypeOK, Things, Writes, CallsOK

\* A step that changes requests and files only
LEMMA InvFromCalls ==
  ASSUME Inv, CallsOK', UNCHANGED <<nsfw, objects, strays, post, ghosts>>,
         temp' \in [Boxes -> [Keys -> Contents]], faults' = faults \/ Fault
  PROVE  Inv'
<1>1. HetznerStays'
  BY TypeFacts DEF HetznerStays
<1>2. faults' \in 0 .. MaxFaults /\ mark <= faults' /\ UNCHANGED <<alone, mark>>
  BY TypeFacts, Constants DEF Fault, ghosts
<1> QED BY <1>1, <1>2, TypeFacts, InvFrom

\* A step that stores or deletes one object
LEMMA InvFromObject ==
  ASSUME Inv, CallsOK', UNCHANGED <<nsfw, temp, post, ghosts>>,
         NEW p \in Places, NEW o \in [data : Contents, ttl : BOOLEAN],
         p[1] = "hetzner" => ~o.ttl,
         objects' = [objects EXCEPT ![p] = o] \/ objects' = objects,
         strays' \subseteq strays, faults' = faults \/ Fault
  PROVE  Inv'
<1>1. objects' \in Things /\ \A q \in Places : objects'[q] \in {o, objects[q]}
                          /\ (q # p => objects'[q] = objects[q])
  BY TypeFacts DEF Things
<1>2. HetznerStays'
  <2>1. ASSUME NEW k \in Keys PROVE ~objects'[<<"hetzner", k>>].ttl
    <3> DEFINE q == <<"hetzner", k>>
    <3>1. q \in Places /\ q[1] = "hetzner" /\ ~objects[q].ttl
      BY TypeFacts, PlaceFacts DEF HetznerStays
    <3> HIDE DEF q
    <3>2. CASE q = p /\ objects'[q] = o
      BY <3>1, <3>2 DEF q
    <3>3. CASE objects'[q] = objects[q]
      BY <3>1, <3>3 DEF q
    <3> QED BY <1>1, <3>1, <3>2, <3>3
  <2> QED BY <2>1, TypeFacts DEF HetznerStays
<1>3. faults' \in 0 .. MaxFaults /\ mark <= faults' /\ UNCHANGED <<alone, mark>>
  BY TypeFacts, Constants DEF Fault, ghosts
<1> QED BY <1>1, <1>2, <1>3, TypeFacts, InvFrom

\* A step that leaves writes under way
LEMMA InvFromStrays ==
  ASSUME Inv, CallsOK', UNCHANGED <<nsfw, objects, post, ghosts>>, NEW ws,
         \A w \in ws : w \in Writes /\ (w.at[1] = "hetzner" => ~w.ttl),
         temp' \in [Boxes -> [Keys -> Contents]], strays' = strays \cup ws, Fault
  PROVE  Inv'
<1>1. HetznerStays'
  BY TypeFacts DEF HetznerStays
<1>2. faults' \in 0 .. MaxFaults /\ mark <= faults' /\ UNCHANGED <<alone, mark>>
  BY TypeFacts, Constants DEF Fault, ghosts
<1> QED BY <1>1, <1>2, TypeFacts, InvFrom

LEMMA InitInv == Init => Inv
<1> SUFFICES ASSUME Init PROVE Inv
  OBVIOUS
<1>1. CallsOK
  BY IdleIsGood DEF Init, CallsOK
<1>2. HetznerStays
  BY AbsentType, PlaceFacts DEF Init, HetznerStays
<1>3. TypeOK
  BY <1>1, AbsentType, FileLists, Constants DEF Init, TypeOK, CallsOK, Records
<1> QED BY <1>1, <1>2, <1>3, Constants DEF Init, Inv

\* A request that begins, whatever it begins with
LEMMA BeginInv ==
  ASSUME Inv, NEW c \in Calls, NEW r \in Records, GoodCall(r), Begin(c, r),
         UNCHANGED <<nsfw, objects, temp, strays, post>>, faults' = faults \/ Fault
  PROVE  Inv' /\ call'[c] = r /\ \A d \in Calls \ {c} : call'[d] = call[d]
<1>1. CallsOK' /\ call'[c] = r /\ \A d \in Calls \ {c} : call'[d] = call[d]
  BY CallUpdate, TypeFacts DEF Begin
<1>2. HetznerStays'
  BY TypeFacts DEF HetznerStays
<1>3. /\ alone' \in Calls \cup {Nobody} /\ mark' = faults
      /\ faults' \in 0 .. MaxFaults /\ mark' <= faults'
  BY TypeFacts, Constants DEF Begin, Fault
<1>4. Inv'
  BY <1>1, <1>2, <1>3, TypeFacts, InvFrom
<1> QED BY <1>1, <1>4

LEMMA StartUploadInv == ASSUME Inv, NEW c \in Calls, StartUpload(c) PROVE Inv'
<1> DEFINE r == [Idle EXCEPT !.step = "storing", !.kind = "upload",
                             !.todo = Targets("upload"), !.has = Whole]
<1>1. /\ r \in Records /\ r.step = "storing" /\ r.kind = "upload"
      /\ r.todo = Targets("upload") /\ r.has = Whole
  BY IdleIsGood, FileLists, TargetsArePlaces DEF Records, Steps, Kinds
<1>2. Begin(c, r) /\ UNCHANGED <<nsfw, objects, temp, strays, post, faults>>
  BY DEF StartUpload
<1> HIDE DEF r
<1>3. GoodCall(r)
  BY <1>1 DEF GoodCall, Storers, Whole
<1> QED BY <1>1, <1>2, <1>3, BeginInv

LEMMA RejectUploadInv == ASSUME Inv, NEW c \in Calls, RejectUpload(c) PROVE Inv'
<1> DEFINE r == [Idle EXCEPT !.step = "failed", !.kind = "upload"]
<1>1. r \in Records /\ r.step = "failed" /\ r.todo = {}
  BY IdleIsGood DEF Records, Steps, Kinds
<1>2. Begin(c, r) /\ UNCHANGED <<nsfw, objects, temp, strays, post, faults>>
  BY DEF RejectUpload
<1> HIDE DEF r
<1>3. GoodCall(r)
  BY <1>1 DEF GoodCall
<1> QED BY <1>1, <1>2, <1>3, BeginInv

LEMMA StartFinalizeInv ==
  ASSUME Inv, NEW c \in Calls, NEW kind \in Finalizers, NEW b \in Boxes,
         StartFinalize(c, kind, b)
  PROVE  Inv'
<1> DEFINE r == [Idle EXCEPT !.step = "fetch mp4", !.kind = kind, !.box = b]
<1>1. r \in Records /\ r.step = "fetch mp4" /\ r.kind = kind /\ r.todo = {}
  BY IdleIsGood DEF Records, Steps, Kinds, Finalizers
<1>2. Begin(c, r) /\ UNCHANGED <<nsfw, objects, temp, strays, post, faults>>
  BY DEF StartFinalize
<1> HIDE DEF r
<1>3. GoodCall(r)
  BY <1>1 DEF GoodCall
<1> QED BY <1>1, <1>2, <1>3, BeginInv

\* What a move begins with is what Hetzner has.
LEMMA StartMoveFacts ==
  ASSUME Inv, NEW c \in Calls, StartMove(c)
  PROVE  /\ Inv' /\ call'[c].kind = "move" /\ call'[c].todo = {}
         /\ call'[c].step \in {"moving", "failed"}
         /\ call'[c].has["mp4"] = objects[Video].data
         /\ \A d \in Calls \ {c} : call'[d] = call[d]
<1> DEFINE video == objects[<<"hetzner", "mp4">>].data
           thumb == objects[<<"hetzner", "thumb">>].data
           held(t) == [k \in Keys |-> IF k = "mp4" THEN video ELSE t]
           s == IF video = "none" THEN "failed" ELSE "moving"
           start(t) == [Idle EXCEPT !.kind = "move", !.has = held(t), !.step = s]
<1>0. PICK t \in {thumb, "none"} :
        /\ Begin(c, start(t)) /\ UNCHANGED <<nsfw, objects, temp, strays, post>>
        /\ faults' = faults \/ Fault
  BY DEF StartMove
<1> DEFINE has == held(t)
           r == [Idle EXCEPT !.kind = "move", !.has = has, !.step = s]
<1>1. has \in [Keys -> Contents] /\ has["mp4"] = objects[Video].data /\ video = has["mp4"]
  BY TypeFacts, PlaceFacts DEF Things, Video, Contents
<1>2. /\ Begin(c, r) /\ UNCHANGED <<nsfw, objects, temp, strays, post>>
      /\ faults' = faults \/ Fault
  BY <1>0
<1>3. s \in {"moving", "failed"} /\ (s = "moving" => has["mp4"] # "none")
  BY <1>1
<1> HIDE DEF has, held, s
<1>4. r \in Records /\ r.step = s /\ r.kind = "move" /\ r.todo = {} /\ r.has = has
  BY <1>1, <1>3, IdleIsGood DEF Records, Steps, Kinds
<1> HIDE DEF r
<1>5. GoodCall(r)
  BY <1>3, <1>4 DEF GoodCall
<1>6. Inv' /\ call'[c] = r /\ \A d \in Calls \ {c} : call'[d] = call[d]
  BY <1>2, <1>4, <1>5, BeginInv
<1> QED BY <1>1, <1>3, <1>4, <1>6

\* Each of these lemmas also says what the step does to its request.
Others(c) == \A d \in Calls \ {c} : call'[d] = call[d]
Same(c) == call'[c].kind = call[c].kind /\ call'[c].box = call[c].box
           /\ call'[c].has = call[c].has

LEMMA CallFacts ==
  ASSUME Inv, NEW c \in Calls
  PROVE  /\ call[c] \in Records /\ GoodCall(call[c])
         /\ call[c].todo \subseteq Places /\ call[c].has \in [Keys -> Contents]
         /\ call[c].box \in Boxes /\ call[c].kind \in Kinds
         /\ call[c].tries \in 0 .. (MaxAttempts - 1)
BY TypeFacts DEF CallsOK, Records

LEMMA PutFacts ==
  ASSUME Inv, NEW c \in Calls, NEW p \in Places, Put(c, p)
  PROVE  /\ Inv' /\ Others(c) /\ Same(c) /\ call'[c].todo = call[c].todo \ {p}
         /\ call'[c].step = IF call'[c].todo = {} THEN AfterStoring(call[c].kind) ELSE "storing"
<1> DEFINE todo == call[c].todo \ {p}
           s == IF todo = {} THEN AfterStoring(call[c].kind) ELSE "storing"
           r == [call[c] EXCEPT !.todo = todo, !.step = s]
<1>1. call[c] \in Records /\ GoodCall(call[c]) /\ call[c].step = "storing" /\ p \in call[c].todo
  BY CallFacts DEF Put
<1>2. call' = [call EXCEPT ![c] = r]
  BY <1>1, TypeFacts DEF Put
<1>3. s \in Steps /\ todo \subseteq Places /\ todo \subseteq call[c].todo
      /\ (s = "storing" => todo # {}) /\ (s # "storing" => todo = {})
      /\ s \in {"storing", "clearing", "acked"}
      /\ (s = "clearing" => call[c].kind \in Finalizers)
  BY <1>1 DEF Steps, AfterStoring, Records, GoodCall, Storers, Finalizers
<1>4. /\ r.step = s /\ r.todo = todo /\ r.kind = call[c].kind /\ r.box = call[c].box
      /\ r.has = call[c].has
  BY <1>1 DEF Records
<1>5. r \in Records
  <2> HIDE DEF todo, s
  <2> QED BY <1>1, <1>3 DEF Records
<1>6. GoodCall(r)
  <2> HIDE DEF r, s, todo
  <2> QED BY <1>1, <1>3, <1>4 DEF GoodCall
<1>7. CallsOK' /\ call'[c] = r /\ Others(c)
  <2> HIDE DEF r
  <2> QED BY <1>2, <1>5, <1>6, CallUpdate, TypeFacts DEF Put, Others
<1>8. Inv'
  <2>1. Copy(c, p) \in [data : Contents, ttl : BOOLEAN] /\ (p[1] = "hetzner" => ~Copy(c, p).ttl)
    BY CopyType, TypeFacts
  <2> QED BY <1>7, <2>1, TypeFacts, InvFromObject DEF Put
<1> HIDE DEF r
<1> QED BY <1>4, <1>7, <1>8 DEF Same

LEMMA PutFailsFacts ==
  ASSUME Inv, NEW c \in Calls, NEW p \in Places, PutFails(c, p)
  PROVE  Inv' /\ Others(c) /\ call'[c].step = "failed" /\ call'[c].kind = call[c].kind
<1>1. CallsOK' /\ Others(c) /\ call'[c].step = "failed" /\ call'[c].kind = call[c].kind
  BY FailUpdate, TypeFacts DEF PutFails, Others
<1> DEFINE ws == Dropped(c, call[c].todo \ {p})
<1>2. \A w \in ws : w \in Writes /\ (w.at[1] = "hetzner" => ~w.ttl)
  BY DroppedWrites, CallFacts, TypeFacts DEF Writes
<1> HIDE DEF ws
<1>3. strays' = strays \cup ws
  BY DEF PutFails, ws
<1>4. Inv'
  BY <1>1, <1>2, <1>3, TypeFacts, InvFromStrays DEF PutFails
<1> QED BY <1>1, <1>4

LEMMA FetchFacts ==
  ASSUME Inv, NEW c \in Calls, Fetch(c)
  PROVE  /\ Inv' /\ Others(c) /\ Same(c) /\ call'[c].step = NextStep(c) /\ call'[c].todo = {}
         /\ temp' = [temp EXCEPT ![call[c].box][Fetching(c)] = Source(c)]
         /\ Source(c) # "none" /\ call[c].kind \in Finalizers
<1> DEFINE r == [call[c] EXCEPT !.step = NextStep(c), !.tries = 0]
<1>1. /\ call[c] \in Records /\ GoodCall(call[c]) /\ call[c].kind \in Finalizers
      /\ call[c].todo = {}
  BY CallFacts DEF Fetch, Fetches, GoodCall
<1>2. call' = [call EXCEPT ![c] = r]
  BY <1>1, TypeFacts DEF Fetch
<1>3. NextStep(c) \in {"fetch thumb", "read"} /\ 0 \in 0 .. (MaxAttempts - 1)
  BY Constants DEF NextStep
<1>4. r.step = NextStep(c) /\ r.todo = {} /\ r.kind = call[c].kind /\ r.box = call[c].box
      /\ r.has = call[c].has
  BY <1>1 DEF Records
<1>5. r \in Records
  BY <1>1, <1>3 DEF Records, Steps
<1> HIDE DEF r
<1>6. GoodCall(r)
  BY <1>1, <1>3, <1>4 DEF GoodCall
<1>7. CallsOK' /\ call'[c] = r /\ Others(c)
  BY <1>2, <1>5, <1>6, CallUpdate, TypeFacts DEF Fetch, Others
<1>8. Source(c) \in Contents
  <2>1. Bucket(call[c].kind) \in {"sfw", "nsfw"} /\ Fetching(c) \in Keys
    BY DEF Bucket, Fetching, Keys
  <2>2. <<Bucket(call[c].kind), Fetching(c)>> \in Places
    BY <2>1, PlaceFacts
  <2> QED BY <2>2, TypeFacts DEF Source, Things
<1>9. temp' \in [Boxes -> [Keys -> Contents]]
  BY <1>8, TypeFacts, CallFacts DEF Fetch
<1>10. Inv'
  BY <1>7, <1>9, TypeFacts, InvFromCalls DEF Fetch, ghosts
<1> QED BY <1>1, <1>4, <1>7, <1>10 DEF Fetch, Same

\* An attempt that fails goes on to the next attempt, or to the next file if
\* this one is there, or fails the request because it is not.
LEMMA FetchFailsFacts ==
  ASSUME Inv, NEW c \in Calls, FetchFails(c)
  PROVE  /\ Inv' /\ Others(c) /\ Same(c) /\ call'[c].todo = {} /\ call[c].kind \in Finalizers
         /\ \/ call'[c].step = call[c].step
            \/ call'[c].step = NextStep(c) /\ temp'[call[c].box][Fetching(c)] # "none"
            \/ call'[c].step = "failed"
         /\ \/ Source(c) = "none" /\ UNCHANGED <<temp, faults>>
            \/ Fault
         /\ \A k \in Keys : temp[call[c].box][k] # "none" => temp'[call[c].box][k] # "none"
<1> DEFINE b == call[c].box
           k == Fetching(c)
           last == call[c].tries + 1 = MaxAttempts
           tries == IF last THEN 0 ELSE call[c].tries + 1
           s == IF ~last THEN call[c].step
                ELSE IF temp'[b][k] # "none" THEN NextStep(c) ELSE "failed"
<1>1. /\ call[c] \in Records /\ GoodCall(call[c]) /\ call[c].kind \in Finalizers
      /\ call[c].todo = {} /\ call[c].step \in {"fetch mp4", "fetch thumb"}
  BY CallFacts DEF FetchFails, Fetches, GoodCall
<1>2. tries \in 0 .. (MaxAttempts - 1)
  <2>1. call[c].tries \in 0 .. (MaxAttempts - 1)
    BY CallFacts
  <2> QED BY <2>1, Constants
<1>3. NextStep(c) \in {"fetch thumb", "read"}
  BY DEF NextStep
<1>4. s \in Steps /\ s \in {"fetch mp4", "fetch thumb", "read", "failed"}
  BY <1>1, <1>3 DEF Steps
<1>5. PICK f \in Contents : temp' = [temp EXCEPT ![b][k] = f]
                           /\ f \in {temp[b][k], "cut"}
  <2>1. temp[b][k] \in Contents /\ "cut" \in Contents
    BY CallFacts, TypeFacts DEF Fetching, Keys, Contents
  <2>2. CASE UNCHANGED temp
    <3>1. temp' = [temp EXCEPT ![b][k] = temp[b][k]]
      BY <2>2, CallFacts, TypeFacts DEF Fetching, Keys
    <3> QED BY <2>1, <3>1
  <2>3. CASE \E f \in {temp[b][k], "cut"} : temp' = [temp EXCEPT ![b][k] = f]
    BY <2>1, <2>3
  <2> QED BY <2>2, <2>3 DEF FetchFails
<1>6. temp' \in [Boxes -> [Keys -> Contents]]
      /\ \A j \in Keys : temp[b][j] # "none" => temp'[b][j] # "none"
  BY <1>5, CallFacts, TypeFacts DEF Fetching, Keys, Contents
<1>7. \E r \in Records : /\ call' = [call EXCEPT ![c] = r] /\ r.step = s /\ r.todo = {}
                         /\ r.kind = call[c].kind /\ r.box = b /\ r.has = call[c].has
  <2> DEFINE r == [call[c] EXCEPT !.tries = tries, !.step = s]
  <2>1. call' = [call EXCEPT ![c] = r]
    BY <1>1, TypeFacts DEF FetchFails, Exists
  <2> HIDE DEF tries, s
  <2>2. r.step = s /\ r.todo = {} /\ r.kind = call[c].kind /\ r.box = b /\ r.has = call[c].has
    BY <1>1 DEF Records
  <2>3. r \in Records
    BY <1>1, <1>2, <1>4 DEF Records
  <2> QED BY <2>1, <2>2, <2>3
<1>8. PICK r \in Records : /\ call' = [call EXCEPT ![c] = r] /\ r.step = s /\ r.todo = {}
                           /\ r.kind = call[c].kind /\ r.box = b /\ r.has = call[c].has
  BY <1>7
<1>9. GoodCall(r)
  <2> HIDE DEF s
  <2> QED BY <1>1, <1>4, <1>8 DEF GoodCall
<1>10. CallsOK' /\ call'[c] = r /\ Others(c)
  BY <1>8, <1>9, CallUpdate, TypeFacts DEF FetchFails, Others
<1>11. (Source(c) = "none" /\ UNCHANGED <<temp, faults>>) \/ Fault
  BY DEF FetchFails
<1>12. Inv'
  BY <1>6, <1>10, <1>11, TypeFacts, InvFromCalls DEF FetchFails, ghosts
<1>13. Same(c) /\ call'[c].todo = {} /\ call'[c].step = s
  BY <1>8, <1>10 DEF Same
<1> QED BY <1>1, <1>6, <1>10, <1>11, <1>12, <1>13

LEMMA ReadFacts ==
  ASSUME Inv, NEW c \in Calls, Read(c)
  PROVE  /\ Inv' /\ Others(c) /\ call'[c].kind = call[c].kind /\ call[c].kind \in Finalizers
         /\ \/ /\ call'[c].step = "failed"
               /\ \E k \in Keys : "none" \in Seen(c, k)
            \/ /\ call'[c].step = "storing" /\ call'[c].todo = Targets(call[c].kind)
<1>1. /\ call[c] \in Records /\ GoodCall(call[c]) /\ call[c].kind \in Finalizers
      /\ call[c].todo = {} /\ call[c].step = "read"
  BY CallFacts DEF Read, GoodCall
<1>2. PICK v \in Seen(c, "mp4"), t \in Seen(c, "thumb") :
         call' = IF v = "none" \/ t = "none"
                 THEN [call EXCEPT ![c].step = "failed"]
                 ELSE [call EXCEPT ![c].step = "storing",
                           ![c].has = [mp4 |-> v, thumb |-> t],
                           ![c].todo = Targets(call[c].kind)]
  BY DEF Read
<1>3. v \in Contents /\ t \in Contents
  BY CallFacts, TypeFacts DEF Seen, Keys, Contents
<1>4. CASE v = "none" \/ t = "none"
  <2>1. Goto(c, "failed") /\ "failed" \in Steps
    BY <1>2, <1>4 DEF Goto, Steps
  <2>2. CallsOK' /\ Others(c) /\ call'[c].step = "failed" /\ call'[c].kind = call[c].kind
    BY <1>1, <2>1, GotoUpdate, TypeFacts DEF Read, Others
  <2>3. Inv'
    BY <2>2, TypeFacts, InvFromCalls DEF Read, ghosts
  <2> QED BY <1>1, <1>2, <1>4, <2>2, <2>3 DEF Keys
<1>5. CASE v # "none" /\ t # "none"
  <2> DEFINE has == [mp4 |-> v, thumb |-> t]
             r == [call[c] EXCEPT !.step = "storing", !.has = has,
                                  !.todo = Targets(call[c].kind)]
  <2>1. call' = [call EXCEPT ![c] = r]
    BY <1>1, <1>2, <1>5, TypeFacts
  <2>2. has \in [Keys -> Contents] /\ \A k \in Keys : has[k] # "none"
    BY <1>3, <1>5 DEF Keys
  <2> HIDE DEF has
  <2>3. /\ r.step = "storing" /\ r.has = has /\ r.todo = Targets(call[c].kind)
        /\ r.kind = call[c].kind /\ r \in Records
    BY <1>1, <2>2, TargetsArePlaces DEF Records, Steps
  <2> HIDE DEF r
  <2>4. GoodCall(r)
    BY <1>1, <2>2, <2>3 DEF GoodCall, Storers, Finalizers
  <2>5. CallsOK' /\ call'[c] = r /\ Others(c)
    BY <2>1, <2>3, <2>4, CallUpdate, TypeFacts DEF Read, Others
  <2>6. Inv'
    BY <2>5, TypeFacts, InvFromCalls DEF Read, ghosts
  <2> QED BY <1>1, <2>3, <2>5, <2>6
<1> QED BY <1>4, <1>5

LEMMA ClearFacts ==
  ASSUME Inv, NEW c \in Calls, Clear(c)
  PROVE  /\ Inv' /\ Others(c) /\ Same(c) /\ call'[c].todo = {}
         /\ call'[c].step \in {"posting", "acked"} /\ call[c].kind \in Finalizers
<1>1. GoodCall(call[c]) /\ call[c].kind \in Finalizers /\ call[c].todo = {}
  BY CallFacts DEF Clear, GoodCall
<1>2. PICK s \in {"posting", "acked"} : Goto(c, s) /\ (s = "posting" => call[c].kind = "publish")
  BY DEF Clear
<1>3. s \in Steps
  BY DEF Steps
<1>4. CallsOK' /\ Others(c) /\ Same(c) /\ call'[c].step = s /\ call'[c].todo = {}
  BY <1>1, <1>2, <1>3, GotoUpdate, TypeFacts DEF Clear, Others, Same
<1>5. temp' \in [Boxes -> [Keys -> Contents]]
  BY TypeFacts, FileLists, CallFacts DEF Clear
<1>6. Inv'
  BY <1>4, <1>5, TypeFacts, InvFromCalls DEF Clear, ghosts
<1> QED BY <1>1, <1>4, <1>6

LEMMA AddPostFacts ==
  ASSUME Inv, NEW c \in Calls, AddPost(c)
  PROVE  /\ Inv' /\ Others(c) /\ Same(c) /\ call'[c].todo = {} /\ call[c].kind \in Finalizers
         /\ \/ call'[c].step = "acked" /\ UNCHANGED faults
            \/ call'[c].step = "failed" /\ UNCHANGED faults
            \/ call'[c].step = "failed" /\ Fault
<1>1. GoodCall(call[c]) /\ call[c].kind \in Finalizers /\ call[c].todo = {}
  BY CallFacts DEF AddPost, GoodCall
<1>2. PICK s \in {"acked", "failed"} : /\ Goto(c, s)
                                       /\ UNCHANGED faults \/ (s = "failed" /\ Fault)
  BY DEF AddPost
<1>3. s \in Steps
  BY DEF Steps
<1>4. CallsOK' /\ Others(c) /\ Same(c) /\ call'[c].step = s /\ call'[c].todo = {}
  BY <1>1, <1>2, <1>3, GotoUpdate, TypeFacts DEF AddPost, Others, Same
<1>5. post' \in {"none", "draft", "published"}
  BY TypeFacts DEF AddPost
<1>6. HetznerStays' /\ UNCHANGED <<nsfw, objects, temp, strays, alone, mark>>
  BY TypeFacts DEF AddPost, HetznerStays, ghosts
<1>7. faults' \in 0 .. MaxFaults /\ mark <= faults'
  BY <1>2, TypeFacts, Constants DEF Fault
<1>8. Inv'
  BY <1>4, <1>5, <1>6, <1>7, TypeFacts, InvFrom
<1> QED BY <1>1, <1>2, <1>4, <1>8

\* One request of a move to a store: it goes to step s and changes object p.
LEMMA MoveStep ==
  ASSUME Inv, NEW c \in Calls, NEW s \in Steps, NEW p \in Places,
         NEW o \in [data : Contents, ttl : BOOLEAN], p[1] = "hetzner" => ~o.ttl,
         call[c].step \in {"moving", "moving thumb", "deleting", "deleting thumb"},
         s \in {"moving thumb", "deleting", "deleting thumb", "acked", "failed"},
         Goto(c, s), objects' = [objects EXCEPT ![p] = o] \/ objects' = objects,
         UNCHANGED <<nsfw, temp, strays, post, ghosts>>, faults' = faults \/ Fault
  PROVE  Inv' /\ Others(c) /\ Same(c) /\ call'[c].step = s /\ call[c].kind = "move"
<1>1. GoodCall(call[c]) /\ call[c].kind = "move" /\ call[c].has["mp4"] # "none"
      /\ call[c].todo = {}
  BY CallFacts DEF GoodCall
<1>2. CallsOK' /\ Others(c) /\ Same(c) /\ call'[c].step = s
  BY <1>1, GotoUpdate, TypeFacts DEF Others, Same
<1>3. Inv'
  BY <1>2, InvFromObject
<1> QED BY <1>1, <1>2, <1>3

LEMMA MoveVideoFacts ==
  ASSUME Inv, NEW c \in Calls, MoveVideo(c)
  PROVE  /\ Inv' /\ Others(c) /\ Same(c) /\ call[c].kind = "move"
         /\ \/ /\ call'[c].step \in {"moving thumb", "deleting"} /\ UNCHANGED faults
               /\ objects' = [objects EXCEPT ![Moved] = Copy(c, Moved)]
            \/ call'[c].step = "failed" /\ Fault /\ UNCHANGED objects
<1>1. /\ Moved \in Places /\ Moved[1] # "hetzner"
      /\ Copy(c, Moved) \in [data : Contents, ttl : BOOLEAN]
  BY PlaceFacts, CopyType, TypeFacts
<1>2. PICK s \in {"moving thumb", "deleting", "failed"} :
         /\ Goto(c, s)
         /\ \/ /\ s # "failed" /\ UNCHANGED faults
               /\ objects' = [objects EXCEPT ![Moved] = Copy(c, Moved)]
            \/ s = "failed" /\ Fault /\ UNCHANGED objects
  BY DEF MoveVideo, AfterMoving, Moved
<1>3. s \in Steps
  BY DEF Steps
<1>4. Inv' /\ Others(c) /\ Same(c) /\ call'[c].step = s /\ call[c].kind = "move"
  <2> DEFINE o == Copy(c, Moved)
  <2>1. o \in [data : Contents, ttl : BOOLEAN]
    BY <1>1
  <2>2. objects' = [objects EXCEPT ![Moved] = o] \/ objects' = objects
    BY <1>2
  <2>3. faults' = faults \/ Fault
    BY <1>2
  <2>4. UNCHANGED <<nsfw, temp, strays, post, ghosts>> /\ call[c].step = "moving"
    BY DEF MoveVideo
  <2> HIDE DEF o
  <2> QED BY <1>1, <1>2, <1>3, <2>1, <2>2, <2>3, <2>4, MoveStep
<1> QED BY <1>2, <1>4

LEMMA MoveThumbFacts ==
  ASSUME Inv, NEW c \in Calls, MoveThumb(c)
  PROVE  /\ Inv' /\ Others(c) /\ Same(c) /\ call[c].kind = "move" /\ call'[c].step = "deleting"
         /\ \A q \in Places : q # <<"nsfw", "thumb">> => objects'[q] = objects[q]
<1> DEFINE p == <<"nsfw", "thumb">>
<1>1. p \in Places /\ p[1] # "hetzner"
  BY PlaceFacts
<1>2. Copy(c, p) \in [data : Contents, ttl : BOOLEAN]
  BY <1>1, CopyType, TypeFacts
<1>3. Goto(c, "deleting") /\ "deleting" \in Steps /\ (faults' = faults \/ Fault)
      /\ (objects' = [objects EXCEPT ![p] = Copy(c, p)] \/ objects' = objects)
  BY DEF MoveThumb, Steps
<1> HIDE DEF p
<1>4. Inv' /\ Others(c) /\ Same(c) /\ call'[c].step = "deleting" /\ call[c].kind = "move"
  BY <1>1, <1>2, <1>3, MoveStep DEF MoveThumb
<1>5. \A q \in Places : q # p => objects'[q] = objects[q]
  BY <1>3, TypeFacts DEF Things
<1> QED BY <1>4, <1>5 DEF p

LEMMA DeleteVideoFacts ==
  ASSUME Inv, NEW c \in Calls, DeleteVideo(c)
  PROVE  /\ Inv' /\ Others(c) /\ Same(c) /\ call[c].kind = "move"
         /\ \/ call'[c].step \in {"acked", "deleting thumb"} /\ UNCHANGED faults
            \/ call'[c].step = "failed" /\ Fault
         /\ \A q \in Places : q # Video => objects'[q] = objects[q]
<1>1. Video \in Places /\ Absent \in [data : Contents, ttl : BOOLEAN] /\ ~Absent.ttl
  BY PlaceFacts, AbsentType
<1>2. PICK s \in {"acked", "deleting thumb", "failed"} :
         Goto(c, s) /\ ((s # "failed" /\ UNCHANGED faults) \/ (s = "failed" /\ Fault))
  BY DEF DeleteVideo
<1>3. s \in Steps
  BY DEF Steps
<1>4. objects' = [objects EXCEPT ![Video] = Absent] \/ objects' = objects
  BY DEF DeleteVideo, Video
<1>5. Inv' /\ Others(c) /\ Same(c) /\ call'[c].step = s /\ call[c].kind = "move"
  BY <1>1, <1>2, <1>3, <1>4, MoveStep DEF DeleteVideo
<1>6. \A q \in Places : q # Video => objects'[q] = objects[q]
  BY <1>4, TypeFacts DEF Things
<1> QED BY <1>2, <1>5, <1>6

LEMMA DeleteThumbFacts ==
  ASSUME Inv, NEW c \in Calls, DeleteThumb(c)
  PROVE  /\ Inv' /\ Others(c) /\ Same(c) /\ call[c].kind = "move" /\ call'[c].step = "acked"
         /\ \A q \in Places : q # <<"hetzner", "thumb">> => objects'[q] = objects[q]
<1> DEFINE p == <<"hetzner", "thumb">>
<1>1. p \in Places /\ Absent \in [data : Contents, ttl : BOOLEAN] /\ ~Absent.ttl
  BY PlaceFacts, AbsentType
<1>2. Goto(c, "acked") /\ "acked" \in Steps /\ (faults' = faults \/ Fault)
      /\ (objects' = [objects EXCEPT ![p] = Absent] \/ objects' = objects)
  BY DEF DeleteThumb, Steps
<1> HIDE DEF p
<1>3. Inv' /\ Others(c) /\ Same(c) /\ call'[c].step = "acked" /\ call[c].kind = "move"
  BY <1>1, <1>2, MoveStep DEF DeleteThumb
<1>4. \A q \in Places : q # p => objects'[q] = objects[q]
  BY <1>2, TypeFacts DEF Things
<1> QED BY <1>3, <1>4 DEF p

\* What a request that is dropped leaves under way
LEMMA PendingWrites ==
  ASSUME Inv, NEW c \in Calls, NEW w \in Pending(c)
  PROVE  /\ w \in Writes /\ (w.at[1] = "hetzner" => ~w.ttl)
         /\ w.at = Video /\ w.data = "none" =>
              call[c].step = "deleting" /\ Pending(c) = {w}
         /\ w.at = Moved /\ ~nsfw => w.data # "none" /\ ~w.ttl
<1>1. call[c] \in Records /\ GoodCall(call[c]) /\ call[c].todo \subseteq Places
  BY CallFacts
<1>2. CASE call[c].step = "storing"
  <2>1. Pending(c) = Dropped(c, call[c].todo)
    BY <1>2 DEF Pending
  <2>2. /\ w \in Writes /\ w.at \in call[c].todo /\ w.data = call[c].has[w.at[2]]
        /\ (w.at[1] = "hetzner" => ~w.ttl)
    BY <1>1, <2>1, DroppedWrites, TypeFacts DEF Writes
  <2>3. w.at[2] \in Keys /\ w.data # "none" /\ (~nsfw => w.at[1] # "nsfw")
    BY <1>1, <1>2, <2>2, TargetsArePlaces DEF GoodCall
  <2> QED BY <2>2, <2>3, PlaceFacts
<1>3. CASE call[c].step = "moving"
  <2>1. w \in Dropped(c, {Moved}) /\ {Moved} \subseteq Places
    BY <1>3, PlaceFacts DEF Pending, Moved
  <2>2. /\ w \in Writes /\ w.at = Moved /\ w.data = call[c].has[w.at[2]]
        /\ (call[c].kind # "upload" => ~w.ttl)
    BY <2>1, DroppedWrites, TypeFacts DEF Writes
  <2> QED BY <1>1, <1>3, <2>2, PlaceFacts DEF GoodCall
<1>4. CASE call[c].step = "moving thumb"
  <2> DEFINE p == <<"nsfw", "thumb">>
  <2>1. w \in Dropped(c, {p}) /\ {p} \subseteq Places
    BY <1>4, PlaceFacts DEF Pending
  <2>2. w \in Writes /\ w.at = p
    BY <2>1, DroppedWrites, TypeFacts DEF Writes
  <2>3. p # Video /\ p # Moved /\ p[1] # "hetzner"
    BY DEF Video, Moved
  <2> QED BY <2>2, <2>3
<1>5. CASE call[c].step = "deleting"
  <2>1. w = Removal("mp4") /\ Pending(c) = {w}
    BY <1>5 DEF Pending
  <2>2. w.at = Video /\ w.data = "none" /\ w.ttl = FALSE /\ w \in Writes
    BY <2>1, PlaceFacts DEF Removal, Video, Writes, Contents
  <2> QED BY <1>5, <2>1, <2>2, PlaceFacts
<1>6. CASE call[c].step = "deleting thumb"
  <2>1. w = Removal("thumb")
    BY <1>6 DEF Pending
  <2>2. w.at = <<"hetzner", "thumb">> /\ w.ttl = FALSE /\ w \in Writes
    BY <2>1, PlaceFacts DEF Removal, Writes, Contents
  <2>3. w.at # Video /\ w.at # Moved
    BY <2>2 DEF Video, Moved
  <2> QED BY <2>2, <2>3
<1> QED BY <1>2, <1>3, <1>4, <1>5, <1>6 DEF Pending

LEMMA HangUpFacts ==
  ASSUME Inv, NEW c \in Calls, HangUp(c)
  PROVE  Inv' /\ Others(c) /\ call'[c].step = "failed" /\ call'[c].kind = call[c].kind
<1>1. CallsOK' /\ Others(c) /\ call'[c].step = "failed" /\ call'[c].kind = call[c].kind
  BY FailUpdate, TypeFacts DEF HangUp, Others
<1>2. \A w \in Pending(c) : w \in Writes /\ (w.at[1] = "hetzner" => ~w.ttl)
  BY PendingWrites
<1>3. temp' \in [Boxes -> [Keys -> Contents]]
  <2>1. temp[call[c].box][Fetching(c)] \in Contents /\ "cut" \in Contents
    BY CallFacts, TypeFacts DEF Fetching, Keys, Contents
  <2>2. PICK f \in Contents : temp' = [temp EXCEPT ![call[c].box][Fetching(c)] = f]
    BY <2>1 DEF HangUp
  <2> QED BY <2>2, CallFacts, TypeFacts
<1>4. Inv'
  BY <1>1, <1>2, <1>3, TypeFacts, InvFromStrays DEF HangUp
<1> QED BY <1>1, <1>4

LEMMA CallsUnchanged == Inv /\ UNCHANGED <<nsfw, call>> => CallsOK'
<1> SUFFICES ASSUME Inv, nsfw' = nsfw, call' = call PROVE CallsOK'
  OBVIOUS
<1>1. CallsOK /\ \A k : Targets(k)' = Targets(k)
  BY TypeFacts DEF Targets, Flag
<1>2. ASSUME NEW d \in Calls PROVE GoodCall(call[d])'
  BY <1>1 DEF CallsOK, GoodCall
<1> QED BY <1>1, <1>2 DEF CallsOK

\* A write that lands is the one that was under way, or on Storj a part of it.
LEMMA LandFacts ==
  ASSUME Inv, NEW s \in strays, Land(s)
  PROVE  /\ Inv' /\ strays' \subseteq strays /\ s \in Writes
         /\ \/ objects' = objects
            \/ \E o \in [data : Contents, ttl : BOOLEAN] :
                 /\ objects' = [objects EXCEPT ![s.at] = o] /\ o.ttl = s.ttl
                 /\ o.data = s.data \/ (o.data = "cut" /\ s.at[1] # "hetzner")
<1>1. s \in Writes /\ s.at \in Places
  BY TypeFacts DEF Writes
<1>2. \/ objects' = objects
      \/ \E o \in [data : Contents, ttl : BOOLEAN] :
           /\ objects' = [objects EXCEPT ![s.at] = o] /\ o.ttl = s.ttl
           /\ o.data = s.data \/ (o.data = "cut" /\ s.at[1] # "hetzner")
  <2>1. ASSUME NEW d \in {s.data} \cup (IF s.at[1] = "hetzner" THEN {} ELSE {"cut"}),
               objects' = [objects EXCEPT ![s.at] = [data |-> d, ttl |-> s.ttl]]
        PROVE  \E o \in [data : Contents, ttl : BOOLEAN] :
                 /\ objects' = [objects EXCEPT ![s.at] = o] /\ o.ttl = s.ttl
                 /\ o.data = s.data \/ (o.data = "cut" /\ s.at[1] # "hetzner")
    <3>1. d \in Contents /\ s.ttl \in BOOLEAN
      BY <1>1, <2>1 DEF Writes, Contents
    <3> DEFINE o == [data |-> d, ttl |-> s.ttl]
    <3>2. o \in [data : Contents, ttl : BOOLEAN] /\ o.data = d /\ o.ttl = s.ttl
      BY <3>1
    <3>3. objects' = [objects EXCEPT ![s.at] = o]
      BY <2>1
    <3> HIDE DEF o
    <3> QED BY <2>1, <3>2, <3>3
  <2> QED BY <2>1 DEF Land
<1>3. strays' \subseteq strays /\ UNCHANGED <<nsfw, temp, call, post, faults, ghosts>>
  BY DEF Land
<1>4. CallsOK'
  BY <1>3, CallsUnchanged
<1>5. s.at[1] = "hetzner" => ~s.ttl
  BY TypeFacts DEF HetznerStays
<1>6. Inv'
  <2>1. CASE objects' = objects
    BY <1>1, <1>3, <1>4, <2>1, AbsentType, InvFromObject
  <2>2. CASE objects' # objects
    <3>1. PICK o \in [data : Contents, ttl : BOOLEAN] :
             objects' = [objects EXCEPT ![s.at] = o] /\ o.ttl = s.ttl
      BY <1>2, <2>2
    <3> QED BY <1>1, <1>3, <1>4, <1>5, <3>1, InvFromObject
  <2> QED BY <2>1, <2>2
<1> QED BY <1>1, <1>2, <1>3, <1>6

LEMMA ExpireFacts ==
  ASSUME Inv, NEW p \in Places, Expire(p)
  PROVE  /\ Inv' /\ objects[p].ttl /\ objects'[p] = Absent
         /\ \A q \in Places : q # p => objects'[q] = objects[q]
<1>1. UNCHANGED <<nsfw, temp, call, strays, post, faults, ghosts>>
      /\ objects' = [objects EXCEPT ![p] = Absent] /\ objects[p].ttl
  BY DEF Expire
<1>2. CallsOK'
  BY <1>1, CallsUnchanged
<1>3. Inv'
  BY <1>1, <1>2, AbsentType, InvFromObject
<1> QED BY <1>1, <1>3, TypeFacts DEF Things

LEMMA MarkPublishedInv == ASSUME Inv, MarkPublished PROVE Inv'
<1>1. CallsOK' /\ HetznerStays' /\ UNCHANGED <<nsfw, objects, temp, strays, faults, alone, mark>>
  BY CallsUnchanged, TypeFacts DEF MarkPublished, HetznerStays, ghosts
<1>2. post' = "published"
  BY DEF MarkPublished
<1> QED BY <1>1, <1>2, TypeFacts, InvFrom

LEMMA StutterInv == ASSUME Inv, UNCHANGED vars PROVE Inv'
<1>1. UNCHANGED <<nsfw, objects, temp, strays, post, faults, alone, mark, call>>
  BY DEF vars
<1>2. CallsOK' /\ HetznerStays'
  BY <1>1, CallsUnchanged, TypeFacts DEF HetznerStays
<1> QED BY <1>1, <1>2, TypeFacts, InvFrom

LEMMA NextInv == ASSUME Inv, [Next]_vars PROVE Inv'
<1>1. ASSUME NEW c \in Calls, StartUpload(c) \/ RejectUpload(c) \/ StartMove(c)
      PROVE  Inv'
  BY <1>1, StartUploadInv, RejectUploadInv, StartMoveFacts
<1>2. ASSUME NEW c \in Calls, NEW b \in Boxes, NEW k \in {"finalize", "publish"},
             StartFinalize(c, k, b)
      PROVE  Inv'
  BY <1>2, StartFinalizeInv DEF Finalizers
<1>3. ASSUME NEW c \in Calls, NEW p \in Places, Put(c, p) \/ PutFails(c, p)
      PROVE  Inv'
  BY <1>3, PutFacts, PutFailsFacts
<1>4. ASSUME NEW c \in Calls, Fetch(c) \/ FetchFails(c) \/ Read(c) \/ Clear(c) \/ AddPost(c)
      PROVE  Inv'
  BY <1>4, FetchFacts, FetchFailsFacts, ReadFacts, ClearFacts, AddPostFacts
<1>5. ASSUME NEW c \in Calls, MoveVideo(c) \/ MoveThumb(c) \/ DeleteVideo(c) \/ DeleteThumb(c)
      PROVE  Inv'
  BY <1>5, MoveVideoFacts, MoveThumbFacts, DeleteVideoFacts, DeleteThumbFacts
<1>6. ASSUME NEW c \in Calls, HangUp(c) PROVE Inv'
  BY <1>6, HangUpFacts
<1>7. ASSUME NEW s \in strays, Land(s) PROVE Inv'
  BY <1>7, LandFacts
<1>8. ASSUME NEW p \in Places, Expire(p) PROVE Inv'
  BY <1>8, ExpireFacts
<1> QED BY <1>1, <1>2, <1>3, <1>4, <1>5, <1>6, <1>7, <1>8, MarkPublishedInv, StutterInv
       DEF Next

\* The states of the model have the shapes they are declared with, whatever
\* the requests, the boxes and the faults.
THEOREM UploadTypeCorrect == Spec => []TypeOK
<1>1. Inv => TypeOK
  BY DEF Inv
<1> QED BY <1>1, InitInv, NextInv, PTL DEF Spec

-----------------------------------------------------------------------------
(* A request with no other beside it *)

\* A step of a request that runs is a step of the one that is alone.
LEMMA OnlyActive ==
  ASSUME AloneInv, NEW c \in Calls, Active(c), NEW a \in Calls, a = alone
  PROVE  a = c /\ Alone(c)
BY DEF AloneInv, Alone

\* Nothing is under way beside it, and its failure is its own.
LEMMA AloneQuiet ==
  ASSUME Inv, Inv', NEW c \in Calls, Alone(c), Others(c), Active(c), UNCHANGED mark,
         \/ strays' = strays /\ faults' = faults
         \/ strays' = strays /\ call'[c].step # "failed" /\ faults' \in {faults, faults + 1}
         \/ call'[c].step = "failed" /\ Fault
  PROVE  /\ \A d \in Calls \ {c} : ~Active(d)'
         /\ call'[c].step # "failed" \/ mark' = faults' => strays' = {}
<1>1. \A d \in Calls \ {c} : ~Active(d)'
  BY DEF Alone, Active, Others
<1>2. strays = {} /\ mark <= faults /\ mark \in Nat /\ faults \in Nat
  BY TypeFacts DEF Alone, Active
<1>3. Fault => mark # faults'
  BY <1>2 DEF Fault
<1> QED BY <1>1, <1>2, <1>3

\* A request that begins alone: nothing else runs, nothing is under way.
LEMMA BeginsAlone ==
  ASSUME Inv, NEW c \in Calls, NEW r, Begin(c, r), NEW a \in Calls, a = alone',
         Others(c), strays' = strays
  PROVE  a = c /\ (\A d \in Calls \ {c} : ~Active(d)') /\ strays' = {}
<1>1. alone' = c /\ strays = {} /\ \A d \in Calls : ~Active(d)
  BY Constants DEF Begin
<1> QED BY <1>1 DEF Active, Others

\* The parts of Alone a request that has just begun, or has failed, asks for
LEMMA FreshIsAlone ==
  ASSUME NEW c \in Calls, \A d \in Calls \ {c} : ~Active(d)', strays' = {},
         call'[c].step \notin {"fetch thumb", "read", "clearing", "posting", "acked",
                               "moving", "moving thumb", "deleting"},
         call'[c].step = "storing" =>
            call'[c].kind = "upload" /\ call'[c].todo = Targets("upload")',
         call'[c].step = "failed" => call'[c].kind # "finalize"
  PROVE  Alone(c)'
<1>1. StoredStands(c)'
  BY DEF StoredStands, Finalizers
<1>2. FetchedIsThere(c)'
  BY DEF FetchedIsThere
<1>3. CopyIsVideo(c)'
  BY DEF CopyIsVideo
<1> QED BY <1>1, <1>2, <1>3 DEF Alone

LEMMA FailedIsAlone ==
  ASSUME Inv, NEW c \in Calls, Alone(c), Others(c), mark' = mark,
         call'[c].step = "failed", Fault, CopyIsVideo(c)'
  PROVE  Alone(c)'
<1>1. mark' # faults'
  BY TypeFacts DEF Fault
<1>2. StoredStands(c)'
  BY DEF StoredStands
<1>3. FetchedIsThere(c)'
  BY <1>1 DEF FetchedIsThere
<1>4. \A d \in Calls \ {c} : ~Active(d)'
  BY DEF Alone, Active, Others
<1> QED BY <1>1, <1>2, <1>3, <1>4 DEF Alone

LEMMA StartUploadAlone ==
  ASSUME Inv, AloneInv, NEW c \in Calls, StartUpload(c) PROVE AloneInv'
<1> SUFFICES ASSUME NEW a \in Calls, a = alone' PROVE Alone(a)'
  BY DEF AloneInv
<1> DEFINE r == [Idle EXCEPT !.step = "storing", !.kind = "upload",
                             !.todo = Targets("upload"), !.has = Whole]
<1>1. Begin(c, r) /\ UNCHANGED <<nsfw, objects, temp, strays, post, faults>>
  BY DEF StartUpload
<1>2. r.step = "storing" /\ r.kind = "upload" /\ r.todo = Targets("upload")
  BY IdleIsGood DEF Records
<1> HIDE DEF r
<1>3. call'[c] = r /\ Others(c)
  BY <1>1, TypeFacts DEF Begin, Others
<1>4. a = c /\ (\A d \in Calls \ {c} : ~Active(d)') /\ strays' = {}
  BY <1>1, <1>3, BeginsAlone
<1>5. Targets("upload")' = Targets("upload")
  BY <1>1 DEF Targets, Flag
<1> QED BY <1>2, <1>3, <1>4, <1>5, FreshIsAlone

LEMMA RejectUploadAlone ==
  ASSUME Inv, AloneInv, NEW c \in Calls, RejectUpload(c) PROVE AloneInv'
<1> SUFFICES ASSUME NEW a \in Calls, a = alone' PROVE Alone(a)'
  BY DEF AloneInv
<1> DEFINE r == [Idle EXCEPT !.step = "failed", !.kind = "upload"]
<1>1. Begin(c, r) /\ UNCHANGED <<nsfw, objects, temp, strays, post, faults>>
  BY DEF RejectUpload
<1>2. r.step = "failed" /\ r.kind = "upload"
  BY IdleIsGood DEF Records
<1> HIDE DEF r
<1>3. call'[c] = r /\ Others(c)
  BY <1>1, TypeFacts DEF Begin, Others
<1>4. a = c /\ (\A d \in Calls \ {c} : ~Active(d)') /\ strays' = {}
  BY <1>1, <1>3, BeginsAlone
<1> QED BY <1>2, <1>3, <1>4, FreshIsAlone

LEMMA StartFinalizeAlone ==
  ASSUME Inv, AloneInv, NEW c \in Calls, NEW kind \in Finalizers, NEW b \in Boxes,
         StartFinalize(c, kind, b)
  PROVE  AloneInv'
<1> SUFFICES ASSUME NEW a \in Calls, a = alone' PROVE Alone(a)'
  BY DEF AloneInv
<1> DEFINE r == [Idle EXCEPT !.step = "fetch mp4", !.kind = kind, !.box = b]
<1>1. Begin(c, r) /\ UNCHANGED <<nsfw, objects, temp, strays, post, faults>>
  BY DEF StartFinalize
<1>2. r.step = "fetch mp4"
  BY IdleIsGood DEF Records
<1> HIDE DEF r
<1>3. call'[c] = r /\ Others(c)
  BY <1>1, TypeFacts DEF Begin, Others
<1>4. a = c /\ (\A d \in Calls \ {c} : ~Active(d)') /\ strays' = {}
  BY <1>1, <1>3, BeginsAlone
<1> QED BY <1>2, <1>3, <1>4, FreshIsAlone

LEMMA StartMoveAlone ==
  ASSUME Inv, AloneInv, NEW c \in Calls, StartMove(c) PROVE AloneInv'
<1> SUFFICES ASSUME NEW a \in Calls, a = alone' PROVE Alone(a)'
  BY DEF AloneInv
<1>1. /\ call'[c].kind = "move" /\ call'[c].step \in {"moving", "failed"}
      /\ call'[c].has["mp4"] = objects[Video].data /\ Others(c)
  BY StartMoveFacts DEF Others
<1>2. UNCHANGED <<nsfw, objects, temp, strays, post>> /\ \E r : Begin(c, r)
  BY DEF StartMove
<1>3. a = c /\ (\A d \in Calls \ {c} : ~Active(d)') /\ strays' = {}
  BY <1>1, <1>2, BeginsAlone
<1>4. StoredStands(c)'
  BY <1>1 DEF StoredStands, Finalizers
<1>5. FetchedIsThere(c)'
  BY <1>1 DEF FetchedIsThere
<1>6. CopyIsVideo(c)'
  BY <1>1, <1>2, <1>3 DEF CopyIsVideo
<1> QED BY <1>3, <1>4, <1>5, <1>6 DEF Alone

LEMMA PutAlone ==
  ASSUME Inv, AloneInv, NEW c \in Calls, NEW p \in Places, Put(c, p) PROVE AloneInv'
<1> SUFFICES ASSUME NEW a \in Calls, a = alone' PROVE Alone(a)'
  BY DEF AloneInv
<1>1. /\ Inv' /\ Others(c) /\ Same(c) /\ call'[c].todo = call[c].todo \ {p}
      /\ call'[c].step = IF call'[c].todo = {} THEN AfterStoring(call[c].kind) ELSE "storing"
  BY PutFacts
<1>2. call[c].step = "storing" /\ p \in call[c].todo /\ objects' = [objects EXCEPT ![p] = Copy(c, p)]
      /\ UNCHANGED <<nsfw, temp, strays, post, faults, alone, mark>>
  BY DEF Put, ghosts
<1>3. GoodCall(call[c]) /\ call[c].kind \in Storers /\ p \in Targets(call[c].kind)
      /\ p[2] \in Keys
  BY <1>2, CallFacts, PlaceFacts DEF GoodCall
<1>4. a = c /\ Alone(c) /\ strays = {} /\ Active(c)
  BY <1>2, OnlyActive DEF Active, Alone
<1>5. call'[c].step \in {"storing", "clearing", "acked"}
      /\ (call'[c].step = "clearing" => call[c].kind # "upload")
  BY <1>1 DEF AfterStoring
<1>6. (\A d \in Calls \ {c} : ~Active(d)') /\ strays' = {}
  BY <1>1, <1>2, <1>4, AloneQuiet
<1>7. /\ objects'[p].data = call[c].has[p[2]] /\ objects'[p].ttl = Expires(call[c].kind, p)
      /\ \A q \in Places : q # p => objects'[q] = objects[q]
  BY <1>2, CopyType, TypeFacts DEF Things
<1>8. \A k : Targets(k)' = Targets(k)
  BY <1>2 DEF Targets, Flag
<1>9. StoredStands(c)'
  <2>1. ASSUME call[c].kind \in Finalizers, NEW q \in Targets(call[c].kind) \ call'[c].todo
        PROVE  objects'[q].data = call[c].has[q[2]] /\ ~objects'[q].ttl
    <3>1. CASE q = p
      BY <1>7, <2>1, <3>1 DEF Expires, Finalizers
    <3>2. CASE q # p
      <4>1. q \in Targets(call[c].kind) \ call[c].todo /\ q \in Places
        BY <1>1, <2>1, <3>2, TargetsArePlaces
      <4> QED BY <1>2, <1>4, <1>7, <2>1, <3>2, <4>1 DEF Alone, StoredStands
    <3> QED BY <3>1, <3>2
  <2>2. ASSUME call[c].kind = "upload", NEW q \in Targets("upload") \ call'[c].todo
        PROVE  objects'[q].data = "whole" \/ (q[1] # "hetzner" /\ objects'[q] = Absent)
    <3>1. CASE q = p
      BY <1>2, <1>3, <1>7, <2>2, <3>1 DEF GoodCall
    <3>2. CASE q # p
      <4>1. q \in Targets("upload") \ call[c].todo /\ q \in Places
        BY <1>1, <2>2, <3>2, TargetsArePlaces
      <4> QED BY <1>2, <1>4, <1>7, <2>2, <3>2, <4>1 DEF Alone, StoredStands
    <3> QED BY <3>1, <3>2
  <2> QED BY <1>1, <1>8, <2>1, <2>2 DEF StoredStands, Same
<1>10. FetchedIsThere(c)'
  BY <1>5 DEF FetchedIsThere
<1>11. CopyIsVideo(c)'
  BY <1>5, <1>6 DEF CopyIsVideo
<1> QED BY <1>4, <1>6, <1>9, <1>10, <1>11 DEF Alone

LEMMA PutFailsAlone ==
  ASSUME Inv, AloneInv, NEW c \in Calls, NEW p \in Places, PutFails(c, p) PROVE AloneInv'
<1> SUFFICES ASSUME NEW a \in Calls, a = alone' PROVE Alone(a)'
  BY DEF AloneInv
<1>1. Inv' /\ Others(c) /\ call'[c].step = "failed"
  BY PutFailsFacts
<1>2. call[c].step = "storing" /\ Fault /\ UNCHANGED <<objects, alone, mark>>
      /\ strays' = strays \cup Dropped(c, call[c].todo \ {p})
  BY DEF PutFails, ghosts
<1>3. a = c /\ Alone(c) /\ strays = {} /\ Active(c)
  BY <1>2, OnlyActive DEF Active, Alone
<1>4. \A w \in strays' : w.data # "none"
  <2>1. ASSUME NEW w \in Dropped(c, call[c].todo \ {p}) PROVE w.data # "none"
    <3>1. w.at \in call[c].todo /\ w.data = call[c].has[w.at[2]]
      BY CallFacts, TypeFacts, DroppedWrites
    <3>2. w.at[2] \in Keys /\ GoodCall(call[c])
      BY <3>1, CallFacts, PlaceFacts
    <3> QED BY <1>2, <3>1, <3>2 DEF GoodCall
  <2> QED BY <1>2, <1>3, <2>1
<1>5. CopyIsVideo(c)'
  BY <1>1, <1>4 DEF CopyIsVideo
<1> QED BY <1>1, <1>2, <1>3, <1>5, FailedIsAlone

LEMMA FetchAlone ==
  ASSUME Inv, AloneInv, NEW c \in Calls, Fetch(c) PROVE AloneInv'
<1> SUFFICES ASSUME NEW a \in Calls, a = alone' PROVE Alone(a)'
  BY DEF AloneInv
<1>1. /\ Inv' /\ Others(c) /\ Same(c) /\ call'[c].step = NextStep(c) /\ call'[c].todo = {}
      /\ temp' = [temp EXCEPT ![call[c].box][Fetching(c)] = Source(c)]
      /\ Source(c) # "none" /\ call[c].kind \in Finalizers
  BY FetchFacts
<1>2. call[c].step \in {"fetch mp4", "fetch thumb"}
      /\ UNCHANGED <<nsfw, objects, strays, post, faults, alone, mark>>
  BY DEF Fetch, Fetches, ghosts
<1>3. a = c /\ Alone(c) /\ strays = {} /\ Active(c)
  BY <1>2, OnlyActive DEF Active, Alone
<1>4. call'[c].step \in {"fetch thumb", "read"} /\ strays' = {}
  BY <1>1, <1>2, <1>3 DEF NextStep
<1>5. \A d \in Calls \ {c} : ~Active(d)'
  BY <1>1, <1>2, <1>3, AloneQuiet
<1>6. FetchedIsThere(c)'
  <2>1. call[c].box \in Boxes /\ temp \in [Boxes -> [Keys -> Contents]]
    BY CallFacts, TypeFacts
  <2>2. CASE call[c].step = "fetch mp4"
    <3>1. Fetching(c) = "mp4" /\ call'[c].step = "fetch thumb"
      BY <1>1, <2>2 DEF Fetching, NextStep
    <3>2. temp'[call[c].box]["mp4"] # "none"
      BY <1>1, <2>1, <3>1 DEF Keys
    <3> QED BY <1>1, <3>1, <3>2 DEF FetchedIsThere, Same
  <2>3. CASE call[c].step = "fetch thumb"
    <3>1. Fetching(c) = "thumb" /\ call'[c].step = "read"
      BY <1>1, <2>3 DEF Fetching, NextStep
    <3>2. temp'[call[c].box]["thumb"] # "none" /\ temp'[call[c].box]["mp4"] # "none"
      BY <1>1, <1>3, <2>1, <2>3, <3>1 DEF Keys, Alone, FetchedIsThere
    <3> QED BY <1>1, <3>1, <3>2 DEF FetchedIsThere, Same
  <2> QED BY <1>2, <2>2, <2>3
<1>7. StoredStands(c)'
  BY <1>1, <1>4 DEF StoredStands
<1>8. CopyIsVideo(c)'
  BY <1>4 DEF CopyIsVideo
<1> QED BY <1>3, <1>4, <1>5, <1>6, <1>7, <1>8 DEF Alone

\* An attempt can only fail without a fault if the object is missing.
LEMMA FetchFailsAlone ==
  ASSUME Inv, AloneInv, NEW c \in Calls, FetchFails(c) PROVE AloneInv'
<1> SUFFICES ASSUME NEW a \in Calls, a = alone' PROVE Alone(a)'
  BY DEF AloneInv
<1>1. /\ Inv' /\ Others(c) /\ Same(c) /\ call'[c].todo = {} /\ call[c].kind \in Finalizers
      /\ \/ call'[c].step = call[c].step
         \/ call'[c].step = NextStep(c) /\ temp'[call[c].box][Fetching(c)] # "none"
         \/ call'[c].step = "failed"
      /\ \/ Source(c) = "none" /\ UNCHANGED <<temp, faults>>
         \/ Fault
      /\ \A k \in Keys : temp[call[c].box][k] # "none" => temp'[call[c].box][k] # "none"
  BY FetchFailsFacts
<1>2. call[c].step \in {"fetch mp4", "fetch thumb"} /\ Fetching(c) \in Keys
      /\ UNCHANGED <<nsfw, objects, strays, post, alone, mark>>
  BY DEF FetchFails, Fetches, Fetching, Keys, ghosts
<1>3. a = c /\ Alone(c) /\ strays = {} /\ Active(c)
  BY <1>2, OnlyActive DEF Active, Alone
<1>4. call'[c].step \in {"fetch mp4", "fetch thumb", "read", "failed"} /\ strays' = {}
  BY <1>1, <1>2, <1>3 DEF NextStep
<1>5. \A d \in Calls \ {c} : ~Active(d)'
  BY <1>1, <1>3, OnlyActive DEF Alone, Active, Others
<1>6. StoredStands(c)'
  BY <1>1, <1>4 DEF StoredStands, Finalizers
<1>7. CopyIsVideo(c)'
  BY <1>4 DEF CopyIsVideo
<1>8. FetchedIsThere(c)'
  <2>1. CASE call'[c].step = call[c].step
    <3>1. call[c].step = "fetch thumb" => temp'[call[c].box]["mp4"] # "none"
      BY <1>1, <1>3 DEF Alone, FetchedIsThere, Keys
    <3> QED BY <1>1, <1>2, <2>1, <3>1 DEF FetchedIsThere, Same
  <2>2. CASE call'[c].step = NextStep(c) /\ temp'[call[c].box][Fetching(c)] # "none"
    <3>1. CASE call[c].step = "fetch mp4"
      <4>1. call'[c].step = "fetch thumb" /\ temp'[call[c].box]["mp4"] # "none"
        BY <2>2, <3>1 DEF Fetching, NextStep
      <4> QED BY <1>1, <4>1 DEF FetchedIsThere, Same
    <3>2. CASE call[c].step = "fetch thumb"
      <4>1. call'[c].step = "read" /\ temp'[call[c].box]["thumb"] # "none"
        BY <2>2, <3>2 DEF Fetching, NextStep
      <4>2. temp'[call[c].box]["mp4"] # "none"
        BY <1>1, <1>3, <3>2 DEF Alone, FetchedIsThere, Keys
      <4> QED BY <1>1, <4>1, <4>2 DEF FetchedIsThere, Same
    <3> QED BY <1>2, <3>1, <3>2
  <2>3. CASE call'[c].step = "failed"
    <3>1. CASE Fault
      <4>1. mark' = mark /\ mark <= faults /\ faults' = faults + 1
        BY <1>2, <3>1, TypeFacts DEF Fault
      <4>2. mark' # faults'
        BY <4>1, TypeFacts
      <4> QED BY <2>3, <4>2 DEF FetchedIsThere
    <3>2. CASE Source(c) = "none"
      <4>1. call[c].kind = "finalize" =>
               objects'[<<Bucket("finalize"), Fetching(c)>>].data = "none"
        BY <1>2, <3>2 DEF Source
      <4>2. Bucket("finalize")' = Bucket("finalize")
        BY <1>2 DEF Bucket, Flag
      <4> QED BY <1>1, <1>2, <2>3, <4>1, <4>2 DEF FetchedIsThere, Same
    <3> QED BY <1>1, <3>1, <3>2
  <2> QED BY <1>1, <2>1, <2>2, <2>3
<1>9. call'[c].step # "failed" \/ mark' = faults' => strays' = {}
  BY <1>4
<1> QED BY <1>3, <1>5, <1>6, <1>7, <1>8, <1>9 DEF Alone

LEMMA ReadAlone ==
  ASSUME Inv, AloneInv, NEW c \in Calls, Read(c) PROVE AloneInv'
<1> SUFFICES ASSUME NEW a \in Calls, a = alone' PROVE Alone(a)'
  BY DEF AloneInv
<1>1. /\ Inv' /\ Others(c) /\ call'[c].kind = call[c].kind /\ call[c].kind \in Finalizers
      /\ \/ /\ call'[c].step = "failed"
            /\ \E k \in Keys : "none" \in Seen(c, k)
         \/ /\ call'[c].step = "storing" /\ call'[c].todo = Targets(call[c].kind)
  BY ReadFacts
<1>2. call[c].step = "read" /\ UNCHANGED <<nsfw, objects, temp, strays, faults, alone, mark>>
  BY DEF Read, ghosts
<1>3. a = c /\ Alone(c) /\ strays = {} /\ Active(c)
  BY <1>2, OnlyActive DEF Active, Alone
\* Nothing rewrites the files it has fetched, so it reads them.
<1>4. ASSUME NEW k \in Keys PROVE "none" \notin Seen(c, k)
  <2>1. ~Rewriting(c, k)
    BY <1>3 DEF Rewriting, Fetches, Alone, Active
  <2>2. temp[call[c].box][k] # "none"
    BY <1>2, <1>3 DEF Alone, FetchedIsThere, Keys
  <2> QED BY <2>1, <2>2 DEF Seen
<1>5. call'[c].step = "storing" /\ call'[c].todo = Targets(call[c].kind)
  BY <1>1, <1>4
<1>6. (\A d \in Calls \ {c} : ~Active(d)') /\ strays' = {}
  BY <1>1, <1>2, <1>3, AloneQuiet
<1>7. StoredStands(c)'
  <2>1. \A k : Targets(k)' = Targets(k)
    BY <1>2 DEF Targets, Flag
  <2>2. Targets(call[c].kind)' = call'[c].todo
    BY <1>1, <1>5, <2>1
  <2> QED BY <1>1, <1>5, <2>2 DEF StoredStands, Finalizers
<1>8. FetchedIsThere(c)'
  BY <1>5 DEF FetchedIsThere
<1>9. CopyIsVideo(c)'
  BY <1>5, <1>6 DEF CopyIsVideo
<1> QED BY <1>3, <1>5, <1>6, <1>7, <1>8, <1>9 DEF Alone

\* What is stored stands through the removal of the files and the canister call.
LEMMA LaterStands ==
  ASSUME NEW c \in Calls, StoredStands(c), call[c].step \in {"clearing", "posting"},
         call[c].kind \in Finalizers, call[c].todo = {}, call'[c].todo = {}, Same(c),
         UNCHANGED <<nsfw, objects>>
  PROVE  StoredStands(c)'
<1>1. Targets(call[c].kind)' = Targets(call[c].kind)
  <2>1. \A k : Targets(k)' = Targets(k)
    BY DEF Targets, Flag
  <2> QED BY <2>1 DEF Same
<1>2. \A p \in Targets(call[c].kind) :
         objects[p].data = call[c].has[p[2]] /\ ~objects[p].ttl
  BY DEF StoredStands
<1> QED BY <1>1, <1>2 DEF StoredStands, Same, Finalizers

LEMMA ClearAlone ==
  ASSUME Inv, AloneInv, NEW c \in Calls, Clear(c) PROVE AloneInv'
<1> SUFFICES ASSUME NEW a \in Calls, a = alone' PROVE Alone(a)'
  BY DEF AloneInv
<1>1. /\ Inv' /\ Others(c) /\ Same(c) /\ call'[c].todo = {}
      /\ call'[c].step \in {"posting", "acked"} /\ call[c].kind \in Finalizers
  BY ClearFacts
<1>2. call[c].step = "clearing" /\ UNCHANGED <<nsfw, objects, strays, faults, alone, mark>>
      /\ GoodCall(call[c]) /\ call[c].todo = {}
  BY CallFacts DEF Clear, ghosts, GoodCall
<1>3. a = c /\ Alone(c) /\ strays = {} /\ Active(c) /\ StoredStands(c)
  BY <1>2, OnlyActive DEF Active, Alone
<1>4. (\A d \in Calls \ {c} : ~Active(d)') /\ strays' = {}
  BY <1>1, <1>2, <1>3, AloneQuiet
<1>5. StoredStands(c)'
  BY <1>1, <1>2, <1>3, LaterStands
<1>6. FetchedIsThere(c)'
  BY <1>1 DEF FetchedIsThere
<1>7. CopyIsVideo(c)'
  BY <1>1, <1>4 DEF CopyIsVideo
<1> QED BY <1>1, <1>3, <1>4, <1>5, <1>6, <1>7 DEF Alone

LEMMA AddPostAlone ==
  ASSUME Inv, AloneInv, NEW c \in Calls, AddPost(c) PROVE AloneInv'
<1> SUFFICES ASSUME NEW a \in Calls, a = alone' PROVE Alone(a)'
  BY DEF AloneInv
<1>1. /\ Inv' /\ Others(c) /\ Same(c) /\ call'[c].todo = {} /\ call[c].kind \in Finalizers
      /\ \/ call'[c].step = "acked" /\ UNCHANGED faults
         \/ call'[c].step = "failed" /\ UNCHANGED faults
         \/ call'[c].step = "failed" /\ Fault
  BY AddPostFacts
<1>2. call[c].step = "posting" /\ UNCHANGED <<nsfw, objects, temp, strays, alone, mark>>
      /\ GoodCall(call[c]) /\ call[c].todo = {}
  BY CallFacts DEF AddPost, ghosts, GoodCall
<1>3. a = c /\ Alone(c) /\ strays = {} /\ Active(c) /\ StoredStands(c)
  BY <1>2, OnlyActive DEF Active, Alone
<1>4. (\A d \in Calls \ {c} : ~Active(d)') /\ strays' = {}
  BY <1>1, <1>2, <1>3, AloneQuiet
<1>5. StoredStands(c)'
  BY <1>1, <1>2, <1>3, LaterStands
<1>6. call[c].kind = "publish"
  BY <1>2, CallFacts DEF GoodCall
<1>7. FetchedIsThere(c)'
  BY <1>1, <1>6 DEF FetchedIsThere, Same
<1>8. CopyIsVideo(c)'
  BY <1>1, <1>4 DEF CopyIsVideo
<1> QED BY <1>3, <1>4, <1>5, <1>7, <1>8 DEF Alone

\* A move does not store or fetch for a finalization.
LEMMA MovesStandIdle ==
  ASSUME NEW c \in Calls, call'[c].kind = "move",
         call'[c].step \notin {"fetch thumb", "read"}
  PROVE  StoredStands(c)' /\ FetchedIsThere(c)'
<1>1. StoredStands(c)'
  BY DEF StoredStands, Finalizers
<1>2. FetchedIsThere(c)'
  BY DEF FetchedIsThere
<1> QED BY <1>1, <1>2

LEMMA MoveVideoAlone ==
  ASSUME Inv, AloneInv, NEW c \in Calls, MoveVideo(c) PROVE AloneInv'
<1> SUFFICES ASSUME NEW a \in Calls, a = alone' PROVE Alone(a)'
  BY DEF AloneInv
<1>1. /\ Inv' /\ Others(c) /\ Same(c) /\ call[c].kind = "move"
      /\ \/ /\ call'[c].step \in {"moving thumb", "deleting"} /\ UNCHANGED faults
            /\ objects' = [objects EXCEPT ![Moved] = Copy(c, Moved)]
         \/ call'[c].step = "failed" /\ Fault /\ UNCHANGED objects
  BY MoveVideoFacts
<1>2. call[c].step = "moving" /\ UNCHANGED <<strays, alone, mark>>
  BY DEF MoveVideo, ghosts
<1>3. a = c /\ Alone(c) /\ strays = {} /\ Active(c)
  BY <1>2, OnlyActive DEF Active, Alone
<1>4. (\A d \in Calls \ {c} : ~Active(d)') /\ strays' = {}
  BY <1>1, <1>2, <1>3, AloneQuiet
<1>5. StoredStands(c)' /\ FetchedIsThere(c)'
  BY <1>1, MovesStandIdle DEF Same
<1>6. CopyIsVideo(c)'
  <2>1. CASE call'[c].step = "failed"
    BY <1>4, <2>1 DEF CopyIsVideo
  <2>2. CASE objects' = [objects EXCEPT ![Moved] = Copy(c, Moved)]
    <3>1. objects'[Video] = objects[Video] /\ objects'[Moved] = Copy(c, Moved)
      BY <2>2, PlaceFacts, TypeFacts DEF Things
    <3>2. Copy(c, Moved).data = call[c].has["mp4"] /\ Copy(c, Moved).ttl = FALSE
      <4>1. Moved \in Places /\ Moved[2] = "mp4" /\ CallsOK /\ call[c].kind # "upload"
        BY <1>1, PlaceFacts, TypeFacts
      <4>2. Copy(c, Moved).data = call[c].has[Moved[2]] /\ Copy(c, Moved).ttl = FALSE
        BY <4>1, CopyType
      <4> QED BY <4>1, <4>2
    <3>3. objects[Video].data = call[c].has["mp4"]
      BY <1>2, <1>3 DEF Alone, CopyIsVideo
    <3> QED BY <1>1, <1>4, <3>1, <3>2, <3>3 DEF CopyIsVideo, Same
  <2> QED BY <1>1, <2>1, <2>2
<1> QED BY <1>3, <1>4, <1>5, <1>6 DEF Alone

LEMMA MoveThumbAlone ==
  ASSUME Inv, AloneInv, NEW c \in Calls, MoveThumb(c) PROVE AloneInv'
<1> SUFFICES ASSUME NEW a \in Calls, a = alone' PROVE Alone(a)'
  BY DEF AloneInv
<1>1. /\ Inv' /\ Others(c) /\ Same(c) /\ call[c].kind = "move" /\ call'[c].step = "deleting"
      /\ \A q \in Places : q # <<"nsfw", "thumb">> => objects'[q] = objects[q]
  BY MoveThumbFacts
<1>2. call[c].step = "moving thumb" /\ UNCHANGED <<strays, alone, mark>>
  BY DEF MoveThumb, ghosts
<1>3. a = c /\ Alone(c) /\ strays = {} /\ Active(c)
  BY <1>2, OnlyActive DEF Active, Alone
<1>4. (\A d \in Calls \ {c} : ~Active(d)') /\ strays' = {}
  BY <1>1, <1>2, <1>3 DEF Alone, Active, Others
<1>5. StoredStands(c)' /\ FetchedIsThere(c)'
  BY <1>1, MovesStandIdle DEF Same
<1>6. CopyIsVideo(c)'
  <2>1. objects'[Video] = objects[Video] /\ objects'[Moved] = objects[Moved]
    BY <1>1, PlaceFacts DEF Video, Moved
  <2>2. /\ objects[Video].data = call[c].has["mp4"]
        /\ objects[Moved].data = call[c].has["mp4"] /\ ~objects[Moved].ttl
    BY <1>2, <1>3 DEF Alone, CopyIsVideo
  <2> QED BY <1>1, <1>4, <2>1, <2>2 DEF CopyIsVideo, Same
<1> QED BY <1>3, <1>4, <1>5, <1>6 DEF Alone

LEMMA DeleteVideoAlone ==
  ASSUME Inv, AloneInv, NEW c \in Calls, DeleteVideo(c) PROVE AloneInv'
<1> SUFFICES ASSUME NEW a \in Calls, a = alone' PROVE Alone(a)'
  BY DEF AloneInv
<1>1. /\ Inv' /\ Others(c) /\ Same(c) /\ call[c].kind = "move"
      /\ \/ call'[c].step \in {"acked", "deleting thumb"} /\ UNCHANGED faults
         \/ call'[c].step = "failed" /\ Fault
  BY DeleteVideoFacts
<1>2. call[c].step = "deleting" /\ UNCHANGED <<strays, alone, mark>>
  BY DEF DeleteVideo, ghosts
<1>3. a = c /\ Alone(c) /\ strays = {} /\ Active(c)
  BY <1>2, OnlyActive DEF Active, Alone
<1>4. (\A d \in Calls \ {c} : ~Active(d)') /\ strays' = {}
  BY <1>1, <1>2, <1>3 DEF Alone, Active, Others
<1>5. StoredStands(c)' /\ FetchedIsThere(c)'
  BY <1>1, MovesStandIdle DEF Same
<1>6. CopyIsVideo(c)'
  BY <1>1, <1>4 DEF CopyIsVideo
<1> QED BY <1>3, <1>4, <1>5, <1>6 DEF Alone

LEMMA DeleteThumbAlone ==
  ASSUME Inv, AloneInv, NEW c \in Calls, DeleteThumb(c) PROVE AloneInv'
<1> SUFFICES ASSUME NEW a \in Calls, a = alone' PROVE Alone(a)'
  BY DEF AloneInv
<1>1. Inv' /\ Others(c) /\ Same(c) /\ call[c].kind = "move" /\ call'[c].step = "acked"
  BY DeleteThumbFacts
<1>2. call[c].step = "deleting thumb" /\ UNCHANGED <<strays, alone, mark>>
  BY DEF DeleteThumb, ghosts
<1>3. a = c /\ Alone(c) /\ strays = {} /\ Active(c)
  BY <1>2, OnlyActive DEF Active, Alone
<1>4. (\A d \in Calls \ {c} : ~Active(d)') /\ strays' = {}
  BY <1>1, <1>2, <1>3 DEF Alone, Active, Others
<1>5. StoredStands(c)' /\ FetchedIsThere(c)'
  BY <1>1, MovesStandIdle DEF Same
<1>6. CopyIsVideo(c)'
  BY <1>1, <1>4 DEF CopyIsVideo
<1> QED BY <1>3, <1>4, <1>5, <1>6 DEF Alone

\* A move that is dropped as it deletes the video has made the copy.
LEMMA HangUpAlone ==
  ASSUME Inv, AloneInv, NEW c \in Calls, HangUp(c) PROVE AloneInv'
<1> SUFFICES ASSUME NEW a \in Calls, a = alone' PROVE Alone(a)'
  BY DEF AloneInv
<1>1. Inv' /\ Others(c) /\ call'[c].step = "failed"
  BY HangUpFacts
<1>2. Active(c) /\ Fault /\ strays' = strays \cup Pending(c) /\ UNCHANGED <<objects, alone, mark>>
  BY DEF HangUp, ghosts
<1>3. a = c /\ Alone(c) /\ strays = {}
  BY <1>2, OnlyActive DEF Active, Alone
<1>4. CopyIsVideo(c)'
  <2>1. ASSUME NEW w \in strays', w.at = Video, w.data = "none"
        PROVE  /\ strays' = {w} /\ ~objects'[Moved].ttl
               /\ objects'[Video].data = objects'[Moved].data
    <3>1. w \in Pending(c) /\ strays' = Pending(c)
      BY <1>2, <1>3
    <3>2. call[c].step = "deleting" /\ Pending(c) = {w}
      BY <2>1, <3>1, PendingWrites
    <3> QED BY <1>2, <1>3, <3>1, <3>2 DEF Alone, CopyIsVideo
  <2> QED BY <1>1, <2>1 DEF CopyIsVideo
<1> QED BY <1>1, <1>2, <1>3, <1>4, FailedIsAlone

\* A write lands only if the last request failed by a fault; a deletion that
\* lands is the only write under way.
LEMMA LandAlone ==
  ASSUME Inv, AloneInv, NEW s \in strays, Land(s) PROVE AloneInv'
<1> SUFFICES ASSUME NEW a \in Calls, a = alone' PROVE Alone(a)'
  BY DEF AloneInv
<1>1. UNCHANGED <<call, faults, alone, mark>> /\ strays' = strays \ {s}
  BY DEF Land, ghosts
<1>2. Alone(a) /\ a = alone
  BY <1>1 DEF AloneInv
<1>3. call[a].step = "failed" /\ mark # faults
  BY <1>2 DEF Alone
<1>4. CopyIsVideo(a)'
  <2>1. ASSUME NEW w \in strays', w.at = Video, w.data = "none" PROVE FALSE
    <3>1. w \in strays /\ w # s
      BY <1>1, <2>1
    <3>2. strays = {w}
      BY <1>2, <2>1, <3>1 DEF Alone, CopyIsVideo
    <3> QED BY <3>1, <3>2
  <2> QED BY <1>1, <1>3, <2>1 DEF CopyIsVideo
<1>5. StoredStands(a)' /\ FetchedIsThere(a)'
  BY <1>1, <1>3 DEF StoredStands, FetchedIsThere
<1>6. \A d \in Calls \ {a} : ~Active(d)'
  BY <1>1, <1>2 DEF Alone, Active
<1> QED BY <1>1, <1>3, <1>4, <1>5, <1>6 DEF Alone

LEMMA ExpireAlone ==
  ASSUME Inv, AloneInv, NEW p \in Places, Expire(p) PROVE AloneInv'
<1> SUFFICES ASSUME NEW a \in Calls, a = alone' PROVE Alone(a)'
  BY DEF AloneInv
<1>1. /\ UNCHANGED <<nsfw, call, temp, strays, faults, alone, mark>>
      /\ \A k : Targets(k)' = Targets(k) /\ Bucket(k)' = Bucket(k)
  BY DEF Expire, ghosts, Targets, Bucket, Flag
<1>2. /\ objects[p].ttl /\ objects'[p] = Absent
      /\ \A q \in Places : q # p => objects'[q] = objects[q]
  BY ExpireFacts
<1>3. Alone(a)
  BY <1>1 DEF AloneInv
<1>4. p # Video
  BY <1>2, TypeFacts, PlaceFacts DEF HetznerStays, Video
<1>5. StoredStands(a)'
  <2>1. ASSUME call[a].kind \in Finalizers,
               call[a].step \in {"storing", "clearing", "posting", "acked"},
               NEW q \in Targets(call[a].kind) \ call[a].todo
        PROVE  objects'[q].data = call[a].has[q[2]] /\ ~objects'[q].ttl
    <3>1. q \in Places /\ objects[q].data = call[a].has[q[2]] /\ ~objects[q].ttl
      BY <1>3, <2>1, TargetsArePlaces DEF Alone, StoredStands
    <3>2. objects'[q] = objects[q]
      BY <1>2, <3>1
    <3> QED BY <3>1, <3>2
  <2>2. ASSUME call[a].kind = "upload", call[a].step \in {"storing", "acked"},
               NEW q \in Targets("upload") \ call[a].todo
        PROVE  objects'[q].data = "whole" \/ (q[1] # "hetzner" /\ objects'[q] = Absent)
    <3>1. /\ q \in Places
          /\ objects[q].data = "whole" \/ (q[1] # "hetzner" /\ objects[q] = Absent)
      BY <1>3, <2>2, TargetsArePlaces DEF Alone, StoredStands
    <3>2. CASE q = p
      <4>1. q[1] # "hetzner"
        BY <1>2, <3>1, <3>2, TypeFacts, PlaceFacts DEF HetznerStays
      <4> QED BY <1>2, <3>2, <4>1
    <3>3. CASE q # p
      BY <1>2, <3>1, <3>3
    <3> QED BY <3>2, <3>3
  <2> QED BY <1>1, <2>1, <2>2 DEF StoredStands
<1>6. FetchedIsThere(a)'
  <2>1. ASSUME call[a].step = "failed", call[a].kind = "finalize", mark = faults
        PROVE  \E k \in Keys : \/ objects'[<<Bucket("finalize"), k>>].data = "none"
                               \/ objects'[<<Bucket("finalize"), k>>].ttl
    <3>1. PICK k \in Keys : \/ objects[<<Bucket("finalize"), k>>].data = "none"
                            \/ objects[<<Bucket("finalize"), k>>].ttl
      BY <1>3, <2>1 DEF Alone, FetchedIsThere
    <3> DEFINE q == <<Bucket("finalize"), k>>
    <3>2. q \in Places
      BY PlaceFacts DEF Bucket
    <3>3. objects'[q] = objects[q] \/ objects'[q].data = "none"
      <4> HIDE DEF q
      <4> QED BY <1>2, <3>2, AbsentType
    <3>4. objects'[q].data = "none" \/ objects'[q].ttl
      BY <3>1, <3>3
    <3> QED BY <3>4
  <2> QED BY <1>1, <1>3, <2>1 DEF Alone, FetchedIsThere
<1>7. CopyIsVideo(a)'
  <2>1. objects'[Video] = objects[Video]
    BY <1>2, <1>4, PlaceFacts
  <2>2. ~objects[Moved].ttl => objects'[Moved] = objects[Moved]
    BY <1>2, PlaceFacts
  <2> QED BY <1>1, <1>3, <2>1, <2>2 DEF Alone, CopyIsVideo
<1>8. (\A d \in Calls \ {a} : ~Active(d)')
      /\ (call'[a].step # "failed" \/ mark' = faults' => strays' = {})
  BY <1>1, <1>3 DEF Alone, Active
<1> QED BY <1>5, <1>6, <1>7, <1>8 DEF Alone

LEMMA UnchangedAlone ==
  ASSUME AloneInv, UNCHANGED <<nsfw, objects, temp, call, strays, faults, alone, mark>>
  PROVE  AloneInv'
<1> SUFFICES ASSUME NEW a \in Calls, a = alone' PROVE Alone(a)'
  BY DEF AloneInv
<1>1. Alone(a)
  BY DEF AloneInv
<1>2. \A k : Targets(k)' = Targets(k) /\ Bucket(k)' = Bucket(k)
  BY DEF Targets, Bucket, Flag
<1>3. StoredStands(a)'
  BY <1>1, <1>2 DEF Alone, StoredStands
<1>4. FetchedIsThere(a)' /\ CopyIsVideo(a)'
  BY <1>1, <1>2 DEF Alone, FetchedIsThere, CopyIsVideo
<1> QED BY <1>1, <1>3, <1>4 DEF Alone, Active

LEMMA InitAlone == Init => AloneInv
BY Constants DEF Init, AloneInv

LEMMA NextAlone == ASSUME Inv, AloneInv, [Next]_vars PROVE AloneInv'
<1>1. ASSUME NEW c \in Calls, StartUpload(c) \/ RejectUpload(c) \/ StartMove(c)
      PROVE  AloneInv'
  BY <1>1, StartUploadAlone, RejectUploadAlone, StartMoveAlone
<1>2. ASSUME NEW c \in Calls, NEW b \in Boxes, NEW k \in {"finalize", "publish"},
             StartFinalize(c, k, b)
      PROVE  AloneInv'
  BY <1>2, StartFinalizeAlone DEF Finalizers
<1>3. ASSUME NEW c \in Calls, NEW p \in Places, Put(c, p) \/ PutFails(c, p)
      PROVE  AloneInv'
  BY <1>3, PutAlone, PutFailsAlone
<1>4. ASSUME NEW c \in Calls, Fetch(c) \/ FetchFails(c) \/ Read(c) \/ Clear(c) \/ AddPost(c)
      PROVE  AloneInv'
  BY <1>4, FetchAlone, FetchFailsAlone, ReadAlone, ClearAlone, AddPostAlone
<1>5. ASSUME NEW c \in Calls, MoveVideo(c) \/ MoveThumb(c) \/ DeleteVideo(c) \/ DeleteThumb(c)
      PROVE  AloneInv'
  BY <1>5, MoveVideoAlone, MoveThumbAlone, DeleteVideoAlone, DeleteThumbAlone
<1>6. ASSUME NEW c \in Calls, HangUp(c) PROVE AloneInv'
  BY <1>6, HangUpAlone
<1>7. ASSUME NEW s \in strays, Land(s) PROVE AloneInv'
  BY <1>7, LandAlone
<1>8. ASSUME NEW p \in Places, Expire(p) PROVE AloneInv'
  BY <1>8, ExpireAlone
<1>9. CASE MarkPublished
  BY <1>9, UnchangedAlone DEF MarkPublished, ghosts
<1>10. CASE UNCHANGED vars
  BY <1>10, UnchangedAlone DEF vars
<1> QED BY <1>1, <1>2, <1>3, <1>4, <1>5, <1>6, <1>7, <1>8, <1>9, <1>10 DEF Next

LEMMA AloneImplies == Inv /\ AloneInv => AckedStands /\ FinalizeIsRepeatable
<1> SUFFICES ASSUME Inv, AloneInv PROVE AckedStands /\ FinalizeIsRepeatable
  OBVIOUS
<1>1. ASSUME NEW c \in Calls, c = alone, call[c].step \in {"posting", "acked"},
             call[c].kind \in {"finalize", "publish"}, NEW p \in Targets(call[c].kind)
      PROVE  objects[p] = [data |-> call[c].has[p[2]], ttl |-> FALSE]
  <2>1. StoredStands(c) /\ call[c].todo = {}
    BY <1>1, CallFacts DEF AloneInv, Alone, GoodCall
  <2>2. objects[p].data = call[c].has[p[2]] /\ ~objects[p].ttl
    BY <1>1, <2>1 DEF StoredStands, Finalizers
  <2>3. objects[p] \in [data : Contents, ttl : BOOLEAN]
    BY TargetsArePlaces, TypeFacts DEF Things
  <2>4. objects[p].ttl = FALSE
    BY <2>2, <2>3
  <2> QED BY <2>2, <2>3, <2>4
<1>2. ASSUME NEW c \in Calls, c = alone, call[c].step \in {"posting", "acked"},
             call[c].kind = "upload", NEW p \in Targets("upload")
      PROVE  objects[p].data = "whole" \/ (p[1] # "hetzner" /\ objects[p] = Absent)
  <2>1. StoredStands(c) /\ call[c].todo = {} /\ call[c].step = "acked"
    BY <1>2, CallFacts DEF AloneInv, Alone, GoodCall, Finalizers
  <2> QED BY <1>2, <2>1 DEF StoredStands
<1>3. AckedStands
  BY <1>1, <1>2 DEF AckedStands
<1>4. FinalizeIsRepeatable
  BY DEF FinalizeIsRepeatable, AloneInv, Alone, FetchedIsThere
<1> QED BY <1>3, <1>4

\* What /duplicate_raw acknowledged stands: the objects of a finalization as it
\* read them and for good, those of an upload whole until they expire.
THEOREM AckStands == Spec => []AckedStands
BY InitInv, NextInv, InitAlone, NextAlone, AloneImplies, PTL DEF Spec

\* A finalization by itself that fails without a fault lacks an object it
\* reads, or one that may expire: asking again is never refused for what it did.
THEOREM FinalizeRepeats == Spec => []FinalizeIsRepeatable
BY InitInv, NextInv, InitAlone, NextAlone, AloneImplies, PTL DEF Spec

-----------------------------------------------------------------------------
(* The move to the NSFW bucket                                             *)

LEMMA InitKept == Init => KeptInv
BY AbsentType, PlaceFacts, IdleIsGood DEF Init, KeptInv

\* A step of a request that does not make the copy
LEMMA KeptStep ==
  ASSUME KeptInv, NEW c \in Calls, Others(c), nsfw' = nsfw, strays' = strays,
         ~nsfw => objects'[Moved] = objects[Moved],
         call'[c].step \in {"moving thumb", "deleting"} =>
            call[c].step \in {"moving thumb", "deleting"}
  PROVE  KeptInv'
<1> SUFFICES ASSUME ~nsfw PROVE KeptInv'
  BY DEF KeptInv
<1>1. (\E d \in Calls : call'[d].step \in {"moving thumb", "deleting"}) =>
         \E d \in Calls : call[d].step \in {"moving thumb", "deleting"}
  BY DEF Others
<1> QED BY <1>1 DEF KeptInv

\* A request that ends leaves no deletion under way unless it was deleting.
LEMMA KeptEnd ==
  ASSUME KeptInv, NEW c \in Calls, Others(c), nsfw' = nsfw, objects' = objects,
         call'[c].step = "failed", NEW ws, strays' = strays \cup ws,
         \A w \in ws : w.at = Moved /\ ~nsfw => w.data # "none" /\ ~w.ttl,
         \A w \in ws : w.at = Video /\ w.data = "none" => call[c].step = "deleting"
  PROVE  KeptInv'
<1> SUFFICES ASSUME ~nsfw PROVE KeptInv'
  BY DEF KeptInv
<1>1. (\E d \in Calls : call'[d].step \in {"moving thumb", "deleting"}) =>
         \E d \in Calls : call[d].step \in {"moving thumb", "deleting"}
  BY DEF Others
<1>2. (\E s \in strays' : s.at = Video /\ s.data = "none") =>
         \/ \E s \in strays : s.at = Video /\ s.data = "none"
         \/ \E d \in Calls : call[d].step \in {"moving thumb", "deleting"}
  OBVIOUS
<1>3. \A s \in strays' : s.at = Moved => s.data # "none" /\ ~s.ttl
  BY DEF KeptInv
<1> QED BY <1>1, <1>2, <1>3 DEF KeptInv

LEMMA BeginKept ==
  ASSUME Inv, KeptInv, NEW c \in Calls,
         StartUpload(c) \/ RejectUpload(c) \/ StartMove(c)
           \/ \E b \in Boxes, k \in Finalizers : StartFinalize(c, k, b)
  PROVE  KeptInv'
<1>1. ASSUME NEW r, call' = [call EXCEPT ![c] = r], nsfw' = nsfw, strays' = strays,
             objects' = objects, r.step \notin {"moving thumb", "deleting"}
      PROVE  KeptInv'
  <2>1. call'[c] = r /\ Others(c)
    BY <1>1, TypeFacts DEF Others
  <2> QED BY <1>1, <2>1, KeptStep
<1>2. CASE StartUpload(c)
  <2> DEFINE r == [Idle EXCEPT !.step = "storing", !.kind = "upload",
                               !.todo = Targets("upload"), !.has = Whole]
  <2>1. r.step = "storing" /\ call' = [call EXCEPT ![c] = r]
    BY <1>2, IdleIsGood DEF StartUpload, Begin, Records
  <2> HIDE DEF r
  <2> QED BY <1>1, <1>2, <2>1 DEF StartUpload
<1>3. CASE RejectUpload(c)
  <2> DEFINE r == [Idle EXCEPT !.step = "failed", !.kind = "upload"]
  <2>1. r.step = "failed" /\ call' = [call EXCEPT ![c] = r]
    BY <1>3, IdleIsGood DEF RejectUpload, Begin, Records
  <2> HIDE DEF r
  <2> QED BY <1>1, <1>3, <2>1 DEF RejectUpload
<1>4. CASE StartMove(c)
  <2>1. Others(c) /\ call'[c].step \in {"moving", "failed"}
    BY <1>4, StartMoveFacts DEF Others
  <2> QED BY <1>4, <2>1, KeptStep DEF StartMove
<1>5. ASSUME NEW b \in Boxes, NEW k \in Finalizers, StartFinalize(c, k, b) PROVE KeptInv'
  <2> DEFINE r == [Idle EXCEPT !.step = "fetch mp4", !.kind = k, !.box = b]
  <2>1. r.step = "fetch mp4" /\ call' = [call EXCEPT ![c] = r]
    BY <1>5, IdleIsGood DEF StartFinalize, Begin, Records
  <2> HIDE DEF r
  <2> QED BY <1>1, <1>5, <2>1 DEF StartFinalize
<1> QED BY <1>2, <1>3, <1>4, <1>5

LEMMA FinalizeKept ==
  ASSUME Inv, KeptInv, NEW c \in Calls,
         Fetch(c) \/ FetchFails(c) \/ Read(c) \/ Clear(c) \/ AddPost(c)
  PROVE  KeptInv'
<1>1. Others(c) /\ call'[c].step \notin {"moving thumb", "deleting"}
  <2>1. CASE Fetch(c)
    BY <2>1, FetchFacts DEF NextStep
  <2>2. CASE FetchFails(c)
    <3>1. call[c].step \in {"fetch mp4", "fetch thumb"}
      BY <2>2 DEF FetchFails, Fetches
    <3> QED BY <2>2, <3>1, FetchFailsFacts DEF NextStep
  <2>3. CASE Read(c)
    BY <2>3, ReadFacts
  <2>4. CASE Clear(c)
    BY <2>4, ClearFacts
  <2>5. CASE AddPost(c)
    BY <2>5, AddPostFacts
  <2> QED BY <2>1, <2>2, <2>3, <2>4, <2>5
<1>2. nsfw' = nsfw /\ strays' = strays /\ objects' = objects
  BY DEF Fetch, FetchFails, Read, Clear, AddPost
<1> QED BY <1>1, <1>2, KeptStep

LEMMA PutKept ==
  ASSUME Inv, KeptInv, NEW c \in Calls, NEW p \in Places, Put(c, p) PROVE KeptInv'
<1>1. Others(c) /\ call'[c].step \notin {"moving thumb", "deleting"}
  BY PutFacts DEF AfterStoring
<1>2. nsfw' = nsfw /\ strays' = strays /\ objects' = [objects EXCEPT ![p] = Copy(c, p)]
  BY DEF Put
<1>3. ~nsfw => p # Moved
  <2>1. p \in Targets(call[c].kind)
    BY CallFacts DEF Put, GoodCall
  <2>2. ~nsfw => p[1] # "nsfw"
    BY <2>1, TargetsArePlaces
  <2> QED BY <2>2, PlaceFacts
<1>4. ~nsfw => objects'[Moved] = objects[Moved]
  BY <1>2, <1>3, PlaceFacts, TypeFacts DEF Things
<1> QED BY <1>1, <1>2, <1>4, KeptStep

LEMMA PutFailsKept ==
  ASSUME Inv, KeptInv, NEW c \in Calls, NEW p \in Places, PutFails(c, p) PROVE KeptInv'
<1>1. Others(c) /\ call'[c].step = "failed"
  BY PutFailsFacts
<1> DEFINE ws == Dropped(c, call[c].todo \ {p})
<1>2. ASSUME NEW w \in ws PROVE w.data # "none" /\ (~nsfw => w.at # Moved)
  <2>1. w.at \in call[c].todo /\ w.data = call[c].has[w.at[2]] /\ call[c].step = "storing"
    BY CallFacts, TypeFacts, DroppedWrites DEF PutFails
  <2>2. w.at \in Targets(call[c].kind) /\ GoodCall(call[c])
    BY <2>1, CallFacts DEF GoodCall
  <2>3. w.at[2] \in Keys /\ (~nsfw => w.at[1] # "nsfw")
    BY <2>2, TargetsArePlaces
  <2> QED BY <2>1, <2>2, <2>3, PlaceFacts DEF GoodCall
<1>3. nsfw' = nsfw /\ objects' = objects /\ strays' = strays \cup ws
  BY DEF PutFails
<1> HIDE DEF ws
<1> QED BY <1>1, <1>2, <1>3, KeptEnd

LEMMA HangUpKept ==
  ASSUME Inv, KeptInv, NEW c \in Calls, HangUp(c) PROVE KeptInv'
<1>1. Others(c) /\ call'[c].step = "failed"
  BY HangUpFacts
<1>2. nsfw' = nsfw /\ objects' = objects /\ strays' = strays \cup Pending(c)
  BY DEF HangUp
<1>3. /\ \A w \in Pending(c) : w.at = Moved /\ ~nsfw => w.data # "none" /\ ~w.ttl
      /\ \A w \in Pending(c) : w.at = Video /\ w.data = "none" => call[c].step = "deleting"
  BY PendingWrites
<1> QED BY <1>1, <1>2, <1>3, KeptEnd

LEMMA MoveKept ==
  ASSUME Inv, KeptInv, NEW c \in Calls,
         MoveVideo(c) \/ MoveThumb(c) \/ DeleteVideo(c) \/ DeleteThumb(c)
  PROVE  KeptInv'
<1>1. nsfw' = nsfw /\ strays' = strays
  BY DEF MoveVideo, MoveThumb, DeleteVideo, DeleteThumb
<1>2. CASE MoveVideo(c)
  <2>1. /\ Others(c) /\ call[c].kind = "move"
        /\ \/ objects' = [objects EXCEPT ![Moved] = Copy(c, Moved)]
           \/ call'[c].step = "failed" /\ UNCHANGED objects
    BY <1>2, MoveVideoFacts
  <2>2. CASE objects' = [objects EXCEPT ![Moved] = Copy(c, Moved)]
    <3>1. Moved \in Places /\ Moved[2] = "mp4" /\ CallsOK /\ call[c].kind # "upload"
      BY <2>1, PlaceFacts, TypeFacts
    <3>2. Copy(c, Moved).data = call[c].has[Moved[2]] /\ Copy(c, Moved).ttl = FALSE
      BY <3>1, CopyType
    <3>3. objects'[Moved] = Copy(c, Moved) /\ call[c].has["mp4"] # "none"
      BY <1>2, <2>2, <3>1, CallFacts, TypeFacts DEF MoveVideo, GoodCall, Things
    <3> QED BY <1>1, <3>1, <3>2, <3>3 DEF KeptInv
  <2>3. CASE call'[c].step = "failed" /\ UNCHANGED objects
    BY <1>1, <2>1, <2>3, KeptStep
  <2> QED BY <2>1, <2>2, <2>3
<1>3. CASE MoveThumb(c)
  <2>1. Others(c) /\ objects'[Moved] = objects[Moved] /\ call[c].step = "moving thumb"
    BY <1>3, MoveThumbFacts, PlaceFacts DEF MoveThumb, Moved
  <2> QED BY <1>1, <2>1, KeptStep
<1>4. CASE DeleteVideo(c)
  <2>1. Others(c) /\ objects'[Moved] = objects[Moved] /\ call[c].step = "deleting"
    BY <1>4, DeleteVideoFacts, PlaceFacts DEF DeleteVideo
  <2> QED BY <1>1, <2>1, KeptStep
<1>5. CASE DeleteThumb(c)
  <2>1. Others(c) /\ objects'[Moved] = objects[Moved] /\ call'[c].step = "acked"
    BY <1>5, DeleteThumbFacts, PlaceFacts DEF Moved
  <2> QED BY <1>1, <2>1, KeptStep
<1> QED BY <1>2, <1>3, <1>4, <1>5

LEMMA LandKept == ASSUME Inv, KeptInv, NEW s \in strays, Land(s) PROVE KeptInv'
<1> SUFFICES ASSUME ~nsfw PROVE KeptInv'
  BY DEF KeptInv, Land
<1>1. strays' \subseteq strays /\ nsfw' = nsfw /\ call' = call /\ s \in Writes
  BY LandFacts DEF Land
<1>2. objects'[Moved] = objects[Moved] \/ (objects'[Moved].data # "none" /\ ~objects'[Moved].ttl)
  <2>1. CASE objects' = objects
    BY <2>1
  <2>2. CASE \E o \in [data : Contents, ttl : BOOLEAN] :
                 /\ objects' = [objects EXCEPT ![s.at] = o] /\ o.ttl = s.ttl
                 /\ o.data = s.data \/ (o.data = "cut" /\ s.at[1] # "hetzner")
    <3>1. PICK o \in [data : Contents, ttl : BOOLEAN] :
                 /\ objects' = [objects EXCEPT ![s.at] = o] /\ o.ttl = s.ttl
                 /\ o.data = s.data \/ o.data = "cut"
      BY <2>2
    <3>2. s.at # Moved => objects'[Moved] = objects[Moved]
      BY <3>1, PlaceFacts, TypeFacts DEF Things
    <3>3. s.at = Moved => objects'[Moved] = o
      BY <3>1, PlaceFacts, TypeFacts DEF Things
    <3> QED BY <3>1, <3>2, <3>3 DEF KeptInv
  <2> QED BY <2>1, <2>2, LandFacts
<1>3. (\E w \in strays' : w.at = Video /\ w.data = "none") =>
         \E w \in strays : w.at = Video /\ w.data = "none"
  BY <1>1
<1> QED BY <1>1, <1>2, <1>3 DEF KeptInv

LEMMA ExpireKept == ASSUME Inv, KeptInv, NEW p \in Places, Expire(p) PROVE KeptInv'
<1> SUFFICES ASSUME ~nsfw PROVE KeptInv'
  BY DEF KeptInv, Expire
<1>1. UNCHANGED <<nsfw, call, strays>>
  BY DEF Expire
<1>2. objects'[Moved] = objects[Moved]
  BY ExpireFacts, PlaceFacts DEF KeptInv
<1> QED BY <1>1, <1>2 DEF KeptInv

LEMMA NextKept == ASSUME Inv, KeptInv, [Next]_vars PROVE KeptInv'
<1>1. ASSUME NEW c \in Calls, StartUpload(c) \/ RejectUpload(c) \/ StartMove(c)
      PROVE  KeptInv'
  BY <1>1, BeginKept
<1>2. ASSUME NEW c \in Calls, NEW b \in Boxes, NEW k \in {"finalize", "publish"},
             StartFinalize(c, k, b)
      PROVE  KeptInv'
  BY <1>2, BeginKept DEF Finalizers
<1>3. ASSUME NEW c \in Calls, NEW p \in Places, Put(c, p) \/ PutFails(c, p)
      PROVE  KeptInv'
  BY <1>3, PutKept, PutFailsKept
<1>4. ASSUME NEW c \in Calls, Fetch(c) \/ FetchFails(c) \/ Read(c) \/ Clear(c) \/ AddPost(c)
      PROVE  KeptInv'
  BY <1>4, FinalizeKept
<1>5. ASSUME NEW c \in Calls, MoveVideo(c) \/ MoveThumb(c) \/ DeleteVideo(c) \/ DeleteThumb(c)
      PROVE  KeptInv'
  BY <1>5, MoveKept
<1>6. ASSUME NEW c \in Calls, HangUp(c) PROVE KeptInv'
  BY <1>6, HangUpKept
<1>7. ASSUME NEW s \in strays, Land(s) PROVE KeptInv'
  BY <1>7, LandKept
<1>8. ASSUME NEW p \in Places, Expire(p) PROVE KeptInv'
  BY <1>8, ExpireKept
<1>9. CASE MarkPublished
  BY <1>9 DEF MarkPublished, KeptInv
<1>10. CASE UNCHANGED vars
  BY <1>10 DEF vars, KeptInv
<1> QED BY <1>1, <1>2, <1>3, <1>4, <1>5, <1>6, <1>7, <1>8, <1>9, <1>10 DEF Next

\* The video leaves Hetzner only as a move deletes it, or when the deletion of
\* one that was dropped lands.
LEMMA OnlyDeletions ==
  ASSUME Inv, [Next]_vars, objects[Video].data # "none", objects'[Video].data = "none"
  PROVE  \/ \E c \in Calls : DeleteVideo(c)
         \/ \E s \in strays : s.at = Video /\ s.data = "none"
<1>1. objects' # objects
  OBVIOUS
<1>2. ASSUME NEW c \in Calls, NEW p \in Places, Put(c, p) PROVE FALSE
  <2>1. p = Video /\ objects'[Video] = Copy(c, p)
    BY <1>2, PlaceFacts, TypeFacts DEF Put, Things
  <2>2. Copy(c, p).data = call[c].has[p[2]] /\ p[2] \in Keys
    BY CopyType, PlaceFacts, TypeFacts
  <2> QED BY <1>2, <2>1, <2>2, CallFacts DEF Put, GoodCall
<1>3. ASSUME NEW c \in Calls, MoveVideo(c) PROVE FALSE
  BY <1>1, <1>3, MoveVideoFacts, PlaceFacts, TypeFacts DEF Things
<1>4. ASSUME NEW c \in Calls, MoveThumb(c) PROVE FALSE
  BY <1>4, MoveThumbFacts, PlaceFacts DEF Video
<1>5. ASSUME NEW c \in Calls, DeleteThumb(c) PROVE FALSE
  BY <1>5, DeleteThumbFacts, PlaceFacts DEF Video
<1>6. ASSUME NEW p \in Places, Expire(p) PROVE FALSE
  <2>1. p # Video => objects'[Video] = objects[Video]
    BY <1>6, ExpireFacts, PlaceFacts
  <2>2. ~objects[Video].ttl
    BY TypeFacts, PlaceFacts DEF HetznerStays, Video
  <2> QED BY <1>6, <2>1, <2>2, ExpireFacts
<1>7. ASSUME NEW s \in strays, Land(s) PROVE s.at = Video /\ s.data = "none"
  <2>1. PICK o \in [data : Contents, ttl : BOOLEAN] :
            /\ objects' = [objects EXCEPT ![s.at] = o]
            /\ o.data = s.data \/ (o.data = "cut" /\ s.at[1] # "hetzner")
    BY <1>1, <1>7, LandFacts
  <2>2. s.at = Video
    BY <2>1, PlaceFacts, TypeFacts DEF Things
  <2>3. objects'[Video] = o
    BY <2>1, <2>2, PlaceFacts, TypeFacts DEF Things
  <2> QED BY <2>1, <2>2, <2>3
<1>8. ASSUME NEW c \in Calls, StartUpload(c) \/ RejectUpload(c) \/ StartMove(c)
                 \/ Fetch(c) \/ FetchFails(c) \/ Read(c) \/ Clear(c) \/ AddPost(c) \/ HangUp(c)
                 \/ \E p \in Places : PutFails(c, p)
      PROVE  objects' = objects
  BY <1>8 DEF StartUpload, RejectUpload, StartMove, Fetch, FetchFails, Read, Clear, AddPost,
              HangUp, PutFails
<1>9. ASSUME NEW c \in Calls, NEW b \in Boxes, NEW k \in {"finalize", "publish"},
             StartFinalize(c, k, b)
      PROVE  objects' = objects
  BY <1>9 DEF StartFinalize
<1>10. MarkPublished \/ UNCHANGED vars => objects' = objects
  BY DEF MarkPublished, vars
<1> QED BY <1>1, <1>2, <1>3, <1>4, <1>5, <1>6, <1>7, <1>8, <1>9, <1>10 DEF Next

\* A move does not lose the video: when it leaves Hetzner the NSFW bucket has
\* it, and has it as Hetzner did if no requests overlapped.
THEOREM MoveKeepsVideo == Spec => MovedIsKept
<1> DEFINE Body ==
      LET old == objects[<<"hetzner", "mp4">>].data
          kept == objects[<<"nsfw", "mp4">>].data
      IN  old # "none" /\ objects'[<<"hetzner", "mp4">>].data = "none" =>
              /\ ~nsfw => kept # "none"
              /\ alone # Nobody => kept = old
<1>1. Inv /\ AloneInv /\ KeptInv /\ [Next]_vars => [Body]_vars
  <2> SUFFICES ASSUME Inv, AloneInv, KeptInv, [Next]_vars, objects[Video].data # "none",
                      objects'[Video].data = "none"
               PROVE  /\ ~nsfw => objects[Moved].data # "none"
                      /\ alone # Nobody => objects[Moved].data = objects[Video].data
    BY DEF Video, Moved
  <2>1. CASE \E c \in Calls : DeleteVideo(c)
    <3>1. PICK c \in Calls : DeleteVideo(c)
      BY <2>1
    <3>2. call[c].step = "deleting" /\ Active(c)
      BY <3>1 DEF DeleteVideo, Active
    <3>3. ~nsfw => objects[Moved].data # "none"
      BY <3>2 DEF KeptInv
    <3>4. alone # Nobody => alone = c /\ Alone(c)
      BY <3>2, OnlyActive, TypeFacts
    <3> QED BY <3>2, <3>3, <3>4 DEF Alone, CopyIsVideo
  <2>2. CASE \E s \in strays : s.at = Video /\ s.data = "none"
    <3>1. PICK s \in strays : s.at = Video /\ s.data = "none"
      BY <2>2
    <3>2. ~nsfw => objects[Moved].data # "none"
      BY <3>1 DEF KeptInv
    <3>3. alone # Nobody => Alone(alone) /\ alone \in Calls
      BY TypeFacts DEF AloneInv
    <3> QED BY <3>1, <3>2, <3>3 DEF Alone, CopyIsVideo
  <2> QED BY <2>1, <2>2, OnlyDeletions
<1> QED BY <1>1, InitInv, NextInv, InitAlone, NextAlone, InitKept, NextKept,
           PTL DEF Spec, MovedIsKept

=============================================================================
