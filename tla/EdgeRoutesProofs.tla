-------------------------- MODULE EdgeRoutesProofs --------------------------
(***************************************************************************)
(* Proofs about EdgeRoutes for any number of calls and boxes, any clocks   *)
(* and windows, and any number of attempts and faults.                     *)
(***************************************************************************)
EXTENDS EdgeRoutes, TLAPS

Steps == Ended \cup {"signed", "backoff", "put", "list", "clear", "image", "canister"}
Segments == {"hls", "hls nsfw"}

CallRecords ==
  [kind : {"none"} \cup Signed \cup Pictures, step : Steps, stamp : Nat,
   transit : 0 .. MaxTransit, tries : 0 .. MaxTries, key : {"old", "new"},
   todo : SUBSET (Stores \cup Seconds \cup {Cleared})]

\* What the step of a call says about the rest of it.  An attempt is as old as
\* its transit took, because it was signed as it was sent.
GoodCall(r) ==
  /\ r.step \in {"signed", "backoff", "refused"} => r.kind \in Signed
  /\ r.step \in {"signed", "refused"} => r.stamp = r.transit
  /\ r.step = "backoff" => r.tries < MaxTries
  /\ r.kind # "moderation" => r.tries = 0
  /\ r.step = "put" => r.kind \in Segments /\ r.todo \subseteq Targets(r.kind)
  /\ r.step \in {"list", "clear", "image", "canister"} => r.kind \in Pictures
  /\ r.step \in {"clear", "image"} => r.todo \subseteq Seconds
  /\ r.step = "canister" => r.todo \subseteq Seconds \cup {Cleared}

CallsOK == call \in [Calls -> CallRecords] /\ \A c \in Calls : GoodCall(call[c])

StrayOK(w) ==
  /\ w.by \in Calls
  /\ w.of = "segment" => w.place \in Stores
  /\ w.of # "segment" =>
       /\ w.of = "picture" /\ w.what \in {"image", "deletion", "url"}
       /\ w.what \in {"image", "deletion"} => w.place \in Seconds
       /\ w.what = "url" => w.place \in Seconds \cup {Cleared}

StoresOK ==
  /\ segment \in [Stores -> (Calls \cup {Nobody}) \X {"whole", "cut"}]
  /\ images \in [Seconds -> Calls \cup {Nobody, Untouched}]
  /\ url \in Seconds \cup {Cleared} /\ second \in Seconds
  /\ \A w \in strays : StrayOK(w)
  /\ faults \in 0 .. MaxFaults

\* The replacement of the key: no attempt carries the new one before Vast has
\* it, and then every box knows it; a box forgets the old one only after that.
KeysOK ==
  /\ offset \in Offsets /\ stage \in [Boxes -> 0 .. 2] /\ signKey \in {"old", "new"}
  /\ \A b \in Boxes : IF signKey = "new" THEN stage[b] > 0 ELSE stage[b] < 2
  /\ \A c \in Calls : call[c].key = "new" => signKey = "new"

Inv == CallsOK /\ StoresOK /\ KeysOK /\ RefusedForCause

LEMMA Constants ==
  /\ Calls \subseteq Nat \ {0} /\ Nobody \notin Calls /\ Window \in Nat
  /\ MaxTries \in Nat /\ MaxTries > 0 /\ MaxTransit \in Nat /\ MaxSecond \in Nat
  /\ MaxFaults \in Nat /\ \A o \in Offsets : o \in Int
BY EdgeAssumption

LEMMA IdleIsGood ==
  /\ Idle \in CallRecords /\ GoodCall(Idle)
  /\ Idle.stamp = 0 /\ Idle.transit = 0 /\ Idle.tries = 0 /\ Idle.key = "old" /\ Idle.todo = {}
BY Constants DEF Idle, CallRecords, GoodCall, Steps, Ended, Signed, Pictures, Segments

LEMMA InitInv == Init => Inv
<1> SUFFICES ASSUME Init PROVE Inv
  OBVIOUS
<1>1. CallsOK
  BY IdleIsGood DEF Init, CallsOK
<1>2. StoresOK
  BY Constants DEF Init, StoresOK, Seconds, Cleared, Untouched
<1>3. KeysOK
  BY DEF Init, KeysOK, Idle
<1>4. RefusedForCause
  BY DEF Init, RefusedForCause, Idle
<1> QED BY <1>1, <1>2, <1>3, <1>4 DEF Inv

(* Lemmas about one call. *)

LEMMA CallUpdate ==
  ASSUME CallsOK, NEW c \in Calls, NEW r \in CallRecords, GoodCall(r),
         call' = [call EXCEPT ![c] = r]
  PROVE  CallsOK' /\ call'[c] = r /\ \A d \in Calls \ {c} : call'[d] = call[d]
BY DEF CallsOK, GoodCall

\* A call that is over, whatever it was.
LEMMA SettledIsGood ==
  ASSUME CallsOK, NEW c \in Calls, NEW s \in {"ok", "rejected", "failed"}
  PROVE  Settled(c, s) \in CallRecords /\ GoodCall(Settled(c, s))
         /\ Settled(c, s).step = s /\ Settled(c, s).key = "old"
<1> DEFINE r == Settled(c, s)
<1>1. call[c].kind \in {"none"} \cup Signed \cup Pictures
  BY DEF CallsOK, CallRecords
<1>2. r \in CallRecords
  BY <1>1, IdleIsGood DEF CallRecords, Settled, Steps, Ended
<1>3. r.kind = call[c].kind /\ r.step = s /\ r.tries = 0 /\ r.key = "old"
  BY IdleIsGood DEF CallRecords, Settled
<1> HIDE DEF r
<1>4. GoodCall(r)
  BY <1>3 DEF GoodCall
<1> QED BY <1>2, <1>3, <1>4 DEF r

\* A step of c that is neither a refusal nor a signature.
LEMMA OtherStepKeys ==
  ASSUME Inv, NEW c \in Calls, NEW r \in CallRecords, call' = [call EXCEPT ![c] = r],
         r.step # "refused", r.key \in {call[c].key, "old"},
         UNCHANGED clockVars
  PROVE  KeysOK' /\ RefusedForCause'
<1>1. call'[c] = r /\ \A d \in Calls \ {c} : call'[d] = call[d]
  BY DEF Inv, CallsOK
<1> QED BY <1>1 DEF Inv, KeysOK, RefusedForCause, clockVars

LEMMA FaultType == StoresOK /\ Fault => faults' \in 0 .. MaxFaults
BY Constants DEF StoresOK, Fault

LEMMA LandType ==
  ASSUME StoresOK, NEW w, StrayOK(w), NEW data \in {"whole", "cut"}, Land(w, data),
         strays' \subseteq strays, UNCHANGED faults
  PROVE  StoresOK'
BY DEF StoresOK, StrayOK, Land, imageVars

LEMMA FailsType ==
  ASSUME StoresOK, NEW ws, \A w \in ws : StrayOK(w), Fails(ws)
  PROVE  StoresOK'
BY FaultType DEF StoresOK, Fails, imageVars

LEMMA UnderWayType ==
  ASSUME CallsOK, NEW c \in Calls, NEW w \in UnderWay(c)
  PROVE  StrayOK(w)
<1>1. call[c] \in CallRecords /\ GoodCall(call[c])
  BY DEF CallsOK
<1>2. CASE call[c].step = "put"
  <2>1. PICK s \in call[c].todo : w = Segment(c, s)
    BY <1>2 DEF UnderWay
  <2>2. s \in Stores
    BY <1>1, <1>2, <2>1 DEF GoodCall, Targets, Stores
  <2> QED BY <2>1, <2>2 DEF Segment, StrayOK
<1>3. CASE call[c].step = "clear"
  BY <1>1, <1>3 DEF UnderWay, Deletion, GoodCall, StrayOK
<1>4. CASE call[c].step = "image"
  BY <1>1, <1>4 DEF UnderWay, Image, GoodCall, StrayOK
<1>5. CASE call[c].step = "canister"
  BY <1>1, <1>5 DEF UnderWay, Url, GoodCall, StrayOK
<1> QED BY <1>2, <1>3, <1>4, <1>5 DEF UnderWay

(* The signed calls. *)

LEMMA CallStep ==
  ASSUME Inv, NEW c \in Calls, NEW kind \in Signed, Call(c, kind)
  PROVE  Inv'
<1> DEFINE r == [Idle EXCEPT !.kind = kind, !.step = "backoff"]
<1>1. call[c] = Idle /\ call' = [call EXCEPT ![c] = r]
  BY DEF Call, Begun, Inv, CallsOK
<1>2. r \in CallRecords /\ GoodCall(r) /\ r.step = "backoff" /\ r.key = "old"
  <2>1. r.kind = kind /\ r.step = "backoff" /\ r.tries = 0 /\ r.key = "old"
    BY IdleIsGood DEF CallRecords
  <2>2. r \in CallRecords
    BY IdleIsGood DEF CallRecords, Steps
  <2> HIDE DEF r
  <2>3. GoodCall(r)
    BY <2>1, Constants DEF GoodCall
  <2> QED BY <2>1, <2>2, <2>3
<1> HIDE DEF r
<1>3. UNCHANGED <<clockVars, segment, images, url, second, strays, faults>>
  BY DEF Call, imageVars
<1>4. CallsOK'
  BY <1>1, <1>2, CallUpdate DEF Inv
<1>5. StoresOK'
  BY <1>3 DEF Inv, StoresOK
<1> QED BY <1>1, <1>2, <1>3, <1>4, <1>5, OtherStepKeys DEF Inv

LEMMA SignStep == ASSUME Inv, NEW c \in Calls, Sign(c) PROVE Inv'
<1> DEFINE r == SignedNow(c)
<1>1. call[c] \in CallRecords /\ GoodCall(call[c]) /\ signKey \in {"old", "new"}
  BY DEF Inv, CallsOK, KeysOK
<1>2. /\ call[c].step = "backoff" \/ (call[c].kind = "callback" /\ call[c].step = "refused")
      /\ call' = [call EXCEPT ![c] = r]
      /\ UNCHANGED <<offset, stage, signKey, segment, images, url, second, strays, faults>>
  BY DEF Sign, clockVars, imageVars
<1>3. r \in CallRecords /\ GoodCall(r) /\ r.step = "signed" /\ r.key = signKey
  <2> DEFINE tries == IF call[c].kind = "moderation" THEN call[c].tries + 1 ELSE call[c].tries
  <2>1. /\ call[c].kind \in Signed /\ call[c].tries \in 0 .. MaxTries
        /\ call[c].todo \in SUBSET (Stores \cup Seconds \cup {Cleared})
    BY <1>1, <1>2 DEF CallRecords, GoodCall
  <2>2. tries \in 0 .. MaxTries /\ (call[c].kind # "moderation" => tries = 0)
    BY <1>1, <1>2, <2>1, Constants DEF GoodCall
  <2>3. /\ r.kind = call[c].kind /\ r.step = "signed" /\ r.stamp = 0 /\ r.transit = 0
        /\ r.tries = tries /\ r.key = signKey
    BY <1>1 DEF SignedNow, CallRecords
  <2>4. r \in CallRecords
    <3>1. r = [call[c] EXCEPT !.step = "signed", !.stamp = 0, !.transit = 0, !.tries = tries,
                              !.key = signKey]
      BY <1>1 DEF SignedNow, CallRecords
    <3> HIDE DEF r, tries
    <3>2. 0 \in Nat /\ 0 \in 0 .. MaxTransit /\ "signed" \in Steps
      BY Constants DEF Steps
    <3> QED BY <1>1, <2>2, <3>1, <3>2 DEF CallRecords
  <2> HIDE DEF r, tries
  <2>5. GoodCall(r)
    BY <2>1, <2>2, <2>3 DEF GoodCall
  <2> QED BY <2>3, <2>4, <2>5
<1> HIDE DEF r
<1>4. CallsOK' /\ call'[c] = r /\ \A d \in Calls \ {c} : call'[d] = call[d]
  BY <1>2, <1>3, CallUpdate DEF Inv
<1>5. StoresOK'
  BY <1>2 DEF Inv, StoresOK
<1> QED BY <1>2, <1>3, <1>4, <1>5 DEF Inv, KeysOK, RefusedForCause

LEMMA WaitStep == ASSUME Inv, NEW c \in Calls, Wait(c) PROVE Inv'
<1>1. call[c] \in CallRecords /\ GoodCall(call[c])
  BY DEF Inv, CallsOK
<1>2. UNCHANGED <<clockVars, segment, images, url, second, strays, faults>>
  BY DEF Wait, imageVars
<1>3. StoresOK'
  BY <1>2 DEF Inv, StoresOK
<1>4. PICK r : /\ call' = [call EXCEPT ![c] = r]
               /\ \/ /\ call[c].step = "signed" /\ call[c].transit < MaxTransit
                     /\ r = [call[c] EXCEPT !.stamp = @ + 1, !.transit = @ + 1]
                  \/ /\ call[c].step = "backoff"
                     /\ r = [call[c] EXCEPT !.stamp = @ + 1]
  <2>1. CASE call[c].step = "signed" /\ call[c].transit < MaxTransit
             /\ call' = [call EXCEPT ![c].stamp = @ + 1, ![c].transit = @ + 1]
    <3> DEFINE r == [call[c] EXCEPT !.stamp = @ + 1, !.transit = @ + 1]
    <3>1. call' = [call EXCEPT ![c] = r]
      BY <2>1 DEF Inv, CallsOK
    <3> QED BY <2>1, <3>1
  <2>2. CASE call[c].step = "backoff" /\ call' = [call EXCEPT ![c].stamp = @ + 1]
    <3> DEFINE r == [call[c] EXCEPT !.stamp = @ + 1]
    <3>1. call' = [call EXCEPT ![c] = r]
      BY <2>2 DEF Inv, CallsOK
    <3> QED BY <2>2, <3>1
  <2> QED BY <2>1, <2>2 DEF Wait
<1>5. r \in CallRecords /\ GoodCall(r) /\ r.step # "refused" /\ r.key = call[c].key
  <2>1. /\ call[c].stamp \in Nat /\ call[c].transit \in 0 .. MaxTransit
        /\ r.kind = call[c].kind /\ r.step = call[c].step /\ r.tries = call[c].tries
        /\ r.todo = call[c].todo /\ r.key = call[c].key
        /\ \/ r.stamp = call[c].stamp + 1 /\ r.transit = call[c].transit + 1
              /\ call[c].transit < MaxTransit /\ r.step = "signed"
           \/ r.stamp = call[c].stamp + 1 /\ r.transit = call[c].transit /\ r.step = "backoff"
    BY <1>1, <1>4 DEF CallRecords
  <2>2. r.stamp \in Nat /\ r.transit \in 0 .. MaxTransit
    BY <2>1, Constants
  <2>3. r \in CallRecords
    BY <1>1, <1>4, <2>2 DEF CallRecords
  <2>4. GoodCall(r)
    BY <1>1, <2>1 DEF GoodCall
  <2> QED BY <2>1, <2>3, <2>4
<1>6. CallsOK'
  BY <1>4, <1>5, CallUpdate DEF Inv
<1> QED BY <1>2, <1>3, <1>4, <1>5, <1>6, OtherStepKeys DEF Inv

LEMMA AdmitStep == ASSUME Inv, NEW c \in Calls, NEW b \in Boxes, Admit(c, b) PROVE Inv'
<1>1. UNCHANGED <<clockVars, segment, images, url, second, strays, faults>>
  BY DEF Admit, imageVars
<1>2. StoresOK'
  BY <1>1 DEF Inv, StoresOK
<1>3. CASE call[c].kind \in Segments
  <2> DEFINE r == [Settled(c, "put") EXCEPT !.todo = Targets(call[c].kind)]
  <2>1. call' = [call EXCEPT ![c] = r]
    BY <1>3 DEF Admit, Segments
  <2>2. r \in CallRecords /\ GoodCall(r) /\ r.step = "put" /\ r.key = "old"
    <3>1. /\ r.kind = call[c].kind /\ r.step = "put" /\ r.tries = 0 /\ r.key = "old"
          /\ r.todo = Targets(call[c].kind)
      BY IdleIsGood DEF Settled, CallRecords
    <3>2. Targets(call[c].kind) \subseteq Stores
      BY DEF Targets, Stores
    <3>3. r \in CallRecords
      BY <1>3, <3>2, IdleIsGood DEF Settled, CallRecords, Steps, Segments, Signed
    <3> HIDE DEF r
    <3>4. GoodCall(r)
      BY <1>3, <3>1 DEF GoodCall, Segments
    <3> QED BY <3>1, <3>3, <3>4
  <2> HIDE DEF r
  <2>3. CallsOK'
    BY <2>1, <2>2, CallUpdate DEF Inv
  <2> QED BY <1>1, <1>2, <2>1, <2>2, <2>3, OtherStepKeys DEF Inv
<1>4. CASE call[c].kind \notin Segments
  <2>1. call' = [call EXCEPT ![c] = Settled(c, "ok")]
    BY <1>4 DEF Admit, Settle, Segments
  <2>2. /\ Settled(c, "ok") \in CallRecords /\ GoodCall(Settled(c, "ok"))
        /\ Settled(c, "ok").step = "ok" /\ Settled(c, "ok").key = "old"
    BY SettledIsGood DEF Inv
  <2>3. CallsOK'
    BY <2>1, <2>2, CallUpdate DEF Inv
  <2> QED BY <1>1, <1>2, <2>1, <2>2, <2>3, OtherStepKeys DEF Inv
<1> QED BY <1>3, <1>4

\* Either the transit was out of the window, or the box has forgotten the key.
LEMMA RefuseStep == ASSUME Inv, NEW c \in Calls, NEW b \in Boxes, Refuse(c, b) PROVE Inv'
<1> DEFINE r == [call[c] EXCEPT !.step = "refused"]
<1>1. /\ call[c] \in CallRecords /\ GoodCall(call[c]) /\ call[c].step = "signed"
      /\ call' = [call EXCEPT ![c] = r]
      /\ UNCHANGED <<offset, stage, signKey, segment, images, url, second, strays, faults>>
  BY DEF Refuse, Goto, Inv, CallsOK, clockVars, imageVars
<1>2. /\ r \in CallRecords /\ GoodCall(r) /\ r.step = "refused"
      /\ r.key = call[c].key /\ r.kind = call[c].kind
      /\ r.transit = call[c].transit /\ call[c].stamp = call[c].transit
  BY <1>1 DEF CallRecords, GoodCall, Steps, Ended
<1> HIDE DEF r
<1>3. CallsOK' /\ call'[c] = r /\ \A d \in Calls \ {c} : call'[d] = call[d]
  BY <1>1, <1>2, CallUpdate DEF Inv
<1>4. StoresOK'
  BY <1>1 DEF Inv, StoresOK
<1>5. KeysOK'
  BY <1>1, <1>2, <1>3 DEF Inv, KeysOK
<1>6. call[c].key \in {"old", "new"}
  BY <1>1 DEF CallRecords
<1>7. \/ call[c].transit + offset \notin (-Window) .. Window
      \/ call[c].kind = "callback" /\ call[c].key = "old" /\ signKey = "new"
  <2>1. CASE ~Fresh(c)
    BY <1>2, <2>1 DEF Fresh
  <2>2. CASE ~Knows(b, c)
    <3>1. call[c].kind = "callback" /\ call[c].key \notin Registry(b)
      BY <2>2 DEF Knows
    <3>2. call[c].key = "old" => stage[b] >= 2
      BY <1>6, <3>1 DEF Registry, Inv, KeysOK
    <3>3. call[c].key = "new" => stage[b] <= 0
      BY <1>6, <3>1 DEF Registry, Inv, KeysOK
    <3> QED BY <1>6, <3>1, <3>2, <3>3 DEF Inv, KeysOK
  <2> QED BY <2>1, <2>2 DEF Refuse, Verified
<1>8. RefusedForCause'
  BY <1>1, <1>2, <1>3, <1>7 DEF Inv, RefusedForCause
<1> QED BY <1>3, <1>4, <1>5, <1>8 DEF Inv

\* A call that settles: its writes are of no matter to the keys.
LEMMA SettleStep ==
  ASSUME Inv, NEW c \in Calls, NEW s \in {"ok", "rejected", "failed"}, Settle(c, s), StoresOK',
         UNCHANGED clockVars
  PROVE  Inv'
<1>1. call' = [call EXCEPT ![c] = Settled(c, s)]
  BY DEF Settle
<1>2. /\ Settled(c, s) \in CallRecords /\ GoodCall(Settled(c, s))
      /\ Settled(c, s).step = s /\ Settled(c, s).key = "old"
  BY SettledIsGood DEF Inv
<1>3. CallsOK'
  BY <1>1, <1>2, CallUpdate DEF Inv
<1> QED BY <1>1, <1>2, <1>3, OtherStepKeys DEF Inv

LEMMA LoseStep == ASSUME Inv, NEW c \in Calls, Lose(c) PROVE Inv'
<1>1. UNCHANGED <<clockVars, segment, images, url, second, strays>> /\ Fault
  BY DEF Lose, imageVars
<1>2. StoresOK'
  BY <1>1, FaultType DEF Inv, StoresOK
<1>3. CASE Settle(c, "failed")
  BY <1>1, <1>2, <1>3, SettleStep
<1>4. CASE /\ call[c].step = "signed" /\ Goto(c, "backoff")
           /\ \/ call[c].kind = "callback"
              \/ call[c].kind = "moderation" /\ call[c].tries < MaxTries
  <2> DEFINE r == [call[c] EXCEPT !.step = "backoff"]
  <2>1. call[c] \in CallRecords /\ GoodCall(call[c]) /\ call' = [call EXCEPT ![c] = r]
    BY <1>4 DEF Goto, Inv, CallsOK
  <2>2. r \in CallRecords
    BY <2>1 DEF CallRecords, Steps
  <2>3. r.step = "backoff" /\ r.key = call[c].key /\ r.kind = call[c].kind /\ r.tries = call[c].tries
    BY <2>1 DEF CallRecords
  <2> HIDE DEF r
  <2>4. GoodCall(r)
    BY <1>4, <2>1, <2>3, Constants DEF GoodCall, Signed
  <2>5. CallsOK'
    BY <2>1, <2>2, <2>4, CallUpdate DEF Inv
  <2> QED BY <1>1, <1>2, <2>1, <2>2, <2>3, <2>5, OtherStepKeys DEF Inv
<1> QED BY <1>3, <1>4 DEF Lose

LEMMA RejectStep == ASSUME Inv, NEW c \in Calls, Reject(c) PROVE Inv'
<1>1. UNCHANGED <<clockVars, segment, images, url, second, strays>> /\ Fault
  BY DEF Reject, imageVars
<1>2. StoresOK'
  BY <1>1, FaultType DEF Inv, StoresOK
<1> QED BY <1>1, <1>2, SettleStep DEF Reject

(* The keys. *)

LEMMA RedeployStep == ASSUME Inv, NEW b \in Boxes, Redeploy(b) PROVE Inv'
<1>1. /\ stage[b] = 0 \/ (stage[b] = 1 /\ signKey = "new")
      /\ stage' = [stage EXCEPT ![b] = @ + 1]
      /\ UNCHANGED <<call, offset, signKey, segment, images, url, second, strays, faults>>
  BY DEF Redeploy, imageVars
<1>2. KeysOK'
  BY <1>1 DEF Inv, KeysOK
<1>3. CallsOK' /\ StoresOK' /\ RefusedForCause'
  BY <1>1 DEF Inv, CallsOK, StoresOK, RefusedForCause
<1> QED BY <1>2, <1>3 DEF Inv

LEMMA SwitchKeyStep == Inv /\ SwitchKey => Inv'
BY DEF Inv, SwitchKey, CallsOK, StoresOK, KeysOK, RefusedForCause, imageVars

(* Segments and images. *)

\* A step of c at work on its object: r is what becomes of its record.
LEMMA WorkStep ==
  ASSUME Inv, NEW c \in Calls, NEW r \in CallRecords, GoodCall(r),
         call' = [call EXCEPT ![c] = r], r.step # "refused", r.key = call[c].key,
         StoresOK', UNCHANGED clockVars
  PROVE  Inv'
BY CallUpdate, OtherStepKeys DEF Inv

LEMMA PutStep == ASSUME Inv, NEW c \in Calls, NEW s \in Stores, Put(c, s) PROVE Inv'
<1> DEFINE todo == call[c].todo \ {s}
           r == [call[c] EXCEPT !.todo = todo, !.step = IF Answered(todo) THEN "ok" ELSE @]
<1>1. call[c] \in CallRecords /\ GoodCall(call[c]) /\ call[c].step = "put"
  BY DEF Put, Inv, CallsOK
<1>2. call' = [call EXCEPT ![c] = r]
  BY DEF Put, Inv, CallsOK
<1>3. /\ r.step \in {"put", "ok"} /\ r.key = call[c].key /\ r.todo = todo
      /\ r.kind = call[c].kind /\ r.tries = call[c].tries
  BY <1>1 DEF CallRecords
<1>4. r \in CallRecords
  BY <1>1 DEF CallRecords, Steps, Ended
<1> HIDE DEF r
<1>5. GoodCall(r)
  BY <1>1, <1>3 DEF GoodCall
<1>6. StoresOK'
  <2>1. StrayOK(Segment(c, s))
    BY DEF StrayOK, Segment
  <2> QED BY <2>1, LandType DEF Put, Inv
<1> QED BY <1>2, <1>3, <1>4, <1>5, <1>6, WorkStep DEF Put

LEMMA FailStep == ASSUME Inv, NEW c \in Calls, Fail(c) PROVE Inv'
<1>1. StoresOK'
  BY UnderWayType, FailsType DEF Fail, Inv
<1> QED BY <1>1, SettleStep DEF Fail

LEMMA StartPictureStep ==
  ASSUME Inv, NEW c \in Calls, NEW kind \in Pictures, StartPicture(c, kind)
  PROVE  Inv'
<1> DEFINE r1 == [Idle EXCEPT !.kind = kind, !.step = "list", !.stamp = second]
           r2 == [Idle EXCEPT !.kind = kind, !.step = "rejected"]
<1>1. call[c] = Idle /\ call \in [Calls -> CallRecords] /\ second \in Nat
  BY Constants DEF StartPicture, Begun, Inv, CallsOK, StoresOK, Seconds
<1>2. call' = [call EXCEPT ![c] = r1] \/ call' = [call EXCEPT ![c] = r2]
  BY <1>1 DEF StartPicture
<1>3. /\ r1 \in CallRecords /\ r1.kind = kind /\ r1.step = "list" /\ r1.tries = 0 /\ r1.key = "old"
      /\ r2 \in CallRecords /\ r2.kind = kind /\ r2.step = "rejected" /\ r2.tries = 0
      /\ r2.key = "old"
  BY <1>1, IdleIsGood DEF CallRecords, Steps, Ended
<1> HIDE DEF r1, r2
<1>4. GoodCall(r1) /\ GoodCall(r2)
  BY <1>3 DEF GoodCall
<1>5. StoresOK' /\ UNCHANGED clockVars
  BY DEF StartPicture, Inv, StoresOK, imageVars
<1> QED BY <1>1, <1>2, <1>3, <1>4, <1>5, IdleIsGood, WorkStep

\* The call goes on to the next of its deletions, or behind them.
LEMMA ClearToStep ==
  ASSUME Inv, NEW c \in Calls, NEW todo \in SUBSET Seconds, ClearTo(c, todo),
         call[c].step \in {"list", "clear"}, StoresOK', UNCHANGED clockVars
  PROVE  Inv'
<1> DEFINE to == StepAfter(call[c].kind, todo)
           left == CASE to = "canister" -> {Cleared} [] to = "image" -> {second} [] OTHER -> todo
           r == [call[c] EXCEPT !.step = to, !.todo = left]
<1>1. call[c] \in CallRecords /\ GoodCall(call[c]) /\ second \in Seconds
  BY DEF Inv, CallsOK, StoresOK
<1>2. to \in {"clear", "image", "canister"}
  BY DEF StepAfter
<1>3. call' = [call EXCEPT ![c] = r]
  BY DEF ClearTo, Inv, CallsOK
<1>4. /\ to = "canister" => left = {Cleared}
      /\ to = "image" => left = {second}
      /\ to = "clear" => left = todo
  OBVIOUS
<1> HIDE DEF to, left
<1>5. /\ r.step = to /\ r.todo = left /\ r.key = call[c].key /\ r.kind = call[c].kind
      /\ r.tries = call[c].tries
  BY <1>1 DEF CallRecords
<1>6. r \in CallRecords
  BY <1>1, <1>2, <1>4 DEF CallRecords, Steps
<1> HIDE DEF r
<1>7. GoodCall(r)
  BY <1>1, <1>2, <1>4, <1>5 DEF GoodCall
<1> QED BY <1>2, <1>3, <1>5, <1>6, <1>7, WorkStep

LEMMA ListStep == ASSUME Inv, NEW c \in Calls, List(c) PROVE Inv'
<1>1. StoresOK' /\ UNCHANGED clockVars
  BY DEF List, Inv, StoresOK, imageVars
<1> QED BY <1>1, ClearToStep DEF List

LEMMA ClearStep == ASSUME Inv, NEW c \in Calls, NEW t \in Seconds, Clear(c, t) PROVE Inv'
<1>1. call[c].todo \ {t} \in SUBSET Seconds
  BY DEF Clear, Inv, CallsOK, GoodCall
<1>2. StrayOK(Deletion(c, t))
  BY DEF StrayOK, Deletion
<1>3. StoresOK'
  BY <1>2, LandType DEF Clear, Inv
<1> QED BY <1>1, <1>3, ClearToStep DEF Clear

LEMMA SkipClearStep == ASSUME Inv, NEW c \in Calls, SkipClear(c) PROVE Inv'
<1> DEFINE r == [call[c] EXCEPT !.step = "image", !.todo = {second}]
<1>1. call[c] \in CallRecords /\ GoodCall(call[c]) /\ second \in Seconds
  BY DEF Inv, CallsOK, StoresOK
<1>2. call' = [call EXCEPT ![c] = r]
  BY DEF SkipClear, Inv, CallsOK
<1>3. /\ r.step = "image" /\ r.todo = {second} /\ r.key = call[c].key /\ r.kind = call[c].kind
      /\ r.tries = call[c].tries
  BY <1>1 DEF CallRecords
<1>4. r \in CallRecords
  BY <1>1 DEF CallRecords, Steps
<1> HIDE DEF r
<1>5. GoodCall(r)
  BY <1>1, <1>3 DEF GoodCall, SkipClear
<1>6. StoresOK'
  BY UnderWayType, FailsType DEF SkipClear, Inv
<1> QED BY <1>2, <1>3, <1>4, <1>5, <1>6, WorkStep DEF SkipClear

LEMMA PutImageStep == ASSUME Inv, NEW c \in Calls, PutImage(c) PROVE Inv'
<1> DEFINE r == [call[c] EXCEPT !.step = "canister"]
<1>1. call[c] \in CallRecords /\ GoodCall(call[c]) /\ call[c].step = "image"
  BY DEF PutImage, Inv, CallsOK
<1>2. call' = [call EXCEPT ![c] = r]
  BY DEF PutImage, Goto, Inv, CallsOK
<1>3. /\ r.step = "canister" /\ r.todo = call[c].todo /\ r.key = call[c].key
      /\ r.kind = call[c].kind /\ r.tries = call[c].tries
  BY <1>1 DEF CallRecords
<1>4. r \in CallRecords
  BY <1>1 DEF CallRecords, Steps
<1> HIDE DEF r
<1>5. GoodCall(r)
  BY <1>1, <1>3 DEF GoodCall
<1>6. PICK t \in call[c].todo : Land(Image(c, t), "whole")
  BY DEF PutImage
<1>7. StrayOK(Image(c, t))
  BY <1>1 DEF GoodCall, StrayOK, Image
<1>8. StoresOK'
  BY <1>6, <1>7, LandType DEF PutImage, Inv
<1> QED BY <1>2, <1>3, <1>4, <1>5, <1>8, WorkStep DEF PutImage

LEMMA SetUrlStep == ASSUME Inv, NEW c \in Calls, SetUrl(c) PROVE Inv'
<1> DEFINE r == [call[c] EXCEPT !.step = "ok"]
<1>1. call[c] \in CallRecords /\ GoodCall(call[c]) /\ call[c].step = "canister"
  BY DEF SetUrl, Inv, CallsOK
<1>2. call' = [call EXCEPT ![c] = r]
  BY DEF SetUrl, Goto, Inv, CallsOK
<1>3. /\ r.step = "ok" /\ r.key = call[c].key /\ r.kind = call[c].kind
      /\ r.tries = call[c].tries
  BY <1>1 DEF CallRecords
<1>4. r \in CallRecords
  BY <1>1 DEF CallRecords, Steps, Ended
<1> HIDE DEF r
<1>5. GoodCall(r)
  BY <1>1, <1>3 DEF GoodCall
<1>6. PICK u \in call[c].todo : Land(Url(c, u), "whole")
  BY DEF SetUrl
<1>7. StrayOK(Url(c, u))
  BY <1>1 DEF GoodCall, StrayOK, Url
<1>8. StoresOK'
  BY <1>6, <1>7, LandType DEF SetUrl, Inv
<1> QED BY <1>2, <1>3, <1>4, <1>5, <1>8, WorkStep DEF SetUrl

LEMMA StrayStep == ASSUME Inv, NEW w \in strays, LandStray(w) \/ LoseStray(w) PROVE Inv'
<1>1. StoresOK'
  <2>1. StrayOK(w)
    BY DEF Inv, StoresOK
  <2>2. CASE LandStray(w)
    BY <2>1, <2>2, LandType DEF LandStray, Inv
  <2>3. CASE LoseStray(w)
    BY <2>3 DEF LoseStray, Inv, StoresOK, imageVars
  <2> QED BY <2>2, <2>3
<1>2. UNCHANGED <<call, offset, stage, signKey>>
  BY DEF LandStray, LoseStray, clockVars
<1>3. CallsOK' /\ KeysOK' /\ RefusedForCause'
  BY <1>2 DEF Inv, CallsOK, KeysOK, RefusedForCause
<1> QED BY <1>1, <1>3 DEF Inv

LEMMA TickStep == Inv /\ Tick => Inv'
<1> SUFFICES ASSUME Inv, Tick PROVE Inv'
  OBVIOUS
<1>1. StoresOK'
  BY Constants DEF Tick, Inv, StoresOK, Seconds
<1>2. CallsOK' /\ KeysOK' /\ RefusedForCause'
  BY DEF Tick, clockVars, Inv, CallsOK, KeysOK, RefusedForCause
<1> QED BY <1>1, <1>2 DEF Inv

LEMMA StepInv == Inv /\ [Next]_vars => Inv'
<1> SUFFICES ASSUME Inv, [Next]_vars PROVE Inv'
  OBVIOUS
<1>1. CASE Next
  BY <1>1, CallStep, StartPictureStep, SignStep, WaitStep, LoseStep, RejectStep, AdmitStep,
     RefuseStep, PutStep, ListStep, SkipClearStep, PutImageStep, SetUrlStep, FailStep,
     ClearStep, RedeployStep, SwitchKeyStep, TickStep, StrayStep DEF Next
<1>2. CASE UNCHANGED vars
  BY <1>2 DEF vars, clockVars, imageVars, Inv, CallsOK, StoresOK, KeysOK, RefusedForCause
<1> QED BY <1>1, <1>2

LEMMA EdgeInv == Spec => []Inv
BY InitInv, StepInv, PTL DEF Spec

\* The variables of the edge keep their types: no attempt counts beyond its
\* bound, and no late write falls outside the objects there are.
THEOREM EdgeTypeCorrect == Spec => []TypeOK
<1>1. Inv => TypeOK
  BY DEF Inv, CallsOK, CallRecords, Steps, StoresOK, KeysOK, TypeOK
<1> QED BY <1>1, EdgeInv, PTL

\* A refusal has a cause: the transit of the very last attempt, whatever earlier
\* ones took, or a callback signed before Vast had the new key.  A box that has
\* not heard of a key yet is never the reason, in whatever order boxes change.
THEOREM EdgeRefusedForCause == Spec => []RefusedForCause
<1>1. Inv => RefusedForCause
  BY DEF Inv
<1> QED BY <1>1, EdgeInv, PTL

(* Acknowledged segments. *)

\* While the last call about the segment is at work, or has been acknowledged,
\* and nothing overlapped it: no other call puts the segment, no write that an
\* earlier one has left may still land, and its own writes stand.
Undisturbed(c) ==
  /\ \A d \in Calls \ {c} : call[d].step # "put"
  /\ \A w \in strays : w.of # "segment"
  /\ \A s \in Targets(call[c].kind) \ call[c].todo : segment[s] = <<c, "whole">>

AloneOK(c) ==
  /\ c \in Calls
  /\ call[c].kind \in Segments /\ call[c].step \in {"put", "ok", "failed"}
  /\ call[c].step = "ok" => call[c].todo = {}
  /\ call[c].step # "failed" => Undisturbed(c)

SegmentInv ==
  /\ DOMAIN alone = {"segment", "picture"}
  /\ alone["segment"] # Nobody => AloneOK(alone["segment"])

LEMMA InitSegmentInv == Init => SegmentInv
BY DEF Init, SegmentInv

\* A call that is not the last one about the segment does something else.
LEMMA ElsewhereKeeps ==
  ASSUME SegmentInv, NEW c \in Calls, \A d \in Calls \ {c} : call'[d] = call[d],
         call[c].kind \notin Segments \/ call[c].step \notin {"put", "ok", "failed"},
         call'[c].step # "put", segment' = segment,
         DOMAIN alone' = DOMAIN alone, alone'["segment"] = alone["segment"],
         \A w \in strays' : w \in strays \/ w.of # "segment"
  PROVE  SegmentInv'
<1> SUFFICES ASSUME NEW a, a = alone["segment"], a # Nobody PROVE AloneOK(a)'
  BY DEF SegmentInv
<1>1. AloneOK(a)
  BY DEF SegmentInv
<1>2. a # c /\ call'[a] = call[a]
  BY <1>1 DEF AloneOK
<1> QED BY <1>1, <1>2 DEF AloneOK, Undisturbed

\* The same for a call about anything but a segment.
LEMMA FirstStepKeeps ==
  ASSUME Inv, SegmentInv, NEW c \in Calls, NEW r, call' = [call EXCEPT ![c] = r],
         r.step # "put", call[c].step \notin {"put", "ok", "failed"},
         UNCHANGED <<segment, strays, alone>>
  PROVE  SegmentInv'
<1>1. call'[c] = r /\ \A d \in Calls \ {c} : call'[d] = call[d]
  BY DEF Inv, CallsOK
<1> QED BY <1>1, ElsewhereKeeps

LEMMA BegunIsIdle == ASSUME NEW c \in Calls, Begun(c) PROVE call[c] = Idle /\ call[c].step = "idle"
BY DEF Begun, Idle

LEMMA SignedKeeps ==
  ASSUME Inv, SegmentInv, NEW c \in Calls,
         \/ \E kind \in Signed : Call(c, kind)
         \/ Sign(c) \/ Wait(c) \/ Lose(c) \/ Reject(c)
         \/ \E b \in Boxes : Refuse(c, b)
  PROVE  SegmentInv'
<1>1. UNCHANGED <<segment, strays, alone>>
  BY DEF Call, Sign, Wait, Lose, Reject, Refuse, auditVars
<1>2. call \in [Calls -> CallRecords] /\ call[c] \in CallRecords
  BY DEF Inv, CallsOK
<1>3. call[c].step \in {"idle", "backoff", "signed", "refused"}
  BY BegunIsIdle DEF Call, Sign, Wait, Lose, Reject, Refuse
<1>4. \A d \in Calls \ {c} : call'[d] = call[d]
  BY <1>2 DEF Call, Sign, Wait, Lose, Reject, Refuse, Goto, Settle
<1>5. call'[c].step # "put"
  <2>1. ASSUME NEW s, Settle(c, s), s # "put" PROVE call'[c].step # "put"
    BY <1>2, <2>1, IdleIsGood DEF Settle, Settled, CallRecords
  <2>2. ASSUME NEW s, Goto(c, s), s # "put" PROVE call'[c].step # "put"
    BY <1>2, <2>2 DEF Goto, CallRecords
  <2>3. CASE \E kind \in Signed : Call(c, kind)
    BY <1>2, <2>3 DEF Call, CallRecords
  <2>4. CASE Sign(c)
    BY <1>2, <2>4 DEF Sign, SignedNow, CallRecords
  <2>5. CASE Wait(c)
    BY <1>2, <1>3, <2>5 DEF Wait, CallRecords
  <2>6. CASE Lose(c) \/ Reject(c) \/ \E b \in Boxes : Refuse(c, b)
    BY <2>1, <2>2, <2>6 DEF Lose, Reject, Refuse
  <2> QED BY <2>3, <2>4, <2>5, <2>6
<1> QED BY <1>1, <1>3, <1>4, <1>5, ElsewhereKeeps

\* The upload that begins is alone if no other one is at work and nothing of
\* an earlier one is left.
LEMMA AdmitKeeps ==
  ASSUME Inv, SegmentInv, NEW c \in Calls, NEW b \in Boxes, Admit(c, b)
  PROVE  SegmentInv'
<1>1. UNCHANGED <<segment, strays>> /\ call[c].step = "signed"
  BY DEF Admit
<1>2. CASE call[c].kind \in Segments
  <2> DEFINE r == [Settled(c, "put") EXCEPT !.todo = Targets(call[c].kind)]
  <2>1. call' = [call EXCEPT ![c] = r] /\ Begins(c, call[c].kind)
    BY <1>2 DEF Admit, Segments
  <2>2. /\ call'[c].step = "put" /\ call'[c].kind = call[c].kind
        /\ call'[c].todo = Targets(call[c].kind)
    BY <2>1, IdleIsGood DEF Settled, Inv, CallsOK, CallRecords
  <2>3. \A d \in Calls \ {c} : call'[d] = call[d]
    BY <2>1 DEF Inv, CallsOK
  <2>4. Object(call[c].kind) = "segment"
    BY <1>2 DEF Object, Segments, Pictures
  <2>5. DOMAIN alone' = {"segment", "picture"}
    BY <2>1 DEF Begins, SegmentInv
  <2>6. alone'["segment"] =
          IF (\E d \in Of("segment") \ {c} : Working(d)) \/ \E w \in strays : w.of = "segment"
          THEN Nobody ELSE c
    BY <2>1, <2>4 DEF Begins, SegmentInv
  <2>7. ASSUME NEW d \in Calls \ {c}, call[d].step = "put"
        PROVE  d \in Of("segment") \ {c} /\ Working(d)
    <3>1. call[d].kind \in Segments
      BY <2>7 DEF Inv, CallsOK, GoodCall
    <3> QED BY <2>7, <3>1 DEF Of, Object, Segments, Pictures, Working, Ended
  <2>8. CASE alone'["segment"] = Nobody
    BY <2>5, <2>8 DEF SegmentInv
  <2>9. CASE alone'["segment"] # Nobody
    <3>1. alone'["segment"] = c /\ \A w \in strays : w.of # "segment"
      BY <2>6, <2>9
    <3>2. \A d \in Calls \ {c} : call[d].step # "put"
      BY <2>6, <2>7, <2>9
    <3>3. Undisturbed(c)'
      BY <1>1, <2>2, <2>3, <3>1, <3>2 DEF Undisturbed
    <3>4. AloneOK(c)'
      BY <1>2, <2>2, <3>3 DEF AloneOK
    <3> QED BY <2>5, <3>1, <3>4 DEF SegmentInv
  <2> QED BY <2>8, <2>9
<1>3. CASE call[c].kind \notin Segments
  <2>1. call' = [call EXCEPT ![c] = Settled(c, "ok")] /\ alone' = alone
    BY <1>3 DEF Admit, Segments, Settle, auditVars
  <2>2. Settled(c, "ok").step = "ok"
    BY SettledIsGood DEF Inv
  <2> QED BY <1>1, <2>1, <2>2, FirstStepKeeps
<1> QED BY <1>2, <1>3

LEMMA PutKeeps ==
  ASSUME Inv, SegmentInv, NEW c \in Calls, NEW s \in Stores, Put(c, s)
  PROVE  SegmentInv'
<1> DEFINE todo == call[c].todo \ {s}
<1> SUFFICES ASSUME NEW a, a = alone["segment"], a # Nobody PROVE AloneOK(a)'
  BY DEF SegmentInv, Put, auditVars
<1>1. AloneOK(a) /\ alone' = alone /\ strays' = strays /\ call[c].step = "put"
  BY DEF SegmentInv, Put, auditVars
<1>2. \A d \in Calls \ {c} : call'[d] = call[d]
  BY DEF Put, Inv, CallsOK
<1>3. /\ call'[c].todo = todo /\ call'[c].kind = call[c].kind
      /\ call'[c].step = IF todo = {} THEN "ok" ELSE "put"
  BY <1>1 DEF Put, Answered, Inv, CallsOK, CallRecords
<1>4. segment' = [segment EXCEPT ![s] = <<c, "whole">>] /\ segment \in [Stores -> (Calls \cup {Nobody}) \X {"whole", "cut"}]
  BY DEF Put, Land, Segment, Inv, StoresOK
<1>5. Targets(call[c].kind) \subseteq Stores
  BY DEF Targets, Stores
<1>6. CASE a = c
  <2>1. \A p \in Targets(call[c].kind) \ todo : segment'[p] = <<c, "whole">>
    BY <1>1, <1>4, <1>5, <1>6 DEF AloneOK, Undisturbed
  <2> HIDE DEF todo
  <2>2. Undisturbed(c)'
    BY <1>1, <1>2, <1>3, <1>6, <2>1 DEF AloneOK, Undisturbed
  <2> QED BY <1>1, <1>3, <1>6, <2>2 DEF AloneOK
<1>7. CASE a # c
  <2>1. call[a].step = "failed" /\ call'[a] = call[a]
    BY <1>1, <1>2, <1>7 DEF AloneOK, Undisturbed
  <2> HIDE DEF todo
  <2> QED BY <1>1, <2>1 DEF AloneOK
<1> QED BY <1>6, <1>7

LEMMA FailKeeps == ASSUME Inv, SegmentInv, NEW c \in Calls, Fail(c) PROVE SegmentInv'
<1>1. /\ call' = [call EXCEPT ![c] = Settled(c, "failed")] /\ Working(c)
      /\ alone' = alone
  BY DEF Fail, Settle, auditVars
<1>2. /\ call'[c].step = "failed" /\ call'[c].kind = call[c].kind
      /\ \A d \in Calls \ {c} : call'[d] = call[d]
  BY <1>1, IdleIsGood DEF Settled, Inv, CallsOK, CallRecords
<1>3. PICK ws \in SUBSET UnderWay(c) : segment' = segment /\ strays' \subseteq strays \cup ws
  BY DEF Fail, Fails
<1>4. call[c].step \notin {"ok", "failed"}
  BY <1>1 DEF Working, Ended
<1>5. CASE call[c].step # "put"
  <2>1. \A w \in ws : w.of # "segment"
    BY <1>5 DEF UnderWay, Deletion, Image, Url
  <2> QED BY <1>1, <1>2, <1>3, <1>4, <1>5, <2>1, ElsewhereKeeps
<1>6. CASE call[c].step = "put"
  <2> SUFFICES ASSUME NEW a, a = alone["segment"], a # Nobody PROVE AloneOK(a)'
    BY <1>1 DEF SegmentInv
  <2>1. AloneOK(a)
    BY DEF SegmentInv
  <2>2. a \in Calls /\ call'[a].step = "failed" /\ call'[a].kind \in Segments
    BY <1>2, <1>6, <2>1 DEF AloneOK, Undisturbed
  <2> QED BY <2>2 DEF AloneOK
<1> QED BY <1>5, <1>6

LEMMA PictureKeeps ==
  ASSUME Inv, SegmentInv, NEW c \in Calls,
         \/ \E kind \in Pictures : StartPicture(c, kind)
         \/ List(c) \/ SkipClear(c) \/ PutImage(c) \/ SetUrl(c)
         \/ \E t \in Seconds : Clear(c, t)
  PROVE  SegmentInv'
<1>1. call \in [Calls -> CallRecords] /\ call[c] \in CallRecords
  BY DEF Inv, CallsOK
<1>2. call[c].step \in {"idle", "list", "clear", "image", "canister"}
  BY BegunIsIdle DEF StartPicture, List, SkipClear, PutImage, SetUrl, Clear
<1>3. /\ \A d \in Calls \ {c} : call'[d] = call[d]
      /\ call'[c].step # "put"
  <2>1. ASSUME NEW todo, ClearTo(c, todo)
        PROVE  /\ \A d \in Calls \ {c} : call'[d] = call[d]
               /\ call'[c].step # "put"
    BY <1>1, <2>1 DEF ClearTo, StepAfter, CallRecords
  <2>2. CASE List(c) \/ \E t \in Seconds : Clear(c, t)
    BY <2>1, <2>2 DEF List, Clear
  <2>3. CASE SkipClear(c) \/ PutImage(c) \/ SetUrl(c)
    BY <1>1, <2>3 DEF SkipClear, PutImage, SetUrl, Goto, CallRecords
  <2>4. CASE \E kind \in Pictures : StartPicture(c, kind)
    BY <1>1, <2>4 DEF StartPicture, CallRecords
  <2> QED BY <2>2, <2>3, <2>4
<1>4. segment' = segment
  BY DEF StartPicture, List, SkipClear, PutImage, SetUrl, Clear, Fails, Land, Image, Deletion, Url
<1>5. \A w \in strays' : w \in strays \/ w.of # "segment"
  <2>1. CASE SkipClear(c)
    <3>1. PICK ws \in SUBSET UnderWay(c) : strays' \subseteq strays \cup ws
      BY <2>1 DEF SkipClear, Fails
    <3> QED BY <1>2, <3>1 DEF UnderWay, Deletion, Image, Url
  <2>2. CASE ~SkipClear(c)
    BY <2>2 DEF StartPicture, List, PutImage, SetUrl, Clear
  <2> QED BY <2>1, <2>2
<1>6. DOMAIN alone' = DOMAIN alone /\ alone'["segment"] = alone["segment"]
  <2>1. ASSUME NEW kind \in Pictures, Begins(c, kind)
        PROVE  DOMAIN alone' = DOMAIN alone /\ alone'["segment"] = alone["segment"]
    BY <2>1 DEF Begins, Object, SegmentInv
  <2> QED BY <2>1 DEF StartPicture, List, SkipClear, PutImage, SetUrl, Clear, auditVars
<1> QED BY <1>2, <1>3, <1>4, <1>5, <1>6, ElsewhereKeeps

LEMMA StrayKeeps ==
  ASSUME Inv, SegmentInv, NEW w \in strays, LandStray(w) \/ LoseStray(w)
  PROVE  SegmentInv'
<1>1. UNCHANGED <<call, alone>> /\ strays' \subseteq strays
  BY DEF LandStray, LoseStray, auditVars
<1> SUFFICES ASSUME NEW a, a = alone["segment"], a # Nobody PROVE AloneOK(a)'
  BY <1>1 DEF SegmentInv
<1>2. w.of = "segment" \/ segment' = segment
  BY DEF LandStray, LoseStray, Land
<1>3. AloneOK(a)
  BY DEF SegmentInv
<1> QED BY <1>1, <1>2, <1>3 DEF AloneOK, Undisturbed

LEMMA QuietKeeps ==
  ASSUME SegmentInv, UNCHANGED <<call, segment, strays, alone>>
  PROVE  SegmentInv'
BY DEF SegmentInv, AloneOK, Undisturbed

LEMMA StepSegmentInv == Inv /\ SegmentInv /\ [Next]_vars => SegmentInv'
<1> SUFFICES ASSUME Inv, SegmentInv, [Next]_vars PROVE SegmentInv'
  OBVIOUS
<1>1. CASE SwitchKey \/ Tick \/ (\E b \in Boxes : Redeploy(b)) \/ UNCHANGED vars
  BY <1>1, QuietKeeps DEF SwitchKey, Tick, Redeploy, vars, auditVars
<1>2. CASE \E w \in strays : LandStray(w) \/ LoseStray(w)
  BY <1>2, StrayKeeps
<1>3. CASE \E c \in Calls :
             \/ \E k \in Signed : Call(c, k)
             \/ Sign(c) \/ Wait(c) \/ Lose(c) \/ Reject(c)
             \/ \E b \in Boxes : Refuse(c, b)
  BY <1>3, SignedKeeps
<1>4. CASE \E c \in Calls :
             \/ \E b \in Boxes : Admit(c, b)
             \/ \E s \in Stores : Put(c, s)
             \/ Fail(c)
  BY <1>4, AdmitKeeps, PutKeeps, FailKeeps
<1>5. CASE \E c \in Calls :
             \/ \E k \in Pictures : StartPicture(c, k)
             \/ List(c) \/ SkipClear(c) \/ PutImage(c) \/ SetUrl(c)
             \/ \E t \in Seconds : Clear(c, t)
  BY <1>5, PictureKeeps
<1> QED BY <1>1, <1>2, <1>3, <1>4, <1>5 DEF Next

\* An acknowledged segment stands whole in every store it belongs to: no write
\* of another upload, and none that a failed one left behind, lands on it
\* unless it overlapped.
THEOREM EdgeAckedSegmentStands == Spec => []AckedSegmentStands
<1>1. SegmentInv => AckedSegmentStands
  BY DEF SegmentInv, AloneOK, Undisturbed, AckedSegmentStands
<1> QED BY <1>1, InitInv, StepInv, InitSegmentInv, StepSegmentInv, PTL DEF Spec

(* The last call about a profile image. *)

PictureSteps == {"list", "clear", "image", "canister"}

\* No image is named after a second to come.
NamesInv ==
  /\ \A t \in Seconds : images[t] # Nobody => t <= second
  /\ \A w \in strays : w.of = "picture" /\ w.what = "image" => w.place <= second
  /\ \A c \in Calls : call[c].step = "image" => \A t \in call[c].todo : t <= second

NoFaultSince == faults = mark["picture"]

\* All that the last call leaves behind is a deletion that it has skipped, of an
\* image from before it began.
LateDeletion(w, c) ==
  /\ w.what = "deletion" /\ w.place <= call[c].stamp
  /\ ~NoFaultSince
  /\ call[c].kind = "upload" /\ call[c].step \in {"image", "canister", "ok"}

\* What there is when the image is named: t is its name.
Named(c, t) ==
  /\ call[c].todo = {t}
  /\ t > call[c].stamp \/ NoFaultSince => images[t] = c
  /\ NoFaultSince => \A q \in Seconds \ {t} : images[q] = Nobody

Stands(c) ==
  /\ \A w \in strays : w.of = "picture" => LateDeletion(w, c)
  /\ call[c].step = "list" => \A t \in Seconds : images[t] # Nobody => t <= call[c].stamp
  /\ call[c].step = "clear" =>
       /\ \A t \in Seconds : images[t] # Nobody => t \in call[c].todo
       /\ \A t \in call[c].todo : t <= call[c].stamp
  /\ call[c].step = "image" =>
       /\ call[c].kind = "upload" /\ \E t \in Seconds : call[c].todo = {t}
       /\ NoFaultSince => \A t \in Seconds : images[t] = Nobody
  /\ call[c].step \in {"canister", "ok"} =>
       /\ call[c].kind = "upload" => \E t \in Seconds : Named(c, t)
       /\ call[c].kind = "delete" =>
            call[c].todo = {Cleared} /\ \A t \in Seconds : images[t] = Nobody
  /\ call[c].step = "ok" => {url} = call[c].todo

LastOK(c) ==
  /\ c \in Calls
  /\ call[c].kind \in Pictures /\ call[c].step \in PictureSteps \cup {"ok", "failed"}
  /\ \A d \in Calls \ {c} : call[d].step \notin PictureSteps
  /\ call[c].step # "failed" => Stands(c)

PictureInv ==
  /\ mark \in [{"segment", "picture"} -> Nat] /\ mark["picture"] <= faults
  /\ alone["picture"] # Nobody => LastOK(alone["picture"])

LEMMA InitPictureInv == Init => NamesInv /\ PictureInv
<1> SUFFICES ASSUME Init PROVE NamesInv /\ PictureInv
  OBVIOUS
<1>1. NamesInv
  BY IdleIsGood DEF Init, NamesInv, Seconds, Idle
<1>2. PictureInv
  BY DEF Init, PictureInv
<1> QED BY <1>1, <1>2

(* The names. *)

LEMMA NamesKept ==
  ASSUME Inv, NamesInv, NEW c \in Calls, NEW r, call' = [call EXCEPT ![c] = r],
         r.step # "image", UNCHANGED <<images, second>>,
         \A w \in strays' : w \in strays \/ w.of # "picture"
  PROVE  NamesInv'
<1>1. call'[c] = r /\ \A d \in Calls \ {c} : call'[d] = call[d]
  BY DEF Inv, CallsOK
<1> QED BY <1>1 DEF NamesInv

\* A call that settles: what it leaves are writes it had under way.
LEMMA NamesAfterFail ==
  ASSUME Inv, NamesInv, NEW c \in Calls, Fail(c)
  PROVE  NamesInv'
<1>1. PICK ws \in SUBSET UnderWay(c) :
        strays' \subseteq strays \cup ws /\ UNCHANGED <<images, second>>
  BY DEF Fail, Fails, imageVars
<1>2. \A w \in ws : w.of = "picture" /\ w.what = "image" => w.place <= second
  <2> SUFFICES ASSUME NEW w \in UnderWay(c), w.of = "picture", w.what = "image"
               PROVE  w.place <= second
    OBVIOUS
  <2>1. call[c].step = "image"
    BY DEF UnderWay, Segment, Deletion, Url
  <2> QED BY <2>1 DEF UnderWay, Image, NamesInv
<1>3. call'[c].step = "failed" /\ \A d \in Calls \ {c} : call'[d] = call[d]
  BY SettledIsGood DEF Fail, Settle, Inv, CallsOK
<1> QED BY <1>1, <1>2, <1>3 DEF NamesInv

LEMMA NamesAfterClearTo ==
  ASSUME Inv, NamesInv, NEW c \in Calls, NEW todo, ClearTo(c, todo), UNCHANGED <<second, strays>>,
         \A t \in Seconds : images'[t] # Nobody => images[t] # Nobody
  PROVE  NamesInv'
<1>1. call[c] \in CallRecords /\ second \in Nat
  BY Constants DEF Inv, CallsOK, StoresOK, Seconds
<1>2. /\ \A d \in Calls \ {c} : call'[d] = call[d]
      /\ call'[c].step = "image" => call'[c].todo = {second}
  BY <1>1 DEF ClearTo, Inv, CallsOK, CallRecords, StepAfter
<1> QED BY <1>1, <1>2 DEF NamesInv

LEMMA NamesAfterLand ==
  ASSUME Inv, NamesInv, NEW w, StrayOK(w), NEW data, Land(w, data), strays' \subseteq strays,
         w.of = "picture" /\ w.what = "image" => w.place <= second,
         \A c \in Calls : call'[c].step = "image" => call'[c] = call[c]
  PROVE  NamesInv'
<1>1. second' = second /\ images \in [Seconds -> Calls \cup {Nobody, Untouched}]
  BY DEF Land, imageVars, Inv, StoresOK
<1>2. \A t \in Seconds : images'[t] # Nobody => t <= second
  BY <1>1 DEF Land, imageVars, NamesInv, StrayOK
<1> QED BY <1>1, <1>2 DEF NamesInv

LEMMA StepNamesInv == Inv /\ NamesInv /\ [Next]_vars => NamesInv'
<1> SUFFICES ASSUME Inv, NamesInv, [Next]_vars PROVE NamesInv'
  OBVIOUS
<1>1. call \in [Calls -> CallRecords] /\ second \in Nat
  BY Constants DEF Inv, CallsOK, StoresOK, Seconds
<1>2. ASSUME NEW c \in Calls,
             \/ \E k \in Signed : Call(c, k)
             \/ Sign(c) \/ Wait(c) \/ Lose(c) \/ Reject(c)
             \/ \E b \in Boxes : Admit(c, b) \/ Refuse(c, b)
             \/ \E k \in Pictures : StartPicture(c, k)
      PROVE  NamesInv'
  <2>1. UNCHANGED <<images, second, strays>>
    BY <1>2 DEF Call, Sign, Wait, Lose, Reject, Admit, Refuse, StartPicture, imageVars
  <2>2. \A d \in Calls \ {c} : call'[d] = call[d]
    BY <1>1, <1>2 DEF Call, Sign, Wait, Lose, Reject, Admit, Refuse, StartPicture, Goto, Settle
  <2>3. call'[c].step # "image"
    <3>1. ASSUME NEW s, Settle(c, s), s # "image" PROVE call'[c].step # "image"
      BY <1>1, <3>1, IdleIsGood DEF Settle, Settled, CallRecords
    <3>2. ASSUME NEW s, Goto(c, s), s # "image" PROVE call'[c].step # "image"
      BY <1>1, <3>2 DEF Goto, CallRecords
    <3>3. CASE \E k \in Signed : Call(c, k)
      BY <1>1, <3>3, BegunIsIdle, IdleIsGood DEF Call, CallRecords
    <3>4. CASE \E k \in Pictures : StartPicture(c, k)
      BY <1>1, <3>4, BegunIsIdle, IdleIsGood DEF StartPicture, CallRecords
    <3>5. CASE Sign(c)
      BY <1>1, <3>5 DEF Sign, SignedNow, CallRecords
    <3>6. CASE Wait(c)
      BY <1>1, <3>6 DEF Wait, CallRecords
    <3>7. CASE Lose(c) \/ Reject(c) \/ \E b \in Boxes : Refuse(c, b)
      BY <3>1, <3>2, <3>7 DEF Lose, Reject, Refuse
    <3>8. CASE \E b \in Boxes : Admit(c, b)
      <4>1. CASE call[c].kind \in {"hls", "hls nsfw"}
        BY <1>1, <3>8, <4>1, IdleIsGood DEF Admit, Settled, CallRecords
      <4>2. CASE call[c].kind \notin {"hls", "hls nsfw"}
        BY <3>1, <3>8, <4>2 DEF Admit
      <4> QED BY <4>1, <4>2
    <3> QED BY <1>2, <3>3, <3>4, <3>5, <3>6, <3>7, <3>8
  <2> QED BY <2>1, <2>2, <2>3 DEF NamesInv
<1>3. ASSUME NEW c \in Calls, List(c) PROVE NamesInv'
  BY <1>3, NamesAfterClearTo DEF List, imageVars
<1>4. ASSUME NEW c \in Calls, NEW t \in Seconds, Clear(c, t) PROVE NamesInv'
  <2>1. UNCHANGED <<second, strays>> /\ images' = [images EXCEPT ![t] = Nobody]
    BY <1>4 DEF Clear, Land, Deletion
  <2>2. \A q \in Seconds : images'[q] # Nobody => images[q] # Nobody
    BY <2>1 DEF Inv, StoresOK
  <2> QED BY <1>4, <2>1, <2>2, NamesAfterClearTo DEF Clear
<1>5. ASSUME NEW c \in Calls, SkipClear(c) PROVE NamesInv'
  <2>1. PICK ws \in SUBSET UnderWay(c) :
          strays' \subseteq strays \cup ws /\ UNCHANGED <<images, second>>
    BY <1>5 DEF SkipClear, Fails, imageVars
  <2>2. \A w \in ws : w.what # "image"
    BY <1>5 DEF SkipClear, UnderWay, Deletion
  <2>3. call'[c].todo = {second} /\ \A d \in Calls \ {c} : call'[d] = call[d]
    BY <1>1, <1>5 DEF SkipClear, CallRecords
  <2> QED BY <1>1, <2>1, <2>2, <2>3 DEF NamesInv
<1>6. ASSUME NEW c \in Calls, PutImage(c) PROVE NamesInv'
  <2>1. PICK t \in call[c].todo : Land(Image(c, t), "whole")
    BY <1>6 DEF PutImage
  <2>2. StrayOK(Image(c, t)) /\ Image(c, t).place <= second
    BY <1>6, <2>1 DEF PutImage, Inv, CallsOK, GoodCall, StrayOK, Image, NamesInv
  <2>3. \A d \in Calls : call'[d].step = "image" => call'[d] = call[d]
    BY <1>1, <1>6 DEF PutImage, Goto, CallRecords
  <2>4. strays' = strays
    BY <1>6 DEF PutImage
  <2> QED BY <2>1, <2>2, <2>3, <2>4, NamesAfterLand
<1>7. ASSUME NEW c \in Calls, SetUrl(c) PROVE NamesInv'
  <2>1. UNCHANGED <<images, second, strays>>
    BY <1>7 DEF SetUrl, Land, Url
  <2>2. \A d \in Calls : call'[d].step = "image" => call'[d] = call[d]
    BY <1>1, <1>7 DEF SetUrl, Goto, CallRecords
  <2> QED BY <2>1, <2>2 DEF NamesInv
<1>8. ASSUME NEW c \in Calls, NEW s \in Stores, Put(c, s) PROVE NamesInv'
  <2>1. UNCHANGED <<images, second, strays>>
    BY <1>8 DEF Put, Land, Segment, imageVars
  <2>2. \A d \in Calls : call'[d].step = "image" => call'[d] = call[d]
    BY <1>1, <1>8 DEF Put, CallRecords
  <2> QED BY <2>1, <2>2 DEF NamesInv
<1>9. ASSUME NEW w \in strays, LandStray(w) \/ LoseStray(w) PROVE NamesInv'
  <2>1. CASE LandStray(w)
    BY <2>1, NamesAfterLand DEF LandStray, Inv, StoresOK, NamesInv
  <2>2. CASE LoseStray(w)
    BY <2>2 DEF LoseStray, imageVars, NamesInv
  <2> QED BY <1>9, <2>1, <2>2
<1>10. CASE Tick
  BY <1>1, <1>10, Constants DEF Tick, NamesInv, Inv, StoresOK, StrayOK, CallsOK, GoodCall, Seconds
<1>11. CASE SwitchKey \/ (\E b \in Boxes : Redeploy(b)) \/ UNCHANGED vars
  BY <1>11 DEF SwitchKey, Redeploy, vars, imageVars, NamesInv
<1> QED
  BY <1>2, <1>3, <1>4, <1>5, <1>6, <1>7, <1>8, <1>9, <1>10, <1>11, NamesAfterFail DEF Next

(* The last call stands. *)

\* A step that leaves call c and the image alone.  Faults since c began only
\* weaken what is asked of it.
LEMMA StandsKept ==
  ASSUME NEW c, PictureInv, Stands(c), UNCHANGED <<images, url>>, call'[c] = call[c],
         mark'["picture"] = mark["picture"],
         faults \in Nat, faults' \in Nat, faults <= faults',
         \A w \in strays' : w \in strays \/ w.of # "picture"
  PROVE  Stands(c)'
<1>1. NoFaultSince' => NoFaultSince
  BY DEF PictureInv, NoFaultSince
<1>2. \A w \in strays' : w.of = "picture" => LateDeletion(w, c)'
  BY <1>1 DEF Stands, LateDeletion
<1>3. \A t \in Seconds : Named(c, t) => Named(c, t)'
  BY <1>1 DEF Named
<1> QED BY <1>1, <1>2, <1>3 DEF Stands

\* A step of a call that is not at work on the image.
LEMMA PictureElsewhere ==
  ASSUME Inv, PictureInv, NEW c \in Calls, \A d \in Calls \ {c} : call'[d] = call[d],
         call[c].kind \notin Pictures, call'[c].step \notin PictureSteps,
         UNCHANGED <<images, url>>, alone'["picture"] = alone["picture"],
         mark' \in [{"segment", "picture"} -> Nat], mark'["picture"] = mark["picture"],
         faults' \in Nat, faults <= faults',
         \A w \in strays' : w \in strays \/ w.of # "picture"
  PROVE  PictureInv'
<1>1. faults \in Nat /\ mark["picture"] \in Nat
  BY Constants DEF Inv, StoresOK, PictureInv
<1>2. mark'["picture"] <= faults'
  BY <1>1 DEF PictureInv
<1> SUFFICES ASSUME NEW a, a = alone["picture"], a # Nobody PROVE LastOK(a)'
  BY <1>2 DEF PictureInv
<1>3. LastOK(a) /\ a # c
  BY DEF PictureInv, LastOK
<1>4. call'[a] = call[a]
  BY <1>3 DEF LastOK
<1>5. call[a].step # "failed" => Stands(a)'
  BY <1>1, <1>3, <1>4, StandsKept DEF LastOK
<1> QED BY <1>3, <1>4, <1>5 DEF LastOK

\* The stamp of a call and the names of images are numbers.
LEMMA Numbers ==
  ASSUME Inv, NEW c \in Calls
  PROVE  /\ call[c] \in CallRecords /\ GoodCall(call[c]) /\ call[c].stamp \in Nat
         /\ call \in [Calls -> CallRecords]
         /\ second \in Seconds /\ faults \in Nat /\ Seconds \subseteq Nat
         /\ images \in [Seconds -> Calls \cup {Nobody, Untouched}]
BY Constants DEF Inv, CallsOK, CallRecords, StoresOK, Seconds

\* The kind of a call that its step betrays.
LEMMA KindOfStep ==
  ASSUME Inv, NEW c \in Calls
  PROVE  /\ call[c] = Idle => call[c].kind \notin Pictures
         /\ call[c].step \in {"signed", "backoff", "refused", "put"} => call[c].kind \notin Pictures
         /\ call[c].step \in PictureSteps => call[c].kind \in Pictures /\ Working(c)
<1>1. GoodCall(call[c])
  BY DEF Inv, CallsOK
<1>2. call[c] = Idle => call[c].kind = "none"
  BY DEF Idle
<1> QED
  BY <1>1, <1>2 DEF GoodCall, Signed, Segments, Pictures, PictureSteps, Working, Ended

LEMMA FaultGrows == Inv /\ Fault => faults' \in Nat /\ faults <= faults'
BY Constants DEF Inv, StoresOK, Fault

LEMMA SignedPicture ==
  ASSUME Inv, PictureInv, NEW c \in Calls,
         \/ \E kind \in Signed : Call(c, kind)
         \/ Sign(c) \/ Wait(c) \/ Lose(c) \/ Reject(c)
         \/ \E b \in Boxes : Refuse(c, b)
  PROVE  PictureInv'
<1>1. UNCHANGED <<images, url, strays, alone, mark>>
  BY DEF Call, Sign, Wait, Lose, Reject, Refuse, auditVars, imageVars
<1>2. call \in [Calls -> CallRecords] /\ call[c] \in CallRecords
  BY DEF Inv, CallsOK
<1>3. call[c] = Idle \/ call[c].step \in {"signed", "backoff", "refused"}
  BY BegunIsIdle DEF Call, Sign, Wait, Lose, Reject, Refuse
<1>4. call[c].kind \notin Pictures
  BY <1>3, KindOfStep
<1>5. \A d \in Calls \ {c} : call'[d] = call[d]
  BY <1>2 DEF Call, Sign, Wait, Lose, Reject, Refuse, Goto, Settle
<1>6. call'[c].step \notin PictureSteps
  <2>1. ASSUME NEW s, Settle(c, s), s \notin PictureSteps PROVE call'[c].step \notin PictureSteps
    BY <1>2, <2>1, IdleIsGood DEF Settle, Settled, CallRecords
  <2>2. ASSUME NEW s, Goto(c, s), s \notin PictureSteps PROVE call'[c].step \notin PictureSteps
    BY <1>2, <2>2 DEF Goto, CallRecords
  <2>3. CASE \E kind \in Signed : Call(c, kind)
    BY <1>2, <2>3, BegunIsIdle, IdleIsGood DEF Call, CallRecords, PictureSteps
  <2>4. CASE Sign(c)
    BY <1>2, <2>4 DEF Sign, SignedNow, CallRecords, PictureSteps
  <2>5. CASE Wait(c)
    BY <1>2, <2>5 DEF Wait, CallRecords, PictureSteps
  <2>6. CASE Lose(c) \/ Reject(c) \/ \E b \in Boxes : Refuse(c, b)
    BY <2>1, <2>2, <2>6 DEF Lose, Reject, Refuse, PictureSteps
  <2> QED BY <2>3, <2>4, <2>5, <2>6
<1>7. faults' \in Nat /\ faults <= faults'
  <2>1. CASE Lose(c) \/ Reject(c)
    BY <2>1, FaultGrows DEF Lose, Reject
  <2>2. CASE ~(Lose(c) \/ Reject(c))
    <3>1. faults' = faults
      BY <2>2 DEF Call, Sign, Wait, Refuse
    <3> QED BY <3>1, Numbers
  <2> QED BY <2>1, <2>2
<1> QED BY <1>1, <1>4, <1>5, <1>6, <1>7, PictureElsewhere DEF PictureInv

\* What a beginning call does to the marks of the other object: nothing.
LEMMA BeginsMarks ==
  ASSUME Inv, PictureInv, NEW c \in Calls, NEW kind \in Signed, Begins(c, kind)
  PROVE  /\ mark' \in [{"segment", "picture"} -> Nat] /\ mark'["picture"] = mark["picture"]
         /\ alone'["picture"] = alone["picture"]
<1>1. Object(kind) = "segment" /\ faults \in Nat
  BY Numbers DEF Object, Pictures, Signed
<1>2. mark' = [mark EXCEPT !["segment"] = faults]
  BY <1>1 DEF Begins
<1>3. alone'["picture"] = alone["picture"]
  BY <1>1 DEF Begins
<1> QED BY <1>1, <1>2, <1>3 DEF PictureInv

LEMMA AdmitPicture ==
  ASSUME Inv, PictureInv, NEW c \in Calls, NEW b \in Boxes, Admit(c, b)
  PROVE  PictureInv'
<1>1. /\ UNCHANGED <<images, url, strays, faults>> /\ call[c].step = "signed"
      /\ call[c] \in CallRecords /\ faults \in Nat
  BY Numbers DEF Admit, imageVars
<1>2. call[c].kind \notin Pictures
  BY <1>1, KindOfStep
<1>3. CASE call[c].kind \in {"hls", "hls nsfw"}
  <2> DEFINE r == [Settled(c, "put") EXCEPT !.todo = Targets(call[c].kind)]
  <2>1. call' = [call EXCEPT ![c] = r] /\ Begins(c, call[c].kind)
    BY <1>3 DEF Admit
  <2>2. call'[c].step = "put" /\ \A d \in Calls \ {c} : call'[d] = call[d]
    BY <2>1, IdleIsGood DEF Settled, Inv, CallsOK, CallRecords
  <2>3. call[c].kind \in Signed
    BY <1>3 DEF Signed
  <2> QED BY <1>1, <1>2, <2>1, <2>2, <2>3, BeginsMarks, PictureElsewhere DEF PictureSteps
<1>4. CASE call[c].kind \notin {"hls", "hls nsfw"}
  <2>1. call' = [call EXCEPT ![c] = Settled(c, "ok")] /\ UNCHANGED <<alone, mark>>
    BY <1>4 DEF Admit, Settle, auditVars
  <2>2. call'[c].step = "ok" /\ \A d \in Calls \ {c} : call'[d] = call[d]
    BY <2>1, SettledIsGood DEF Inv, CallsOK
  <2> QED BY <1>1, <1>2, <2>1, <2>2, PictureElsewhere DEF PictureSteps, PictureInv
<1> QED BY <1>3, <1>4

LEMMA PutPicture ==
  ASSUME Inv, PictureInv, NEW c \in Calls, NEW s \in Stores, Put(c, s)
  PROVE  PictureInv'
<1>1. /\ UNCHANGED <<images, url, strays, faults, alone, mark>> /\ call[c].step = "put"
      /\ call[c] \in CallRecords /\ faults \in Nat
  BY Constants DEF Put, Land, Segment, imageVars, auditVars, Inv, CallsOK, StoresOK
<1>2. call[c].kind \notin Pictures
  BY <1>1, KindOfStep
<1>3. \A d \in Calls \ {c} : call'[d] = call[d]
  BY DEF Put, Inv, CallsOK
<1>4. call'[c].step \in {"put", "ok"}
  BY <1>1 DEF Put, Inv, CallsOK, CallRecords
<1> QED BY <1>1, <1>2, <1>3, <1>4, PictureElsewhere DEF PictureSteps, PictureInv

\* A call that begins is the last one, and alone if nothing else is at work on
\* the image and nothing is left of the calls before.
LEMMA StartPicturePicture ==
  ASSUME Inv, NamesInv, PictureInv, SegmentInv, NEW c \in Calls, NEW kind \in Pictures,
         StartPicture(c, kind)
  PROVE  PictureInv'
<1>1. /\ UNCHANGED <<images, url, second, strays, faults>>
      /\ call[c] = Idle /\ call \in [Calls -> CallRecords] /\ faults \in Nat
  BY Constants, BegunIsIdle DEF StartPicture, imageVars, Inv, CallsOK, StoresOK
<1>2. CASE /\ call' = [call EXCEPT ![c].kind = kind, ![c].step = "list", ![c].stamp = second]
           /\ Begins(c, kind)
  <2>1. /\ call'[c].kind = kind /\ call'[c].step = "list" /\ call'[c].stamp = second
        /\ \A d \in Calls \ {c} : call'[d] = call[d]
    BY <1>1, <1>2 DEF CallRecords
  <2>2. Object(kind) = "picture"
    BY DEF Object
  <2>3. /\ mark' = [mark EXCEPT !["picture"] = faults]
        /\ alone'["picture"] =
             IF (\E d \in Of("picture") \ {c} : Working(d)) \/ \E w \in strays : w.of = "picture"
             THEN Nobody ELSE c
    BY <1>2, <2>2 DEF Begins, SegmentInv
  <2>4. mark' \in [{"segment", "picture"} -> Nat] /\ mark'["picture"] <= faults'
    BY <1>1, <2>3 DEF PictureInv
  <2> SUFFICES ASSUME alone'["picture"] # Nobody PROVE LastOK(c)'
    BY <2>3, <2>4 DEF PictureInv
  <2>5. ASSUME NEW d \in Calls \ {c} PROVE call'[d].step \notin PictureSteps
    <3>1. call[d].step \in PictureSteps => d \in Of("picture") \ {c} /\ Working(d)
      BY KindOfStep DEF Of, Object, Pictures
    <3> QED BY <2>1, <2>3, <3>1
  <2>6. \A t \in Seconds : images'[t] # Nobody => t <= call'[c].stamp
    BY <1>1, <2>1 DEF NamesInv
  <2>7. Stands(c)'
    BY <1>1, <2>1, <2>3, <2>6 DEF Stands
  <2> QED BY <2>1, <2>5, <2>7 DEF LastOK, PictureSteps
<1>3. CASE /\ call' = [call EXCEPT ![c].kind = kind, ![c].step = "rejected"]
           /\ UNCHANGED auditVars
  <2>1. call'[c].step = "rejected" /\ \A d \in Calls \ {c} : call'[d] = call[d]
    BY <1>1, <1>3 DEF CallRecords
  <2> QED
    BY <1>1, <1>3, <2>1, KindOfStep, PictureElsewhere DEF auditVars, PictureSteps, PictureInv
<1> QED BY <1>2, <1>3 DEF StartPicture

\* The call that works on the image is the last one, if that one was alone: it
\* is enough to say how it stands.
LEMMA PictureStep ==
  ASSUME Inv, PictureInv, NEW c \in Calls, call[c].step \in PictureSteps,
         \A d \in Calls \ {c} : call'[d] = call[d],
         call'[c].kind = call[c].kind, call'[c].step \in PictureSteps \cup {"ok", "failed"},
         UNCHANGED <<alone, mark>>, faults' \in Nat, faults <= faults',
         Stands(c) /\ call'[c].step # "failed" => Stands(c)'
  PROVE  PictureInv'
<1>1. faults \in Nat /\ mark["picture"] \in Nat
  BY Constants DEF Inv, StoresOK, PictureInv
<1>2. mark' \in [{"segment", "picture"} -> Nat] /\ mark'["picture"] <= faults'
  BY <1>1 DEF PictureInv
<1> SUFFICES ASSUME NEW a, a = alone["picture"], a # Nobody PROVE LastOK(a)'
  BY <1>2 DEF PictureInv
<1>3. LastOK(a) /\ a = c /\ Stands(c)
  BY DEF PictureInv, LastOK, PictureSteps
<1> QED BY <1>3 DEF LastOK

\* What the call is about after one more deletion, or after the list.
LEMMA ClearToStands ==
  ASSUME Inv, PictureInv, NEW c \in Calls, NEW todo \in SUBSET Seconds, ClearTo(c, todo),
         call[c].step \in {"list", "clear"}, Stands(c),
         \A t \in Seconds : images'[t] # Nobody => t \in todo,
         \A t \in todo : t <= call[c].stamp, UNCHANGED <<strays, mark, faults>>
  PROVE  Stands(c)'
<1>1. /\ call[c] \in CallRecords /\ call[c].kind \in Pictures /\ second \in Seconds
      /\ call \in [Calls -> CallRecords]
  BY Numbers, KindOfStep DEF PictureSteps
<1> SUFFICES ASSUME NEW to, to = StepAfter(call[c].kind, todo) PROVE Stands(c)'
  OBVIOUS
<1>2. \/ to = "clear" /\ todo # {}
      \/ to = "image" /\ todo = {} /\ call[c].kind = "upload"
      \/ to = "canister" /\ todo = {} /\ call[c].kind = "delete"
  BY <1>1 DEF StepAfter, Pictures
<1>3. /\ call'[c].step = to /\ call'[c].kind = call[c].kind /\ call'[c].stamp = call[c].stamp
      /\ call'[c].todo = CASE to = "canister" -> {Cleared}
                           [] to = "image" -> {second}
                           [] OTHER -> todo
  BY <1>1 DEF ClearTo, CallRecords
<1>4. \A w \in strays' : w.of # "picture"
  BY DEF Stands, LateDeletion
<1>5. CASE to = "clear"
  BY <1>3, <1>4, <1>5 DEF Stands
<1>6. CASE to = "image"
  BY <1>1, <1>2, <1>3, <1>4, <1>6 DEF Stands
<1>7. CASE to = "canister"
  BY <1>2, <1>3, <1>4, <1>7 DEF Stands
<1> QED BY <1>2, <1>5, <1>6, <1>7

LEMMA ClearToRecord ==
  ASSUME Inv, NEW c \in Calls, NEW todo, ClearTo(c, todo)
  PROVE  /\ \A d \in Calls \ {c} : call'[d] = call[d]
         /\ call'[c].kind = call[c].kind /\ call'[c].step \in PictureSteps
BY Numbers DEF ClearTo, CallRecords, StepAfter, PictureSteps

LEMMA ListPicture == ASSUME Inv, PictureInv, NEW c \in Calls, List(c) PROVE PictureInv'
<1> SUFFICES ASSUME NEW todo, todo = {t \in Seconds : images[t] # Nobody} PROVE PictureInv'
  OBVIOUS
<1>1. /\ call[c].step = "list" /\ ClearTo(c, todo)
      /\ UNCHANGED <<images, strays, faults, alone, mark>>
  BY DEF List, imageVars, auditVars
<1>2. Stands(c) => Stands(c)'
  <2> SUFFICES ASSUME Stands(c) PROVE Stands(c)'
    OBVIOUS
  <2>1. \A t \in todo : t <= call[c].stamp
    BY <1>1 DEF Stands
  <2> QED BY <1>1, <2>1, ClearToStands
<1> QED BY <1>1, <1>2, ClearToRecord, PictureStep, Numbers DEF PictureSteps

LEMMA ClearPicture ==
  ASSUME Inv, PictureInv, NEW c \in Calls, NEW t \in Seconds, Clear(c, t)
  PROVE  PictureInv'
<1> SUFFICES ASSUME NEW todo, todo = call[c].todo \ {t} PROVE PictureInv'
  OBVIOUS
<1>1. /\ call[c].step = "clear" /\ ClearTo(c, todo)
      /\ UNCHANGED <<strays, faults, alone, mark>> /\ images' = [images EXCEPT ![t] = Nobody]
  BY DEF Clear, Land, Deletion, auditVars
<1>2. Stands(c) => Stands(c)'
  <2> SUFFICES ASSUME Stands(c) PROVE Stands(c)'
    OBVIOUS
  <2>1. \A q \in todo : q <= call[c].stamp
    BY <1>1 DEF Stands
  <2>2. \A q \in Seconds : images'[q] # Nobody => q \in todo
    BY <1>1, Numbers DEF Stands
  <2>3. todo \in SUBSET Seconds
    BY <1>1, Numbers DEF GoodCall
  <2> QED BY <1>1, <2>1, <2>2, <2>3, ClearToStands
<1> QED BY <1>1, <1>2, ClearToRecord, PictureStep, Numbers DEF PictureSteps

LEMMA SkipClearPicture == ASSUME Inv, PictureInv, NEW c \in Calls, SkipClear(c) PROVE PictureInv'
<1>1. /\ call[c].step \in {"list", "clear"} /\ call[c].kind = "upload" /\ Fault
      /\ UNCHANGED <<images, url, alone, mark>>
  BY DEF SkipClear, Fails, imageVars, auditVars
<1>2. PICK ws \in SUBSET UnderWay(c) : strays' \subseteq strays \cup ws
  BY DEF SkipClear, Fails
<1>3. /\ call'[c].step = "image" /\ call'[c].kind = "upload" /\ call'[c].todo = {second}
      /\ call'[c].stamp = call[c].stamp /\ \A d \in Calls \ {c} : call'[d] = call[d]
  BY <1>1, Numbers DEF SkipClear, CallRecords
<1>4. ~NoFaultSince'
  BY <1>1, Numbers DEF NoFaultSince, Fault, PictureInv
<1>5. Stands(c) => Stands(c)'
  <2> SUFFICES ASSUME Stands(c) PROVE Stands(c)'
    OBVIOUS
  <2>1. \A w \in strays : w.of # "picture"
    BY <1>1 DEF Stands, LateDeletion
  <2>2. \A w \in ws : w.what = "deletion" /\ w.place <= call[c].stamp
    <3> SUFFICES ASSUME NEW w \in UnderWay(c) PROVE w.what = "deletion" /\ w.place <= call[c].stamp
      OBVIOUS
    <3>1. call[c].step = "clear"
      BY <1>1 DEF UnderWay
    <3> QED BY <3>1 DEF UnderWay, Deletion, Stands
  <2>3. \A w \in strays' : w.of = "picture" => LateDeletion(w, c)'
    BY <1>2, <1>3, <1>4, <2>1, <2>2 DEF LateDeletion
  <2>4. second \in Seconds
    BY Numbers
  <2> QED BY <1>3, <1>4, <2>3, <2>4 DEF Stands
<1> QED BY <1>1, <1>3, <1>5, FaultGrows, PictureStep DEF PictureSteps

\* The image is stored: it is the only one, unless a deletion was skipped.
LEMMA PutImagePicture == ASSUME Inv, PictureInv, NEW c \in Calls, PutImage(c) PROVE PictureInv'
<1>1. /\ call[c].step = "image" /\ UNCHANGED <<strays, faults, alone, mark>>
      /\ \E t \in call[c].todo : Land(Image(c, t), "whole")
  BY DEF PutImage, auditVars
<1>2. /\ call'[c].step = "canister" /\ call'[c].kind = call[c].kind
      /\ call'[c].todo = call[c].todo /\ call'[c].stamp = call[c].stamp
      /\ \A d \in Calls \ {c} : call'[d] = call[d]
  BY <1>1, Numbers DEF PutImage, Goto, CallRecords
<1>3. Stands(c) => Stands(c)'
  <2> SUFFICES ASSUME Stands(c) PROVE Stands(c)'
    OBVIOUS
  <2>1. call[c].kind = "upload" /\ (NoFaultSince => \A t \in Seconds : images[t] = Nobody)
    BY <1>1 DEF Stands
  <2>2. PICK t \in Seconds : call[c].todo = {t}
    BY <1>1 DEF Stands
  <2>3. images' = [images EXCEPT ![t] = c]
    BY <1>1, <2>2 DEF Land, Image
  <2>4. Named(c, t)'
    BY <1>1, <1>2, <2>1, <2>2, <2>3, Numbers DEF Named, NoFaultSince
  <2>5. \A w \in strays' : w.of = "picture" => LateDeletion(w, c)'
    BY <1>1, <1>2 DEF Stands, LateDeletion, NoFaultSince
  <2> QED BY <1>2, <2>1, <2>4, <2>5 DEF Stands
<1> QED BY <1>1, <1>2, <1>3, Numbers, PictureStep DEF PictureSteps

LEMMA SetUrlPicture == ASSUME Inv, PictureInv, NEW c \in Calls, SetUrl(c) PROVE PictureInv'
<1>1. /\ call[c].step = "canister" /\ UNCHANGED <<images, strays, faults, alone, mark>>
      /\ url' \in call[c].todo
  BY DEF SetUrl, auditVars, Land, Url
<1>2. /\ call'[c].step = "ok" /\ call'[c].kind = call[c].kind
      /\ call'[c].todo = call[c].todo /\ call'[c].stamp = call[c].stamp
      /\ \A d \in Calls \ {c} : call'[d] = call[d]
  BY <1>1, Numbers DEF SetUrl, Goto, CallRecords
<1>3. Stands(c) => Stands(c)'
  <2> SUFFICES ASSUME Stands(c) PROVE Stands(c)'
    OBVIOUS
  <2>1. \A w \in strays' : w.of = "picture" => LateDeletion(w, c)'
    BY <1>1, <1>2 DEF Stands, LateDeletion, NoFaultSince
  <2>2. \A t \in Seconds : Named(c, t) => Named(c, t)'
    BY <1>1, <1>2 DEF Named, NoFaultSince
  <2>3. call[c].kind \in {"upload", "delete"}
    BY <1>1, KindOfStep DEF PictureSteps, Pictures
  <2>4. {url'} = call[c].todo
    BY <1>1, <2>3 DEF Stands, Named
  <2> QED BY <1>1, <1>2, <2>1, <2>2, <2>4 DEF Stands
<1> QED BY <1>1, <1>2, <1>3, Numbers, PictureStep DEF PictureSteps

LEMMA FailPicture == ASSUME Inv, PictureInv, NEW c \in Calls, Fail(c) PROVE PictureInv'
<1>1. /\ call'[c].step = "failed" /\ call'[c].kind = call[c].kind
      /\ \A d \in Calls \ {c} : call'[d] = call[d]
  BY Numbers, IdleIsGood DEF Fail, Settle, Settled, CallRecords
<1>2. /\ Fault /\ UNCHANGED <<images, url, alone, mark>>
      /\ \E ws \in SUBSET UnderWay(c) : strays' = strays \cup ws
  <2>1. PICK ws \in SUBSET UnderWay(c) : Fails(ws)
    BY DEF Fail
  <2>2. PICK left \in SUBSET ws : strays' = strays \cup left
    BY <2>1 DEF Fails
  <2>3. left \in SUBSET UnderWay(c)
    OBVIOUS
  <2> QED BY <2>1, <2>2, <2>3 DEF Fail, Fails, imageVars, auditVars
<1>3. faults' \in Nat /\ faults <= faults'
  BY <1>2, FaultGrows
<1>4. CASE call[c].step \in PictureSteps
  BY <1>1, <1>2, <1>3, <1>4, PictureStep
<1>5. CASE call[c].step \notin PictureSteps
  <2>1. call[c].step \in {"idle", "put"}
    BY <1>5, Numbers DEF Fail, Working, Ended, CallRecords, Steps, PictureSteps
  <2>2. call[c].step = "put"
    BY <2>1 DEF Fail, Working, Ended
  <2>3. \A w \in strays' : w \in strays \/ w.of # "picture"
    BY <1>2, <2>2 DEF UnderWay, Segment
  <2>4. call[c].kind \notin Pictures
    BY <2>2, KindOfStep
  <2> QED BY <1>1, <1>2, <1>3, <2>3, <2>4, PictureElsewhere DEF PictureSteps, PictureInv
<1> QED BY <1>4, <1>5

\* A late write of the last call is a deletion that hits no image of its own.
LEMMA StrayPicture ==
  ASSUME Inv, PictureInv, NEW w \in strays, LandStray(w) \/ LoseStray(w)
  PROVE  PictureInv'
<1>1. UNCHANGED <<call, faults, alone, mark>> /\ strays' \subseteq strays
  BY DEF LandStray, LoseStray, auditVars
<1> SUFFICES ASSUME NEW a, a = alone["picture"], a # Nobody PROVE LastOK(a)'
  BY <1>1 DEF PictureInv
<1>2. LastOK(a) /\ a \in Calls /\ faults \in Nat
  BY Constants DEF PictureInv, LastOK, Inv, StoresOK
<1>3. call[a].step # "failed" => Stands(a)'
  <2> SUFFICES ASSUME Stands(a) PROVE Stands(a)'
    BY <1>2 DEF LastOK
  <2>1. CASE UNCHANGED <<images, url>>
    BY <1>1, <1>2, <2>1, StandsKept
  <2>2. CASE ~UNCHANGED <<images, url>>
    <3>1. LandStray(w) /\ w.of # "segment"
      BY <2>2 DEF LandStray, LoseStray, Land, imageVars
    <3>2. StrayOK(w) /\ w.of = "picture"
      BY <3>1 DEF Inv, StoresOK, StrayOK
    <3>3. LateDeletion(w, a)
      BY <3>2 DEF Stands
    <3>4. images' = [images EXCEPT ![w.place] = Nobody] /\ url' = url
      BY <3>1, <3>3 DEF LandStray, Land, LateDeletion
    <3>5. w.place \in Seconds /\ ~NoFaultSince
      BY <3>2, <3>3 DEF StrayOK, LateDeletion
    <3>6. \A t \in Seconds : Named(a, t) => Named(a, t)'
      BY <1>1, <1>2, <3>3, <3>4, <3>5, Numbers DEF Named, LateDeletion, NoFaultSince
    <3>7. \A v \in strays' : v.of = "picture" => LateDeletion(v, a)'
      BY <1>1 DEF Stands, LateDeletion, NoFaultSince
    <3>8. ~NoFaultSince'
      BY <1>1, <3>5 DEF NoFaultSince
    <3>9. call[a].kind # "delete" /\ call[a].step \notin {"list", "clear"}
      BY <3>3 DEF LateDeletion
    <3> QED BY <1>1, <3>4, <3>6, <3>7, <3>8, <3>9 DEF Stands
  <2> QED BY <2>1, <2>2
<1> QED BY <1>1, <1>2, <1>3 DEF LastOK

LEMMA QuietPicture ==
  ASSUME Inv, PictureInv, UNCHANGED <<call, images, url, strays, faults, alone, mark>>
  PROVE  PictureInv'
<1> SUFFICES ASSUME NEW a, a = alone["picture"], a # Nobody PROVE LastOK(a)'
  BY DEF PictureInv
<1>1. LastOK(a) /\ faults \in Nat
  BY Constants DEF PictureInv, Inv, StoresOK
<1>2. call[a].step # "failed" => Stands(a)'
  BY <1>1, StandsKept DEF LastOK
<1> QED BY <1>1, <1>2 DEF LastOK

LEMMA StepPictureInv ==
  Inv /\ NamesInv /\ SegmentInv /\ PictureInv /\ [Next]_vars => PictureInv'
<1> SUFFICES ASSUME Inv, NamesInv, SegmentInv, PictureInv, [Next]_vars PROVE PictureInv'
  OBVIOUS
<1>1. CASE SwitchKey \/ Tick \/ (\E b \in Boxes : Redeploy(b)) \/ UNCHANGED vars
  BY <1>1, QuietPicture DEF SwitchKey, Tick, Redeploy, vars, imageVars, auditVars
<1>2. CASE \E w \in strays : LandStray(w) \/ LoseStray(w)
  BY <1>2, StrayPicture
<1>3. CASE \E c \in Calls :
             \/ \E k \in Signed : Call(c, k)
             \/ Sign(c) \/ Wait(c) \/ Lose(c) \/ Reject(c)
             \/ \E b \in Boxes : Refuse(c, b)
  BY <1>3, SignedPicture
<1>4. CASE \E c \in Calls :
             \/ \E b \in Boxes : Admit(c, b)
             \/ \E s \in Stores : Put(c, s)
             \/ Fail(c)
  BY <1>4, AdmitPicture, PutPicture, FailPicture
<1>5. CASE \E c \in Calls :
             \/ \E k \in Pictures : StartPicture(c, k)
             \/ List(c) \/ SkipClear(c) \/ PutImage(c) \/ SetUrl(c)
             \/ \E t \in Seconds : Clear(c, t)
  BY <1>5, StartPicturePicture, ListPicture, SkipClearPicture, PutImagePicture, SetUrlPicture,
     ClearPicture
<1> QED BY <1>1, <1>2, <1>3, <1>4, <1>5 DEF Next

\* The last call about a profile image decides what the canister names and what
\* is stored, whatever the calls before it left, how often deletions failed and
\* when their writes land.
THEOREM EdgeLastCallDecides == Spec => []LastCallDecides
<1>1. Inv /\ PictureInv => LastCallDecides
  <2> SUFFICES ASSUME Inv, PictureInv, NEW c, c = alone["picture"], c # Nobody,
                      call[c].step = "ok"
               PROVE  IF call[c].kind = "delete"
                      THEN url = Cleared /\ \A t \in Seconds : images[t] = Nobody
                      ELSE /\ {url} = call[c].todo
                           /\ url > call[c].stamp \/ faults = mark["picture"] => images[url] = c
                           /\ faults = mark["picture"] =>
                                \A t \in Seconds \ {url} : images[t] = Nobody
    BY DEF LastCallDecides
  <2>1. LastOK(c) /\ Stands(c) /\ call[c].kind \in {"upload", "delete"}
    BY DEF PictureInv, LastOK, Pictures
  <2>2. CASE call[c].kind = "delete"
    BY <2>1, <2>2 DEF Stands
  <2>3. CASE call[c].kind = "upload"
    <3>1. PICK t \in Seconds : Named(c, t)
      BY <2>1, <2>3 DEF Stands
    <3>2. url = t
      BY <2>1, <3>1 DEF Stands, Named
    <3> QED BY <2>1, <2>3, <3>1, <3>2 DEF Stands, Named, NoFaultSince
  <2> QED BY <2>1, <2>2, <2>3
<1> QED
  BY <1>1, InitInv, StepInv, InitSegmentInv, StepSegmentInv, InitPictureInv, StepNamesInv,
     StepPictureInv, PTL DEF Spec
=============================================================================
