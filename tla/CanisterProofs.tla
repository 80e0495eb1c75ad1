--------------------------- MODULE CanisterProofs ---------------------------
(***************************************************************************)
(* Proofs about the two components that keep records of posts of the       *)
(* canister: video generation, which creates drafts there                  *)
(* (VideogenRequests), for any number of requests and of overlapping       *)
(* callbacks, and the snapshot of all posts (ChainSnapshot), for any posts,*)
(* pages, walks and faults.  Each theorem is about one of the two modules. *)
(*                                                                         *)
(* Video generation.  A callback is in hand only once the job has ended, so*)
(* the identity is settled by then; the delivery that closes a row has the *)
(* draft behind it; and a row that has been closed is out of reach of every*)
(* other write.                                                            *)
(***************************************************************************)
EXTENDS VideogenRequests, ChainSnapshot, FiniteSetTheorems, WellFoundedInduction, TLAPS

-----------------------------------------------------------------------------
(* Video generation                                                        *)

\* The job is under way only after the handler of /generate has submitted it,
\* and the row is not there before that handler has recorded it.
Ordered ==
  \A r \in Requests :
    /\ vast[r] # "none" => gen[r] \notin {"start", "moderate", "refused", "reserve"}
    /\ gen[r] \in {"start", "moderate"} => row[r] = "none"

\* A delivery in hand is about a job that has ended that way, and the one that
\* is about to close the row has the draft behind it.
InHand ==
  \A r \in Requests, c \in Calls :
    /\ call[r][c] \in {"finalize", "post", "close"} => vast[r] = "success"
    /\ call[r][c] \in {"release", "closeFailed"} => vast[r] = "failure"
    /\ call[r][c] = "close" => post[r] \/ ~identity[r]

\* A row is complete, and Vast has stopped calling back, only once the job has
\* ended.
EndedBefore ==
  \A r \in Requests :
    /\ row[r] = "complete" => vast[r] = "success"
    /\ calls[r] # "open" => vast[r] \in {"success", "failure"}

Inv ==
  /\ TypeOK
  /\ Ordered
  /\ InHand
  /\ EndedBefore
  /\ ClosedForCause
  /\ AcknowledgedHasDraft

\* Every step keeps the types.
LEMMA TypeStep == TypeOK /\ [Next]_vars => TypeOK'
<1>. SUFFICES ASSUME TypeOK, [Next]_vars PROVE TypeOK'
  OBVIOUS
<1>. USE VideogenConstants DEF TypeOK
<1>1. ASSUME NEW r \in Requests, RefuseRequest(r) PROVE TypeOK'
  BY <1>1 DEF RefuseRequest, GenTo, DeleteImage, genVars, rowVars, vastVars
<1>2. ASSUME NEW r \in Requests, Record(r) PROVE TypeOK'
  BY <1>2 DEF Record, GenTo, genVars, rowVars, vastVars
<1>3. ASSUME NEW r \in Requests, Reserve(r) PROVE TypeOK'
  BY <1>3 DEF Reserve, Sealed, GenTo, genVars, rowVars, vastVars
<1>4. ASSUME NEW r \in Requests, ReserveFails(r) PROVE TypeOK'
  BY <1>4 DEF ReserveFails, GenTo, genVars, rowVars, vastVars
<1>5. ASSUME NEW r \in Requests, Submit(r) PROVE TypeOK'
  <2>1. tried[r] + 1 \in 0 .. Brokers
    BY <1>5 DEF Submit, GenTo
  <2>2. tried' \in [Requests -> 0 .. Brokers]
    BY <1>5, <2>1 DEF Submit
  <2>3. vast' \in [Requests -> {"none", "sent", "working", "success", "failure"}]
    BY <1>5 DEF Submit
  <2>4. gen' \in [Requests -> {"start", "moderate", "refused", "reserve", "submit", "wait",
                           "ok", "fail", "release", "failed", "dropped"}]
    BY <1>5 DEF Submit, GenTo
  <2>. QED
    BY <1>5, <2>2, <2>3, <2>4 DEF Submit, rowVars
<1>6. ASSUME NEW r \in Requests, Submitted(r) PROVE TypeOK'
  BY <1>6 DEF Submitted, GenTo, genVars, rowVars, vastVars
<1>7. ASSUME NEW r \in Requests, SubmitFails(r) PROVE TypeOK'
  BY <1>7 DEF SubmitFails, GenTo, genVars, rowVars, vastVars
<1>8. ASSUME NEW r \in Requests, MarkRequestFailed(r) PROVE TypeOK'
  BY <1>8 DEF MarkRequestFailed, GenTo, CloseRowBestEffort, CloseRow, ClosedAs, genVars, rowVars, vastVars
<1>9. ASSUME NEW r \in Requests, ReleaseAfterFailure(r) PROVE TypeOK'
  BY <1>9 DEF ReleaseAfterFailure, GenTo, ReleaseDest, genVars, rowVars, vastVars
<1>10. ASSUME NEW r \in Requests, DropGenerate(r) PROVE TypeOK'
  BY <1>10 DEF DropGenerate, genVars, rowVars, vastVars
<1>11. ASSUME NEW r \in Requests, Accept(r) PROVE TypeOK'
  BY <1>11 DEF Accept, genVars, rowVars, vastVars
<1>12. ASSUME NEW r \in Requests, Finish(r) PROVE TypeOK'
  BY <1>12 DEF Finish, genVars, rowVars, vastVars
<1>13. ASSUME NEW r \in Requests, GiveUp(r) PROVE TypeOK'
  BY <1>13 DEF GiveUp, genVars, rowVars, vastVars
<1>14. ASSUME NEW r \in Requests, NEW c \in Calls, Deliver(r, c) PROVE TypeOK'
  BY <1>14 DEF Deliver, genVars, rowVars, vastVars
<1>15. ASSUME NEW r \in Requests, NEW c \in Calls, SkipDraft(r, c) PROVE TypeOK'
  BY <1>15 DEF SkipDraft, SkipsDraft, CallTo, genVars, rowVars, vastVars
<1>16. ASSUME NEW r \in Requests, NEW c \in Calls, FinalizeUpload(r, c) PROVE TypeOK'
  BY <1>16 DEF FinalizeUpload, CallTo, genVars, rowVars, vastVars
<1>17. ASSUME NEW r \in Requests, NEW c \in Calls, AddPost(r, c) PROVE TypeOK'
  BY <1>17 DEF AddPost, CallTo, genVars, rowVars, vastVars
<1>18. ASSUME NEW r \in Requests, NEW c \in Calls, DraftFails(r, c) PROVE TypeOK'
  <2>1. call' \in [Requests -> [Calls -> {"idle", "finalize", "post", "close",
                                       "release", "closeFailed"}]]
    <3>1. call' = [call EXCEPT ![r][c] = "idle"]
      BY <1>18 DEF DraftFails, CallTo
    <3>. QED
      BY <3>1
  <2>2. post' \in [Requests -> BOOLEAN]
    BY <1>18 DEF DraftFails
  <2>3. image' \in [Requests -> {"none", "staged", "deleted"}]
    <3>1. image' = image \/ image' = [image EXCEPT ![r] = "deleted"]
      BY <1>18 DEF DraftFails, Answer, DeleteImage
    <3>. QED
      BY <3>1
  <2>4. calls' = calls
    BY <1>18 DEF DraftFails, Answer, EndsCallbacks
  <2>. QED
    BY <1>18, <2>1, <2>2, <2>3, <2>4 DEF DraftFails, genVars, rowVars
<1>19. ASSUME NEW r \in Requests, NEW c \in Calls, CloseComplete(r, c) PROVE TypeOK'
  BY <1>19 DEF CloseComplete, CallTo, CloseRowBestEffort, CloseRow, ClosedAs, Answer, EndsCallbacks, DeleteImage, genVars, rowVars, vastVars
<1>20. ASSUME NEW r \in Requests, NEW c \in Calls, ReleaseFailed(r, c) PROVE TypeOK'
  BY <1>20 DEF ReleaseFailed, CallTo, ReleaseDest, genVars, rowVars, vastVars
<1>21. ASSUME NEW r \in Requests, NEW c \in Calls, CloseFailed(r, c) PROVE TypeOK'
  BY <1>21 DEF CloseFailed, CallTo, CloseRowBestEffort, CloseRow, ClosedAs, Answer, EndsCallbacks, DeleteImage, genVars, rowVars, vastVars
<1>22. ASSUME NEW r \in Requests, NEW c \in Calls, DropCall(r, c) PROVE TypeOK'
  BY <1>22 DEF DropCall, genVars, rowVars, vastVars
<1>23. CASE Sweep
  BY <1>23 DEF Sweep, IsStale, genVars, rowVars, vastVars
<1>24. CASE Purge
  BY <1>24 DEF Purge, IsExpired, genVars, rowVars, vastVars
<1>25. CASE Tick
  BY <1>25 DEF Tick, genVars, rowVars, vastVars
<1>26. CASE UNCHANGED vars
  BY <1>26 DEF vars
<1>27. ASSUME NEW r \in Requests, Stage(r) PROVE TypeOK'
  BY <1>27 DEF Stage, Staged, GenTo, rowVars, vastVars
<1>28. ASSUME NEW r \in Requests, StageFails(r) PROVE TypeOK'
  BY <1>28 DEF StageFails, Staged, GenTo, rowVars, vastVars
<1>29. ASSUME NEW r \in Requests, NextBroker(r) PROVE TypeOK'
  BY <1>29 DEF NextBroker, GenTo, rowVars, vastVars
<1>. QED
  BY <1>1, <1>2, <1>3, <1>4, <1>5, <1>6, <1>7, <1>8, <1>9, <1>10, <1>11, <1>12, <1>13,
     <1>14, <1>15, <1>16, <1>17, <1>18, <1>19, <1>20, <1>21, <1>22, <1>23, <1>24, <1>25,
     <1>26, <1>27, <1>28, <1>29 DEF Next, Generate, GenerateFaults, Complete

\* A handler of /generate submits before Vast works, and records before there is
\* a row.
LEMMA OrderedStep == TypeOK /\ Ordered /\ [Next]_vars => Ordered'
<1>. SUFFICES ASSUME TypeOK, Ordered, [Next]_vars PROVE Ordered'
  OBVIOUS
<1>. USE DEF TypeOK, Ordered
<1>1. ASSUME NEW r \in Requests, RefuseRequest(r) PROVE Ordered'
  BY <1>1 DEF RefuseRequest, GenTo, DeleteImage, genVars, rowVars, vastVars
<1>2. ASSUME NEW r \in Requests, Record(r) PROVE Ordered'
  BY <1>2 DEF Record, GenTo, genVars, rowVars, vastVars
<1>3. ASSUME NEW r \in Requests, Reserve(r) PROVE Ordered'
  BY <1>3 DEF Reserve, Sealed, GenTo, genVars, rowVars, vastVars
<1>4. ASSUME NEW r \in Requests, ReserveFails(r) PROVE Ordered'
  BY <1>4 DEF ReserveFails, GenTo, genVars, rowVars, vastVars
<1>5. ASSUME NEW r \in Requests, Submit(r) PROVE Ordered'
  BY <1>5 DEF Submit, GenTo, genVars, rowVars, vastVars
<1>6. ASSUME NEW r \in Requests, Submitted(r) PROVE Ordered'
  BY <1>6 DEF Submitted, GenTo, genVars, rowVars, vastVars
<1>7. ASSUME NEW r \in Requests, SubmitFails(r) PROVE Ordered'
  BY <1>7 DEF SubmitFails, GenTo, genVars, rowVars, vastVars
<1>8. ASSUME NEW r \in Requests, MarkRequestFailed(r) PROVE Ordered'
  BY <1>8 DEF MarkRequestFailed, GenTo, CloseRowBestEffort, CloseRow, ClosedAs, genVars, rowVars, vastVars
<1>9. ASSUME NEW r \in Requests, ReleaseAfterFailure(r) PROVE Ordered'
  BY <1>9 DEF ReleaseAfterFailure, GenTo, ReleaseDest, genVars, rowVars, vastVars
<1>10. ASSUME NEW r \in Requests, DropGenerate(r) PROVE Ordered'
  BY <1>10 DEF DropGenerate, genVars, rowVars, vastVars
<1>11. ASSUME NEW r \in Requests, Accept(r) PROVE Ordered'
  BY <1>11 DEF Accept, genVars, rowVars, vastVars
<1>12. ASSUME NEW r \in Requests, Finish(r) PROVE Ordered'
  BY <1>12 DEF Finish, genVars, rowVars, vastVars
<1>13. ASSUME NEW r \in Requests, GiveUp(r) PROVE Ordered'
  BY <1>13 DEF GiveUp, genVars, rowVars, vastVars
<1>14. ASSUME NEW r \in Requests, NEW c \in Calls, Deliver(r, c) PROVE Ordered'
  BY <1>14 DEF Deliver, genVars, rowVars, vastVars
<1>15. ASSUME NEW r \in Requests, NEW c \in Calls, SkipDraft(r, c) PROVE Ordered'
  BY <1>15 DEF SkipDraft, SkipsDraft, CallTo, genVars, rowVars, vastVars
<1>16. ASSUME NEW r \in Requests, NEW c \in Calls, FinalizeUpload(r, c) PROVE Ordered'
  BY <1>16 DEF FinalizeUpload, CallTo, genVars, rowVars, vastVars
<1>17. ASSUME NEW r \in Requests, NEW c \in Calls, AddPost(r, c) PROVE Ordered'
  BY <1>17 DEF AddPost, CallTo, genVars, rowVars, vastVars
<1>18. ASSUME NEW r \in Requests, NEW c \in Calls, DraftFails(r, c) PROVE Ordered'
  BY <1>18 DEF DraftFails, CallTo, Answer, EndsCallbacks, DeleteImage, genVars, rowVars, vastVars
<1>19. ASSUME NEW r \in Requests, NEW c \in Calls, CloseComplete(r, c) PROVE Ordered'
  BY <1>19 DEF CloseComplete, CallTo, CloseRowBestEffort, CloseRow, ClosedAs, Answer, EndsCallbacks, DeleteImage, genVars, rowVars, vastVars
<1>20. ASSUME NEW r \in Requests, NEW c \in Calls, ReleaseFailed(r, c) PROVE Ordered'
  BY <1>20 DEF ReleaseFailed, CallTo, ReleaseDest, genVars, rowVars, vastVars
<1>21. ASSUME NEW r \in Requests, NEW c \in Calls, CloseFailed(r, c) PROVE Ordered'
  BY <1>21 DEF CloseFailed, CallTo, CloseRowBestEffort, CloseRow, ClosedAs, Answer, EndsCallbacks, DeleteImage, genVars, rowVars, vastVars
<1>22. ASSUME NEW r \in Requests, NEW c \in Calls, DropCall(r, c) PROVE Ordered'
  BY <1>22 DEF DropCall, genVars, rowVars, vastVars
<1>23. CASE Sweep
  BY <1>23 DEF Sweep, IsStale, genVars, rowVars, vastVars
<1>24. CASE Purge
  BY <1>24 DEF Purge, IsExpired, genVars, rowVars, vastVars
<1>25. CASE Tick
  BY <1>25 DEF Tick, genVars, rowVars, vastVars
<1>26. CASE UNCHANGED vars
  BY <1>26 DEF vars
<1>27. ASSUME NEW r \in Requests, Stage(r) PROVE Ordered'
  BY <1>27 DEF Stage, Staged, GenTo, rowVars, vastVars
<1>28. ASSUME NEW r \in Requests, StageFails(r) PROVE Ordered'
  BY <1>28 DEF StageFails, Staged, GenTo, rowVars, vastVars
<1>29. ASSUME NEW r \in Requests, NextBroker(r) PROVE Ordered'
  BY <1>29 DEF NextBroker, GenTo, rowVars, vastVars
<1>. QED
  BY <1>1, <1>2, <1>3, <1>4, <1>5, <1>6, <1>7, <1>8, <1>9, <1>10, <1>11, <1>12, <1>13,
     <1>14, <1>15, <1>16, <1>17, <1>18, <1>19, <1>20, <1>21, <1>22, <1>23, <1>24, <1>25,
     <1>26, <1>27, <1>28, <1>29 DEF Next, Generate, GenerateFaults, Complete

\* A delivery in hand stays true to the job.
LEMMA InHandStep == TypeOK /\ Ordered /\ InHand /\ [Next]_vars => InHand'
<1>. SUFFICES ASSUME TypeOK, Ordered, InHand, [Next]_vars PROVE InHand'
  OBVIOUS
<1>. USE DEF TypeOK, Ordered, InHand
<1>1. ASSUME NEW r \in Requests, RefuseRequest(r) PROVE InHand'
  BY <1>1 DEF RefuseRequest, GenTo, DeleteImage, genVars, rowVars, vastVars
<1>2. ASSUME NEW r \in Requests, Record(r) PROVE InHand'
  BY <1>2 DEF Record, GenTo, genVars, rowVars, vastVars
<1>3. ASSUME NEW r \in Requests, Reserve(r) PROVE InHand'
  <2>1. \A c \in Calls : call[r][c] \notin {"finalize", "post", "close", "release", "closeFailed"}
    BY <1>3 DEF Reserve, Sealed, GenTo
  <2>2. \A q \in Requests : q # r => identity'[q] = identity[q]
    BY <1>3 DEF Reserve, Sealed
  <2>3. UNCHANGED <<vast, call, post>>
    BY <1>3 DEF Reserve, Sealed, vastVars
  <2>. QED
    BY <2>1, <2>2, <2>3
<1>4. ASSUME NEW r \in Requests, ReserveFails(r) PROVE InHand'
  BY <1>4 DEF ReserveFails, GenTo, genVars, rowVars, vastVars
<1>5. ASSUME NEW r \in Requests, Submit(r) PROVE InHand'
  BY <1>5 DEF Submit, GenTo, genVars, rowVars, vastVars
<1>6. ASSUME NEW r \in Requests, Submitted(r) PROVE InHand'
  BY <1>6 DEF Submitted, GenTo, genVars, rowVars, vastVars
<1>7. ASSUME NEW r \in Requests, SubmitFails(r) PROVE InHand'
  BY <1>7 DEF SubmitFails, GenTo, genVars, rowVars, vastVars
<1>8. ASSUME NEW r \in Requests, MarkRequestFailed(r) PROVE InHand'
  BY <1>8 DEF MarkRequestFailed, GenTo, CloseRowBestEffort, CloseRow, ClosedAs, genVars, rowVars, vastVars
<1>9. ASSUME NEW r \in Requests, ReleaseAfterFailure(r) PROVE InHand'
  BY <1>9 DEF ReleaseAfterFailure, GenTo, ReleaseDest, genVars, rowVars, vastVars
<1>10. ASSUME NEW r \in Requests, DropGenerate(r) PROVE InHand'
  BY <1>10 DEF DropGenerate, genVars, rowVars, vastVars
<1>11. ASSUME NEW r \in Requests, Accept(r) PROVE InHand'
  BY <1>11 DEF Accept, genVars, rowVars, vastVars
<1>12. ASSUME NEW r \in Requests, Finish(r) PROVE InHand'
  BY <1>12 DEF Finish, genVars, rowVars, vastVars
<1>13. ASSUME NEW r \in Requests, GiveUp(r) PROVE InHand'
  BY <1>13 DEF GiveUp, genVars, rowVars, vastVars
<1>14. ASSUME NEW r \in Requests, NEW c \in Calls, Deliver(r, c) PROVE InHand'
  BY <1>14 DEF Deliver, genVars, rowVars, vastVars
<1>15. ASSUME NEW r \in Requests, NEW c \in Calls, SkipDraft(r, c) PROVE InHand'
  BY <1>15 DEF SkipDraft, SkipsDraft, CallTo, genVars, rowVars, vastVars
<1>16. ASSUME NEW r \in Requests, NEW c \in Calls, FinalizeUpload(r, c) PROVE InHand'
  BY <1>16 DEF FinalizeUpload, CallTo, genVars, rowVars, vastVars
<1>17. ASSUME NEW r \in Requests, NEW c \in Calls, AddPost(r, c) PROVE InHand'
  BY <1>17 DEF AddPost, CallTo, genVars, rowVars, vastVars
<1>18. ASSUME NEW r \in Requests, NEW c \in Calls, DraftFails(r, c) PROVE InHand'
  <2>1. call' = [call EXCEPT ![r][c] = "idle"]
    BY <1>18 DEF DraftFails, CallTo
  <2>2. \A q \in Requests : post[q] => post'[q]
    BY <1>18 DEF DraftFails
  <2>3. UNCHANGED <<vast, identity>>
    BY <1>18 DEF DraftFails, genVars
  <2>. QED
    BY <2>1, <2>2, <2>3
<1>19. ASSUME NEW r \in Requests, NEW c \in Calls, CloseComplete(r, c) PROVE InHand'
  BY <1>19 DEF CloseComplete, CallTo, CloseRowBestEffort, CloseRow, ClosedAs, Answer, EndsCallbacks, DeleteImage, genVars, rowVars, vastVars
<1>20. ASSUME NEW r \in Requests, NEW c \in Calls, ReleaseFailed(r, c) PROVE InHand'
  BY <1>20 DEF ReleaseFailed, CallTo, ReleaseDest, genVars, rowVars, vastVars
<1>21. ASSUME NEW r \in Requests, NEW c \in Calls, CloseFailed(r, c) PROVE InHand'
  BY <1>21 DEF CloseFailed, CallTo, CloseRowBestEffort, CloseRow, ClosedAs, Answer, EndsCallbacks, DeleteImage, genVars, rowVars, vastVars
<1>22. ASSUME NEW r \in Requests, NEW c \in Calls, DropCall(r, c) PROVE InHand'
  BY <1>22 DEF DropCall, genVars, rowVars, vastVars
<1>23. CASE Sweep
  BY <1>23 DEF Sweep, IsStale, genVars, rowVars, vastVars
<1>24. CASE Purge
  BY <1>24 DEF Purge, IsExpired, genVars, rowVars, vastVars
<1>25. CASE Tick
  BY <1>25 DEF Tick, genVars, rowVars, vastVars
<1>26. CASE UNCHANGED vars
  BY <1>26 DEF vars
<1>27. ASSUME NEW r \in Requests, Stage(r) PROVE InHand'
  BY <1>27 DEF Stage, Staged, GenTo, rowVars, vastVars
<1>28. ASSUME NEW r \in Requests, StageFails(r) PROVE InHand'
  BY <1>28 DEF StageFails, Staged, GenTo, rowVars, vastVars
<1>29. ASSUME NEW r \in Requests, NextBroker(r) PROVE InHand'
  BY <1>29 DEF NextBroker, GenTo, rowVars, vastVars
<1>. QED
  BY <1>1, <1>2, <1>3, <1>4, <1>5, <1>6, <1>7, <1>8, <1>9, <1>10, <1>11, <1>12, <1>13,
     <1>14, <1>15, <1>16, <1>17, <1>18, <1>19, <1>20, <1>21, <1>22, <1>23, <1>24, <1>25,
     <1>26, <1>27, <1>28, <1>29 DEF Next, Generate, GenerateFaults, Complete

\* The statuses of rows, and the answers to Vast, have the cause they claim.
Justified == EndedBefore /\ ClosedForCause /\ AcknowledgedHasDraft

LEMMA JustifiedStep ==
  TypeOK /\ Ordered /\ InHand /\ Justified /\ [Next]_vars => Justified'
<1>. SUFFICES ASSUME TypeOK, Ordered, InHand, Justified, [Next]_vars PROVE Justified'
  OBVIOUS
<1>. USE VideogenConstants
     DEF TypeOK, Ordered, InHand, Justified, EndedBefore, ClosedForCause,
         AcknowledgedHasDraft
<1>1. ASSUME NEW r \in Requests, RefuseRequest(r) PROVE Justified'
  BY <1>1 DEF RefuseRequest, GenTo, DeleteImage, genVars, rowVars, vastVars
<1>2. ASSUME NEW r \in Requests, Record(r) PROVE Justified'
  BY <1>2 DEF Record, GenTo, genVars, rowVars, vastVars
<1>3. ASSUME NEW r \in Requests, Reserve(r) PROVE Justified'
  <2>1. vast[r] = "none"
    BY <1>3 DEF Reserve, Sealed, GenTo
  <2>2. \A q \in Requests : q # r => identity'[q] = identity[q] /\ gen'[q] = gen[q]
    BY <1>3 DEF Reserve, Sealed, GenTo
  <2>3. row[r] # "complete" /\ (row[r] = "failed" => age[r] > Stale)
    BY <1>3, <2>1 DEF Reserve, Sealed, GenTo
  <2>. QED
    BY <1>3, <2>1, <2>2, <2>3 DEF Reserve, Sealed, GenTo, rowVars, vastVars
<1>4. ASSUME NEW r \in Requests, ReserveFails(r) PROVE Justified'
  BY <1>4 DEF ReserveFails, GenTo, genVars, rowVars, vastVars
<1>5. ASSUME NEW r \in Requests, Submit(r) PROVE Justified'
  BY <1>5 DEF Submit, GenTo, genVars, rowVars, vastVars
<1>6. ASSUME NEW r \in Requests, Submitted(r) PROVE Justified'
  BY <1>6 DEF Submitted, GenTo, genVars, rowVars, vastVars
<1>7. ASSUME NEW r \in Requests, SubmitFails(r) PROVE Justified'
  BY <1>7 DEF SubmitFails, GenTo, genVars, rowVars, vastVars
<1>8. ASSUME NEW r \in Requests, MarkRequestFailed(r) PROVE Justified'
  BY <1>8 DEF MarkRequestFailed, GenTo, CloseRowBestEffort, CloseRow, ClosedAs, genVars, rowVars, vastVars
<1>9. ASSUME NEW r \in Requests, ReleaseAfterFailure(r) PROVE Justified'
  BY <1>9 DEF ReleaseAfterFailure, GenTo, ReleaseDest, genVars, rowVars, vastVars
<1>10. ASSUME NEW r \in Requests, DropGenerate(r) PROVE Justified'
  BY <1>10 DEF DropGenerate, genVars, rowVars, vastVars
<1>11. ASSUME NEW r \in Requests, Accept(r) PROVE Justified'
  BY <1>11 DEF Accept, genVars, rowVars, vastVars
<1>12. ASSUME NEW r \in Requests, Finish(r) PROVE Justified'
  <2>1. vast'[r] \in {"success", "failure"} /\ vast[r] = "working"
    BY <1>12 DEF Finish
  <2>2. \A q \in Requests : q # r => vast'[q] = vast[q]
    BY <1>12 DEF Finish
  <2>3. UNCHANGED <<gen, identity, row, age, calls, post>>
    BY <1>12 DEF Finish, genVars, rowVars
  <2>4. calls[r] # "answered"
    BY <2>1
  <2>5. EndedBefore'
    BY <2>1, <2>2, <2>3
  <2>6. ClosedForCause'
    BY <2>1, <2>2, <2>3
  <2>7. AcknowledgedHasDraft'
    BY <2>2, <2>3, <2>4
  <2>. QED
    BY <2>5, <2>6, <2>7
<1>13. ASSUME NEW r \in Requests, GiveUp(r) PROVE Justified'
  BY <1>13 DEF GiveUp, genVars, rowVars, vastVars
<1>14. ASSUME NEW r \in Requests, NEW c \in Calls, Deliver(r, c) PROVE Justified'
  BY <1>14 DEF Deliver, genVars, rowVars, vastVars
<1>15. ASSUME NEW r \in Requests, NEW c \in Calls, SkipDraft(r, c) PROVE Justified'
  BY <1>15 DEF SkipDraft, SkipsDraft, CallTo, genVars, rowVars, vastVars
<1>16. ASSUME NEW r \in Requests, NEW c \in Calls, FinalizeUpload(r, c) PROVE Justified'
  BY <1>16 DEF FinalizeUpload, CallTo, genVars, rowVars, vastVars
<1>17. ASSUME NEW r \in Requests, NEW c \in Calls, AddPost(r, c) PROVE Justified'
  BY <1>17 DEF AddPost, CallTo, genVars, rowVars, vastVars
<1>18. ASSUME NEW r \in Requests, NEW c \in Calls, DraftFails(r, c) PROVE Justified'
  <2>1. post[r] => post'[r]
    BY <1>18 DEF DraftFails
  <2>2. \A q \in Requests : q # r => post'[q] = post[q]
    BY <1>18 DEF DraftFails
  <2>3. calls' = calls
    BY <1>18 DEF DraftFails, Answer, EndsCallbacks
  <2>4. UNCHANGED <<gen, identity, row, age, vast>>
    BY <1>18 DEF DraftFails, genVars, rowVars
  <2>5. \A q \in Requests : post[q] => post'[q]
    BY <2>1, <2>2
  <2>6. EndedBefore'
    BY <2>3, <2>4
  <2>7. ClosedForCause'
    BY <2>4, <2>5
  <2>8. AcknowledgedHasDraft'
    BY <2>3, <2>4, <2>5
  <2>. QED
    BY <2>6, <2>7, <2>8
<1>19. ASSUME NEW r \in Requests, NEW c \in Calls, CloseComplete(r, c) PROVE Justified'
  BY <1>19 DEF CloseComplete, CallTo, CloseRowBestEffort, CloseRow, ClosedAs, Answer, EndsCallbacks, DeleteImage, genVars, rowVars, vastVars
<1>20. ASSUME NEW r \in Requests, NEW c \in Calls, ReleaseFailed(r, c) PROVE Justified'
  BY <1>20 DEF ReleaseFailed, CallTo, ReleaseDest, genVars, rowVars, vastVars
<1>21. ASSUME NEW r \in Requests, NEW c \in Calls, CloseFailed(r, c) PROVE Justified'
  BY <1>21 DEF CloseFailed, CallTo, CloseRowBestEffort, CloseRow, ClosedAs, Answer, EndsCallbacks, DeleteImage, genVars, rowVars, vastVars
<1>22. ASSUME NEW r \in Requests, NEW c \in Calls, DropCall(r, c) PROVE Justified'
  BY <1>22 DEF DropCall, genVars, rowVars, vastVars
<1>23. CASE Sweep
  BY <1>23 DEF Sweep, IsStale, genVars, rowVars, vastVars
<1>24. CASE Purge
  BY <1>24 DEF Purge, IsExpired, genVars, rowVars, vastVars
<1>25. CASE Tick
  BY <1>25 DEF Tick, genVars, rowVars, vastVars
<1>26. CASE UNCHANGED vars
  BY <1>26 DEF vars
<1>27. ASSUME NEW r \in Requests, Stage(r) PROVE Justified'
  BY <1>27 DEF Stage, Staged, GenTo, rowVars, vastVars
<1>28. ASSUME NEW r \in Requests, StageFails(r) PROVE Justified'
  BY <1>28 DEF StageFails, Staged, GenTo, rowVars, vastVars
<1>29. ASSUME NEW r \in Requests, NextBroker(r) PROVE Justified'
  BY <1>29 DEF NextBroker, GenTo, rowVars, vastVars
<1>. QED
  BY <1>1, <1>2, <1>3, <1>4, <1>5, <1>6, <1>7, <1>8, <1>9, <1>10, <1>11, <1>12, <1>13,
     <1>14, <1>15, <1>16, <1>17, <1>18, <1>19, <1>20, <1>21, <1>22, <1>23, <1>24, <1>25,
     <1>26, <1>27, <1>28, <1>29 DEF Next, Generate, GenerateFaults, Complete

LEMMA InvInit == Init => Inv
  BY VideogenConstants
  DEF Init, Inv, TypeOK, Ordered, InHand, EndedBefore, ClosedForCause,
      AcknowledgedHasDraft

LEMMA InvStep == Inv /\ [Next]_vars => Inv'
  BY TypeStep, OrderedStep, InHandStep, JustifiedStep DEF Inv, Justified

LEMMA InvAlways == Spec => []Inv
  BY InvInit, InvStep, PTL DEF Spec

\* Types, for any number of requests and callbacks.
THEOREM VideogenTypeCorrect == Spec => []TypeOK
<1>1. Inv => TypeOK
  BY DEF Inv
<1>. QED
  BY <1>1, InvAlways, PTL

\* A request never leaves the list of its owner before it is visible as a draft,
\* unless it has failed or is stale (complete.rs, handle_success_completion).
THEOREM VideogenClosedForCause == Spec => []ClosedForCause
<1>1. Inv => ClosedForCause
  BY DEF Inv
<1>. QED
  BY <1>1, InvAlways, PTL

\* Vast is never told to forget a video whose draft is missing (complete.rs: 200
\* only after create_draft).
THEOREM VideogenAcknowledged == Spec => []AcknowledgedHasDraft
<1>1. Inv => AcknowledgedHasDraft
  BY DEF Inv
<1>. QED
  BY <1>1, InvAlways, PTL

\* One step of StatusIsFinal.
FinalStep ==
  \A r \in Requests : row[r] \in {"complete", "failed"} => row'[r] \in {row[r], "none"}

\* A closed row is rewritten by nobody.
LEMMA FinalInStep == TypeOK /\ Ordered /\ [Next]_vars => FinalStep
<1>. SUFFICES ASSUME TypeOK, Ordered, [Next]_vars PROVE FinalStep
  OBVIOUS
<1>. USE DEF TypeOK, Ordered, FinalStep
<1>1. ASSUME NEW r \in Requests, RefuseRequest(r) PROVE FinalStep
  BY <1>1 DEF RefuseRequest, GenTo, DeleteImage, genVars, rowVars, vastVars
<1>2. ASSUME NEW r \in Requests, Record(r) PROVE FinalStep
  BY <1>2 DEF Record, GenTo, genVars, rowVars, vastVars
<1>3. ASSUME NEW r \in Requests, Reserve(r) PROVE FinalStep
  BY <1>3 DEF Reserve, Sealed, GenTo, genVars, rowVars, vastVars
<1>4. ASSUME NEW r \in Requests, ReserveFails(r) PROVE FinalStep
  BY <1>4 DEF ReserveFails, GenTo, genVars, rowVars, vastVars
<1>5. ASSUME NEW r \in Requests, Submit(r) PROVE FinalStep
  BY <1>5 DEF Submit, GenTo, genVars, rowVars, vastVars
<1>6. ASSUME NEW r \in Requests, Submitted(r) PROVE FinalStep
  BY <1>6 DEF Submitted, GenTo, genVars, rowVars, vastVars
<1>7. ASSUME NEW r \in Requests, SubmitFails(r) PROVE FinalStep
  BY <1>7 DEF SubmitFails, GenTo, genVars, rowVars, vastVars
<1>8. ASSUME NEW r \in Requests, MarkRequestFailed(r) PROVE FinalStep
  BY <1>8 DEF MarkRequestFailed, GenTo, CloseRowBestEffort, CloseRow, ClosedAs, genVars, rowVars, vastVars
<1>9. ASSUME NEW r \in Requests, ReleaseAfterFailure(r) PROVE FinalStep
  BY <1>9 DEF ReleaseAfterFailure, GenTo, ReleaseDest, genVars, rowVars, vastVars
<1>10. ASSUME NEW r \in Requests, DropGenerate(r) PROVE FinalStep
  BY <1>10 DEF DropGenerate, genVars, rowVars, vastVars
<1>11. ASSUME NEW r \in Requests, Accept(r) PROVE FinalStep
  BY <1>11 DEF Accept, genVars, rowVars, vastVars
<1>12. ASSUME NEW r \in Requests, Finish(r) PROVE FinalStep
  BY <1>12 DEF Finish, genVars, rowVars, vastVars
<1>13. ASSUME NEW r \in Requests, GiveUp(r) PROVE FinalStep
  BY <1>13 DEF GiveUp, genVars, rowVars, vastVars
<1>14. ASSUME NEW r \in Requests, NEW c \in Calls, Deliver(r, c) PROVE FinalStep
  BY <1>14 DEF Deliver, genVars, rowVars, vastVars
<1>15. ASSUME NEW r \in Requests, NEW c \in Calls, SkipDraft(r, c) PROVE FinalStep
  BY <1>15 DEF SkipDraft, SkipsDraft, CallTo, genVars, rowVars, vastVars
<1>16. ASSUME NEW r \in Requests, NEW c \in Calls, FinalizeUpload(r, c) PROVE FinalStep
  BY <1>16 DEF FinalizeUpload, CallTo, genVars, rowVars, vastVars
<1>17. ASSUME NEW r \in Requests, NEW c \in Calls, AddPost(r, c) PROVE FinalStep
  BY <1>17 DEF AddPost, CallTo, genVars, rowVars, vastVars
<1>18. ASSUME NEW r \in Requests, NEW c \in Calls, DraftFails(r, c) PROVE FinalStep
  BY <1>18 DEF DraftFails, CallTo, Answer, EndsCallbacks, DeleteImage, genVars, rowVars, vastVars
<1>19. ASSUME NEW r \in Requests, NEW c \in Calls, CloseComplete(r, c) PROVE FinalStep
  BY <1>19 DEF CloseComplete, CallTo, CloseRowBestEffort, CloseRow, ClosedAs, Answer, EndsCallbacks, DeleteImage, genVars, rowVars, vastVars
<1>20. ASSUME NEW r \in Requests, NEW c \in Calls, ReleaseFailed(r, c) PROVE FinalStep
  BY <1>20 DEF ReleaseFailed, CallTo, ReleaseDest, genVars, rowVars, vastVars
<1>21. ASSUME NEW r \in Requests, NEW c \in Calls, CloseFailed(r, c) PROVE FinalStep
  BY <1>21 DEF CloseFailed, CallTo, CloseRowBestEffort, CloseRow, ClosedAs, Answer, EndsCallbacks, DeleteImage, genVars, rowVars, vastVars
<1>22. ASSUME NEW r \in Requests, NEW c \in Calls, DropCall(r, c) PROVE FinalStep
  BY <1>22 DEF DropCall, genVars, rowVars, vastVars
<1>23. CASE Sweep
  BY <1>23 DEF Sweep, IsStale, genVars, rowVars, vastVars
<1>24. CASE Purge
  BY <1>24 DEF Purge, IsExpired, genVars, rowVars, vastVars
<1>25. CASE Tick
  BY <1>25 DEF Tick, genVars, rowVars, vastVars
<1>26. CASE UNCHANGED vars
  BY <1>26 DEF vars
<1>27. ASSUME NEW r \in Requests, Stage(r) PROVE FinalStep
  BY <1>27 DEF Stage, Staged, GenTo, rowVars, vastVars
<1>28. ASSUME NEW r \in Requests, StageFails(r) PROVE FinalStep
  BY <1>28 DEF StageFails, Staged, GenTo, rowVars, vastVars
<1>29. ASSUME NEW r \in Requests, NextBroker(r) PROVE FinalStep
  BY <1>29 DEF NextBroker, GenTo, rowVars, vastVars
<1>. QED
  BY <1>1, <1>2, <1>3, <1>4, <1>5, <1>6, <1>7, <1>8, <1>9, <1>10, <1>11, <1>12, <1>13,
     <1>14, <1>15, <1>16, <1>17, <1>18, <1>19, <1>20, <1>21, <1>22, <1>23, <1>24, <1>25,
     <1>26, <1>27, <1>28, <1>29 DEF Next, Generate, GenerateFaults, Complete

\* Terminal statuses are final, whatever comes late or twice (request_store.rs:
\* the guard of mark_complete, mark_failed and expire_stale_for_principal).
THEOREM VideogenStatusIsFinal == Spec => StatusIsFinal
<1>1. Inv /\ [Next]_vars => [FinalStep]_vars
  BY FinalInStep DEF Inv
<1>2. Spec => [][FinalStep]_vars
  BY <1>1, InvAlways, PTL DEF Spec
<1>. QED
  BY <1>2 DEF StatusIsFinal, FinalStep

-----------------------------------------------------------------------------
(* Finite sets of rows                                                     *)

LEMMA HasMin ==
  ASSUME NEW S, S \subseteq Nat, S # {}
  PROVE  \E x \in S : \A y \in S : x <= y
<1> DEFINE Below(x) == S \cap (0 .. x)
           T == {Below(x) : x \in S}
<1>1. T \subseteq FiniteSubsetsOf(S) /\ T # {}
  <2>1. ASSUME NEW x \in S PROVE Below(x) \in FiniteSubsetsOf(S)
    <3>1. IsFiniteSet(0 .. x)
      BY FS_Interval
    <3>2. IsFiniteSet(Below(x))
      BY <3>1, FS_Intersection
    <3> QED BY <3>2 DEF FiniteSubsetsOf
  <2> QED BY <2>1
<1>2. PICK t \in T : \A u \in T : <<u, t>> \notin StrictSubsetOrdering(S)
  <2> HIDE DEF T
  <2> QED BY <1>1, WFMin, FS_StrictSubsetOrderingWellFounded
<1>3. PICK x \in S : t = Below(x)
  OBVIOUS
<1>4. ASSUME NEW y \in S PROVE x <= y
  <2>1. Below(y) \in T /\ <<Below(y), Below(x)>> \notin StrictSubsetOrdering(S)
    BY <1>2, <1>3
  <2>2. SUFFICES ASSUME y < x PROVE FALSE
    OBVIOUS
  <2>3. Below(y) \subseteq Below(x) /\ Below(y) # Below(x)
    BY <2>2
  <2> QED BY <2>1, <2>3 DEF StrictSubsetOrdering
<1> QED BY <1>4

LEMMA HasMax ==
  ASSUME NEW n \in Nat, NEW S, S \subseteq 0 .. n, S # {}
  PROVE  \E x \in S : \A y \in S : y <= x
<1> DEFINE T == {n - s : s \in S}
<1>1. PICK t \in T : \A u \in T : t <= u
  <2>1. T \subseteq Nat /\ T # {}
    <3>1. \A s \in S : s \in 0 .. n /\ n - s \in Nat
      OBVIOUS
    <3> QED BY <3>1
  <2> HIDE DEF T
  <2> QED BY <2>1, HasMin
<1>2. PICK x \in S : t = n - x
  OBVIOUS
<1>3. ASSUME NEW y \in S PROVE y <= x
  <2>1. n - y \in T
    OBVIOUS
  <2>2. n - x <= n - y
    BY <1>1, <1>2, <2>1
  <2> QED BY <2>2
<1> QED BY <1>3

LEMMA SubsetSizes ==
  ASSUME NEW a \in Nat, NEW m \in Nat, NEW S, \A s \in S : s \in Nat /\ a < s /\ s <= m
  PROVE  /\ IsFiniteSet(S) /\ Cardinality(S) \in Nat
         /\ S # {} \/ a <= m => Cardinality(S) <= m - a
<1>1. S \subseteq (a + 1) .. m
  OBVIOUS
<1>2. /\ IsFiniteSet((a + 1) .. m)
      /\ Cardinality((a + 1) .. m) = IF a + 1 > m THEN 0 ELSE m - (a + 1) + 1
  BY FS_Interval
<1>3. IsFiniteSet(S) /\ Cardinality(S) <= Cardinality((a + 1) .. m)
  BY <1>1, <1>2, FS_Subset
<1>4. Cardinality(S) \in Nat
  BY <1>3, FS_CardinalityType
<1>5. S # {} => a <= m
  OBVIOUS
<1> QED BY <1>2, <1>3, <1>4, <1>5

-----------------------------------------------------------------------------
(* The chain snapshot                                                      *)

Going(w) == w.at \notin {"none", "done"}
StopsIn(w) == w.next = w.cursor \/ w.size < Page

\* A walk counts each post it stages once, as its cursor moves on.
Placed(w) ==
  /\ w.todo \subseteq born /\ w.begin \subseteq born
  /\ w.status = "completed" => w.at = "done"
  /\ w.at = "fetch" => w.upserted <= w.cursor
  /\ w.at = "page" => /\ w.cursor <= w.next
                      /\ w.todo \subseteq (w.cursor + 1) .. w.next
                      /\ w.upserted + Cardinality(w.todo) <= w.next

\* The posts a walk has dealt with, were they there when it came by
Behind(w, p) ==
  /\ w.at = "fetch" => p <= w.cursor
  /\ w.at = "page" => p <= w.next /\ p \notin w.todo

\* A walk beside which there was no other, under way or at its end
SoleWalk(w) == w.alone /\ (Going(w) \/ w.status = "completed")

\* What the tables hold for such a walk, where it is the last: the posts that
\* were there from its start and that it has passed bear its stamp and are not
\* stale; a post that came later, if it has a row, has it from this walk, since
\* none returns; and from mark_stale_posts on the other rows are stale, and the
\* rollup is on its way to what they say.
Holds(r, w) ==
  /\ \A p \in 1 .. N : stamp[p] = r => p \notin stale
  /\ \A p \in chain \ w.begin : stamp[p] \in {0, r}
  /\ \A p \in (w.begin \cap chain) \ NoVideo : Behind(w, p) => stamp[p] = r
  /\ w.at = "page" /\ StopsIn(w) => \A p \in w.begin \cap chain : p <= w.next
  /\ w.at \in {"prune", "count", "record", "done"} => Unseen(r) \subseteq stale
  /\ w.at = "count" => \A c \in Creators : CountOf(c) = 0 => users[c] = 0
  /\ w.at \in {"record", "done"} =>
       \A c \in Creators : users[c] = CountOf(c)

\* Only posts with a video that have been on chain have a row, and only walks
\* that have begun have stamped one.
SnapTables ==
  /\ chain \subseteq born /\ born \subseteq 1 .. N
  /\ stamp \in [1 .. N -> (1 .. MaxRuns) \cup {0, MaxRuns + 1}]
  /\ stale \subseteq {p \in 1 .. N : stamp[p] # 0}
  /\ users \in [Creators -> 0 .. N]
  /\ last \in (1 .. MaxRuns) \cup {0}
  /\ faults \in 0 .. MaxFaults
  /\ \A p \in 1 .. N : stamp[p] # 0 => p \in born \ NoVideo
  /\ \A p \in 1 .. N : stamp[p] \in 1 .. MaxRuns => stamp[p] <= last

GoodWalk(s, w) ==
  /\ Placed(w)
  /\ s > last => w.at = "none"
  /\ Going(w) /\ w.alone => s = last

SnapInv ==
  /\ SnapTables
  /\ walk \in [1 .. MaxRuns -> WalkType]
  /\ \A s \in 1 .. MaxRuns : GoodWalk(s, walk[s])
  /\ \A r \in 1 .. MaxRuns : r = last /\ SoleWalk(walk[r]) =>
       /\ \A s \in (1 .. MaxRuns) \ {r} : ~Going(walk[s])
       /\ Holds(r, walk[r])

LEMMA SnapFacts ==
  /\ N \in Nat /\ MaxFaults \in Nat /\ MaxRuns \in Nat /\ MaxIters \in Nat
  /\ Page \in Nat /\ Page > 0 /\ NoVideo \subseteq 1 .. N
  /\ Limits \subseteq Nat /\ N + 1 \in Limits /\ CreatorOf \in [1 .. N -> Nat]
  /\ Posts = 1 .. N /\ Runs = 1 .. MaxRuns /\ NoRow = 0
  /\ Earlier = MaxRuns + 1 /\ NoLimit = N + 1
BY SnapshotConstants DEF Posts, Runs, NoRow, Earlier, NoLimit

LEMMA PostSets ==
  ASSUME NEW S, S \subseteq 1 .. N
  PROVE  /\ IsFiniteSet(S) /\ Cardinality(S) \in 0 .. N
         /\ Cardinality(S) = 0 <=> S = {}
         /\ \A T : T \subseteq S /\ Cardinality(T) = Cardinality(S) => T = S
         /\ \A p \in S : Cardinality(S \ {p}) = Cardinality(S) - 1
<1>1. IsFiniteSet(1 .. N) /\ Cardinality(1 .. N) = IF 1 > N THEN 0 ELSE N - 1 + 1
  <2>1. N \in Int /\ 1 \in Int
    BY SnapFacts
  <2> QED BY <2>1, FS_Interval
<1>2. IsFiniteSet(S) /\ Cardinality(S) <= Cardinality(1 .. N)
  BY <1>1, FS_Subset
<1>3. Cardinality(S) \in Nat
  BY <1>2, FS_CardinalityType
<1>4. Cardinality(S) \in 0 .. N
  BY <1>1, <1>2, <1>3, SnapFacts
<1>5. \A T : T \subseteq S /\ Cardinality(T) = Cardinality(S) => T = S
  BY <1>2, FS_Subset
<1>6. \A p \in S : Cardinality(S \ {p}) = Cardinality(S) - 1
  BY <1>2, FS_RemoveElement
<1> QED BY <1>2, <1>4, <1>5, <1>6, FS_EmptySet

LEMMA CountType ==
  ASSUME NEW c PROVE CountOf(c) \in 0 .. N
<1> DEFINE S == {p \in Posts \ stale : stamp[p] # NoRow /\ CreatorOf[p] = c}
<1>1. S \subseteq 1 .. N
  BY SnapFacts
<1>2. CountOf(c) = Cardinality(S)
  BY DEF CountOf
<1> HIDE DEF S
<1> QED BY <1>1, <1>2, PostSets

LEMMA SnapParts ==
  SnapInv =>
    /\ SnapTables
    /\ walk \in [1 .. MaxRuns -> WalkType]
    /\ \A s \in 1 .. MaxRuns : walk[s] \in WalkType /\ GoodWalk(s, walk[s])
    /\ \A r \in 1 .. MaxRuns : r = last /\ SoleWalk(walk[r]) =>
         /\ \A s \in (1 .. MaxRuns) \ {r} : ~Going(walk[s])
         /\ Holds(r, walk[r])
BY DEF SnapInv

LEMMA WalkFields ==
  ASSUME NEW w \in WalkType
  PROVE  /\ w.limit \in Limits /\ w.cancelled \in BOOLEAN /\ w.alone \in BOOLEAN
         /\ w.cursor \in 0 .. N /\ w.next \in 0 .. N /\ w.size \in 0 .. Page
         /\ w.todo \subseteq 1 .. N /\ w.begin \subseteq 1 .. N
         /\ w.pages \in 0 .. MaxIters /\ w.upserted \in 0 .. N
         /\ w.cursor \in Nat /\ w.next \in Nat /\ w.upserted \in Nat
BY SnapFacts DEF WalkType

\* A step of the walk r: the only walk of which the tables may hold something
\* is this one.
LEMMA WalkUpdate ==
  ASSUME SnapInv, NEW r \in 1 .. MaxRuns, Going(walk[r]), NEW w \in WalkType,
         walk' = [walk EXCEPT ![r] = w], last' = last, born' = born, SnapTables',
         Placed(w)', SoleWalk(w) => walk[r].alone,
         r = last /\ SoleWalk(w) => Holds(r, w)'
  PROVE  SnapInv'
<1>1. /\ walk' \in [1 .. MaxRuns -> WalkType] /\ walk'[r] = w
      /\ \A s \in (1 .. MaxRuns) \ {r} : walk'[s] = walk[s]
  BY SnapParts
<1>2. GoodWalk(r, walk[r]) /\ r \in Nat /\ last \in Nat
  BY SnapParts, SnapFacts DEF SnapTables
<1>3. ASSUME NEW s \in 1 .. MaxRuns PROVE GoodWalk(s, walk[s])'
  <2>1. CASE s = r
    <3>1. ~(r > last)
      BY <1>2 DEF GoodWalk, Going
    <3>2. Going(w) /\ w.alone => r = last
      BY <1>2 DEF GoodWalk, SoleWalk
    <3> QED BY <1>1, <2>1, <3>1, <3>2 DEF GoodWalk, Going, Placed
  <2>2. CASE s # r
    BY <1>1, <2>2, SnapParts DEF GoodWalk, Going, Placed
  <2> QED BY <2>1, <2>2
<1>4. ASSUME NEW q \in 1 .. MaxRuns, q = last', SoleWalk(walk[q])'
      PROVE  (\A s \in (1 .. MaxRuns) \ {q} : ~Going(walk[s]))' /\ Holds(q, walk[q])'
  <2>1. CASE q = r
    <3>1. SoleWalk(w) /\ r = last
      BY <1>1, <1>4, <2>1 DEF SoleWalk, Going
    <3>2. \A s \in (1 .. MaxRuns) \ {r} : ~Going(walk[s])
      BY <3>1, SnapParts DEF SoleWalk
    <3>3. (\A s \in (1 .. MaxRuns) \ {q} : ~Going(walk[s]))'
      BY <1>1, <2>1, <3>2 DEF Going
    <3>4. Holds(r, w)'
      BY <3>1
    <3> QED BY <1>1, <2>1, <3>3, <3>4 DEF Holds, Behind, StopsIn
  <2>2. CASE q # r
    <3>1. q = last /\ SoleWalk(walk[q])
      BY <1>1, <1>4, <2>2 DEF SoleWalk, Going
    <3> QED BY <2>2, <3>1, SnapParts
  <2> QED BY <2>1, <2>2
<1> QED BY <1>1, <1>3, <1>4 DEF SnapInv

LEMMA SoleHolds ==
  ASSUME SnapInv, NEW r \in 1 .. MaxRuns, r = last, SoleWalk(walk[r])
  PROVE  Holds(r, walk[r])
BY SnapParts

\* The record of a walk that is over before it is complete
LEMMA StopInv ==
  ASSUME SnapInv, NEW r \in 1 .. MaxRuns, Going(walk[r]),
         NEW status \in {"partial", "failed", "running"},
         walk' = Ended(r, status), last' = last, born' = born, SnapTables'
  PROVE  SnapInv'
<1> DEFINE W == walk[r]
<1>1. /\ W.limit \in Limits /\ W.cancelled \in BOOLEAN
  BY SnapParts, WalkFields
<1>2. NoWalk \in WalkType /\ NoWalk.todo = {}
      /\ NoWalk.begin = {}
  BY <1>1, SnapFacts DEF NoWalk, WalkType
<1>3. \E w \in WalkType :
         /\ walk' = [walk EXCEPT ![r] = w]
         /\ w.at = "done" /\ w.status = status /\ w.todo = {} /\ w.begin = {}
  <2>1. CASE status = "partial"
    <3> DEFINE w == [NoWalk EXCEPT !.at = "done", !.status = status,
                                            !.limit = W.limit, !.cancelled = W.cancelled]
    <3>1. w \in WalkType
      BY <1>1, <1>2, <2>1 DEF WalkType
    <3>2. w.at = "done" /\ w.status = status /\ w.todo = {} /\ w.begin = {}
      BY <1>2 DEF WalkType
    <3>3. walk' = [walk EXCEPT ![r] = w]
      BY <2>1 DEF Ended
    <3> HIDE DEF w
    <3> QED BY <3>1, <3>2, <3>3
  <2>2. CASE status # "partial"
    <3> DEFINE w == [NoWalk EXCEPT !.at = "done", !.status = status]
    <3>1. w \in WalkType
      BY <1>1, <1>2, <2>2 DEF WalkType
    <3>2. w.at = "done" /\ w.status = status /\ w.todo = {} /\ w.begin = {}
      BY <1>2 DEF WalkType
    <3>3. walk' = [walk EXCEPT ![r] = w]
      BY <2>2 DEF Ended
    <3> HIDE DEF w
    <3> QED BY <3>1, <3>2, <3>3
  <2> QED BY <2>1, <2>2
<1>4. PICK w \in WalkType :
         /\ walk' = [walk EXCEPT ![r] = w]
         /\ w.at = "done" /\ w.status = status /\ w.todo = {} /\ w.begin = {}
  BY <1>3
<1>5. ~SoleWalk(w) /\ Placed(w)'
  BY <1>4 DEF SoleWalk, Going, Placed
<1> QED BY <1>4, <1>5, WalkUpdate

\* A step that leaves the tables as they are
SameTables == UNCHANGED <<chain, born, stamp, stale, users, last>>

LEMMA SameTablesType ==
  ASSUME SnapInv, SameTables, faults' = faults \/ Fault
  PROVE  SnapTables'
<1>1. faults' \in 0 .. MaxFaults
  BY SnapParts, SnapFacts DEF Fault, SnapTables
<1> QED BY <1>1, SnapParts DEF SameTables, SnapTables

LEMMA SameTablesHold ==
  ASSUME SameTables, NEW r, NEW w, Holds(r, w) PROVE Holds(r, w)'
BY DEF SameTables, Holds, Unseen, CountOf

LEMMA BreakOffInv ==
  ASSUME SnapInv, NEW r \in 1 .. MaxRuns, BreakOff(r) PROVE SnapInv'
<1>1. SameTables /\ Going(walk[r]) /\ faults' = faults /\ walk' = Ended(r, "partial")
  BY DEF BreakOff, tables, SameTables, Going
<1>2. SnapTables'
  BY <1>1, SameTablesType
<1> QED BY <1>1, <1>2, StopInv DEF SameTables

\* A call that fails, of the walk or of its end, and a box that is lost
LEMMA FailingInv ==
  ASSUME SnapInv, NEW r \in 1 .. MaxRuns,
         Fails(r) \/ TailFails(r) \/ Crash(r)
  PROVE  SnapInv'
<1>1. SameTables /\ Going(walk[r]) /\ Fault
  BY DEF Fails, TailFails, Crash, Active, tables,
         SameTables, Going
<1>2. PICK status \in {"partial", "failed", "running"} : walk' = Ended(r, status)
  BY DEF Fails, TailFails, Crash
<1>3. SnapTables'
  BY <1>1, SameTablesType
<1> QED BY <1>1, <1>2, <1>3, StopInv DEF SameTables

LEMMA CancelWalkInv ==
  ASSUME SnapInv, NEW r \in 1 .. MaxRuns, CancelJobs(r) PROVE SnapInv'
<1> DEFINE W == walk[r]
<1> PICK w : w = [W EXCEPT !.cancelled = TRUE]
  OBVIOUS
<1>1. SameTables /\ Going(W) /\ Fault /\ walk' = [walk EXCEPT ![r] = w]
  BY SnapParts DEF CancelJobs, Active, tables, SameTables, Going
<1>2. W \in WalkType /\ GoodWalk(r, W)
  BY SnapParts
<1>3. /\ w \in WalkType /\ w.at = W.at /\ w.status = W.status /\ w.cursor = W.cursor
      /\ w.next = W.next /\ w.size = W.size /\ w.todo = W.todo /\ w.upserted = W.upserted
      /\ w.begin = W.begin /\ w.alone = W.alone
  BY <1>2 DEF WalkType
<1>4. Placed(w)' /\ (SoleWalk(w) => W.alone)
  BY <1>1, <1>2, <1>3 DEF GoodWalk, Placed, SoleWalk, SameTables
<1>5. ASSUME r = last, SoleWalk(w) PROVE Holds(r, w)'
  <2>1. Holds(r, W)
    BY <1>1, <1>3, <1>5, SoleHolds DEF SoleWalk
  <2>2. Holds(r, w)
    BY <1>3, <2>1 DEF Holds, Behind, StopsIn
  <2> QED BY <1>1, <2>2, SameTablesHold
<1>6. SnapTables'
  BY <1>1, SameTablesType
<1> QED BY <1>1, <1>3, <1>4, <1>5, <1>6, WalkUpdate DEF SameTables

\* The next page and its last post
LEMMA WalkPage ==
  ASSUME SnapInv, NEW r \in 1 .. MaxRuns, NEW page, IsPage(r, page)
  PROVE  LET cursor == walk[r].cursor
             next == LastOf(r, page)
         IN /\ page \subseteq chain /\ page \subseteq 1 .. N
            /\ cursor \in 0 .. N /\ next \in 0 .. N /\ cursor <= next
            /\ page \subseteq (cursor + 1) .. next
            /\ next = cursor => page = {}
            /\ Cardinality(page) \in 0 .. Page /\ Cardinality(page) <= next - cursor
            /\ \A p \in chain \ page : p <= next => p <= cursor
            /\ page = {} \/ Cardinality(page) < Page => \A p \in chain : p <= next
<1> DEFINE cursor == walk[r].cursor
           next == LastOf(r, page)
           ahead == {p \in chain : p > cursor}
<1>1. /\ cursor \in 0 .. N /\ N \in Nat /\ Page \in Nat /\ Page > 0 /\ chain \subseteq 1 .. N
     
  BY SnapParts, WalkFields, SnapFacts DEF SnapTables
<1>2. /\ page \subseteq ahead
      /\ Cardinality(page) = IF Cardinality(ahead) < Page THEN Cardinality(ahead) ELSE Page
      /\ \A p \in page, q \in ahead \ page : p < q
  BY DEF IsPage
<1>3. ahead \subseteq 1 .. N /\ page \subseteq 1 .. N /\ page \subseteq chain
  BY <1>1, <1>2
<1>4. /\ Cardinality(ahead) \in Nat /\ (Cardinality(ahead) = 0 <=> ahead = {})
      /\ Cardinality(page) \in Nat /\ (Cardinality(page) = 0 <=> page = {})
      /\ (Cardinality(page) = Cardinality(ahead) => page = ahead)
  <2> HIDE DEF ahead
  <2>1. /\ Cardinality(ahead) \in 0 .. N /\ (Cardinality(ahead) = 0 <=> ahead = {})
        /\ Cardinality(page) \in 0 .. N /\ (Cardinality(page) = 0 <=> page = {})
        /\ (page \subseteq ahead /\ Cardinality(page) = Cardinality(ahead) => page = ahead)
    BY <1>1, <1>3, PostSets
  <2> QED BY <1>1, <1>2, <2>1
<1>5. Cardinality(page) \in 0 .. Page
  <2> HIDE DEF ahead
  <2> QED BY <1>1, <1>2, <1>4
<1>6. /\ page = {} => next = cursor
      /\ page # {} => next \in page /\ \A q \in page : q <= next
  <2>1. CASE page = {}
    BY <2>1 DEF LastOf
  <2>2. CASE page # {}
    <3>1. page \subseteq 0 .. N
      BY <1>3
    <3>2. \E p \in page : \A q \in page : q <= p
      BY <1>1, <2>2, <3>1, HasMax
    <3> QED BY <2>2, <3>2 DEF LastOf
  <2> QED BY <2>1, <2>2
<1> HIDE DEF next
<1>7. \A p \in page : p \in Nat /\ cursor < p
  BY <1>1, <1>2, <1>3
<1>8. /\ next \in 0 .. N /\ cursor <= next /\ page \subseteq (cursor + 1) .. next
      /\ next = cursor => page = {}
  <2>1. CASE page = {}
    BY <1>1, <1>6, <2>1
  <2>2. CASE page # {}
    <3>1. next \in page /\ next \in 1 .. N /\ cursor < next
      BY <1>3, <1>6, <1>7, <2>2
    <3> QED BY <1>1, <1>6, <1>7, <2>2, <3>1
  <2> QED BY <2>1, <2>2
<1>9. Cardinality(page) <= next - cursor
  <2>1. cursor \in Nat /\ next \in Nat /\ \A p \in page : p \in Nat /\ cursor < p /\ p <= next
    BY <1>1, <1>7, <1>8
  <2> HIDE DEF cursor
  <2> QED BY <1>8, <2>1, SubsetSizes
<1>10. ASSUME NEW p \in chain \ page, p <= next PROVE p <= cursor
  <2>1. p \in 1 .. N
    BY <1>1
  <2>2. SUFFICES ASSUME p > cursor PROVE FALSE
    BY <1>1, <2>1
  <2>3. p \in ahead \ page
    BY <1>10, <2>2
  <2>4. page # {}
    BY <1>1, <1>6, <1>10, <2>1, <2>2
  <2>5. next < p /\ next \in 1 .. N
    BY <1>2, <1>3, <1>6, <2>3, <2>4
  <2> QED BY <1>10, <2>1, <2>5
<1>11. ASSUME page = {} \/ Cardinality(page) < Page, NEW p \in chain PROVE p <= next
  <2>1. page = ahead
    <3> HIDE DEF ahead
    <3> QED BY <1>1, <1>2, <1>4, <1>11
  <2>2. CASE p \in ahead
    BY <1>6, <2>1, <2>2
  <2>3. CASE p \notin ahead
    <3>1. p \in 1 .. N /\ ~(p > cursor)
      BY <1>1, <2>3
    <3> QED BY <1>1, <1>8, <3>1
  <2> QED BY <2>2, <2>3
<1> QED BY <1>1, <1>3, <1>5, <1>8, <1>9, <1>10, <1>11 DEF next

LEMMA FetchWalkInv ==
  ASSUME SnapInv, NEW r \in 1 .. MaxRuns, Fetch(r) PROVE SnapInv'
<1> DEFINE W == walk[r]
<1>1. PICK page : /\ IsPage(r, page)
                  /\ walk' = [walk EXCEPT ![r].at = "page", ![r].todo = page,
                                          ![r].size = Cardinality(page),
                                          ![r].next = LastOf(r, page),
                                          ![r].pages = @ + 1]
  BY DEF Fetch
<1> PICK next : next = LastOf(r, page)
  OBVIOUS
<1> PICK w : w = [W EXCEPT !.at = "page", !.todo = page, !.size = Cardinality(page),
                           !.next = next, !.pages = @ + 1]
  OBVIOUS
<1>2. /\ W.at = "fetch" /\ Going(W) /\ SameTables /\ faults' = faults /\ W.pages < MaxIters
      /\ walk' = [walk EXCEPT ![r] = w]
  BY <1>1, SnapParts DEF Fetch, tables, SameTables, Going
<1>3. /\ page \subseteq chain /\ page \subseteq 1 .. N
      /\ W.cursor \in 0 .. N /\ next \in 0 .. N /\ W.cursor <= next
      /\ page \subseteq (W.cursor + 1) .. next
      /\ next = W.cursor => page = {}
      /\ Cardinality(page) \in 0 .. Page /\ Cardinality(page) <= next - W.cursor
      /\ \A p \in chain \ page : p <= next => p <= W.cursor
      /\ page = {} \/ Cardinality(page) < Page => \A p \in chain : p <= next
  BY <1>1, WalkPage
<1>4. /\ W \in WalkType /\ GoodWalk(r, W) /\ N \in Nat /\ W.pages \in 0 .. MaxIters
      /\ MaxIters \in Nat /\ W.upserted \in 0 .. N /\ chain \subseteq born /\ Page \in Nat
  BY SnapParts, WalkFields, SnapFacts DEF SnapTables
<1>5. /\ w.at = "page" /\ w.todo = page /\ w.size = Cardinality(page) /\ w.next = next
      /\ w.status = W.status /\ w.cursor = W.cursor /\ w.upserted = W.upserted
      /\ w.begin = W.begin /\ w.alone = W.alone
  BY <1>4 DEF WalkType
<1>6. w \in WalkType
  <2>1. W.pages + 1 \in 0 .. MaxIters
    BY <1>2, <1>4
  <2> QED BY <1>3, <1>4, <2>1, SnapParts, SnapFacts DEF WalkType
<1>7. Placed(w)' /\ (SoleWalk(w) => W.alone)
  <2>1. W.upserted <= W.cursor /\ W.begin \subseteq born /\ W.status # "completed"
    BY <1>2, <1>4 DEF GoodWalk, Placed
  <2>2. W.upserted + Cardinality(page) <= next
    BY <1>3, <1>4, <2>1
  <2> QED BY <1>2, <1>3, <1>4, <1>5, <2>1, <2>2 DEF Placed, SoleWalk, SameTables
<1>8. ASSUME r = last, SoleWalk(w) PROVE Holds(r, w)'
  <2>1. Holds(r, W)
    BY <1>2, <1>5, <1>8, SoleHolds DEF SoleWalk
  <2>2. ASSUME NEW p \in (W.begin \cap chain) \ NoVideo, Behind(w, p) PROVE stamp[p] = r
    <3>1. p <= W.cursor
      BY <1>3, <1>5, <2>2 DEF Behind
    <3> QED BY <1>2, <2>1, <2>2, <3>1 DEF Holds, Behind
  <2>3. StopsIn(w) => \A p \in W.begin \cap chain : p <= next
    BY <1>3, <1>5 DEF StopsIn
  <2>4. Holds(r, w)
    BY <1>5, <2>1, <2>2, <2>3 DEF Holds
  <2> QED BY <1>2, <2>4, SameTablesHold
<1>9. SnapTables'
  BY <1>2, SameTablesType
<1> QED BY <1>2, <1>6, <1>7, <1>8, <1>9, WalkUpdate DEF SameTables

LEMMA UpsertPostInv ==
  ASSUME SnapInv, NEW r \in 1 .. MaxRuns, UpsertPost(r) PROVE SnapInv'
<1> DEFINE W == walk[r]
<1>1. PICK p \in W.todo \ NoVideo :
        /\ stamp' = [stamp EXCEPT ![p] = r]
        /\ stale' = stale \ {p}
        /\ walk' = [walk EXCEPT ![r].todo = @ \ {p}, ![r].upserted = @ + 1]
  BY DEF UpsertPost, StagedPosts, Unmarked
<1> PICK w : w = [W EXCEPT !.todo = @ \ {p}, !.upserted = @ + 1]
  OBVIOUS
<1>2. /\ W.at = "page" /\ Going(W) /\ UNCHANGED <<chain, born, users, last, faults>>
      /\ walk' = [walk EXCEPT ![r] = w]
  BY <1>1, SnapParts DEF UpsertPost, Going
<1>3. /\ W \in WalkType /\ GoodWalk(r, W) /\ N \in Nat /\ W.upserted \in 0 .. N
      /\ W.todo \subseteq 1 .. N /\ W.next \in 0 .. N /\ W.cursor \in 0 .. N
      /\ SnapTables /\ r <= last
  <2>1. /\ W \in WalkType /\ GoodWalk(r, W) /\ SnapTables
    BY SnapParts
  <2>2. r <= last
    BY <1>2, <2>1, SnapFacts DEF GoodWalk, Going, SnapTables
  <2> QED BY <2>1, <2>2, WalkFields, SnapFacts
<1>4. /\ Cardinality(W.todo \ {p}) = Cardinality(W.todo) - 1 /\ Cardinality(W.todo) \in 0 .. N
      /\ Cardinality(W.todo \ {p}) \in 0 .. N
  <2>1. W.todo \ {p} \subseteq 1 .. N
    BY <1>3
  <2> HIDE DEF W
  <2> QED BY <1>1, <1>3, <2>1, PostSets
<1>5. /\ w.at = "page" /\ w.todo = W.todo \ {p} /\ w.size = W.size /\ w.next = W.next
      /\ w.status = W.status /\ w.cursor = W.cursor /\ w.upserted = W.upserted + 1
      /\ w.begin = W.begin /\ w.alone = W.alone
  BY <1>2, <1>3 DEF WalkType
<1>6. /\ W.upserted + Cardinality(W.todo) <= W.next /\ W.todo \subseteq born
      /\ W.begin \subseteq born /\ W.cursor <= W.next /\ W.status # "completed"
      /\ W.todo \subseteq (W.cursor + 1) .. W.next
  BY <1>2, <1>3 DEF GoodWalk, Placed
<1>7. W.upserted + 1 \in 0 .. N /\ (W.upserted + 1) + Cardinality(W.todo \ {p}) <= W.next
  <2> HIDE DEF W
  <2> QED BY <1>3, <1>4, <1>6
<1>8. w \in WalkType
  <2>1. W.todo \ {p} \subseteq 1 .. N
    BY <1>3
  <2> QED BY <1>3, <1>7, <2>1, SnapFacts DEF WalkType
<1>9. Placed(w)' /\ (SoleWalk(w) => W.alone)
  BY <1>2, <1>5, <1>6, <1>7 DEF Placed, SoleWalk
<1>10. SnapTables'
  <2>1. p \in 1 .. N /\ p \in born \ NoVideo /\ MaxRuns \in Nat /\ r # 0
    BY <1>1, <1>3, <1>6, SnapFacts
  <2>2. stamp' \in [1 .. N -> (1 .. MaxRuns) \cup {0, MaxRuns + 1}]
        /\ stamp'[p] = r /\ \A q \in (1 .. N) \ {p} : stamp'[q] = stamp[q]
    BY <1>1, <1>3, <2>1 DEF SnapTables
  <2>3. stale' \subseteq {q \in 1 .. N : stamp'[q] # 0}
    BY <1>1, <1>3, <2>2 DEF SnapTables
  <2>4. \A q \in 1 .. N : stamp'[q] # 0 => q \in born \ NoVideo
    BY <1>3, <2>1, <2>2 DEF SnapTables
  <2>5. \A q \in 1 .. N : stamp'[q] \in 1 .. MaxRuns => stamp'[q] <= last
    BY <1>3, <2>2 DEF SnapTables
  <2> QED BY <1>2, <1>3, <2>2, <2>3, <2>4, <2>5 DEF SnapTables
<1>11. ASSUME r = last, SoleWalk(w) PROVE Holds(r, w)'
  <2>1. Holds(r, W)
    BY <1>2, <1>5, <1>11, SoleHolds DEF SoleWalk
  <2>2. /\ stamp'[p] = r /\ \A q \in (1 .. N) \ {p} : stamp'[q] = stamp[q]
        /\ chain \subseteq 1 .. N
    BY <1>1, <1>3 DEF SnapTables
  <2>3. \A q \in 1 .. N : stamp'[q] = r => q \notin stale'
    BY <1>1, <2>1, <2>2 DEF Holds
  <2>4. \A q \in chain \ W.begin : stamp'[q] \in {0, r}
    BY <2>1, <2>2 DEF Holds
  <2>5. ASSUME NEW q \in (W.begin \cap chain) \ NoVideo, Behind(w, q) PROVE stamp'[q] = r
    <3>1. CASE q = p
      BY <2>2, <3>1
    <3>2. CASE q # p
      <4>1. Behind(W, q)
        BY <1>2, <1>5, <2>5, <3>2 DEF Behind
      <4> QED BY <2>1, <2>2, <2>5, <3>2, <4>1 DEF Holds
    <3> QED BY <3>1, <3>2
  <2>6. StopsIn(w) => \A q \in W.begin \cap chain : q <= W.next
    BY <1>2, <1>5, <2>1 DEF Holds, StopsIn
  <2> QED BY <1>2, <1>5, <2>3, <2>4, <2>5, <2>6 DEF Holds
<1> QED BY <1>2, <1>8, <1>9, <1>10, <1>11, WalkUpdate

LEMMA EndPageInv ==
  ASSUME SnapInv, NEW r \in 1 .. MaxRuns, EndPage(r) PROVE SnapInv'
<1> DEFINE W == walk[r]
<1>1. /\ W.at = "page" /\ Going(W) /\ SameTables /\ faults' = faults
      /\ W.todo \subseteq NoVideo
  BY DEF EndPage, tables, StagedPosts, SameTables, Going
<1>2. SnapTables'
  BY <1>1, SameTablesType
<1>3. CASE Limited(r)
  <2>1. walk' = Ended(r, "partial")
    BY <1>3 DEF EndPage
  <2> QED BY <1>1, <1>2, <2>1, StopInv DEF SameTables
<1>4. CASE ~Limited(r)
  <2>0. PICK w : w = IF Stops(r)
                     THEN [W EXCEPT !.todo = {}, !.next = 0, !.size = 0, !.at = "mark", !.cursor = 0]
                     ELSE [W EXCEPT !.todo = {}, !.next = 0, !.size = 0, !.at = "fetch", !.cursor = W.next]
    OBVIOUS
  <2>1. walk' = [walk EXCEPT ![r] = w]
    BY <1>4, <2>0, SnapParts DEF EndPage
  <2>2. /\ W \in WalkType /\ GoodWalk(r, W) /\ N \in Nat /\ W.upserted \in 0 .. N
        /\ W.next \in 0 .. N /\ Page \in Nat
    BY SnapParts, WalkFields, SnapFacts
  <2>3. /\ w.at = (IF Stops(r) THEN "mark" ELSE "fetch") /\ w.todo = {}
        /\ (w.at = "fetch" => w.cursor = W.next) /\ w.upserted = W.upserted
        /\ w.status = W.status /\ w.begin = W.begin /\ w.alone = W.alone
    <3> HIDE DEF W
    <3>1. CASE Stops(r)
      BY <2>0, <2>2, <3>1 DEF WalkType
    <3>2. CASE ~Stops(r)
      BY <2>0, <2>2, <3>2 DEF WalkType
    <3> QED BY <3>1, <3>2
  <2>4. w \in WalkType
    <3> DEFINE on == [W EXCEPT !.todo = {}, !.next = 0, !.size = 0]
    <3>1. {} \in SUBSET Posts /\ 0 \in 0 .. N /\ 0 \in 0 .. Page
      BY <2>2
    <3>2. on \in WalkType
      BY <2>2, <3>1 DEF WalkType
    <3>3. \/ w = [on EXCEPT !.at = "mark", !.cursor = 0]
          \/ w = [on EXCEPT !.at = "fetch", !.cursor = W.next]
      BY <2>0
    <3> HIDE DEF W, on
    <3>4. [on EXCEPT !.at = "mark", !.cursor = 0] \in WalkType
      BY <3>1, <3>2 DEF WalkType
    <3>5. [on EXCEPT !.at = "fetch", !.cursor = W.next] \in WalkType
      BY <2>2, <3>2 DEF WalkType
    <3> QED BY <3>3, <3>4, <3>5
  <2>5. Placed(w)' /\ (SoleWalk(w) => W.alone)
    <3>1. W.upserted + Cardinality(W.todo) <= W.next /\ W.begin \subseteq born
          /\ W.status # "completed"
      BY <1>1, <2>2 DEF GoodWalk, Placed
    <3>2. Cardinality(W.todo) \in 0 .. N
      <4>1. W.todo \subseteq 1 .. N
        BY <2>2, WalkFields
      <4> HIDE DEF W
      <4> QED BY <2>2, <4>1, PostSets
    <3>3. W.upserted <= W.next
      <4> HIDE DEF W
      <4> QED BY <2>2, <3>1, <3>2
    <3> QED BY <1>1, <2>3, <3>1, <3>3 DEF Placed, SoleWalk, SameTables
  <2>6. ASSUME r = last, SoleWalk(w) PROVE Holds(r, w)'
    <3>1. Holds(r, W)
      BY <1>1, <2>3, <2>6, SoleHolds DEF SoleWalk
    <3>2. ASSUME NEW p \in (W.begin \cap chain) \ NoVideo, Behind(w, p) PROVE stamp[p] = r
      <4>1. p <= W.next
        <5>1. CASE Stops(r)
          BY <1>1, <3>1, <3>2, <5>1 DEF Holds, StopsIn, Stops
        <5>2. CASE ~Stops(r)
          BY <2>3, <3>2, <5>2 DEF Behind
        <5> QED BY <5>1, <5>2
      <4>2. Behind(W, p)
        BY <1>1, <3>2, <4>1 DEF Behind
      <4> QED BY <3>1, <3>2, <4>2 DEF Holds
    <3>3. Holds(r, w)
      BY <2>3, <3>1, <3>2 DEF Holds
    <3> QED BY <1>1, <3>3, SameTablesHold
  <2> QED BY <1>1, <1>2, <2>1, <2>4, <2>5, <2>6, WalkUpdate DEF SameTables
<1> QED BY <1>3, <1>4

\* mark_stale_posts of a walk that was alone: the rows it has not stamped
LEMMA MarkStaleInv ==
  ASSUME SnapInv, NEW r \in 1 .. MaxRuns, MarkStale(r) PROVE SnapInv'
<1> DEFINE W == walk[r]
<1> PICK w : w = [W EXCEPT !.at = "prune"]
  OBVIOUS
<1>1. /\ W.at = "mark" /\ Going(W) /\ UNCHANGED <<chain, born, stamp, users, last, faults>>
      /\ stale' = stale \cup Unseen(r) /\ walk' = [walk EXCEPT ![r] = w]
  BY SnapParts DEF MarkStale, Going
<1>2. W \in WalkType /\ GoodWalk(r, W) /\ SnapTables
  BY SnapParts
<1>3. /\ w \in WalkType /\ w.at = "prune" /\ w.todo = W.todo /\ w.status = W.status
      /\ w.begin = W.begin /\ w.alone = W.alone
  BY <1>2 DEF WalkType
<1>4. Placed(w)' /\ (SoleWalk(w) => W.alone)
  BY <1>1, <1>2, <1>3 DEF GoodWalk, Placed, SoleWalk
<1>5. Unseen(r) = {p \in 1 .. N : stamp[p] \notin {0, r}}
      /\ Unseen(r)' = Unseen(r)
  BY <1>1, <1>2, SnapFacts DEF Unseen
<1>6. SnapTables'
  BY <1>1, <1>2, <1>5 DEF SnapTables
<1>7. ASSUME r = last, SoleWalk(w) PROVE Holds(r, w)'
  <2>1. Holds(r, W)
    BY <1>1, <1>3, <1>7, SoleHolds DEF SoleWalk
  <2>2. \A p \in (W.begin \cap chain) \ NoVideo : stamp[p] = r
    BY <1>1, <2>1 DEF Holds, Behind
  <2>3. \A p \in 1 .. N : stamp[p] = r => p \notin stale'
    BY <1>1, <1>5, <2>1 DEF Holds
  <2>4. Unseen(r)' \subseteq stale'
    BY <1>1, <1>5
  <2> QED BY <1>1, <1>3, <2>1, <2>2, <2>3, <2>4 DEF Holds
<1> QED BY <1>1, <1>3, <1>4, <1>6, <1>7, WalkUpdate

LEMMA PruneUsersInv ==
  ASSUME SnapInv, NEW r \in 1 .. MaxRuns, PruneUsers(r) PROVE SnapInv'
<1> DEFINE W == walk[r]
<1> PICK w : w = [W EXCEPT !.at = "count"]
  OBVIOUS
<1>1. /\ W.at = "prune" /\ Going(W) /\ UNCHANGED <<chain, born, stamp, stale, last, faults>>
      /\ users' = [c \in Creators |-> IF CountOf(c) = 0 THEN 0 ELSE users[c]]
      /\ walk' = [walk EXCEPT ![r] = w]
  BY SnapParts DEF PruneUsers, Pruned, Going
<1>2. W \in WalkType /\ GoodWalk(r, W) /\ SnapTables /\ N \in Nat
  BY SnapParts, SnapFacts
<1>3. /\ w \in WalkType /\ w.at = "count" /\ w.todo = W.todo /\ w.status = W.status
      /\ w.begin = W.begin /\ w.alone = W.alone
  BY <1>2 DEF WalkType
<1>4. Placed(w)' /\ (SoleWalk(w) => W.alone)
  BY <1>1, <1>2, <1>3 DEF GoodWalk, Placed, SoleWalk
<1>5. /\ Unseen(r)' = Unseen(r)
      /\ \A c : CountOf(c)' = CountOf(c)
  BY <1>1 DEF Unseen, CountOf
<1>6. SnapTables'
  <2>1. users' \in [Creators -> 0 .. N]
    BY <1>1, <1>2 DEF SnapTables
  <2> QED BY <1>1, <1>2, <2>1 DEF SnapTables
<1>7. ASSUME r = last, SoleWalk(w) PROVE Holds(r, w)'
  <2>1. Holds(r, W)
    BY <1>1, <1>3, <1>7, SoleHolds DEF SoleWalk
  <2>2. \A p \in (W.begin \cap chain) \ NoVideo : stamp[p] = r
    BY <1>1, <2>1 DEF Holds, Behind
  <2>3. \A c \in Creators : CountOf(c)' = 0 => users'[c] = 0
    BY <1>1, <1>5
  <2> QED BY <1>1, <1>3, <1>5, <2>1, <2>2, <2>3 DEF Holds
<1> QED BY <1>1, <1>3, <1>4, <1>6, <1>7, WalkUpdate

LEMMA CountUsersInv ==
  ASSUME SnapInv, NEW r \in 1 .. MaxRuns, CountUsers(r) PROVE SnapInv'
<1> DEFINE W == walk[r]
<1> PICK w : w = [W EXCEPT !.at = "record"]
  OBVIOUS
<1>1. /\ W.at = "count" /\ Going(W) /\ UNCHANGED <<chain, born, stamp, stale, last, faults>>
      /\ users' = [c \in Creators |->
                     IF CountOf(c) > 0 THEN CountOf(c) ELSE users[c]]
      /\ walk' = [walk EXCEPT ![r] = w]
  BY SnapParts DEF CountUsers, Going
<1>2. /\ W \in WalkType /\ GoodWalk(r, W) /\ SnapTables /\ N \in Nat
      /\ \A c : CountOf(c) \in 0 .. N
  BY SnapParts, SnapFacts, CountType
<1>3. /\ w \in WalkType /\ w.at = "record" /\ w.todo = W.todo /\ w.status = W.status
      /\ w.begin = W.begin /\ w.alone = W.alone
  BY <1>2 DEF WalkType
<1>4. Placed(w)' /\ (SoleWalk(w) => W.alone)
  BY <1>1, <1>2, <1>3 DEF GoodWalk, Placed, SoleWalk
<1>5. /\ Unseen(r)' = Unseen(r)
      /\ \A c : CountOf(c)' = CountOf(c)
  BY <1>1 DEF Unseen, CountOf
<1>6. SnapTables'
  <2>1. users' \in [Creators -> 0 .. N]
    BY <1>1, <1>2 DEF SnapTables
  <2> QED BY <1>1, <1>2, <2>1 DEF SnapTables
<1>7. ASSUME r = last, SoleWalk(w) PROVE Holds(r, w)'
  <2>1. Holds(r, W)
    BY <1>1, <1>3, <1>7, SoleHolds DEF SoleWalk
  <2>2. \A p \in (W.begin \cap chain) \ NoVideo : stamp[p] = r
    BY <1>1, <2>1 DEF Holds, Behind
  <2>3. ASSUME NEW c \in Creators PROVE users'[c] = CountOf(c)'
    <3>1. CountOf(c) \in 0 .. N /\ (CountOf(c) = 0 => users[c] = 0)
      BY <1>1, <1>2, <2>1 DEF Holds
    <3>2. users'[c] = IF CountOf(c) > 0 THEN CountOf(c) ELSE users[c]
      BY <1>1
    <3> QED BY <1>2, <1>5, <3>1, <3>2
  <2> QED BY <1>1, <1>3, <1>5, <2>1, <2>2, <2>3 DEF Holds
<1> QED BY <1>1, <1>3, <1>4, <1>6, <1>7, WalkUpdate

LEMMA RecordCompletedInv ==
  ASSUME SnapInv, NEW r \in 1 .. MaxRuns, RecordCompleted(r) PROVE SnapInv'
<1> DEFINE W == walk[r]
<1> PICK w : w = [NoWalk EXCEPT !.at = "done", !.status = "completed",
                                         !.begin = W.begin, !.alone = W.alone]
  OBVIOUS
<1>1. /\ W.at = "record" /\ Going(W) /\ SameTables /\ faults' = faults
      /\ walk' = [walk EXCEPT ![r] = w]
  BY DEF RecordCompleted, tables, Ended, SameTables, Going
<1>2. /\ W \in WalkType /\ GoodWalk(r, W)
      /\ W.begin \subseteq 1 .. N /\ W.alone \in BOOLEAN
  BY SnapParts, WalkFields
<1>3. NoWalk \in WalkType /\ NoWalk.todo = {}
  BY <1>2, SnapFacts DEF NoWalk, WalkType
<1>4. /\ w \in WalkType /\ w.at = "done" /\ w.todo = {} /\ w.status = "completed"
      /\ w.begin = W.begin /\ w.alone = W.alone
  <2> HIDE DEF W
  <2> QED BY <1>2, <1>3, SnapFacts DEF WalkType
<1>5. Placed(w)' /\ (SoleWalk(w) => W.alone)
  BY <1>1, <1>2, <1>4 DEF GoodWalk, Placed, SoleWalk, SameTables
<1>6. SnapTables'
  BY <1>1, SameTablesType
<1>7. ASSUME r = last, SoleWalk(w) PROVE Holds(r, w)'
  <2>1. Holds(r, W)
    BY <1>1, <1>4, <1>7, SoleHolds DEF SoleWalk
  <2>2. Holds(r, w)
    BY <1>1, <1>4, <2>1 DEF Holds, Behind
  <2> QED BY <1>1, <2>2, SameTablesHold
<1> QED BY <1>1, <1>4, <1>5, <1>6, <1>7, WalkUpdate DEF SameTables

\* A walk that begins is the last one, and the ones beside it are alone no more.
LEMMA StartWalkInv ==
  ASSUME SnapInv, NEW r \in 1 .. MaxRuns, StartWalk(r) PROVE SnapInv'
<1> DEFINE beside == {s \in Runs : Active(s)}
           started(limit) == [NoWalk EXCEPT !.at = "fetch", !.status = "running",
                                                     !.limit = limit,
                                                     !.begin = IF beside = {} THEN chain ELSE {},
                                                     !.alone = beside = {}]
           joined(s) == [walk[s] EXCEPT !.begin = {}, !.alone = FALSE]
<1>1. /\ r = last + 1 /\ last' = r
      /\ UNCHANGED <<chain, born, stamp, stale, users, faults>>
  BY DEF StartWalk, tables
<1>2. PICK limit \in Limits :
        walk' = [s \in Runs |-> IF s = r THEN started(limit)
                                         ELSE IF s \in beside THEN joined(s) ELSE walk[s]]
  BY DEF StartWalk
<1>3. /\ SnapTables /\ Runs = 1 .. MaxRuns /\ MaxRuns \in Nat
      /\ \A s \in 1 .. MaxRuns : s \in beside <=> Going(walk[s])
  BY SnapParts, SnapFacts DEF Active, Going
<1>4. /\ NoWalk \in WalkType /\ NoWalk.todo = {}
      /\ NoWalk.cursor = 0 /\ NoWalk.upserted = 0
  BY <1>3, SnapFacts DEF NoWalk, WalkType
<1> HIDE DEF beside
<1>5. PICK w : w = started(limit)
  OBVIOUS
<1>6. /\ w \in WalkType /\ w.at = "fetch" /\ w.status = "running" /\ w.todo = {}
      /\ w.cursor = 0 /\ w.upserted = 0 /\ w.begin = (IF beside = {} THEN chain ELSE {})
      /\ w.alone = (beside = {})
  <2>1. (IF beside = {} THEN chain ELSE {}) \subseteq 1 .. N
    BY <1>3 DEF SnapTables
  <2>2. w.at = "fetch" /\ w.status = "running" /\ w.todo = {} /\ w.cursor = 0 /\ w.upserted = 0
        /\ w.begin = (IF beside = {} THEN chain ELSE {}) /\ w.alone = (beside = {})
    BY <1>4, <1>5 DEF WalkType
  <2>3. (IF beside = {} THEN chain ELSE {}) \in SUBSET Posts /\ (beside = {}) \in BOOLEAN
    BY <1>3, <2>1, SnapFacts
  <2> DEFINE begin == IF beside = {} THEN chain ELSE {}
             alone == beside = {}
  <2>4. w = [NoWalk EXCEPT !.at = "fetch", !.status = "running", !.limit = limit,
                                    !.begin = begin, !.alone = alone]
    BY <1>5
  <2>5. begin \in SUBSET Posts /\ alone \in BOOLEAN
    BY <2>3
  <2> HIDE DEF begin, alone
  <2>6. w \in WalkType
    BY <1>4, <2>4, <2>5 DEF WalkType
  <2> QED BY <2>2, <2>6
<1>7. ASSUME NEW s \in beside, NEW v, v = joined(s), s \in 1 .. MaxRuns
      PROVE  /\ v \in WalkType /\ v.at = walk[s].at /\ v.status = walk[s].status
             /\ v.cursor = walk[s].cursor /\ v.next = walk[s].next /\ v.todo = walk[s].todo
             /\ v.upserted = walk[s].upserted /\ v.begin = {} /\ v.alone = FALSE
  <2>1. walk[s] \in WalkType
    BY <1>7, SnapParts
  <2> QED BY <1>7, <2>1 DEF WalkType
<1>8. ASSUME NEW s \in 1 .. MaxRuns
      PROVE  /\ s = r => walk'[s] = w
             /\ s # r /\ s \in beside => walk'[s] = joined(s)
             /\ s # r /\ s \notin beside => walk'[s] = walk[s]
  BY <1>2, <1>3, <1>5
<1> HIDE DEF started, joined
<1>9. ASSUME NEW s \in 1 .. MaxRuns PROVE walk'[s] \in WalkType /\ GoodWalk(s, walk[s])'
  <2>1. r \in Nat /\ last \in Nat /\ s \in Nat /\ GoodWalk(s, walk[s]) /\ walk[s] \in WalkType
    BY <1>3, SnapParts DEF SnapTables
  <2>2. CASE s = r
    <3>1. w.begin \subseteq born
      BY <1>3, <1>6 DEF SnapTables
    <3> QED BY <1>1, <1>6, <1>8, <2>1, <2>2, <3>1 DEF GoodWalk, Placed, Going
  <2>3. CASE s # r /\ s \in beside
    <3> PICK v : v = joined(s)
      OBVIOUS
    <3>1. v = walk'[s]
      BY <1>8, <2>3
    <3>2. /\ v \in WalkType /\ v.at = walk[s].at /\ v.status = walk[s].status
          /\ v.cursor = walk[s].cursor /\ v.next = walk[s].next /\ v.todo = walk[s].todo
          /\ v.upserted = walk[s].upserted /\ v.begin = {} /\ v.alone = FALSE
      BY <1>7, <2>3
    <3>3. ~(s > last) /\ ~(s > r)
      BY <1>1, <1>3, <2>1, <2>3 DEF GoodWalk, Going
    <3>4. Placed(v)'
      BY <1>1, <2>1, <3>2 DEF GoodWalk, Placed
    <3> QED BY <1>1, <3>1, <3>2, <3>3, <3>4 DEF GoodWalk, Placed, Going
  <2>4. CASE s # r /\ s \notin beside
    <3>1. walk'[s] = walk[s] /\ ~Going(walk[s])
      BY <1>3, <1>8, <2>4
    <3>2. s > r => s > last
      BY <1>1, <2>1
    <3> QED BY <1>1, <2>1, <3>1, <3>2 DEF GoodWalk, Placed, Going
  <2> QED BY <2>2, <2>3, <2>4
<1>10. ASSUME NEW q \in 1 .. MaxRuns, q = last', SoleWalk(walk[q])'
       PROVE  (\A s \in (1 .. MaxRuns) \ {q} : ~Going(walk[s]))' /\ Holds(q, walk[q])'
  <2>1. q = r /\ walk'[r] = w /\ beside = {} /\ w.begin = chain
    BY <1>1, <1>6, <1>8, <1>10 DEF SoleWalk
  <2>2. (\A s \in (1 .. MaxRuns) \ {q} : ~Going(walk[s]))'
    BY <1>3, <1>8, <2>1 DEF Going
  <2>3. \A p \in 1 .. N : stamp[p] # r
    <3> TAKE p \in 1 .. N
    <3>1. stamp[p] \in 1 .. MaxRuns => stamp[p] <= last
      BY <1>3 DEF SnapTables
    <3>2. last \in Nat
      BY <1>3 DEF SnapTables
    <3> QED BY <1>1, <3>1, <3>2
  <2>4. \A p \in (w.begin \cap chain) \ NoVideo : ~Behind(w, p)
    <3>1. chain \subseteq 1 .. N
      BY <1>3 DEF SnapTables
    <3> TAKE p \in (w.begin \cap chain) \ NoVideo
    <3>2. p \in 1 .. N
      BY <3>1
    <3>3. N \in Nat
      BY <1>3, SnapFacts
    <3>4. ~(p <= 0)
      BY <3>2, <3>3
    <3> QED BY <1>6, <3>4 DEF Behind
  <2>5. Holds(r, w)'
    BY <1>1, <1>6, <2>1, <2>3, <2>4 DEF Holds, Behind
  <2> QED BY <2>1, <2>2, <2>5 DEF Holds, Behind, StopsIn
<1>11. SnapTables'
  <2>1. \A p \in 1 .. N : stamp[p] \in 1 .. MaxRuns => stamp[p] <= r
    BY <1>1, <1>3 DEF SnapTables
  <2> QED BY <1>1, <1>3, <2>1 DEF SnapTables
<1>12. walk' \in [1 .. MaxRuns -> WalkType]
  <2>1. walk' = [s \in 1 .. MaxRuns |-> walk'[s]]
    BY <1>2, <1>3
  <2> QED BY <1>9, <2>1
<1> QED BY <1>3, <1>9, <1>10, <1>11, <1>12 DEF SnapInv

\* A new post has never been on chain: no walk has it in its chain at the start.
LEMMA CreatePostInv == ASSUME SnapInv, CreatePost PROVE SnapInv'
<1>1. PICK p \in (1 .. N) \ born : chain' = chain \cup {p} /\ born' = born \cup {p}
  BY SnapParts, SnapFacts DEF CreatePost
<1>2. UNCHANGED <<stamp, stale, users, walk, last, faults>>
  BY DEF CreatePost, tables
<1>3. SnapTables
  BY SnapParts
<1>4. SnapTables'
  BY <1>1, <1>2, <1>3 DEF SnapTables
<1>5. ASSUME NEW s \in 1 .. MaxRuns PROVE GoodWalk(s, walk[s])'
  BY <1>1, <1>2, SnapParts DEF GoodWalk, Placed, Going
<1>6. ASSUME NEW r \in 1 .. MaxRuns, r = last', SoleWalk(walk[r])'
      PROVE  (\A s \in (1 .. MaxRuns) \ {r} : ~Going(walk[s]))' /\ Holds(r, walk[r])'
  <2>1. /\ Holds(r, walk[r]) /\ \A s \in (1 .. MaxRuns) \ {r} : ~Going(walk[s])
    BY <1>2, <1>6, SnapParts DEF SoleWalk, Going
  <2>2. stamp[p] = 0 /\ p \notin walk[r].begin
    BY <1>1, <1>3, SnapParts DEF SnapTables, GoodWalk, Placed
  <2>3. \A c : CountOf(c)' = CountOf(c)
    BY <1>2 DEF CountOf
  <2>4. Unseen(r)' = Unseen(r)
    BY <1>2 DEF Unseen
  <2> QED BY <1>1, <1>2, <2>1, <2>2, <2>3, <2>4 DEF Holds, Behind, StopsIn, Going
<1> QED BY <1>2, <1>3, <1>4, <1>5, <1>6, SnapParts DEF SnapInv

LEMMA DeletePostInv == ASSUME SnapInv, DeletePost PROVE SnapInv'
<1>1. chain' \subseteq chain /\ UNCHANGED <<born, stamp, stale, users, walk, last, faults>>
  BY DEF DeletePost, tables
<1>2. SnapTables
  BY SnapParts
<1>3. SnapTables'
  BY <1>1, <1>2 DEF SnapTables
<1>4. ASSUME NEW s \in 1 .. MaxRuns PROVE GoodWalk(s, walk[s])'
  BY <1>1, SnapParts DEF GoodWalk, Placed, Going
<1>5. ASSUME NEW r \in 1 .. MaxRuns, r = last', SoleWalk(walk[r])'
      PROVE  (\A s \in (1 .. MaxRuns) \ {r} : ~Going(walk[s]))' /\ Holds(r, walk[r])'
  <2>1. /\ Holds(r, walk[r]) /\ \A s \in (1 .. MaxRuns) \ {r} : ~Going(walk[s])
    BY <1>1, <1>5, SnapParts DEF SoleWalk, Going
  <2>2. \A c : CountOf(c)' = CountOf(c)
    BY <1>1 DEF CountOf
  <2>3. Unseen(r)' = Unseen(r)
    BY <1>1 DEF Unseen
  <2> QED BY <1>1, <2>1, <2>2, <2>3 DEF Holds, Behind, StopsIn, Going
<1> QED BY <1>1, <1>2, <1>3, <1>4, <1>5, SnapParts DEF SnapInv

LEMMA SnapInit == ASSUME ChainInit PROVE SnapInv
<1>1. /\ N \in Nat /\ MaxRuns \in Nat /\ MaxFaults \in Nat /\ Posts = 1 .. N
      /\ Runs = 1 .. MaxRuns /\ NoRow = 0 /\ Earlier = MaxRuns + 1
  BY SnapFacts
<1>2. PICK rows \in SUBSET (born \ NoVideo) :
        /\ stamp = [p \in 1 .. N |-> IF p \in rows THEN MaxRuns + 1 ELSE 0]
        /\ stale \in SUBSET rows
  BY <1>1 DEF ChainInit
<1>3. /\ chain \subseteq born /\ born \subseteq 1 .. N /\ last = 0 /\ faults = 0
      /\ users = [c \in Creators |-> CountOf(c)]
      /\ walk = [r \in 1 .. MaxRuns |-> NoWalk]
  BY <1>1 DEF ChainInit
<1>4. SnapTables
  <2>1. users \in [Creators -> 0 .. N]
    BY <1>3, CountType
  <2>2. stamp \in [1 .. N -> (1 .. MaxRuns) \cup {0, MaxRuns + 1}]
    BY <1>2
  <2>3. stale \subseteq {p \in 1 .. N : stamp[p] # 0}
    BY <1>1, <1>2, <1>3
  <2>4. \A p \in 1 .. N : /\ stamp[p] # 0 => p \in born \ NoVideo
                          /\ stamp[p] \notin 1 .. MaxRuns
    BY <1>1, <1>2
  <2> QED BY <1>1, <1>3, <2>1, <2>2, <2>3, <2>4 DEF SnapTables
<1> PICK none : none = NoWalk
  OBVIOUS
<1>5. /\ none \in WalkType /\ none.at = "none" /\ none.status = "none"
      /\ none.todo = {} /\ none.begin = {}
  BY <1>1, SnapFacts DEF NoWalk, WalkType
<1>6. walk \in [1 .. MaxRuns -> WalkType] /\ \A s \in 1 .. MaxRuns : walk[s] = none
  BY <1>3, <1>5
<1>7. \A s \in 1 .. MaxRuns : GoodWalk(s, walk[s]) /\ ~SoleWalk(walk[s])
  BY <1>5, <1>6 DEF GoodWalk, Placed, Going, SoleWalk
<1> QED BY <1>4, <1>6, <1>7 DEF SnapInv

LEMMA SnapStep == SnapInv /\ [ChainNext]_chainVars => SnapInv'
<1> SUFFICES ASSUME SnapInv, [ChainNext]_chainVars PROVE SnapInv'
  OBVIOUS
<1>1. CASE UNCHANGED chainVars
  <2>1. UNCHANGED <<chain, born, stamp, stale, users, walk, last, faults>>
    BY <1>1 DEF chainVars, tables
  <2>2. \A c : CountOf(c)' = CountOf(c)
    BY <2>1 DEF CountOf
  <2>3. \A r : Unseen(r)' = Unseen(r)
    BY <2>1 DEF Unseen
  <2>4. SnapTables'
    BY <2>1, SnapParts DEF SnapTables
  <2>5. ASSUME NEW s \in 1 .. MaxRuns PROVE GoodWalk(s, walk[s])'
    BY <2>1, SnapParts DEF GoodWalk, Placed, Going
  <2>6. ASSUME NEW r \in 1 .. MaxRuns, r = last', SoleWalk(walk[r])'
        PROVE  (\A s \in (1 .. MaxRuns) \ {r} : ~Going(walk[s]))' /\ Holds(r, walk[r])'
    <3>1. /\ Holds(r, walk[r]) /\ \A s \in (1 .. MaxRuns) \ {r} : ~Going(walk[s])
      BY <2>1, <2>6, SnapParts DEF SoleWalk, Going
    <3> QED BY <2>1, <2>2, <2>3, <3>1 DEF Holds, Behind, StopsIn, Going
  <2> QED BY <2>1, <2>4, <2>5, <2>6, SnapParts DEF SnapInv
<1>2. ASSUME NEW r \in 1 .. MaxRuns,
             \/ StartWalk(r) \/ WalkStep(r)
             \/ CancelJobs(r) \/ Crash(r)
      PROVE  SnapInv'
  <2>1. CASE StartWalk(r)
    BY <2>1, StartWalkInv
  <2>2. CASE WalkStep(r)
    <3>1. CASE BreakOff(r) \/ Fetch(r) \/ UpsertPost(r)
      BY <3>1, BreakOffInv, FetchWalkInv, UpsertPostInv
    <3>2. CASE EndPage(r) \/ MarkStale(r) \/ PruneUsers(r)
      BY <3>2, EndPageInv, MarkStaleInv, PruneUsersInv
    <3>3. CASE CountUsers(r) \/ RecordCompleted(r)
      BY <3>3, CountUsersInv, RecordCompletedInv
    <3>4. CASE Fails(r) \/ TailFails(r)
      BY <3>4, FailingInv
    <3> QED BY <2>2, <3>1, <3>2, <3>3, <3>4 DEF WalkStep
  <2>3. CASE CancelJobs(r)
    BY <2>3, CancelWalkInv
  <2>4. CASE Crash(r)
    BY <2>4, FailingInv
  <2> QED BY <1>2, <2>1, <2>2, <2>3, <2>4
<1>3. CASE CreatePost \/ DeletePost
  BY <1>3, CreatePostInv, DeletePostInv
<1>4. Runs = 1 .. MaxRuns
  BY SnapParts, SnapFacts
<1> QED BY <1>1, <1>2, <1>3, <1>4 DEF ChainNext

LEMMA SnapInvariant == ChainSpec => []SnapInv
BY SnapInit, SnapStep, PTL DEF ChainSpec

\* The tables and the walks keep their types: only rows are stale, and a walk
\* counts no post twice.
THEOREM SnapshotTypeCorrect ==
  ChainSpec => []ChainTypeOK
<1>1. SnapInv => ChainTypeOK
  BY SnapParts, SnapFacts DEF SnapTables, ChainTypeOK
<1> QED BY <1>1, SnapInvariant, PTL

\* When the last walk (chain_snapshot.rs) has completed and none was under way
\* beside it, yral_posts and yral_users say what the chain says: every post that
\* was there from its start until now has a live row, the rows of posts that
\* were gone before it are stale, and the rollup counts the live rows; wherever
\* posts were created and deleted around its cursor, and however earlier walks
\* failed, were cancelled or overlapped.
THEOREM SnapshotIsExact ==
  ChainSpec => []SnapshotExact
<1>1. SnapInv => SnapshotExact
  <2> SUFFICES ASSUME SnapInv, NEW r \in 1 .. MaxRuns, last = r,
                      walk[r].status = "completed", walk[r].alone,
                      NEW p \in (1 .. N) \ NoVideo
               PROVE  /\ p \in walk[r].begin \cap chain => stamp[p] # 0 /\ p \notin stale
                      /\ stamp[p] # 0 /\ p \notin stale => stamp[p] = r
                      /\ users[CreatorOf[p]] = CountOf(CreatorOf[p])
    <3>1. SnapInv => Posts = 1 .. N /\ Runs = 1 .. MaxRuns /\ NoRow = 0
      BY SnapParts, SnapFacts
    <3> QED BY <3>1 DEF SnapshotExact
  <2>1. /\ Holds(r, walk[r]) /\ walk[r].at = "done" /\ r # 0
        /\ Posts = 1 .. N /\ NoRow = 0
    <3>1. Holds(r, walk[r])
      BY SoleHolds DEF SoleWalk
    <3>2. walk[r].at = "done"
      BY SnapParts DEF GoodWalk, Placed
    <3> QED BY <3>1, <3>2, SnapFacts
  <2>2. p \in walk[r].begin \cap chain => stamp[p] = r
    BY <2>1 DEF Holds, Behind
  <2>3. stamp[p] \notin {0, r} => p \in stale
    BY <2>1 DEF Holds, Unseen
  <2>4. CreatorOf[p] \in Creators
    BY <2>1 DEF Creators
  <2> QED BY <2>1, <2>2, <2>3, <2>4 DEF Holds
<1> QED BY <1>1, SnapInvariant, PTL

\* mark_stale_posts marks a post that is on chain only where another walk was
\* under way beside the one that marks: a walk that was limited, cancelled or
\* broken off, or that posts moved around, never hides a live post.
THEOREM SnapshotTombstonesAreDead ==
  ChainSpec => TombstonesAreDead
<1> DEFINE Dead == \A p \in stale' \ stale :
                     \/ p \notin chain
                     \/ \E r \in Runs : walk[r].at = "mark" /\ ~walk[r].alone
<1>1. SnapInv /\ [ChainNext]_chainVars => [Dead]_chainVars
  <2> SUFFICES ASSUME SnapInv, [ChainNext]_chainVars, NEW p \in stale' \ stale, p \in chain
               PROVE  \E r \in Runs : walk[r].at = "mark" /\ ~walk[r].alone
    OBVIOUS
  <2>1. PICK r \in Runs : MarkStale(r)
    <3>1. stale' \subseteq stale \/ \E r \in Runs : MarkStale(r)
      BY DEF ChainNext, chainVars, tables, StartWalk, WalkStep,
             BreakOff, Fetch, UpsertPost, Unmarked,
             EndPage, Fails, PruneUsers, CountUsers,
             RecordCompleted, TailFails, CancelJobs, Crash,
             CreatePost, DeletePost
    <3> QED BY <3>1
  <2>2. /\ r \in 1 .. MaxRuns /\ walk[r].at = "mark" /\ stamp[p] \notin {0, r} /\ p \in 1 .. N
        /\ SnapTables /\ GoodWalk(r, walk[r])
    BY <2>1, SnapParts, SnapFacts DEF MarkStale, Unseen
  <2>3. ASSUME walk[r].alone PROVE FALSE
    <3>1. Holds(r, walk[r])
      BY <2>2, <2>3, SoleHolds DEF GoodWalk, SoleWalk, Going
    <3>2. p \notin NoVideo
      BY <2>2 DEF SnapTables
    <3>3. p \in walk[r].begin
      BY <2>2, <3>1 DEF Holds
    <3> QED BY <2>2, <3>1, <3>2, <3>3 DEF Holds, Behind
  <2> QED BY <2>1, <2>2, <2>3
<1> QED BY <1>1, SnapInvariant, PTL DEF ChainSpec, TombstonesAreDead

=============================================================================
