---------------------------- MODULE ChainSnapshot ----------------------------
(***************************************************************************)
(* The chain snapshot (jobs/chain_snapshot.rs, media_index/chain_repo.rs,  *)
(* routes/chain.rs): a walk over the pages of the post canister that stages*)
(* every post in yral_posts.  Only a walk that has come to the end marks   *)
(* stale what it has not seen and rebuilds the rollup yral_users.  The flag*)
(* against a second walk is one per box; the tables are shared, and posts  *)
(* are created and deleted on chain while a walk is under way.             *)
(***************************************************************************)
EXTENDS Naturals, FiniteSets

CONSTANTS N,          \* posts there may ever be, numbered in the canister's order
          CreatorOf,  \* the creator of each post
          NoVideo,    \* posts with an empty video_uid
          Boxes,      \* how many boxes there are
          MaxRuns,    \* bound: walks, numbered as they begin
          Page,       \* PAGE
          MaxIters,   \* MAX_ITERS
          Limits,     \* limits asked for
          MaxFaults   \* bound: failing calls, cancellations, lost boxes

Posts == 1 .. N
Runs == 1 .. MaxRuns
NoLimit == N + 1
NoRow == 0
Earlier == MaxRuns + 1   \* the run id of some walk before these
Creators == {CreatorOf[p] : p \in Posts}

ASSUME SnapshotConstants ==
  /\ N \in Nat /\ CreatorOf \in [Posts -> Nat] /\ NoVideo \subseteq Posts
  /\ Page \in Nat \ {0} /\ {MaxIters, MaxRuns, MaxFaults, Boxes} \subseteq Nat
  /\ Limits \subseteq Nat /\ NoLimit \in Limits

VARIABLES
  chain,   \* the posts on chain
  born,    \* the posts that have been on chain: none returns
  stamp,   \* snapshot_run_id of each row of yral_posts, or NoRow
  stale,   \* the rows marked stale
  users,   \* post_count of each row of yral_users, 0 without a row
  walk,    \* the walks
  last,    \* the walk begun last, or 0
  faults   \* failures so far

tables == <<stamp, stale, users>>
chainVars == <<chain, born, tables, walk, last, faults>>

\* For the properties: alone, whether no other walk has been under way beside it,
\* and begin, the chain at the start of such a walk.
NoWalk == [at |-> "none", status |-> "none",
           limit |-> NoLimit, cancelled |-> FALSE, cursor |-> 0, next |-> 0,
           size |-> 0, todo |-> {}, pages |-> 0, upserted |-> 0,
           begin |-> {}, alone |-> TRUE]

CountOf(c) == Cardinality({p \in Posts \ stale : stamp[p] # NoRow /\ CreatorOf[p] = c})

\* Rows of earlier walks may be there, of dead posts and of live ones, some of
\* them marked stale.
ChainInit ==
  /\ chain \in SUBSET Posts /\ born \in SUBSET Posts /\ chain \subseteq born
  /\ \E rows \in SUBSET (born \ NoVideo) :
       /\ stamp = [p \in Posts |-> IF p \in rows THEN Earlier ELSE NoRow]
       /\ stale \in SUBSET rows
  /\ users = [c \in Creators |-> CountOf(c)]
  /\ walk = [r \in Runs |-> NoWalk]
  /\ last = 0
  /\ faults = 0

Fault == faults < MaxFaults /\ faults' = faults + 1

Active(r) == walk[r].at \notin {"none", "done"}

----------------------------------------------------------------------------
(* A walk begins and ends. *)

\* The flag of a box, then the record of the run.
StartWalk(r) ==
  /\ r = last + 1
  /\ Cardinality({s \in Runs : Active(s)}) < Boxes
  /\ LET beside == {s \in Runs : Active(s)}
     IN \E limit \in Limits :
          walk' = [s \in Runs |->
            IF s = r THEN [NoWalk EXCEPT !.at = "fetch", !.status = "running", !.limit = limit,
                                         !.begin = IF beside = {} THEN chain ELSE {},
                                         !.alone = beside = {}]
            ELSE IF s \in beside THEN [walk[s] EXCEPT !.begin = {}, !.alone = FALSE]
            ELSE walk[s]]
  /\ last' = r
  /\ UNCHANGED <<chain, born, tables, faults>>

\* Of a walk that has ended the record is left, and what the properties ask.
Ended(r, status) ==
  [walk EXCEPT ![r] =
     CASE status = "completed" ->
            [NoWalk EXCEPT !.at = "done", !.status = status,
                           !.begin = walk[r].begin, !.alone = walk[r].alone]
       [] status = "partial" ->
            [NoWalk EXCEPT !.at = "done", !.status = status,
                           !.limit = walk[r].limit, !.cancelled = walk[r].cancelled]
       [] OTHER -> [NoWalk EXCEPT !.at = "done", !.status = status]]

----------------------------------------------------------------------------
(* The walk. *)

\* fetch_posts: the next posts in order, and the id of the last one; after the
\* last page it echoes the cursor.
IsPage(r, page) ==
  LET ahead == {p \in chain : p > walk[r].cursor}
  IN /\ page \subseteq ahead
     /\ Cardinality(page) = IF Cardinality(ahead) < Page THEN Cardinality(ahead) ELSE Page
     /\ \A p \in page, q \in ahead \ page : p < q

LastOf(r, page) ==
  IF page = {} THEN walk[r].cursor ELSE CHOOSE p \in page : \A q \in page : q <= p

\* A cancelled walk, and one that never comes to an end, stays partial.
MutantEndsWalk(r) ==
  /\ walk[r].at = "fetch"
  /\ walk[r].cancelled \/ walk[r].pages >= MaxIters
  /\ walk' = [walk EXCEPT ![r].at = "mark"]
  /\ UNCHANGED <<chain, born, tables, last, faults>>
BreakOff(r) ==
  /\ walk[r].at = "fetch"
  /\ walk[r].cancelled \/ walk[r].pages >= MaxIters
  /\ walk' = Ended(r, "partial")
  /\ UNCHANGED <<chain, born, tables, last, faults>>

Fetch(r) ==
  /\ walk[r].at = "fetch"
  /\ ~walk[r].cancelled /\ walk[r].pages < MaxIters
  /\ \E page \in SUBSET chain :
       /\ IsPage(r, page)
       /\ walk' = [walk EXCEPT ![r].at = "page", ![r].todo = page,
                               ![r].size = Cardinality(page), ![r].next = LastOf(r, page),
                               ![r].pages = @ + 1]
  /\ UNCHANGED <<chain, born, tables, last, faults>>

\* The posts that a walk stages; the others are skipped.
StagedPosts(page) == page \ NoVideo

\* upsert_chain_post, one post after the other.
Unmarked(p) == stale \ {p}

UpsertPost(r) ==
  /\ walk[r].at = "page"
  /\ \E p \in StagedPosts(walk[r].todo) :
       /\ \A q \in StagedPosts(walk[r].todo) : p <= q
       /\ stamp' = [stamp EXCEPT ![p] = r]
       /\ stale' = Unmarked(p)
       /\ walk' = [walk EXCEPT ![r].todo = @ \ {p}, ![r].upserted = @ + 1]
  /\ UNCHANGED <<chain, born, users, last, faults>>

\* walk_step: an empty or short page, or a cursor that stands still, ends it.
MutantNeverStops(r) == FALSE
MutantStopsEarly(r) == walk[r].next = walk[r].cursor \/ walk[r].size <= Page
Stops(r) == walk[r].next = walk[r].cursor \/ walk[r].size < Page

\* A limit that is reached goes first, and leaves the walk partial.
Limited(r) == walk[r].upserted >= walk[r].limit

EndPage(r) ==
  /\ walk[r].at = "page"
  /\ StagedPosts(walk[r].todo) = {}
  /\ walk' = IF Limited(r) THEN Ended(r, "partial")
             ELSE LET on == [walk EXCEPT ![r].todo = {}, ![r].next = 0, ![r].size = 0]
                  IN IF Stops(r) THEN [on EXCEPT ![r].at = "mark", ![r].cursor = 0]
                     ELSE [on EXCEPT ![r].at = "fetch", ![r].cursor = walk[r].next]
  /\ UNCHANGED <<chain, born, tables, last, faults>>

\* A call to the canister or to Postgres fails on the way: the run has failed,
\* if Postgres can still be told.
Fails(r) ==
  /\ walk[r].at \in {"fetch", "page"}
  /\ Fault
  /\ \E status \in {"failed", "running"} : walk' = Ended(r, status)
  /\ UNCHANGED <<chain, born, tables, last>>

----------------------------------------------------------------------------
(* The end of a complete walk. *)

\* mark_stale_posts.
Unseen(r) == {p \in Posts : stamp[p] \notin {NoRow, r}}

MarkStale(r) ==
  /\ walk[r].at = "mark"
  /\ stale' = stale \cup Unseen(r)
  /\ walk' = [walk EXCEPT ![r].at = "prune"]
  /\ UNCHANGED <<chain, born, stamp, users, last, faults>>

\* rebuild_yral_users is two statements: creators without a live post go, ...
Pruned == [c \in Creators |-> IF CountOf(c) = 0 THEN 0 ELSE users[c]]

PruneUsers(r) ==
  /\ walk[r].at = "prune"
  /\ users' = Pruned
  /\ walk' = [walk EXCEPT ![r].at = "count"]
  /\ UNCHANGED <<chain, born, stamp, stale, last, faults>>

\* ... and the others are counted.
CountUsers(r) ==
  /\ walk[r].at = "count"
  /\ users' = [c \in Creators |-> IF CountOf(c) > 0 THEN CountOf(c) ELSE users[c]]
  /\ walk' = [walk EXCEPT ![r].at = "record"]
  /\ UNCHANGED <<chain, born, stamp, stale, last, faults>>

RecordCompleted(r) ==
  /\ walk[r].at = "record"
  /\ walk' = Ended(r, "completed")
  /\ UNCHANGED <<chain, born, tables, last, faults>>

\* An error of these statements leaves by `?`: nothing marks the run.
TailFails(r) ==
  /\ walk[r].at \in {"mark", "prune", "count", "record"}
  /\ Fault
  /\ walk' = Ended(r, "running")
  /\ UNCHANGED <<chain, born, tables, last>>

----------------------------------------------------------------------------
(* What happens around a walk. *)

\* cancel_media_jobs of the box that walks.
CancelJobs(r) ==
  /\ Active(r) /\ ~walk[r].cancelled
  /\ Fault
  /\ walk' = [walk EXCEPT ![r].cancelled = TRUE]
  /\ UNCHANGED <<chain, born, tables, last>>

Crash(r) ==
  /\ Active(r)
  /\ Fault
  /\ walk' = Ended(r, "running")
  /\ UNCHANGED <<chain, born, tables, last>>

\* Ids are random: a new post may fall behind the cursor of a walk.
CreatePost ==
  /\ \E p \in Posts \ born : chain' = chain \cup {p} /\ born' = born \cup {p}
  /\ UNCHANGED <<tables, walk, last, faults>>

DeletePost ==
  /\ \E p \in chain : chain' = chain \ {p}
  /\ UNCHANGED <<born, tables, walk, last, faults>>

----------------------------------------------------------------------------

WalkStep(r) ==
  \/ BreakOff(r) \/ Fetch(r) \/ UpsertPost(r) \/ EndPage(r) \/ Fails(r)
  \/ MarkStale(r) \/ PruneUsers(r) \/ CountUsers(r) \/ RecordCompleted(r) \/ TailFails(r)

ChainNext ==
  \/ \E r \in Runs : StartWalk(r) \/ WalkStep(r) \/ CancelJobs(r) \/ Crash(r)
  \/ CreatePost \/ DeletePost

ChainSpec == ChainInit /\ [][ChainNext]_chainVars

\* The runtime drives a walk.
ChainFairSpec == ChainSpec /\ \A r \in Runs : WF_chainVars(WalkStep(r))

----------------------------------------------------------------------------
(* Properties. *)

WalkType ==
  [at : {"none", "fetch", "page", "mark", "prune", "count", "record", "done"},
   status : {"none", "running", "partial", "completed", "failed"}, limit : Limits,
   cancelled : BOOLEAN, cursor : 0 .. N, next : 0 .. N, size : 0 .. Page,
   todo : SUBSET Posts, pages : 0 .. MaxIters, upserted : 0 .. N, begin : SUBSET Posts,
   alone : BOOLEAN]

ChainTypeOK ==
  /\ chain \in SUBSET Posts /\ born \in SUBSET Posts
  /\ stamp \in [Posts -> Runs \cup {NoRow, Earlier}]
  /\ stale \in SUBSET {p \in Posts : stamp[p] # NoRow}
  /\ users \in [Creators -> 0 .. N]
  /\ walk \in [Runs -> WalkType]
  /\ last \in Runs \cup {0}
  /\ faults \in 0 .. MaxFaults

\* What a complete walk knows when it was the only one: posts there from its
\* start until now are staged and not stale, posts gone before it are stale,
\* wherever posts were created and deleted around its cursor; and the rollup
\* counts the live rows, whatever failed or was deleted before.
SnapshotExact ==
  \A r \in Runs : last = r /\ walk[r].status = "completed" /\ walk[r].alone =>
    \A p \in Posts \ NoVideo :
      /\ p \in walk[r].begin \cap chain => stamp[p] # NoRow /\ p \notin stale
      /\ stamp[p] # NoRow /\ p \notin stale => stamp[p] = r
      /\ users[CreatorOf[p]] = CountOf(CreatorOf[p])

\* A live post is marked stale only by a walk beside which another one has
\* stamped it: a walk that has not seen the whole chain never marks a post.
TombstonesAreDead ==
  [][\A p \in stale' \ stale :
       \/ p \notin chain
       \/ \E r \in Runs : walk[r].at = "mark" /\ ~walk[r].alone]_chainVars

\* A walk that nobody limits, cancels or breaks off completes, although posts
\* are created and deleted ahead of it.
WalksComplete ==
  \A r \in Runs :
    walk[r].at = "fetch" ~>
      walk[r].at = "done" /\ (walk[r].status = "partial"
                                => walk[r].cancelled \/ walk[r].limit # NoLimit)
=============================================================================
