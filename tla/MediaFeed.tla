----------------------------- MODULE MediaFeed -----------------------------
(***************************************************************************)
(* The media feed, a transactional outbox over the master index and the    *)
(* hash tables (media_index/feed.rs, repo.rs), at the granularity of SQL   *)
(* statements.  Three kinds of writers run read-committed transactions on  *)
(* the shared Postgres: the legacy import (one transaction per page), the  *)
(* pHash job (one per hashed video) and the ingest hook (one per completed *)
(* upload).  A statement that changes a feed-visible row owes an event;    *)
(* append_feed_event_txn takes a transaction-scoped advisory lock, and only*)
(* then draws the event's cursor from a sequence.  The sequence is not     *)
(* transactional: a rollback leaves a gap.                                 *)
(***************************************************************************)
EXTENDS Naturals, FiniteSets

CONSTANTS Importers,   \* connections running import_current_video_index
          Hashers,     \* connections running media_phash
          Registrars,  \* connections running on_video_ingested
          Readers,     \* downstream feed consumers
          Videos,      \* video ids, ordered as the id column is
          LegacyHash,  \* the videos whose legacy row carries a pHash
          Values,      \* row contents
          NoValue,     \* the row does not exist
          Unset,       \* the transaction has not written the row
          Nobody,      \* the owner of a free lock
          NoStmt,      \* no upsert in progress
          Limit,       \* the consumers' page size
          MaxFetch     \* bound: pages fetched by all writers together

Writers == Importers \cup Hashers \cup Registrars

ASSUME FeedConstants ==
  /\ Videos \subseteq Nat
  /\ LegacyHash \subseteq Videos
  /\ NoValue \notin Values
  /\ Unset \notin Values \cup {NoValue}
  /\ Nobody \notin Writers
  /\ Registrars \cap (Importers \cup Hashers) = {}
  /\ Limit \in Nat \ {0}
  /\ MaxFetch \in Nat

\* all_servable_videos_on_yral, and servable_video_hashes under its two keys:
\* the import's input_media_version and the pHash job's.
Tables == {"media", "legacy", "canonical"}
Row == Videos \X Tables
Stmt == [row : Row, val : Values]
Event == [cursor : Nat, row : Row, val : Values]

VARIABLES
  rows,        \* committed contents of every row
  events,      \* committed rows of media_feed_events
  nextCursor,  \* the BIGSERIAL sequence
  feedLock,    \* holder of the advisory lock
  rowLock,     \* holder of each row's lock
  pc,          \* where each writer's transaction stands
  todo,        \* rows the transaction still has to upsert
  stmt,        \* the upsert in progress, until its event is inserted
  wrote,       \* uncommitted row contents
  appended,    \* uncommitted events
  fetches,     \* pages fetched so far
  pos,         \* each reader's cursor
  got          \* the events each reader has received

dbVars == <<rows, events, nextCursor, feedLock, rowLock>>
txVars == <<pc, todo, stmt, wrote, appended, fetches>>
readVars == <<pos, got>>
vars == <<dbVars, txVars, readVars>>

Blank == [r \in Row |-> Unset]

Init ==
  /\ rows = [r \in Row |-> NoValue]
  /\ events = {}
  /\ nextCursor = 1
  /\ feedLock = Nobody
  /\ rowLock = [r \in Row |-> Nobody]
  /\ pc = [w \in Writers |-> "idle"]
  /\ todo = [w \in Writers |-> {}]
  /\ stmt = [w \in Writers |-> NoStmt]
  /\ wrote = [w \in Writers |-> Blank]
  /\ appended = [w \in Writers |-> {}]
  /\ fetches = 0
  /\ pos = [r \in Readers |-> 0]
  /\ got = [r \in Readers |-> {}]

----------------------------------------------------------------------------
(* Finding work. *)

StartOn(w, page) ==
  /\ pc[w] = "idle"
  /\ fetches < MaxFetch
  /\ fetches' = fetches + 1
  /\ pc' = [pc EXCEPT ![w] = "ready"]
  /\ todo' = [todo EXCEPT ![w] = page]
  /\ UNCHANGED <<dbVars, stmt, wrote, appended, readVars>>

\* A page of legacy rows that are not yet in the master index, in id order.
FetchImport(w) ==
  \E lo, hi \in Videos :
    LET page == {v \in Videos : lo <= v /\ v <= hi /\ rows[<<v, "media">>] = NoValue}
    IN /\ page # {}
       /\ StartOn(w, (page \X {"media"}) \cup ((page \cap LegacyHash) \X {"legacy"}))

\* A master row without its canonical hash, already downloaded and hashed.
FetchHash(w) ==
  \E v \in Videos :
    /\ rows[<<v, "media">>] # NoValue
    /\ rows[<<v, "canonical">>] = NoValue
    /\ StartOn(w, {<<v, "canonical">>})

\* A completed upload: its video may be known already.
FetchUpload(w) ==
  \E v \in Videos : StartOn(w, {<<v, "media">>})

----------------------------------------------------------------------------
(* The statements of a transaction. *)

\* Videos in id order, and for each one its master row first.
Before(a, b) ==
  \/ a[1] < b[1]
  \/ a[1] = b[1] /\ a[2] = "media" /\ b[2] # "media"

\* The upsert of the next row is sent; it may have to wait for the row's lock.
NextRow(w) ==
  /\ pc[w] = "ready"
  /\ \E r \in todo[w], x \in Values :
       /\ \A q \in todo[w] : ~Before(q, r)
       /\ stmt' = [stmt EXCEPT ![w] = [row |-> r, val |-> x]]
       /\ todo' = [todo EXCEPT ![w] = @ \ {r}]
  /\ pc' = [pc EXCEPT ![w] = "upsert"]
  /\ UNCHANGED <<dbVars, wrote, appended, fetches, readVars>>

\* INSERT ... ON CONFLICT DO NOTHING, or SELECT ... FOR UPDATE and UPDATE when
\* the contents differ.  An unchanged row stays locked but owes no event.
MutantEmitsOnInsertOnly(w, old, new) == w \notin Registrars /\ old = NoValue
EmitsOn(w, old, new) == w \notin Registrars /\ old # new

Upsert(w) ==
  /\ pc[w] = "upsert"
  /\ rowLock[stmt[w].row] \in {Nobody, w}
  /\ rowLock' = [rowLock EXCEPT ![stmt[w].row] = w]
  /\ wrote' = [wrote EXCEPT ![w] = [@ EXCEPT ![stmt[w].row] = stmt[w].val]]
  /\ IF EmitsOn(w, rows[stmt[w].row], stmt[w].val)
       THEN pc' = [pc EXCEPT ![w] = "append"] /\ stmt' = stmt
       ELSE pc' = [pc EXCEPT ![w] = "ready"] /\ stmt' = [stmt EXCEPT ![w] = NoStmt]
  /\ UNCHANGED <<rows, events, nextCursor, feedLock, todo, appended, fetches, readVars>>

\* append_feed_event_txn, first statement: pg_advisory_xact_lock.
MutantNoFeedLock(w) == TRUE
FeedLockFree(w) == feedLock \in {Nobody, w}

TakeFeedLock(w) ==
  /\ pc[w] = "append"
  /\ FeedLockFree(w)
  /\ feedLock' = w
  /\ pc' = [pc EXCEPT ![w] = "insert"]
  /\ UNCHANGED <<rows, events, nextCursor, rowLock,
                 todo, stmt, wrote, appended, fetches, readVars>>

\* ... and the INSERT, whose cursor is drawn while the lock is held.
InsertEvent(w) ==
  /\ pc[w] = "insert"
  /\ appended' = [appended EXCEPT ![w] =
       @ \cup {[cursor |-> nextCursor, row |-> stmt[w].row, val |-> stmt[w].val]}]
  /\ nextCursor' = nextCursor + 1
  /\ stmt' = [stmt EXCEPT ![w] = NoStmt]
  /\ pc' = [pc EXCEPT ![w] = "ready"]
  /\ UNCHANGED <<rows, events, feedLock, rowLock, todo, wrote, fetches, readVars>>

\* Either end of a transaction frees its locks, the advisory one included: it
\* is held for the transaction, not for the session.
MutantSessionLock(w) == feedLock
FeedLockAfter(w) == IF feedLock = w THEN Nobody ELSE feedLock

EndTx(w) ==
  /\ feedLock' = FeedLockAfter(w)
  /\ rowLock' = [r \in Row |-> IF rowLock[r] = w THEN Nobody ELSE rowLock[r]]
  /\ pc' = [pc EXCEPT ![w] = "idle"]
  /\ todo' = [todo EXCEPT ![w] = {}]
  /\ stmt' = [stmt EXCEPT ![w] = NoStmt]
  /\ wrote' = [wrote EXCEPT ![w] = Blank]
  /\ appended' = [appended EXCEPT ![w] = {}]
  /\ UNCHANGED <<nextCursor, fetches, readVars>>

AfterCommit(w, r) == IF wrote[w][r] = Unset THEN rows[r] ELSE wrote[w][r]

Commit(w) ==
  /\ pc[w] = "ready"
  /\ todo[w] = {}
  /\ rows' = [r \in Row |-> AfterCommit(w, r)]
  /\ events' = events \cup appended[w]
  /\ EndTx(w)

\* A statement fails, or the connection or the whole box is lost.
Rollback(w) ==
  /\ pc[w] # "idle"
  /\ UNCHANGED <<rows, events>>
  /\ EndTx(w)

----------------------------------------------------------------------------
(* Postgres breaks a deadlock by failing a statement of one transaction. *)

WaitsFor(w, u) ==
  /\ u # w
  /\ \/ pc[w] = "upsert" /\ rowLock[stmt[w].row] = u
     \/ pc[w] = "append" /\ feedLock = u

InCycle(w) ==
  \E C \in SUBSET Writers :
    /\ w \in C
    /\ \A u \in C : \E t \in C : WaitsFor(u, t)
    /\ \A u \in C : \E t \in C : WaitsFor(t, u)

DeadlockVictim(w) == InCycle(w) /\ Rollback(w)

----------------------------------------------------------------------------
(* list_feed_events_after: the next Limit visible events in cursor order. *)

Newer(r) == {e \in events : pos[r] < e.cursor}

MutantFullPagesOnly(r, P) ==
  /\ \A e \in P, f \in Newer(r) : f.cursor < e.cursor => f \in P
  /\ Cardinality(P) = Limit
MutantUnordered(r, P) == P # {} /\ Cardinality(P) <= Limit
IsPage(r, P) ==
  /\ P # {}
  /\ \A e \in P, f \in Newer(r) : f.cursor < e.cursor => f \in P
  /\ Cardinality(P) <= Limit
  /\ Cardinality(P) = Limit \/ P = Newer(r)

Poll(r) ==
  /\ \E P \in SUBSET Newer(r) :
       /\ IsPage(r, P)
       /\ got' = [got EXCEPT ![r] = @ \cup P]
       /\ \E last \in P :
            /\ \A e \in P : e.cursor <= last.cursor
            /\ pos' = [pos EXCEPT ![r] = last.cursor]
  /\ UNCHANGED <<dbVars, txVars>>

----------------------------------------------------------------------------

Statement(w) == NextRow(w) \/ Upsert(w) \/ TakeFeedLock(w) \/ InsertEvent(w) \/ Commit(w)

Next ==
  \/ \E w \in Importers : FetchImport(w)
  \/ \E w \in Hashers : FetchHash(w)
  \/ \E w \in Registrars : FetchUpload(w)
  \/ \E w \in Writers : Statement(w) \/ Rollback(w)
  \/ \E r \in Readers : Poll(r)

Spec == Init /\ [][Next]_vars

\* An open transaction keeps issuing statements, the deadlock detector runs
\* and a consumer keeps polling.  Nobody has to look for work.
FairSpec ==
  /\ Spec
  /\ \A w \in Writers : WF_vars(Statement(w)) /\ WF_vars(DeadlockVictim(w))
  /\ \A r \in Readers : WF_vars(Poll(r))

----------------------------------------------------------------------------
(* Properties. *)

TypeOK ==
  /\ rows \in [Row -> Values \cup {NoValue}]
  /\ events \in SUBSET Event
  /\ nextCursor \in Nat \ {0}
  /\ feedLock \in Writers \cup {Nobody}
  /\ rowLock \in [Row -> Writers \cup {Nobody}]
  /\ pc \in [Writers -> {"idle", "ready", "upsert", "append", "insert"}]
  /\ todo \in [Writers -> SUBSET Row]
  /\ stmt \in [Writers -> Stmt \cup {NoStmt}]
  /\ \A w \in Writers : pc[w] \in {"upsert", "append", "insert"} => stmt[w] \in Stmt
  /\ wrote \in [Writers -> [Row -> Values \cup {Unset}]]
  /\ appended \in [Writers -> SUBSET Event]
  /\ fetches \in 0 .. MaxFetch
  /\ pos \in [Readers -> Nat]
  /\ got \in [Readers -> SUBSET Event]

\* A consumer that pages by cursor has received every visible event up to its
\* cursor: no event becomes visible behind a consumer (feed.rs, the comment in
\* append_feed_event_txn).
NoSkippedEvent ==
  \A r \in Readers : \A e \in events : e.cursor <= pos[r] => e \in got[r]

\* Replaying the feed rebuilds the table: the newest event of a row carries
\* the row's contents, whoever wrote it last.
Replays(table) ==
  \A r \in Row :
    r[2] = table /\ rows[r] # NoValue =>
      \E e \in events :
        /\ e.row = r /\ e.val = rows[r]
        /\ \A f \in events : f.row = r => f.cursor <= e.cursor

\* It does so for the hash rows, that the import and the pHash job write.
FeedReplaysHashes == Replays("legacy") /\ Replays("canonical")

\* The feed implements the abstract log.
Log == INSTANCE FeedLog WITH published <- events, delivered <- got
ImplementsFeedLog == Log!Spec

\* Every transaction ends, although pages hold the advisory lock while they
\* wait for rows that other transactions have locked.
EveryTxEnds == \A w \in Writers : pc[w] # "idle" ~> pc[w] = "idle"

\* Every visible event reaches every consumer.
ReadersCatchUp == \A r \in Readers : []<>(Newer(r) = {})
=============================================================================
