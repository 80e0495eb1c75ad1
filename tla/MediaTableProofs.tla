-------------------------- MODULE MediaTableProofs --------------------------
(***************************************************************************)
(* Proofs about the media table: its writers and their feed (MediaFeed), for*)
(* any number of writers, readers, videos and rows, and the legacy import  *)
(* that fills it (LegacyImport), for any boxes, rows, sizes of a page and  *)
(* faults.  Each theorem is about one of the two modules.                  *)
(***************************************************************************)
EXTENDS MediaFeed, LegacyImport, FiniteSetTheorems, WellFoundedInduction, TLAPS

-----------------------------------------------------------------------------
(* The feed                                                                *)

(* Type correctness. *)

LEMMA InitTypeOK == Init => TypeOK
BY FeedConstants DEF Init, TypeOK, Blank, Row

LEMMA EndTxTypeOK ==
  ASSUME NEW w \in Writers, TypeOK, EndTx(w)
  PROVE  /\ feedLock' \in Writers \cup {Nobody}
         /\ rowLock' \in [Row -> Writers \cup {Nobody}]
         /\ pc' \in [Writers -> {"idle", "ready", "upsert", "append", "insert"}]
         /\ todo' \in [Writers -> SUBSET Row]
         /\ stmt' \in [Writers -> Stmt \cup {NoStmt}]
         /\ \A u \in Writers : pc'[u] \in {"upsert", "append", "insert"} => stmt'[u] \in Stmt
         /\ wrote' \in [Writers -> [Row -> Values \cup {Unset}]]
         /\ appended' \in [Writers -> SUBSET Event]
BY DEF TypeOK, EndTx, FeedLockAfter, Blank

LEMMA StartOnTypeOK ==
  ASSUME NEW w \in Writers, NEW page \in SUBSET Row, TypeOK, StartOn(w, page)
  PROVE  TypeOK'
BY FeedConstants DEF TypeOK, StartOn, dbVars, readVars

LEMMA StepTypeOK == TypeOK /\ [Next]_vars => TypeOK'
<1> SUFFICES ASSUME TypeOK, [Next]_vars PROVE TypeOK'
  OBVIOUS
<1>1. ASSUME NEW w \in Importers, FetchImport(w) PROVE TypeOK'
  <2>1. PICK lo \in Videos, hi \in Videos :
          LET page == {v \in Videos : lo <= v /\ v <= hi /\ rows[<<v, "media">>] = NoValue}
          IN StartOn(w, (page \X {"media"}) \cup ((page \cap LegacyHash) \X {"legacy"}))
    BY <1>1 DEF FetchImport
  <2> DEFINE page == {v \in Videos : lo <= v /\ v <= hi /\ rows[<<v, "media">>] = NoValue}
  <2>2. (page \X {"media"}) \cup ((page \cap LegacyHash) \X {"legacy"}) \in SUBSET Row
    BY DEF Row, Tables
  <2> QED BY <2>1, <2>2, StartOnTypeOK DEF Writers
<1>2. ASSUME NEW w \in Hashers, FetchHash(w) PROVE TypeOK'
  BY <1>2, StartOnTypeOK DEF FetchHash, Row, Tables, Writers
<1>3. ASSUME NEW w \in Registrars, FetchUpload(w) PROVE TypeOK'
  BY <1>3, StartOnTypeOK DEF FetchUpload, Row, Tables, Writers
<1>4. ASSUME NEW w \in Writers, NextRow(w) PROVE TypeOK'
  <2>1. PICK r \in todo[w], x \in Values :
          /\ stmt' = [stmt EXCEPT ![w] = [row |-> r, val |-> x]]
          /\ todo' = [todo EXCEPT ![w] = @ \ {r}]
    BY <1>4 DEF NextRow
  <2>2. [row |-> r, val |-> x] \in Stmt
    BY DEF TypeOK, Stmt
  <2> QED BY <1>4, <2>1, <2>2 DEF TypeOK, NextRow, dbVars, readVars
<1>5. ASSUME NEW w \in Writers, Upsert(w) PROVE TypeOK'
  <2>1. stmt[w] \in Stmt /\ stmt[w].row \in Row /\ stmt[w].val \in Values
    BY <1>5 DEF TypeOK, Upsert, Stmt
  <2>2. rowLock' \in [Row -> Writers \cup {Nobody}]
    BY <1>5, <2>1 DEF TypeOK, Upsert
  <2>3. wrote' \in [Writers -> [Row -> Values \cup {Unset}]]
    BY <1>5, <2>1 DEF TypeOK, Upsert
  <2>4. /\ pc' \in [Writers -> {"idle", "ready", "upsert", "append", "insert"}]
        /\ stmt' \in [Writers -> Stmt \cup {NoStmt}]
        /\ \A q \in Writers : pc'[q] \in {"upsert", "append", "insert"} => stmt'[q] \in Stmt
    BY <1>5, <2>1 DEF TypeOK, Upsert
  <2> QED BY <1>5, <2>2, <2>3, <2>4 DEF TypeOK, Upsert, readVars
<1>6. ASSUME NEW w \in Writers, TakeFeedLock(w) PROVE TypeOK'
  BY <1>6 DEF TypeOK, TakeFeedLock, readVars
<1>7. ASSUME NEW w \in Writers, InsertEvent(w) PROVE TypeOK'
  BY <1>7 DEF TypeOK, InsertEvent, readVars, Stmt, Event
<1>8. ASSUME NEW w \in Writers, Commit(w) PROVE TypeOK'
  <2>1. rows' \in [Row -> Values \cup {NoValue}]
    <3>1. \A r \in Row : AfterCommit(w, r) \in Values \cup {NoValue}
      BY DEF TypeOK, AfterCommit
    <3> QED BY <1>8, <3>1 DEF Commit
  <2>2. events' \in SUBSET Event
    BY <1>8 DEF TypeOK, Commit
  <2>3. EndTx(w)
    BY <1>8 DEF Commit
  <2>4. nextCursor' \in Nat \ {0} /\ fetches' \in 0 .. MaxFetch
         /\ pos' \in [Readers -> Nat] /\ got' \in [Readers -> SUBSET Event]
    BY <2>3 DEF TypeOK, EndTx, readVars
  <2> QED BY <2>1, <2>2, <2>3, <2>4, EndTxTypeOK DEF TypeOK
<1>9. ASSUME NEW w \in Writers, Rollback(w) PROVE TypeOK'
  BY <1>9, EndTxTypeOK DEF TypeOK, Rollback, EndTx, readVars
<1>10. ASSUME NEW r \in Readers, Poll(r) PROVE TypeOK'
  BY <1>10 DEF TypeOK, Poll, Newer, Event, dbVars, txVars
<1>11. CASE UNCHANGED vars
  BY <1>11 DEF TypeOK, vars, dbVars, txVars, readVars
<1> QED
  BY <1>1, <1>2, <1>3, <1>4, <1>5, <1>6, <1>7, <1>8, <1>9, <1>10, <1>11 DEF Next, Statement

\* Every variable keeps its type, whatever the writers do.
THEOREM FeedTypeCorrect == Spec => []TypeOK
BY InitTypeOK, StepTypeOK, PTL DEF Spec

----------------------------------------------------------------------------
(* The order of the log.  What makes it work is that the cursor is drawn   *)
(* and the event committed under one and the same lock.                    *)

\* Only the holder of the advisory lock has events that are not committed.
LockInv ==
  \A w \in Writers : appended[w] # {} \/ pc[w] = "insert" => feedLock = w

\* Cursors are positive, and the sequence is ahead of all of them.
CursorInv ==
  /\ \A e \in events : 1 <= e.cursor /\ e.cursor < nextCursor
  /\ \A w \in Writers : \A e \in appended[w] : 1 <= e.cursor /\ e.cursor < nextCursor

\* An event still to be committed lies after every committed one.
OrderInv ==
  \A w \in Writers : \A e \in appended[w], f \in events : f.cursor < e.cursor

\* No two events of a transaction, and no two committed ones, share a cursor.
UniqueInv ==
  /\ \A e, f \in events : e.cursor = f.cursor => e = f
  /\ \A w \in Writers : \A e, f \in appended[w] : e.cursor = f.cursor => e = f

\* A reader stands at the start, or on a committed event ...
PosInv == \A r \in Readers : pos[r] = 0 \/ \E e \in events : e.cursor = pos[r]

\* ... and it has exactly the events up to there.
ReaderInv == \A r \in Readers : got[r] = {e \in events : e.cursor <= pos[r]}

FeedInv == LockInv /\ CursorInv /\ OrderInv /\ UniqueInv /\ PosInv /\ ReaderInv

LEMMA InitFeedInv == Init => FeedInv
BY DEF Init, FeedInv, LockInv, CursorInv, OrderInv, UniqueInv, PosInv, ReaderInv

\* The variables that FeedInv is about.
logVars == <<events, nextCursor, feedLock, appended, pos, got>>

\* A step that only moves transactions between the other places of the code.
LEMMA QuietFeedInv ==
  ASSUME FeedInv, UNCHANGED logVars,
         \A u \in Writers : pc'[u] = "insert" => pc[u] = "insert"
  PROVE  FeedInv'
BY DEF FeedInv, LockInv, CursorInv, OrderInv, UniqueInv, PosInv, ReaderInv, logVars

LEMMA TakeFeedLockFeedInv ==
  ASSUME TypeOK, FeedInv, NEW w \in Writers, TakeFeedLock(w)
  PROVE  FeedInv'
<1>1. LockInv'
  BY FeedConstants DEF TypeOK, FeedInv, LockInv, TakeFeedLock, FeedLockFree
<1> QED
  BY <1>1 DEF FeedInv, CursorInv, OrderInv, UniqueInv, PosInv, ReaderInv, TakeFeedLock, readVars

LEMMA InsertEventFeedInv ==
  ASSUME TypeOK, FeedInv, NEW w \in Writers, InsertEvent(w)
  PROVE  FeedInv'
<1> DEFINE new == [cursor |-> nextCursor, row |-> stmt[w].row, val |-> stmt[w].val]
<1>1. /\ appended' = [appended EXCEPT ![w] = @ \cup {new}]
      /\ appended \in [Writers -> SUBSET Event]
      /\ new.cursor = nextCursor
      /\ nextCursor' = nextCursor + 1 /\ nextCursor \in Nat \ {0}
      /\ UNCHANGED <<events, feedLock, pos, got>>
  BY DEF InsertEvent, TypeOK, readVars
<1>2. \A u \in Writers : \A e \in appended'[u] : e \in appended[u] \/ (u = w /\ e = new)
  BY <1>1
<1> HIDE DEF new
<1>3. \A u \in Writers : \A e \in appended[u] : e.cursor \in Nat
  BY <1>1 DEF Event
<1>4. \A e \in events : e.cursor \in Nat
  BY DEF TypeOK, Event
<1>5. LockInv'
  BY <1>1, <1>2 DEF FeedInv, LockInv, InsertEvent, TypeOK
<1>6. CursorInv'
  BY <1>1, <1>2, <1>3, <1>4 DEF FeedInv, CursorInv
<1>7. OrderInv'
  BY <1>1, <1>2, <1>3, <1>4 DEF FeedInv, CursorInv, OrderInv
<1>8. UniqueInv'
  BY <1>1, <1>2, <1>3, <1>4 DEF FeedInv, CursorInv, UniqueInv
<1>9. PosInv' /\ ReaderInv'
  BY <1>1 DEF FeedInv, PosInv, ReaderInv
<1> QED BY <1>5, <1>6, <1>7, <1>8, <1>9 DEF FeedInv

\* The end of a transaction, committed (new = appended[w]) or not (new = {}).
LEMMA EndTxFeedInv ==
  ASSUME TypeOK, FeedInv, NEW w \in Writers, EndTx(w),
         events' = events \/ events' = events \cup appended[w]
  PROVE  FeedInv'
<1>1. /\ appended' = [appended EXCEPT ![w] = {}]
      /\ appended \in [Writers -> SUBSET Event]
      /\ events \subseteq events' /\ events' \subseteq events \cup appended[w]
      /\ nextCursor' = nextCursor /\ nextCursor \in Nat
      /\ pos \in [Readers -> Nat]
      /\ UNCHANGED <<pos, got>>
  BY DEF EndTx, TypeOK, readVars
<1>2. \A u \in Writers : \A e \in appended'[u] : u # w /\ e \in appended[u]
  BY <1>1
<1>3. /\ \A u \in Writers : \A e \in appended[u] : e.cursor \in Nat
      /\ \A e \in events : e.cursor \in Nat
  BY DEF TypeOK, Event
<1>4. LockInv'
  BY <1>2 DEF FeedInv, LockInv, EndTx, FeedLockAfter, TypeOK
<1>5. CursorInv'
  BY <1>1, <1>2 DEF FeedInv, CursorInv
<1>6. OrderInv'
  <2>1. \A u \in Writers : appended'[u] # {} => appended[w] = {}
    BY <1>2 DEF FeedInv, LockInv
  <2> QED BY <1>1, <1>2, <2>1 DEF FeedInv, OrderInv
<1>7. UniqueInv'
  BY <1>1, <1>2, <1>3 DEF FeedInv, UniqueInv, OrderInv
<1>8. PosInv'
  BY <1>1 DEF FeedInv, PosInv
<1>9. ReaderInv'
  <2>1. \A r \in Readers : \A e \in appended[w] : ~(e.cursor <= pos[r])
    BY <1>1, <1>3 DEF FeedInv, PosInv, OrderInv, CursorInv
  <2> QED BY <1>1, <2>1 DEF FeedInv, ReaderInv
<1> QED BY <1>4, <1>5, <1>6, <1>7, <1>8, <1>9 DEF FeedInv

LEMMA PollFeedInv ==
  ASSUME TypeOK, FeedInv, NEW r \in Readers, Poll(r)
  PROVE  FeedInv'
<1>0. PICK P \in SUBSET Newer(r) :
        /\ IsPage(r, P)
        /\ got' = [got EXCEPT ![r] = @ \cup P]
        /\ \E last \in P :
             /\ \A e \in P : e.cursor <= last.cursor
             /\ pos' = [pos EXCEPT ![r] = last.cursor]
  BY DEF Poll
<1>1. PICK last \in P :
        /\ \A e \in P : e.cursor <= last.cursor
        /\ pos' = [pos EXCEPT ![r] = last.cursor]
  BY <1>0
<1>2. /\ UNCHANGED <<events, nextCursor, feedLock, appended, pc>>
      /\ pos \in [Readers -> Nat] /\ got \in [Readers -> SUBSET Event]
      /\ \A e \in events : e.cursor \in Nat
  BY DEF Poll, dbVars, txVars, TypeOK, Event
<1>3. LockInv' /\ CursorInv' /\ OrderInv' /\ UniqueInv'
  BY <1>2 DEF FeedInv, LockInv, CursorInv, OrderInv, UniqueInv
<1>4. PosInv'
  BY <1>1, <1>2 DEF FeedInv, PosInv, Newer
<1>5. ReaderInv'
  <2>1. P = {e \in Newer(r) : e.cursor <= last.cursor}
    <3>1. ASSUME NEW e \in Newer(r), e.cursor <= last.cursor PROVE e \in P
      BY <1>0, <1>1, <1>2, <3>1 DEF IsPage, Newer, FeedInv, UniqueInv
    <3> QED BY <1>1, <3>1
  <2>2. pos[r] < last.cursor
    BY DEF Newer
  <2>3. got'[r] = {e \in events : e.cursor <= last.cursor}
    BY <1>0, <1>1, <1>2, <2>1, <2>2 DEF FeedInv, ReaderInv, Newer
  <2> QED BY <1>0, <1>1, <1>2, <2>3 DEF FeedInv, ReaderInv
<1> QED BY <1>3, <1>4, <1>5 DEF FeedInv

LEMMA StepFeedInv == TypeOK /\ FeedInv /\ [Next]_vars => FeedInv'
<1> SUFFICES ASSUME TypeOK, FeedInv, [Next]_vars PROVE FeedInv'
  OBVIOUS
<1>1. ASSUME NEW w \in Writers, NEW page, StartOn(w, page) PROVE FeedInv'
  BY <1>1, QuietFeedInv DEF StartOn, dbVars, readVars, logVars, TypeOK
<1>2. ASSUME NEW w \in Importers, FetchImport(w) PROVE FeedInv'
  BY <1>1, <1>2 DEF FetchImport, Writers
<1>3. ASSUME NEW w \in Hashers, FetchHash(w) PROVE FeedInv'
  BY <1>1, <1>3 DEF FetchHash, Writers
<1>4. ASSUME NEW w \in Registrars, FetchUpload(w) PROVE FeedInv'
  BY <1>1, <1>4 DEF FetchUpload, Writers
<1>5. ASSUME NEW w \in Writers, NextRow(w) PROVE FeedInv'
  BY <1>5, QuietFeedInv DEF NextRow, dbVars, readVars, logVars, TypeOK
<1>6. ASSUME NEW w \in Writers, Upsert(w) PROVE FeedInv'
  BY <1>6, QuietFeedInv DEF Upsert, readVars, logVars, TypeOK
<1>7. ASSUME NEW w \in Writers, Commit(w) PROVE FeedInv'
  BY <1>7, EndTxFeedInv DEF Commit
<1>8. ASSUME NEW w \in Writers, Rollback(w) PROVE FeedInv'
  BY <1>8, EndTxFeedInv DEF Rollback
<1>9. CASE UNCHANGED vars
  BY <1>9, QuietFeedInv DEF vars, dbVars, txVars, readVars, logVars
<1> QED
  BY <1>2, <1>3, <1>4, <1>5, <1>6, <1>7, <1>8, <1>9,
     TakeFeedLockFeedInv, InsertEventFeedInv, PollFeedInv DEF Next, Statement

LEMMA FeedInvHolds == Spec => [](TypeOK /\ FeedInv)
BY InitTypeOK, StepTypeOK, InitFeedInv, StepFeedInv, PTL DEF Spec

\* No event becomes visible behind a consumer's cursor, however the writers'
\* transactions overlap, commit and roll back.
THEOREM FeedNeverSkips == Spec => []NoSkippedEvent
<1>1. FeedInv => NoSkippedEvent
  BY DEF FeedInv, ReaderInv, NoSkippedEvent
<1> QED BY <1>1, FeedInvHolds, PTL

----------------------------------------------------------------------------
(* The feed implements the abstract log: a commit publishes, a poll        *)
(* delivers, and every other step is invisible.                            *)

LEMMA CommitPublishes ==
  ASSUME FeedInv, NEW w \in Writers, Commit(w)
  PROVE  Log!Publish
BY DEF FeedInv, OrderInv, Commit, EndTx, readVars, Log!Publish

LEMMA PollDelivers ==
  ASSUME TypeOK, FeedInv, FeedInv', NEW r \in Readers, Poll(r)
  PROVE  Log!Deliver(r)
<1>1. PICK P \in SUBSET Newer(r) :
        /\ got' = [got EXCEPT ![r] = @ \cup P]
        /\ \E last \in P : pos' = [pos EXCEPT ![r] = last.cursor]
  BY DEF Poll
<1>2. got \in [Readers -> SUBSET Event] /\ pos \in [Readers -> Nat] /\ events' = events
      /\ \A e \in events : e.cursor \in Nat
  BY DEF TypeOK, Poll, dbVars, Event
<1>3. got' = [got EXCEPT ![r] = got'[r]] /\ got[r] \subseteq got'[r]
  BY <1>1, <1>2
<1>4. got'[r] = {e \in events : e.cursor <= pos'[r]} /\ pos'[r] \in Nat
  BY <1>1, <1>2 DEF FeedInv, ReaderInv, Newer
<1> QED BY <1>2, <1>3, <1>4 DEF Log!Deliver

\* Consumers of media_feed_events see an append-only log in cursor order.
THEOREM FeedImplementsLog == Spec => ImplementsFeedLog
<1>1. Init => Log!Init
  BY DEF Init, Log!Init
<1>2. TypeOK /\ FeedInv /\ FeedInv' /\ [Next]_vars => [Log!Next]_(Log!logVars)
  <2> SUFFICES ASSUME TypeOK, FeedInv, FeedInv', [Next]_vars
               PROVE  Log!Next \/ UNCHANGED <<events, got>>
    BY DEF Log!logVars
  <2>1. ASSUME NEW w \in Writers, NEW page, StartOn(w, page) PROVE UNCHANGED <<events, got>>
    BY <2>1 DEF StartOn, dbVars, readVars
  <2>2. ASSUME NEW w \in Importers, FetchImport(w) PROVE UNCHANGED <<events, got>>
    BY <2>1, <2>2 DEF FetchImport, Writers
  <2>3. ASSUME NEW w \in Hashers, FetchHash(w) PROVE UNCHANGED <<events, got>>
    BY <2>1, <2>3 DEF FetchHash, Writers
  <2>4. ASSUME NEW w \in Registrars, FetchUpload(w) PROVE UNCHANGED <<events, got>>
    BY <2>1, <2>4 DEF FetchUpload, Writers
  <2>5. ASSUME NEW w \in Writers, Statement(w) \/ Rollback(w)
        PROVE  Log!Next \/ UNCHANGED <<events, got>>
    BY <2>5, CommitPublishes DEF Statement, NextRow, Upsert, TakeFeedLock, InsertEvent,
       Rollback, EndTx, dbVars, readVars, Log!Next
  <2>6. ASSUME NEW r \in Readers, Poll(r) PROVE Log!Next
    BY <2>6, PollDelivers DEF Log!Next
  <2>7. CASE UNCHANGED vars
    BY <2>7 DEF vars, dbVars, txVars, readVars
  <2> QED BY <2>2, <2>3, <2>4, <2>5, <2>6, <2>7 DEF Next
<1> QED
  BY <1>1, <1>2, FeedInvHolds, PTL DEF Spec, ImplementsFeedLog, Log!Spec

----------------------------------------------------------------------------
(* Replaying the feed.  The newest event of a hash row carries its contents *)
(* because a transaction holds the lock of every row it has written, from   *)
(* the comparison with the old contents until its event is committed.       *)

HashTables == {"legacy", "canonical"}
HasStmt(w) == pc[w] \in {"upsert", "append", "insert"}
OwesEvent(w) == pc[w] \in {"append", "insert"}

\* A written row is locked, so no two transactions have written one row.
RowLockInv == \A w \in Writers, r \in Row : wrote[w][r] # Unset => rowLock[r] = w

\* No transaction takes a row twice.
TodoInv == \A w \in Writers : \A r \in todo[w] : wrote[w][r] = Unset

StmtInv ==
  \A w \in Writers :
    /\ HasStmt(w) => stmt[w].row \notin todo[w]
    /\ pc[w] = "upsert" => wrote[w][stmt[w].row] = Unset
    /\ OwesEvent(w) => /\ wrote[w][stmt[w].row] = stmt[w].val
                       /\ \A e \in appended[w] : e.row # stmt[w].row

\* The events of a transaction: one for a row, with what it has written there.
AppendedInv ==
  \A w \in Writers :
    /\ \A e \in appended[w] : wrote[w][e.row] = e.val
    /\ \A e, f \in appended[w] : e.row = f.row => e = f

IdleInv ==
  \A w \in Writers : pc[w] = "idle" =>
    todo[w] = {} /\ appended[w] = {} /\ \A r \in Row : wrote[w][r] = Unset

\* The ingest hook, that appends no event, does not touch the hashes.
RegistrarInv ==
  \A w \in Registrars :
    /\ \A r \in todo[w] : r[2] = "media"
    /\ HasStmt(w) => stmt[w].row[2] = "media"

\* A hash row that a transaction has written is as it was, or has its event, or
\* its event comes next.
OwedInv ==
  \A w \in Writers, r \in Row :
    r[2] \in HashTables /\ wrote[w][r] # Unset =>
      \/ wrote[w][r] = rows[r]
      \/ \E e \in appended[w] : e.row = r
      \/ OwesEvent(w) /\ stmt[w].row = r

TxInv ==
  RowLockInv /\ TodoInv /\ StmtInv /\ AppendedInv /\ IdleInv /\ RegistrarInv /\ OwedInv

LEMMA InitTxInv == Init => TxInv /\ FeedReplaysHashes
<1> SUFFICES ASSUME Init PROVE TxInv /\ FeedReplaysHashes
  OBVIOUS
<1>1. \A w \in Writers : /\ todo[w] = {} /\ appended[w] = {} /\ pc[w] = "idle"
                         /\ \A r \in Row : wrote[w][r] = Unset
  BY DEF Init, Blank
<1>2. RowLockInv /\ TodoInv /\ StmtInv /\ AppendedInv /\ IdleInv /\ OwedInv
  BY <1>1 DEF RowLockInv, TodoInv, StmtInv, AppendedInv, IdleInv, OwedInv, HasStmt, OwesEvent
<1>3. RegistrarInv
  BY <1>1 DEF RegistrarInv, HasStmt, Writers
<1>4. FeedReplaysHashes
  BY DEF Init, FeedReplaysHashes, Replays
<1> QED BY <1>2, <1>3, <1>4 DEF TxInv

LEMMA StartOnTxInv ==
  ASSUME TypeOK, TxInv, NEW w \in Writers, NEW page \in SUBSET Row, StartOn(w, page),
         w \in Registrars => \A r \in page : r[2] = "media"
  PROVE  TxInv'
<1>1. /\ pc[w] = "idle" /\ pc' = [pc EXCEPT ![w] = "ready"]
      /\ todo' = [todo EXCEPT ![w] = page]
      /\ UNCHANGED <<rows, rowLock, stmt, wrote, appended>>
      /\ w \in DOMAIN pc /\ w \in DOMAIN todo
  BY DEF StartOn, dbVars, readVars, TypeOK
<1>2. RowLockInv' /\ AppendedInv'
  BY <1>1 DEF TxInv, RowLockInv, AppendedInv
<1>3. TodoInv'
  BY <1>1 DEF TxInv, TodoInv, IdleInv
<1>4. StmtInv'
  BY <1>1 DEF TxInv, StmtInv, HasStmt, OwesEvent
<1>5. IdleInv'
  BY <1>1 DEF TxInv, IdleInv
<1>6. RegistrarInv'
  BY <1>1 DEF TxInv, RegistrarInv, HasStmt
<1>7. OwedInv'
  BY <1>1 DEF TxInv, OwedInv, OwesEvent
<1> QED BY <1>2, <1>3, <1>4, <1>5, <1>6, <1>7 DEF TxInv

LEMMA NextRowTxInv ==
  ASSUME TypeOK, TxInv, NEW w \in Writers, NextRow(w)
  PROVE  TxInv'
<1>1. PICK r \in todo[w] : \E x \in Values :
        /\ stmt' = [stmt EXCEPT ![w] = [row |-> r, val |-> x]]
        /\ todo' = [todo EXCEPT ![w] = @ \ {r}]
  BY DEF NextRow
<1>2. stmt'[w].row = r /\ \A u \in Writers \ {w} : stmt'[u] = stmt[u]
  BY <1>1 DEF TypeOK
<1>3. /\ pc[w] = "ready" /\ pc' = [pc EXCEPT ![w] = "upsert"]
      /\ todo' = [todo EXCEPT ![w] = @ \ {r}]
      /\ UNCHANGED <<rows, rowLock, wrote, appended>>
      /\ pc \in [Writers -> {"idle", "ready", "upsert", "append", "insert"}]
      /\ todo \in [Writers -> SUBSET Row]
  BY <1>1 DEF NextRow, dbVars, readVars, TypeOK
<1>4. RowLockInv' /\ AppendedInv'
  BY <1>3 DEF TxInv, RowLockInv, AppendedInv
<1>5. TodoInv'
  BY <1>3 DEF TxInv, TodoInv
<1>6. StmtInv'
  BY <1>2, <1>3 DEF TxInv, StmtInv, TodoInv, HasStmt, OwesEvent
<1>7. IdleInv'
  BY <1>3 DEF TxInv, IdleInv
<1>8. RegistrarInv'
  BY <1>2, <1>3 DEF TxInv, RegistrarInv, HasStmt, Writers
<1>9. OwedInv'
  BY <1>2, <1>3 DEF TxInv, OwedInv, OwesEvent
<1> QED BY <1>4, <1>5, <1>6, <1>7, <1>8, <1>9 DEF TxInv

LEMMA UpsertTxInv ==
  ASSUME TypeOK, TxInv, NEW w \in Writers, Upsert(w)
  PROVE  TxInv'
<1> SUFFICES ASSUME NEW r, r = stmt[w].row, NEW x, x = stmt[w].val PROVE TxInv'
  OBVIOUS
<1>1. /\ pc[w] = "upsert" /\ r \in Row /\ x \in Values /\ x # Unset
      /\ rowLock[r] = Nobody \/ rowLock[r] = w
      /\ wrote[w][r] = Unset /\ r \notin todo[w]
  BY FeedConstants DEF Upsert, TypeOK, Stmt, TxInv, StmtInv, HasStmt
<1>2. /\ UNCHANGED <<rows, todo, appended>>
      /\ rowLock' = [rowLock EXCEPT ![r] = w]
      /\ wrote' = [wrote EXCEPT ![w] = [@ EXCEPT ![r] = x]]
  BY DEF Upsert, readVars
<1>3. /\ \A u \in Writers \ {w} : pc'[u] = pc[u] /\ stmt'[u] = stmt[u]
      /\ \/ pc'[w] = "append" /\ stmt'[w] = stmt[w]
         \/ pc'[w] = "ready" /\ (w \in Registrars \/ x = rows[r])
  <2>1. CASE EmitsOn(w, rows[r], x)
    BY <2>1 DEF Upsert, TypeOK
  <2>2. CASE ~EmitsOn(w, rows[r], x)
    BY <2>2 DEF Upsert, TypeOK, EmitsOn
  <2> QED BY <2>1, <2>2
<1>4. /\ wrote'[w][r] = x
      /\ \A q \in Row \ {r} : wrote'[w][q] = wrote[w][q]
      /\ \A u \in Writers \ {w} : wrote'[u] = wrote[u]
  BY <1>1, <1>2 DEF TypeOK
<1>5. rowLock'[r] = w /\ \A q \in Row \ {r} : rowLock'[q] = rowLock[q]
  BY <1>1, <1>2 DEF TypeOK
<1>6. todo[w] \subseteq Row /\ \A u \in Writers : \A e \in appended[u] : e.row \in Row
  BY DEF TypeOK, Event
<1>7. \A u \in Writers \ {w} : wrote[u][r] = Unset
  BY <1>1, FeedConstants DEF TxInv, RowLockInv
<1>8. \A e \in appended[w] : e.row # r
  BY <1>1, FeedConstants DEF TxInv, AppendedInv, TypeOK, Event
<1>9. RowLockInv'
  BY <1>4, <1>5, <1>7 DEF TxInv, RowLockInv
<1>10. TodoInv'
  BY <1>1, <1>2, <1>4, <1>6 DEF TxInv, TodoInv
<1>11. StmtInv'
  <2>1. ASSUME NEW u \in Writers \ {w}
        PROVE  /\ HasStmt(u)' => stmt'[u].row \notin todo'[u]
               /\ pc'[u] = "upsert" => wrote'[u][stmt'[u].row] = Unset
               /\ OwesEvent(u)' => /\ wrote'[u][stmt'[u].row] = stmt'[u].val
                                   /\ \A e \in appended'[u] : e.row # stmt'[u].row
    BY <1>2, <1>3, <1>4 DEF TxInv, StmtInv, HasStmt, OwesEvent
  <2>2. /\ HasStmt(w)' => stmt'[w].row \notin todo'[w]
        /\ pc'[w] # "upsert"
        /\ OwesEvent(w)' => /\ wrote'[w][stmt'[w].row] = stmt'[w].val
                            /\ \A e \in appended'[w] : e.row # stmt'[w].row
    BY <1>1, <1>2, <1>3, <1>4, <1>8 DEF HasStmt, OwesEvent
  <2> QED BY <2>1, <2>2 DEF StmtInv
<1>12. AppendedInv'
  BY <1>2, <1>4, <1>6, <1>8 DEF TxInv, AppendedInv
<1>13. IdleInv'
  BY <1>2, <1>3, <1>4 DEF TxInv, IdleInv
<1>14. RegistrarInv'
  BY <1>1, <1>2, <1>3 DEF TxInv, RegistrarInv, HasStmt, Writers
<1>15. OwedInv'
  <2>1. ASSUME NEW u \in Writers \ {w}, NEW q \in Row, q[2] \in HashTables, wrote'[u][q] # Unset
        PROVE  \/ wrote'[u][q] = rows'[q]
               \/ \E e \in appended'[u] : e.row = q
               \/ OwesEvent(u)' /\ stmt'[u].row = q
    BY <1>2, <1>3, <1>4, <2>1 DEF TxInv, OwedInv, OwesEvent
  <2>2. ASSUME NEW q \in Row \ {r}, q[2] \in HashTables, wrote'[w][q] # Unset
        PROVE  wrote'[w][q] = rows'[q] \/ \E e \in appended'[w] : e.row = q
    BY <1>1, <1>2, <1>4, <2>2 DEF TxInv, OwedInv, OwesEvent
  <2>3. r[2] \in HashTables => wrote'[w][r] = rows'[r] \/ (OwesEvent(w)' /\ stmt'[w].row = r)
    <3>1. w \in Registrars => r[2] \notin HashTables
      BY <1>1 DEF TxInv, RegistrarInv, HasStmt, HashTables
    <3> QED BY <1>2, <1>3, <1>4, <3>1 DEF OwesEvent
  <2> QED BY <2>1, <2>2, <2>3 DEF OwedInv
<1> QED BY <1>9, <1>10, <1>11, <1>12, <1>13, <1>14, <1>15 DEF TxInv

LEMMA TakeFeedLockTxInv ==
  ASSUME TypeOK, TxInv, NEW w \in Writers, TakeFeedLock(w)
  PROVE  TxInv'
<1>1. /\ pc[w] = "append" /\ pc' = [pc EXCEPT ![w] = "insert"]
      /\ UNCHANGED <<rows, rowLock, todo, stmt, wrote, appended>>
      /\ w \in DOMAIN pc
  BY DEF TakeFeedLock, TypeOK, readVars
<1>2. /\ \A u \in Writers : HasStmt(u)' = HasStmt(u) /\ OwesEvent(u)' = OwesEvent(u)
      /\ \A u \in Writers : pc'[u] = "upsert" => pc[u] = "upsert"
      /\ \A u \in Writers : pc'[u] = "idle" => pc[u] = "idle"
  BY <1>1 DEF HasStmt, OwesEvent
<1>3. RowLockInv' /\ TodoInv' /\ AppendedInv'
  BY <1>1 DEF TxInv, RowLockInv, TodoInv, AppendedInv
<1>4. StmtInv'
  BY <1>1, <1>2 DEF TxInv, StmtInv
<1>5. IdleInv' /\ RegistrarInv' /\ OwedInv'
  BY <1>1, <1>2 DEF TxInv, IdleInv, RegistrarInv, OwedInv, Writers
<1> QED BY <1>3, <1>4, <1>5 DEF TxInv

LEMMA InsertEventTxInv ==
  ASSUME TypeOK, TxInv, NEW w \in Writers, InsertEvent(w)
  PROVE  TxInv'
<1> SUFFICES ASSUME NEW new,
                    new = [cursor |-> nextCursor, row |-> stmt[w].row, val |-> stmt[w].val]
             PROVE  TxInv'
  OBVIOUS
<1>1. /\ pc[w] = "insert" /\ new.row = stmt[w].row /\ new.val = stmt[w].val
      /\ wrote[w][new.row] = new.val /\ \A e \in appended[w] : e.row # new.row
  BY DEF InsertEvent, TxInv, StmtInv, OwesEvent
<1>2. UNCHANGED <<rows, rowLock, todo, wrote>>
  BY DEF InsertEvent, readVars
<1>3. /\ pc'[w] = "ready" /\ \A u \in Writers \ {w} : pc'[u] = pc[u] /\ stmt'[u] = stmt[u]
      /\ appended'[w] = appended[w] \cup {new}
      /\ \A u \in Writers \ {w} : appended'[u] = appended[u]
  BY DEF InsertEvent, TypeOK
<1>4. RowLockInv' /\ TodoInv'
  BY <1>2 DEF TxInv, RowLockInv, TodoInv
<1>5. StmtInv'
  BY <1>2, <1>3 DEF TxInv, StmtInv, HasStmt, OwesEvent
<1>6. AppendedInv'
  BY <1>1, <1>2, <1>3 DEF TxInv, AppendedInv
<1>7. IdleInv'
  BY <1>2, <1>3 DEF TxInv, IdleInv
<1>8. RegistrarInv'
  BY <1>2, <1>3 DEF TxInv, RegistrarInv, HasStmt, Writers
<1>9. OwedInv'
  <2>1. ASSUME NEW q \in Row, q[2] \in HashTables, wrote'[w][q] # Unset
        PROVE  wrote'[w][q] = rows'[q] \/ \E e \in appended'[w] : e.row = q
    BY <1>1, <1>2, <1>3, <2>1 DEF TxInv, OwedInv
  <2>2. ASSUME NEW u \in Writers \ {w}, NEW q \in Row, q[2] \in HashTables, wrote'[u][q] # Unset
        PROVE  \/ wrote'[u][q] = rows'[q]
               \/ \E e \in appended'[u] : e.row = q
               \/ OwesEvent(u)' /\ stmt'[u].row = q
    BY <1>2, <1>3, <2>2 DEF TxInv, OwedInv, OwesEvent
  <2> QED BY <2>1, <2>2 DEF OwedInv
<1> QED BY <1>4, <1>5, <1>6, <1>7, <1>8, <1>9 DEF TxInv

\* The end of a transaction leaves the rows that others have written alone.
LEMMA EndTxTxInv ==
  ASSUME TypeOK, TxInv, NEW w \in Writers, EndTx(w),
         rows' = rows \/ rows' = [r \in Row |-> AfterCommit(w, r)]
  PROVE  TxInv'
<1>1. /\ pc'[w] = "idle" /\ todo'[w] = {} /\ appended'[w] = {}
      /\ \A r \in Row : wrote'[w][r] = Unset
  BY DEF EndTx, TypeOK, Blank
<1>2. \A u \in Writers \ {w} : /\ pc'[u] = pc[u] /\ todo'[u] = todo[u] /\ stmt'[u] = stmt[u]
                               /\ wrote'[u] = wrote[u] /\ appended'[u] = appended[u]
  BY DEF EndTx, TypeOK
<1>3. \A u \in Writers \ {w}, r \in Row :
        wrote[u][r] # Unset => rowLock'[r] = u /\ rows'[r] = rows[r]
  <2> SUFFICES ASSUME NEW u \in Writers \ {w}, NEW r \in Row, wrote[u][r] # Unset
               PROVE  rowLock'[r] = u /\ rows'[r] = rows[r]
    OBVIOUS
  <2>1. rowLock[r] = u /\ wrote[w][r] = Unset
    BY DEF TxInv, RowLockInv
  <2> QED BY <2>1 DEF EndTx, AfterCommit
<1>4. RowLockInv'
  BY <1>1, <1>2, <1>3 DEF RowLockInv
<1>5. TodoInv'
  BY <1>1, <1>2 DEF TxInv, TodoInv
<1>6. StmtInv'
  BY <1>1, <1>2 DEF TxInv, StmtInv, HasStmt, OwesEvent
<1>7. AppendedInv'
  BY <1>1, <1>2 DEF TxInv, AppendedInv
<1>8. IdleInv'
  BY <1>1, <1>2 DEF TxInv, IdleInv
<1>9. RegistrarInv'
  BY <1>1, <1>2 DEF TxInv, RegistrarInv, HasStmt, Writers
<1>10. OwedInv'
  BY <1>1, <1>2, <1>3 DEF TxInv, OwedInv, OwesEvent
<1> QED BY <1>4, <1>5, <1>6, <1>7, <1>8, <1>9, <1>10 DEF TxInv

LEMMA QuietTxInv ==
  ASSUME TxInv, UNCHANGED <<rows, rowLock, pc, todo, stmt, wrote, appended>>
  PROVE  TxInv'
<1>1. \A u \in Writers : HasStmt(u)' = HasStmt(u) /\ OwesEvent(u)' = OwesEvent(u)
  BY DEF HasStmt, OwesEvent
<1>2. StmtInv'
  BY <1>1 DEF TxInv, StmtInv
<1>3. RegistrarInv'
  BY <1>1 DEF TxInv, RegistrarInv, Writers
<1> QED
  BY <1>1, <1>2, <1>3 DEF TxInv, RowLockInv, TodoInv, AppendedInv, IdleInv, OwedInv

LEMMA StepTxInv == TypeOK /\ TxInv /\ [Next]_vars => TxInv'
<1> SUFFICES ASSUME TypeOK, TxInv, [Next]_vars PROVE TxInv'
  OBVIOUS
<1>1. ASSUME NEW w \in Importers, FetchImport(w) PROVE TxInv'
  <2>1. PICK lo \in Videos, hi \in Videos :
          LET page == {v \in Videos : lo <= v /\ v <= hi /\ rows[<<v, "media">>] = NoValue}
          IN StartOn(w, (page \X {"media"}) \cup ((page \cap LegacyHash) \X {"legacy"}))
    BY <1>1 DEF FetchImport
  <2> DEFINE page == {v \in Videos : lo <= v /\ v <= hi /\ rows[<<v, "media">>] = NoValue}
  <2>2. (page \X {"media"}) \cup ((page \cap LegacyHash) \X {"legacy"}) \in SUBSET Row
    BY DEF Row, Tables
  <2>3. w \in Writers /\ w \notin Registrars
    BY FeedConstants DEF Writers
  <2> QED BY <2>1, <2>2, <2>3, StartOnTxInv
<1>2. ASSUME NEW w \in Hashers, FetchHash(w) PROVE TxInv'
  <2>1. PICK v \in Videos : StartOn(w, {<<v, "canonical">>})
    BY <1>2 DEF FetchHash
  <2>2. {<<v, "canonical">>} \in SUBSET Row /\ w \in Writers /\ w \notin Registrars
    BY FeedConstants DEF Row, Tables, Writers
  <2> QED BY <2>1, <2>2, StartOnTxInv
<1>3. ASSUME NEW w \in Registrars, FetchUpload(w) PROVE TxInv'
  <2>1. PICK v \in Videos : StartOn(w, {<<v, "media">>})
    BY <1>3 DEF FetchUpload
  <2>2. {<<v, "media">>} \in SUBSET Row /\ w \in Writers
    BY DEF Row, Tables, Writers
  <2>3. \A r \in {<<v, "media">>} : r[2] = "media"
    OBVIOUS
  <2> QED BY <2>1, <2>2, <2>3, StartOnTxInv
<1>4. ASSUME NEW w \in Writers, Commit(w) PROVE TxInv'
  BY <1>4, EndTxTxInv DEF Commit
<1>5. ASSUME NEW w \in Writers, Rollback(w) PROVE TxInv'
  BY <1>5, EndTxTxInv DEF Rollback
<1>6. ASSUME NEW r \in Readers, Poll(r) PROVE TxInv'
  BY <1>6, QuietTxInv DEF Poll, dbVars, txVars
<1>7. CASE UNCHANGED vars
  BY <1>7, QuietTxInv DEF vars, dbVars, txVars
<1> QED
  BY <1>1, <1>2, <1>3, <1>4, <1>5, <1>6, <1>7, NextRowTxInv, UpsertTxInv,
     TakeFeedLockTxInv, InsertEventTxInv DEF Next, Statement

\* A commit: for a row it has written the newest event is its own, or it has
\* left the row as it was; a row it has not written has no event of its own.
LEMMA CommitReplays ==
  ASSUME TypeOK, FeedInv, TxInv, FeedReplaysHashes, NEW w \in Writers, Commit(w)
  PROVE  FeedReplaysHashes'
<1>1. /\ events' = events \cup appended[w] /\ ~OwesEvent(w)
      /\ \A r \in Row : rows'[r] = AfterCommit(w, r)
  BY DEF Commit, OwesEvent
<1>2. /\ \A e \in appended[w] : e.val \in Values /\ e.row \in Row /\ e.cursor \in Nat
      /\ \A e \in events : e.cursor \in Nat
  BY DEF TypeOK, Event
<1>3. ASSUME NEW r \in Row, r[2] \in HashTables, rows'[r] # NoValue
      PROVE  \E e \in events' : /\ e.row = r /\ e.val = rows'[r]
                                /\ \A f \in events' : f.row = r => f.cursor <= e.cursor
  <2>1. CASE \E e \in appended[w] : e.row = r
    <3>1. PICK e \in appended[w] : e.row = r
      BY <2>1
    <3>2. e.val = wrote[w][r] /\ e.val = rows'[r]
      BY <1>1, <1>2, <3>1, FeedConstants DEF TxInv, AppendedInv, AfterCommit
    <3>3. \A f \in events : f.cursor <= e.cursor
      BY <1>2 DEF FeedInv, OrderInv
    <3>4. \A f \in appended[w] : f.row = r => f.cursor <= e.cursor
      BY <1>2, <3>1 DEF TxInv, AppendedInv
    <3> QED BY <1>1, <3>1, <3>2, <3>3, <3>4
  <2>2. CASE ~\E e \in appended[w] : e.row = r
    <3>1. rows'[r] = rows[r]
      BY <1>1, <1>3, <2>2 DEF TxInv, OwedInv, AfterCommit
    <3>2. PICK e \in events : /\ e.row = r /\ e.val = rows[r]
                              /\ \A f \in events : f.row = r => f.cursor <= e.cursor
      BY <1>3, <3>1 DEF FeedReplaysHashes, Replays, HashTables
    <3> QED BY <1>1, <2>2, <3>1, <3>2
  <2> QED BY <2>1, <2>2
<1> QED BY <1>3 DEF FeedReplaysHashes, Replays, HashTables

LEMMA StepReplays ==
  TypeOK /\ FeedInv /\ TxInv /\ FeedReplaysHashes /\ [Next]_vars => FeedReplaysHashes'
<1> SUFFICES ASSUME TypeOK, FeedInv, TxInv, FeedReplaysHashes, [Next]_vars
             PROVE  FeedReplaysHashes'
  OBVIOUS
<1>1. ASSUME UNCHANGED <<rows, events>> PROVE FeedReplaysHashes'
  BY <1>1 DEF FeedReplaysHashes, Replays
<1>2. ASSUME NEW w \in Writers, NEW page, StartOn(w, page) PROVE FeedReplaysHashes'
  BY <1>1, <1>2 DEF StartOn, dbVars
<1>3. ASSUME NEW w \in Writers, FetchImport(w) \/ FetchHash(w) \/ FetchUpload(w)
      PROVE  FeedReplaysHashes'
  BY <1>2, <1>3 DEF FetchImport, FetchHash, FetchUpload
<1>4. ASSUME NEW w \in Writers, NextRow(w) \/ Upsert(w) \/ TakeFeedLock(w) \/ InsertEvent(w)
      PROVE  FeedReplaysHashes'
  BY <1>1, <1>4 DEF NextRow, Upsert, TakeFeedLock, InsertEvent, dbVars
<1>5. ASSUME NEW w \in Writers, Rollback(w) PROVE FeedReplaysHashes'
  BY <1>1, <1>5 DEF Rollback
<1>6. ASSUME NEW r \in Readers, Poll(r) PROVE FeedReplaysHashes'
  BY <1>1, <1>6 DEF Poll, dbVars
<1>7. CASE UNCHANGED vars
  BY <1>1, <1>7 DEF vars, dbVars
<1> QED
  BY <1>3, <1>4, <1>5, <1>6, <1>7, CommitReplays DEF Next, Statement, Writers

\* Whoever replays the feed has the hashes that the tables hold, whatever the
\* import and the pHash job write over each other and roll back.
THEOREM FeedReplays == Spec => []FeedReplaysHashes
BY InitTypeOK, StepTypeOK, InitFeedInv, StepFeedInv, InitTxInv, StepTxInv, StepReplays,
   PTL DEF Spec

-----------------------------------------------------------------------------
(* Finite sets of rows                                                     *)

LEMMA HasMin ==
  ASSUME NEW S, S \subseteq Nat, S # {}
  PROVE  \E x \in S : \A y \in S : x <= y
<1> DEFINE Below(x) == S \cap (0 .. x)
           T == {Below(x) : x \in S}
<1>1. T \subseteq FiniteSubsetsOf(S) /\ T # {}
  <2>1. ASSUME NEW x \in S PROVE Below(x) \in FiniteSubsetsOf(S)
    <3>1. IsFiniteSet(0 .. x)
      BY FS_Interval
    <3>2. IsFiniteSet(Below(x))
      BY <3>1, FS_Intersection
    <3> QED BY <3>2 DEF FiniteSubsetsOf
  <2> QED BY <2>1
<1>2. PICK t \in T : \A u \in T : <<u, t>> \notin StrictSubsetOrdering(S)
  <2> HIDE DEF T
  <2> QED BY <1>1, WFMin, FS_StrictSubsetOrderingWellFounded
<1>3. PICK x \in S : t = Below(x)
  OBVIOUS
<1>4. ASSUME NEW y \in S PROVE x <= y
  <2>1. Below(y) \in T /\ <<Below(y), Below(x)>> \notin StrictSubsetOrdering(S)
    BY <1>2, <1>3
  <2>2. SUFFICES ASSUME y < x PROVE FALSE
    OBVIOUS
  <2>3. Below(y) \subseteq Below(x) /\ Below(y) # Below(x)
    BY <2>2
  <2> QED BY <2>1, <2>3 DEF StrictSubsetOrdering
<1> QED BY <1>4

LEMMA HasMax ==
  ASSUME NEW n \in Nat, NEW S, S \subseteq 0 .. n, S # {}
  PROVE  \E x \in S : \A y \in S : y <= x
<1> DEFINE T == {n - s : s \in S}
<1>1. PICK t \in T : \A u \in T : t <= u
  <2>1. T \subseteq Nat /\ T # {}
    <3>1. \A s \in S : s \in 0 .. n /\ n - s \in Nat
      OBVIOUS
    <3> QED BY <3>1
  <2> HIDE DEF T
  <2> QED BY <2>1, HasMin
<1>2. PICK x \in S : t = n - x
  OBVIOUS
<1>3. ASSUME NEW y \in S PROVE y <= x
  <2>1. n - y \in T
    OBVIOUS
  <2>2. n - x <= n - y
    BY <1>1, <1>2, <2>1
  <2> QED BY <2>2
<1> QED BY <1>3

LEMMA SubsetSizes ==
  ASSUME NEW a \in Nat, NEW m \in Nat, NEW S, \A s \in S : s \in Nat /\ a < s /\ s <= m
  PROVE  /\ IsFiniteSet(S) /\ Cardinality(S) \in Nat
         /\ S # {} \/ a <= m => Cardinality(S) <= m - a
<1>1. S \subseteq (a + 1) .. m
  OBVIOUS
<1>2. /\ IsFiniteSet((a + 1) .. m)
      /\ Cardinality((a + 1) .. m) = IF a + 1 > m THEN 0 ELSE m - (a + 1) + 1
  BY FS_Interval
<1>3. IsFiniteSet(S) /\ Cardinality(S) <= Cardinality((a + 1) .. m)
  BY <1>1, <1>2, FS_Subset
<1>4. Cardinality(S) \in Nat
  BY <1>3, FS_CardinalityType
<1>5. S # {} => a <= m
  OBVIOUS
<1> QED BY <1>2, <1>3, <1>4, <1>5

-----------------------------------------------------------------------------
(* The legacy import                                                       *)

\* The page a run is at, the rows of it that still wait, and the rows that its
\* cursor has passed and that do not.
InPage(r) == IF r.at \in {"batch", "rows"} THEN r.page ELSE {}
Waits(r) == IF r.at = "rows" THEN r.todo ELSE InPage(r)
Passed(r) == (1 .. r.after) \ Waits(r)

\* The cursor moves as a page is fetched, so what it has passed and does not
\* wait is in the master or has a failure that the run has counted; each row is
\* counted once; and a streak of failures is made of rows it has passed and of
\* faults.
Underway(r) ==
  /\ r.status = "running" /\ ~r.tripped /\ r.seen \subseteq index
  /\ InPage(r) \subseteq 1 .. r.after /\ Waits(r) \subseteq InPage(r)
  /\ r.at # "fetch" => Waits(r) # {}
  /\ r.scanned + Cardinality(InPage(r)) <= r.after
  /\ r.failed + Cardinality(Waits(r)) <= r.scanned + Cardinality(InPage(r))
  /\ r.streak <= Cardinality(Bad \cap Passed(r)) + faults
  /\ \A v \in r.seen \cap Passed(r) :
       \/ v \in master
       \/ r.failed > 0 /\ \E phase \in Phases : <<v, phase>> \in failures

GoodRun(r) ==
  /\ r.limit = N + 1 =>
       /\ r.status = "succeeded" => r.seen \subseteq master
       /\ r.status = "succeeded_with_failures" =>
            \A v \in r.seen \ master : \E phase \in Phases : <<v, phase>> \in failures
  /\ r.tripped => Cardinality(Bad) + faults >= MaxConsecutive
  /\ r.at # "idle" => Underway(r)

ImportInv ==
  /\ ImportTypeOK
  /\ \A b \in Boxes : GoodRun(run[b])

LEMMA ImportFacts ==
  /\ N \in Nat /\ MaxFaults \in Nat /\ Batch \in Nat /\ Batch > 0
  /\ MaxConsecutive \in Nat /\ MaxConsecutive > 0 /\ Rows = 1 .. N
  /\ Keyless \subseteq 1 .. N /\ Bad \subseteq 1 .. N /\ NoLimit = N + 1
  /\ Limits \subseteq Int /\ N + 1 \in Limits /\ Boxes # {}
BY ImportConstants DEF Rows, NoLimit

LEMMA RowSets ==
  ASSUME NEW S, S \subseteq 1 .. N
  PROVE  /\ IsFiniteSet(S) /\ Cardinality(S) \in Nat /\ Cardinality(S) <= N
         /\ Cardinality(S) = 0 <=> S = {}
<1>1. IsFiniteSet(1 .. N) /\ Cardinality(1 .. N) = IF 1 > N THEN 0 ELSE N - 1 + 1
  <2>1. N \in Int /\ 1 \in Int
    BY ImportFacts
  <2> QED BY <2>1, FS_Interval
<1>2. IsFiniteSet(S) /\ Cardinality(S) <= Cardinality(1 .. N)
  BY <1>1, FS_Subset
<1>3. Cardinality(S) \in Nat
  BY <1>2, FS_CardinalityType
<1>4. Cardinality(S) <= N
  BY <1>1, <1>2, <1>3, ImportFacts
<1> QED BY <1>2, <1>3, <1>4, FS_EmptySet

LEMMA SmallerSets ==
  ASSUME NEW S, S \subseteq 1 .. N, NEW T, T \subseteq S
  PROVE  Cardinality(T) <= Cardinality(S)
BY RowSets, FS_Subset

LEMMA WithoutOne ==
  ASSUME NEW S, S \subseteq 1 .. N, NEW v \in S
  PROVE  Cardinality(S \ {v}) = Cardinality(S) - 1
BY RowSets, FS_RemoveElement

LEMMA WithOne ==
  ASSUME NEW S, S \subseteq 1 .. N, NEW v \in 1 .. N, v \notin S
  PROVE  Cardinality(S \cup {v}) = Cardinality(S) + 1
BY RowSets, FS_AddElement

\* The tables other than the runs
ImportTables ==
  /\ index \subseteq 1 .. N /\ master \subseteq 1 .. N
  /\ hashed \subseteq 1 .. N /\ backingOff \subseteq 1 .. N
  /\ failures \subseteq (1 .. N) \X Phases
  /\ audit \in [at : {"none", "read"}, box : Boxes, c : BOOLEAN, ids : SUBSET (1 .. N)]
  /\ faults \in 0 .. MaxFaults

\* What no step takes back
ImportGrows ==
  index \subseteq index' /\ master \subseteq master' /\ failures \subseteq failures'
    /\ faults <= faults'

LEMMA ImportType ==
  ImportTypeOK <=> ImportTables /\ run \in [Boxes -> RunType]
BY ImportFacts DEF ImportTypeOK, ImportTables

LEMMA ImportParts ==
  ImportInv => /\ ImportTables /\ faults \in Nat /\ MaxFaults \in Nat
               /\ run \in [Boxes -> RunType]
               /\ \A b \in Boxes : run[b] \in RunType /\ GoodRun(run[b])
BY ImportType, ImportFacts DEF ImportInv, ImportTables

LEMMA RunFields ==
  ASSUME NEW r \in RunType
  PROVE  /\ r.limit \in Limits /\ r.after \in 0 .. N /\ r.page \subseteq 1 .. N
         /\ r.todo \subseteq 1 .. N /\ r.scanned \in 0 .. N /\ r.failed \in 0 .. N
         /\ r.streak \in 0 .. (MaxConsecutive - 1) /\ r.seen \subseteq 1 .. N
         /\ r.cancelled \in BOOLEAN /\ r.tripped \in BOOLEAN
         /\ r.at \in {"idle", "fetch", "batch", "rows"}
         /\ r.after \in Nat /\ r.scanned \in Nat /\ r.failed \in Nat /\ r.streak \in Nat
         /\ InPage(r) \subseteq 1 .. N /\ Waits(r) \subseteq 1 .. N /\ Passed(r) \subseteq 1 .. N
BY ImportFacts DEF RunType, InPage, Waits, Passed

LEMMA GoodRunGrows ==
  ASSUME NEW r \in RunType, GoodRun(r), ImportGrows,
         faults \in Nat, faults' \in Nat
  PROVE  GoodRun(r)'
<1>1. /\ Cardinality(Bad) \in Nat /\ Cardinality(Bad \cap Passed(r)) \in Nat
      /\ MaxConsecutive \in Nat /\ r.streak \in Nat
  BY ImportFacts, RowSets, RunFields
<1>2. Underway(r) => Underway(r)'
  BY <1>1 DEF Underway, ImportGrows
<1>3. r.tripped => Cardinality(Bad) + faults' >= MaxConsecutive
  BY <1>1 DEF GoodRun, ImportGrows
<1> QED BY <1>2, <1>3 DEF GoodRun, ImportGrows

LEMMA RunUpdate ==
  ASSUME ImportInv, NEW b \in Boxes, NEW r \in RunType, GoodRun(r)',
         run' = [run EXCEPT ![b] = r], ImportTables', ImportGrows
  PROVE  ImportInv'
<1>1. run' \in [Boxes -> RunType] /\ run'[b] = r
      /\ \A d \in Boxes \ {b} : run'[d] = run[d]
  BY ImportParts
<1>2. ASSUME NEW d \in Boxes PROVE GoodRun(run[d])'
  <2>1. faults' \in Nat
    BY ImportFacts, ImportParts DEF ImportTables
  <2>2. CASE d = b
    BY <1>1, <2>2 DEF GoodRun, Underway, InPage, Waits, Passed
  <2>3. CASE d # b
    <3>1. run'[d] = run[d] /\ GoodRun(run[d]) /\ run[d] \in RunType
      BY <1>1, <2>3, ImportParts
    <3>2. ASSUME NEW q \in RunType, q = run[d] PROVE GoodRun(q)'
      BY <2>1, <3>1, <3>2, ImportParts, GoodRunGrows
    <3> QED BY <3>1, <3>2 DEF GoodRun, Underway, InPage, Waits, Passed
  <2> QED BY <2>2, <2>3
<1>3. ImportTypeOK'
  BY <1>1, ImportFacts DEF ImportTypeOK, ImportTables
<1> QED BY <1>2, <1>3 DEF ImportInv

LEMMA TablesUpdate ==
  ASSUME ImportInv, run' = run, ImportTables', ImportGrows
  PROVE  ImportInv'
<1>1. ASSUME NEW d \in Boxes PROVE GoodRun(run[d])'
  <2>1. faults' \in Nat
    BY ImportFacts, ImportParts DEF ImportTables
  <2>2. ASSUME NEW q \in RunType, q = run[d] PROVE GoodRun(q)'
    BY <2>1, <2>2, ImportParts, GoodRunGrows
  <2> QED BY <2>2, ImportParts DEF GoodRun, Underway, InPage, Waits, Passed
<1>2. ImportTypeOK'
  BY ImportParts, ImportFacts DEF ImportTypeOK, ImportTables
<1> QED BY <1>1, <1>2 DEF ImportInv

\* The record of a run that is over
LEMMA RecordIsGood ==
  ASSUME NEW r \in RunType, r.at = "idle", ~r.tripped,
         r.status \notin {"succeeded", "succeeded_with_failures"}
  PROVE  GoodRun(r)'
BY DEF GoodRun

LEMMA NoRunFacts ==
  LET r == NoRun IN
  /\ r \in RunType /\ r.at = "idle" /\ r.status = "none" /\ r.limit = N + 1
  /\ r.after = 0 /\ r.page = {} /\ r.todo = {} /\ r.scanned = 0 /\ r.failed = 0
  /\ r.streak = 0 /\ r.tripped = FALSE /\ r.cancelled = FALSE /\ r.seen = {}
<1> DEFINE r == NoRun
<1>1. /\ r.at = "idle" /\ r.status = "none" /\ r.limit = N + 1
      /\ r.after = 0 /\ r.page = {} /\ r.todo = {} /\ r.scanned = 0 /\ r.failed = 0
      /\ r.streak = 0 /\ r.tripped = FALSE /\ r.cancelled = FALSE /\ r.seen = {}
  BY DEF NoRun, NoLimit
<1>2. r \in RunType
  BY ImportFacts DEF NoRun, NoLimit, RunType
<1> QED BY <1>1, <1>2

LEMMA EndedFacts ==
  ASSUME ImportInv, NEW b \in Boxes,
         NEW status \in {"running", "succeeded", "succeeded_with_failures", "cancelled", "failed"}
  PROVE  \E r \in RunType :
           /\ Ended(b, status) = [run EXCEPT ![b] = r]
           /\ r.at = "idle" /\ r.status = status /\ r.limit = run[b].limit
           /\ r.seen = run[b].seen /\ ~r.tripped
           /\ [r EXCEPT !.tripped = TRUE] \in RunType
<1> DEFINE r == [NoRun EXCEPT !.status = status, !.limit = run[b].limit, !.seen = run[b].seen]
<1>1. run[b].limit \in Limits /\ run[b].seen \subseteq 1 .. N /\ NoRun \in RunType
  BY ImportParts, RunFields, NoRunFacts
<1>2. /\ r.at = "idle" /\ r.status = status /\ r.limit = run[b].limit
      /\ r.seen = run[b].seen /\ ~r.tripped
  BY ImportParts, NoRunFacts DEF RunType
<1>3. r \in RunType /\ [r EXCEPT !.tripped = TRUE] \in RunType
  BY <1>1, ImportParts, ImportFacts DEF RunType
<1>4. Ended(b, status) = [run EXCEPT ![b] = r]
  BY DEF Ended
<1> HIDE DEF r
<1> QED BY <1>2, <1>3, <1>4

\* A run that begins
LEMMA BegunFacts ==
  ASSUME ImportInv, NEW limit \in Limits, index' = index, faults' \in Nat
  PROVE  \E r \in RunType : r = Begun(limit) /\ GoodRun(r)'
<1> DEFINE r == Begun(limit)
<1>1. NoRun \in RunType /\ index \subseteq 1 .. N
  BY ImportParts, NoRunFacts DEF ImportTables
<1>2. r \in RunType
  BY <1>1, ImportParts, ImportFacts DEF Begun, RunType
<1>3. /\ r.after = 0 /\ r.scanned = 0 /\ r.failed = 0 /\ r.streak = 0 /\ ~r.tripped
      /\ r.seen = index /\ \/ r.at = "idle" /\ r.status = "failed"
                           \/ r.at = "fetch" /\ r.status = "running"
  BY <1>1, ImportParts, NoRunFacts DEF Begun, RunType
<1>4. ASSUME NEW q, q \in RunType,
             q.after = 0, q.scanned = 0, q.failed = 0, q.streak = 0, ~q.tripped, q.seen = index,
             \/ q.at = "idle" /\ q.status = "failed"
             \/ q.at = "fetch" /\ q.status = "running"
      PROVE  GoodRun(q)'
  <2>1. (InPage(q) = {} /\ Waits(q) = {}) \/ q.at = "idle"
    BY <1>4 DEF InPage, Waits
  <2>2. 1 .. q.after = {}
    BY <1>4
  <2>3. Bad \cap Passed(q) = {}
    BY <2>2 DEF Passed
  <2>4. Cardinality({}) = 0
    BY FS_EmptySet
  <2>5. q.at # "idle" => Underway(q)'
    BY <1>4, <2>1, <2>2, <2>3, <2>4 DEF Underway, Passed
  <2> QED BY <1>4, <2>5 DEF GoodRun
<1> HIDE DEF r
<1>5. PICK q : q = r
  OBVIOUS
<1>6. GoodRun(q)'
  BY <1>2, <1>3, <1>4, <1>5
<1> QED BY <1>2, <1>5, <1>6 DEF r

LEMMA EndedInv ==
  ASSUME ImportInv, NEW b \in Boxes, NEW status \in {"running", "cancelled", "failed"},
         run' = Ended(b, status), ImportTables', ImportGrows
  PROVE  ImportInv'
<1>1. PICK r \in RunType : /\ Ended(b, status) = [run EXCEPT ![b] = r]
                           /\ r.at = "idle" /\ r.status = status /\ ~r.tripped
  <2>1. status \in {"running", "succeeded", "succeeded_with_failures", "cancelled", "failed"}
    OBVIOUS
  <2> QED BY <2>1, EndedFacts
<1>2. GoodRun(r)'
  BY <1>1, RecordIsGood, ImportParts
<1> QED BY <1>1, <1>2, RunUpdate

LEMMA ImportFault ==
  ASSUME ImportInv, Fault
  PROVE  faults' = faults + 1 /\ faults' \in 0 .. MaxFaults /\ faults <= faults'
BY ImportParts, ImportFacts DEF Fault, ImportTables

LEMMA FailsInv == ASSUME ImportInv, NEW b \in Boxes, Fails(b) PROVE ImportInv'
<1>1. PICK status \in {"failed", "running"} : run' = Ended(b, status)
  BY DEF Fails
<1>2. ImportTables' /\ ImportGrows
  BY ImportFault, ImportParts DEF Fails, tables, ImportTables, ImportGrows
<1> QED BY <1>1, <1>2, EndedInv

\* The next page of a run that is not out of rows
LEMMA PageFacts ==
  ASSUME ImportInv, NEW b \in Boxes, run[b].at = "fetch", NEW page, IsMissingPage(b, page)
  PROVE  /\ page \subseteq {v \in index \ master : v > run[b].after}
         /\ page = {} /\ run[b].limit = N + 1 =>
              {v \in index \ master : v > run[b].after} = {}
         /\ \A v \in page, u \in (index \ master) \ page : u > run[b].after => v < u
<1> DEFINE missing == {v \in index \ master : v > run[b].after}
           max == Lesser(Batch, run[b].limit - run[b].scanned)
<1>1. missing \subseteq 1 .. N
  BY ImportParts DEF ImportTables
<1>2. /\ page \subseteq missing
      /\ Cardinality(page) = Lesser(max, Cardinality(missing))
      /\ \A v \in page, u \in missing \ page : v < u
  BY DEF IsMissingPage
<1>3. ASSUME page = {}, run[b].limit = N + 1 PROVE missing = {}
  <2>1. Cardinality(page) = 0
    BY <1>3, FS_EmptySet
  <2>2. Cardinality(missing) \in Nat /\ (Cardinality(missing) = 0 <=> missing = {})
    <3> HIDE DEF missing
    <3> QED BY <1>1, RowSets, ImportParts
  <2>3. run[b].scanned \in 0 .. N /\ N \in Nat /\ Batch \in Nat /\ Batch > 0
    BY ImportParts, RunFields, ImportFacts
  <2>4. run[b].limit - run[b].scanned > 0 /\ run[b].limit - run[b].scanned \in Int
    BY <1>3, <2>3
  <2>5. max > 0 /\ max \in Int
    BY <2>3, <2>4 DEF Lesser
  <2> HIDE DEF max, missing
  <2> QED BY <1>2, <2>1, <2>2, <2>5 DEF Lesser
<1>4. \A v \in page, u \in (index \ master) \ page : u > run[b].after => v < u
  BY <1>2
<1> QED BY <1>2, <1>3, <1>4

LEMMA CompleteInv == ASSUME ImportInv, NEW b \in Boxes, Complete(b) PROVE ImportInv'
<1> DEFINE R == run[b]
<1>1. /\ R.at = "fetch"
      /\ R.cancelled \/ OutOfRows(b)
      /\ run' = Ended(b, Terminal(b))
      /\ UNCHANGED <<index, master, hashed, backingOff, failures, audit, faults>>
  BY DEF Complete, tables
<1>2. ImportTables' /\ ImportGrows
  BY <1>1, ImportParts DEF ImportTables, ImportGrows
<1>3. CASE R.cancelled
  <2>1. Terminal(b) = "cancelled"
    BY <1>3 DEF Terminal
  <2> QED BY <1>1, <1>2, <2>1, EndedInv
<1>4. CASE ~R.cancelled
  <2> DEFINE status == Terminal(b)
  <2>1. status = IF R.failed = 0 THEN "succeeded" ELSE "succeeded_with_failures"
    BY <1>4 DEF Terminal
  <2>2. PICK r \in RunType :
           /\ Ended(b, status) = [run EXCEPT ![b] = r]
           /\ r.at = "idle" /\ r.status = status /\ r.limit = R.limit
           /\ r.seen = R.seen /\ ~r.tripped
    <3>1. status \in {"running", "succeeded", "succeeded_with_failures", "cancelled", "failed"}
      BY <2>1
    <3> HIDE DEF status
    <3> QED BY <3>1, EndedFacts
  <2>3. ASSUME R.limit = N + 1
        PROVE  \A v \in R.seen : \/ v \in master
                                 \/ R.failed > 0 /\ \E phase \in Phases : <<v, phase>> \in failures
    <3>1. R.scanned # R.limit
      BY <2>3, ImportParts, RunFields, ImportFacts
    <3>2. IsMissingPage(b, {})
      BY <1>1, <1>4, <3>1 DEF OutOfRows
    <3>3. {v \in index \ master : v > R.after} = {}
      BY <1>1, <2>3, <3>2, PageFacts
    <3>4. Underway(R) /\ Waits(R) = {} /\ R.seen \subseteq 1 .. N /\ R.after \in Nat
      <4>1. R \in RunType /\ GoodRun(R)
        BY ImportParts
      <4>2. Underway(R)
        BY <1>1, <4>1 DEF GoodRun
      <4> QED BY <1>1, <4>1, <4>2, ImportParts, RunFields DEF Waits, InPage
    <3>5. ASSUME NEW v \in R.seen, v \notin master PROVE v \in Passed(R)
      <4>1. v \in index /\ v \in 1 .. N /\ v <= R.after
        BY <3>3, <3>4, <3>5 DEF Underway
      <4> QED BY <3>4, <4>1 DEF Passed
    <3> QED BY <3>4, <3>5 DEF Underway
  <2>4. GoodRun(r)'
    BY <1>1, <2>1, <2>2, <2>3 DEF GoodRun
  <2> QED BY <1>1, <1>2, <2>2, <2>4, RunUpdate
<1> QED BY <1>3, <1>4

LEMMA FetchPageInv == ASSUME ImportInv, NEW b \in Boxes, Fetch(b) PROVE ImportInv'
<1>1. /\ run[b].at = "fetch" /\ ~OutOfRows(b)
      /\ UNCHANGED <<index, master, hashed, backingOff, failures, audit, faults>>
  BY DEF Fetch, tables
<1>2. PICK page : /\ IsMissingPage(b, page)
                  /\ run' = [run EXCEPT ![b].at = "batch", ![b].page = page,
                                        ![b].after = Cursor(page)]
  BY DEF Fetch
<1>3. page # {} /\ page \subseteq index \ master /\ page \subseteq 1 .. N
      /\ \A v \in page : v > run[b].after
  <2>1. page # {}
    BY <1>1, <1>2 DEF OutOfRows
  <2>2. page \subseteq {v \in index \ master : v > run[b].after}
    BY <1>1, <1>2, PageFacts
  <2> QED BY <2>1, <2>2, ImportParts DEF ImportTables
<1> DEFINE after == Cursor(page)
<1>4. after \in page /\ \A u \in page : u <= after
  <2>1. \E v \in page : \A u \in page : u <= v
    <3>1. page \subseteq 0 .. N /\ N \in Nat
      BY <1>3, ImportParts, ImportFacts
    <3> QED BY <1>3, <3>1, HasMax
  <2> QED BY <2>1 DEF Cursor
<1> HIDE DEF after
<1> DEFINE R == run[b]
<1> PICK r : r = [R EXCEPT !.at = "batch", !.page = page, !.after = after]
  OBVIOUS
<1>5. /\ R \in RunType /\ Underway(R) /\ R.after \in Nat /\ R.scanned \in Nat
      /\ R.failed \in Nat /\ R.seen \subseteq 1 .. N /\ GoodRun(R)
  BY <1>1, ImportParts, RunFields DEF GoodRun
<1>6. /\ r.at = "batch" /\ r.page = page /\ r.after = after /\ r.status = R.status
      /\ r.limit = R.limit /\ r.scanned = R.scanned /\ r.failed = R.failed
      /\ r.streak = R.streak /\ r.tripped = R.tripped /\ r.seen = R.seen
  BY <1>5 DEF RunType
<1>7. r \in RunType
  <2>1. after \in 0 .. N /\ page \subseteq 1 .. N
    BY <1>3, <1>4
  <2> QED BY <1>5, <2>1, ImportParts, ImportFacts DEF RunType
<1>8. run' = [run EXCEPT ![b] = r]
  BY <1>2, ImportParts DEF after
<1>9. InPage(r) = page /\ Waits(r) = page /\ Waits(R) = {} /\ InPage(R) = {}
  BY <1>1, <1>6 DEF InPage, Waits
\* The rows it has passed, among them those that were not missing
<1>10. Passed(R) \subseteq Passed(r)
  <2>1. R.after < after
    BY <1>3, <1>4
  <2> QED BY <1>3, <1>5, <1>6, <1>9, <2>1, <1>4 DEF Passed
<1>11. Cardinality(Bad \cap Passed(R)) <= Cardinality(Bad \cap Passed(r))
       /\ Cardinality(Bad \cap Passed(R)) \in Nat /\ Cardinality(Bad \cap Passed(r)) \in Nat
  <2>1. Bad \cap Passed(r) \subseteq 1 .. N /\ Bad \cap Passed(R) \subseteq Bad \cap Passed(r)
    BY <1>10, ImportParts, ImportFacts
  <2> QED BY <2>1, RowSets, SmallerSets, ImportParts
<1>12. r.scanned + Cardinality(InPage(r)) <= r.after
       /\ r.failed + Cardinality(Waits(r)) <= r.scanned + Cardinality(InPage(r))
  <2>1. after \in Nat /\ R.after \in Nat /\ \A s \in page : s \in Nat /\ R.after < s /\ s <= after
    BY <1>3, <1>4, <1>5
  <2>2. Cardinality(page) \in Nat /\ Cardinality(page) <= after - R.after
    BY <1>3, <2>1, SubsetSizes
  <2>3. R.scanned <= R.after /\ R.failed <= R.scanned
    <3>1. Cardinality({}) = 0
      BY FS_EmptySet
    <3> QED BY <1>5, <1>9, <3>1 DEF Underway
  <2> QED BY <1>5, <1>6, <1>9, <2>1, <2>2, <2>3
\* A row of the start that it has passed now was passed before, or was in the
\* master as the page was fetched.
<1>13. \A v \in r.seen \cap Passed(r) :
          \/ v \in master
          \/ r.failed > 0 /\ \E phase \in Phases : <<v, phase>> \in failures
  <2>1. ASSUME NEW v \in r.seen \cap Passed(r), v \notin master PROVE v \in Passed(R)
    <3>1. v \in index /\ v \notin page /\ v \in 1 .. N /\ v <= after
      BY <1>3, <1>4, <1>5, <1>6, <1>9, <2>1 DEF Underway, Passed
    <3>2. ~(v > R.after)
      <4> SUFFICES ASSUME v > R.after PROVE FALSE
        OBVIOUS
      <4>1. after < v
        BY <1>1, <1>2, <1>4, <2>1, <3>1, PageFacts
      <4> QED BY <1>3, <1>4, <3>1, <4>1
    <3> QED BY <1>5, <1>9, <3>1, <3>2 DEF Passed
  <2> QED BY <1>5, <1>6, <2>1 DEF Underway
<1>14. Underway(r)'
  <2>1. r.streak <= Cardinality(Bad \cap Passed(r)) + faults
    <3>1. R.streak \in Nat /\ faults \in Nat
      BY <1>5, ImportParts, RunFields
    <3> QED BY <1>5, <1>6, <1>11, <3>1 DEF Underway
  <2>2. InPage(r) \subseteq 1 .. r.after
    BY <1>3, <1>4, <1>6, <1>9
  <2> QED BY <1>1, <1>3, <1>5, <1>6, <1>9, <1>12, <1>13, <2>1, <2>2 DEF Underway
<1>15. GoodRun(r)'
  BY <1>5, <1>6, <1>14 DEF GoodRun, Underway
<1>16. ImportTables' /\ ImportGrows
  BY <1>1, ImportParts DEF ImportTables, ImportGrows
<1> QED BY <1>7, <1>8, <1>15, <1>16, RunUpdate

LEMMA StartImportInv ==
  ASSUME ImportInv, NEW b \in Boxes, StartImport(b) PROVE ImportInv'
<1>1. PICK limit \in Limits : run' = [run EXCEPT ![b] = Begun(limit)]
  BY DEF StartImport
<1>2. ImportTables' /\ ImportGrows /\ index' = index /\ faults' \in Nat
  BY ImportParts DEF StartImport, tables, ImportTables, ImportGrows
<1>3. PICK r \in RunType : r = Begun(limit) /\ GoodRun(r)'
  BY <1>2, BegunFacts
<1> QED BY <1>1, <1>2, <1>3, RunUpdate

\* A page, or a row, that goes to the tables
LEMMA ImportedRows ==
  ASSUME ImportInv, NEW part, part \subseteq 1 .. N, Import(part)
  PROVE  /\ master \subseteq master' /\ master' \subseteq 1 .. N
         /\ failures \subseteq failures' /\ failures' \subseteq (1 .. N) \X Phases
         /\ \A v \in part : \/ v \in master'
                            \/ v \in Keyless /\ \E phase \in Phases : <<v, phase>> \in failures'
BY ImportParts, ImportFacts DEF Import, Phases, ImportTables

LEMMA CommitPageInv == ASSUME ImportInv, NEW b \in Boxes, CommitPage(b) PROVE ImportInv'
<1> DEFINE R == run[b]
           page == R.page
           none == page \cap Keyless
<1> PICK r : r = [R EXCEPT !.at = "fetch", !.streak = 0, !.scanned = @ + Cardinality(page),
                           !.failed = @ + Cardinality(none)]
  OBVIOUS
<1>1. /\ R.at = "batch" /\ Import(page)
      /\ UNCHANGED <<index, hashed, backingOff, audit, faults>>
  BY DEF CommitPage
<1>2. run' = [run EXCEPT ![b] = r]
  BY ImportParts DEF CommitPage
<1>3. /\ R \in RunType /\ Underway(R) /\ R.after \in 0 .. N /\ R.scanned \in Nat
      /\ R.failed \in Nat /\ R.seen \subseteq 1 .. N /\ GoodRun(R) /\ page \subseteq 1 .. N
      /\ N \in Nat /\ faults \in Nat
  BY <1>1, ImportParts, RunFields, ImportFacts DEF GoodRun
<1>4. /\ r.at = "fetch" /\ r.after = R.after /\ r.status = R.status /\ r.limit = R.limit
      /\ r.scanned = R.scanned + Cardinality(page) /\ r.failed = R.failed + Cardinality(none)
      /\ r.streak = 0 /\ r.tripped = R.tripped /\ r.seen = R.seen
  BY <1>3 DEF RunType
<1>5. /\ InPage(R) = page /\ Waits(R) = page /\ InPage(r) = {} /\ Waits(r) = {}
  BY <1>1, <1>4 DEF InPage, Waits
<1>6. /\ Cardinality(page) \in Nat /\ Cardinality(none) \in Nat
      /\ Cardinality(none) <= Cardinality(page) /\ (Cardinality(none) = 0 <=> none = {})
      /\ Cardinality({}) = 0
  <2>1. none \subseteq 1 .. N /\ none \subseteq page
    BY <1>3
  <2> HIDE DEF page, none
  <2> QED BY <1>3, <2>1, RowSets, SmallerSets, FS_EmptySet
<1>7. R.scanned + Cardinality(page) <= R.after
      /\ R.failed + Cardinality(page) <= R.scanned + Cardinality(page)
  BY <1>3, <1>5 DEF Underway
<1>8. r.scanned \in 0 .. N /\ r.failed \in 0 .. N /\ r.failed <= r.scanned /\ r.scanned <= r.after
  <2> HIDE DEF R, page, none
  <2> QED BY <1>3, <1>4, <1>6, <1>7
<1>9. r \in RunType
  <2>1. 0 \in 0 .. (MaxConsecutive - 1)
    BY <1>3, ImportFacts
  <2>2. R.scanned + Cardinality(page) \in 0 .. N /\ R.failed + Cardinality(none) \in 0 .. N
    BY <1>4, <1>8
  <2> QED BY <1>3, <2>1, <2>2 DEF RunType
<1>10. /\ master \subseteq master' /\ master' \subseteq 1 .. N
       /\ failures \subseteq failures' /\ failures' \subseteq (1 .. N) \X Phases
       /\ \A v \in page : \/ v \in master'
                          \/ v \in Keyless /\ \E phase \in Phases : <<v, phase>> \in failures'
  BY <1>1, <1>3, ImportedRows
<1>11. \A v \in r.seen \cap Passed(r) :
          \/ v \in master'
          \/ r.failed > 0 /\ \E phase \in Phases : <<v, phase>> \in failures'
  <2> TAKE v \in r.seen \cap Passed(r)
  <2>1. CASE v \in page
    <3>1. v \in Keyless => Cardinality(none) > 0
      BY <1>6, <2>1
    <3>2. v \in Keyless => r.failed > 0
      BY <1>3, <1>4, <1>6, <3>1
    <3> QED BY <1>10, <2>1, <3>2
  <2>2. CASE v \notin page
    <3>1. v \in R.seen \cap Passed(R)
      BY <1>4, <1>5, <2>2 DEF Passed
    <3>2. R.failed > 0 => r.failed > 0
      BY <1>3, <1>4, <1>6
    <3> QED BY <1>3, <1>10, <3>1, <3>2 DEF Underway
  <2> QED BY <2>1, <2>2
<1>12. r.streak <= Cardinality(Bad \cap Passed(r)) + faults
  <2>1. Bad \cap Passed(r) \subseteq 1 .. N
    BY <1>3, ImportFacts
  <2>2. Cardinality(Bad \cap Passed(r)) \in Nat
    BY <1>3, <2>1, RowSets
  <2> QED BY <1>3, <1>4, <2>2
<1>13. Underway(r)'
  <2>1. r.scanned + 0 <= r.after /\ r.failed + 0 <= r.scanned + 0
    BY <1>8
  <2>2. r.status = "running" /\ ~r.tripped /\ r.seen \subseteq index
    BY <1>3, <1>4 DEF Underway
  <2> QED BY <1>1, <1>4, <1>5, <1>6, <1>11, <1>12, <2>1, <2>2 DEF Underway
<1>14. GoodRun(r)'
  BY <1>3, <1>4, <1>13 DEF GoodRun, Underway
<1>15. ImportTables' /\ ImportGrows
  BY <1>1, <1>3, <1>10, ImportParts DEF ImportTables, ImportGrows
<1> QED BY <1>2, <1>9, <1>14, <1>15, RunUpdate

LEMMA RollbackPageInv ==
  ASSUME ImportInv, NEW b \in Boxes, RollbackPage(b) PROVE ImportInv'
<1> DEFINE R == run[b]
<1> PICK r : r = [R EXCEPT !.at = "rows", !.todo = R.page]
  OBVIOUS
<1>1. /\ R.at = "batch" /\ run' = [run EXCEPT ![b] = r]
      /\ UNCHANGED <<index, master, hashed, backingOff, failures, audit>>
  BY ImportParts DEF RollbackPage, tables
<1>2. faults' \in 0 .. MaxFaults /\ faults <= faults'
  BY ImportFault, ImportParts DEF RollbackPage, ImportTables
<1>3. /\ R \in RunType /\ Underway(R) /\ GoodRun(R) /\ R.page \subseteq 1 .. N
      /\ R.streak \in Nat /\ faults \in Nat /\ MaxFaults \in Nat
  BY <1>1, ImportParts, RunFields DEF GoodRun
<1>4. /\ r \in RunType /\ r.at = "rows" /\ r.todo = R.page /\ r.page = R.page
      /\ r.after = R.after /\ r.status = R.status /\ r.limit = R.limit
      /\ r.scanned = R.scanned /\ r.failed = R.failed
      /\ r.streak = R.streak /\ r.tripped = R.tripped /\ r.seen = R.seen
  BY <1>3 DEF RunType
<1>5. InPage(r) = InPage(R) /\ Waits(r) = Waits(R) /\ Passed(r) = Passed(R)
  BY <1>1, <1>4 DEF InPage, Waits, Passed
<1>6. Cardinality(Bad \cap Passed(r)) \in Nat
  <2>1. Bad \cap Passed(r) \subseteq 1 .. N
    BY <1>3, ImportFacts
  <2> QED BY <1>3, <2>1, RowSets
<1>7. r.streak <= Cardinality(Bad \cap Passed(r)) + faults'
  <2>1. r.streak <= Cardinality(Bad \cap Passed(r)) + faults
    BY <1>3, <1>4, <1>5 DEF Underway
  <2> QED BY <1>2, <1>3, <1>4, <1>6, <2>1
<1>8. Underway(r)'
  BY <1>1, <1>3, <1>4, <1>5, <1>7 DEF Underway
<1>9. GoodRun(r)'
  BY <1>3, <1>4, <1>8 DEF GoodRun, Underway
<1>10. ImportTables' /\ ImportGrows
  BY <1>1, <1>2, ImportParts DEF ImportTables, ImportGrows
<1> QED BY <1>1, <1>4, <1>9, <1>10, RunUpdate

LEMMA CommitFailsInv ==
  ASSUME ImportInv, NEW b \in Boxes, CommitFails(b) PROVE ImportInv'
<1>1. PICK status \in {"failed", "running"} : run' = Ended(b, status)
  BY DEF CommitFails
<1>2. faults' \in 0 .. MaxFaults /\ faults <= faults'
  BY ImportFault DEF CommitFails
<1>3. UNCHANGED <<index, hashed, backingOff, audit>>
  BY DEF CommitFails
<1>4. /\ master \subseteq master' /\ master' \subseteq 1 .. N
      /\ failures \subseteq failures' /\ failures' \subseteq (1 .. N) \X Phases
  <2>1. run[b].page \subseteq 1 .. N
    BY ImportParts, RunFields
  <2>2. Import(run[b].page) \/ (master' = master /\ failures' = failures)
    BY DEF CommitFails
  <2> QED BY <2>1, <2>2, ImportedRows, ImportParts DEF ImportTables
<1>5. ImportTables' /\ ImportGrows
  BY <1>2, <1>3, <1>4, ImportParts DEF ImportTables, ImportGrows
<1> QED BY <1>1, <1>5, EndedInv

\* The row a run is at waits, and has not been passed.
LEMMA RowFacts ==
  ASSUME ImportInv, NEW b \in Boxes, run[b].at = "rows"
  PROVE  /\ RowAt(b) \in run[b].todo /\ run[b].todo \subseteq run[b].page
         /\ run[b].todo \subseteq 1 .. run[b].after /\ run[b].todo \subseteq 1 .. N
         /\ run[b] \in RunType /\ Underway(run[b]) /\ GoodRun(run[b])
         /\ InPage(run[b]) = run[b].page /\ Waits(run[b]) = run[b].todo
<1>1. /\ run[b] \in RunType /\ Underway(run[b]) /\ GoodRun(run[b])
      /\ run[b].todo \subseteq 1 .. N
  BY ImportParts, RunFields DEF GoodRun
<1>2. InPage(run[b]) = run[b].page /\ Waits(run[b]) = run[b].todo
  BY DEF InPage, Waits
<1>3. /\ run[b].todo # {} /\ run[b].todo \subseteq run[b].page
      /\ run[b].todo \subseteq 1 .. run[b].after
  BY <1>1, <1>2 DEF Underway
<1>4. \E v \in run[b].todo : \A u \in run[b].todo : v <= u
  <2>1. run[b].todo \subseteq Nat
    BY <1>1
  <2> QED BY <1>3, <2>1, HasMin
<1> QED BY <1>1, <1>2, <1>3, <1>4 DEF RowAt

\* One more row of the page: it no longer waits, and has been counted if it failed.
LEMMA AfterRowInv ==
  ASSUME ImportInv, NEW b \in Boxes, run[b].at = "rows", NEW failed \in {0, 1},
         NEW streak \in 0 .. (MaxConsecutive - 1),
         run' = AfterRow(b, failed, streak), ImportTables', ImportGrows,
         streak <= Cardinality(Bad \cap (Passed(run[b]) \cup {RowAt(b)})) + faults',
         \/ RowAt(b) \in master'
         \/ failed = 1 /\ \E phase \in Phases : <<RowAt(b), phase>> \in failures'
  PROVE  ImportInv'
<1> DEFINE R == run[b]
           w == RowAt(b)
<1> PICK rest : rest = R.todo \ {w}
  OBVIOUS
<1> PICK r : r = [R EXCEPT !.todo = rest, !.failed = @ + failed, !.streak = streak,
                           !.at = IF rest = {} THEN "fetch" ELSE "rows",
                           !.scanned = IF rest = {} THEN @ + Cardinality(R.page) ELSE @]
  OBVIOUS
<1>1. run' = [run EXCEPT ![b] = r]
  BY ImportParts DEF AfterRow
<1>2. /\ w \in R.todo /\ R.todo \subseteq R.page /\ R.todo \subseteq 1 .. R.after
      /\ R \in RunType /\ Underway(R) /\ GoodRun(R)
      /\ InPage(R) = R.page /\ Waits(R) = R.todo /\ R.todo \subseteq 1 .. N
  BY RowFacts
<1>3. /\ R.after \in 0 .. N /\ R.scanned \in Nat /\ R.failed \in Nat /\ R.seen \subseteq 1 .. N
      /\ R.page \subseteq 1 .. N /\ N \in Nat /\ faults \in Nat /\ faults' \in Nat
      /\ Bad \subseteq 1 .. N
  BY <1>2, ImportParts, RunFields, ImportFacts DEF ImportTables
<1>4. /\ r.at = (IF rest = {} THEN "fetch" ELSE "rows") /\ r.todo = rest /\ r.page = R.page
      /\ r.after = R.after /\ r.status = R.status /\ r.limit = R.limit
      /\ r.scanned = (IF rest = {} THEN R.scanned + Cardinality(R.page) ELSE R.scanned)
      /\ r.failed = R.failed + failed /\ r.streak = streak /\ r.tripped = R.tripped
      /\ r.seen = R.seen
  BY <1>2 DEF RunType
<1>5. InPage(r) = (IF rest = {} THEN {} ELSE R.page) /\ Waits(r) = rest
  BY <1>4 DEF InPage, Waits
<1>6. Passed(r) = Passed(R) \cup {w} /\ w \notin Passed(R)
  BY <1>2, <1>4, <1>5 DEF Passed
<1>7. /\ Cardinality(R.page) \in Nat /\ Cardinality(R.todo) \in Nat /\ Cardinality(rest) \in Nat
      /\ Cardinality(rest) = Cardinality(R.todo) - 1 /\ Cardinality({}) = 0
      /\ Cardinality(R.page) <= N
  <2>1. rest \subseteq 1 .. N
    BY <1>2
  <2> HIDE DEF R, w
  <2> QED BY <1>2, <1>3, <2>1, RowSets, WithoutOne, FS_EmptySet
<1>8. R.scanned + Cardinality(R.page) <= R.after
      /\ R.failed + Cardinality(R.todo) <= R.scanned + Cardinality(R.page)
  BY <1>2 DEF Underway
<1>9. /\ r.scanned + Cardinality(InPage(r)) = R.scanned + Cardinality(R.page)
      /\ r.scanned \in 0 .. N
  <2>1. R.after <= N /\ R.after \in Nat
    BY <1>3
  <2>2. CASE rest = {}
    <3>1. r.scanned = R.scanned + Cardinality(R.page) /\ Cardinality(InPage(r)) = 0
      BY <1>4, <1>5, <1>7, <2>2
    <3> HIDE DEF R, w
    <3> QED BY <1>3, <1>7, <1>8, <2>1, <3>1
  <2>3. CASE rest # {}
    <3>1. r.scanned = R.scanned /\ InPage(r) = R.page
      BY <1>4, <1>5, <2>3
    <3> HIDE DEF R, w
    <3> QED BY <1>3, <1>7, <1>8, <2>1, <3>1
  <2> QED BY <2>2, <2>3
<1>10. r.failed + Cardinality(Waits(r)) <= r.scanned + Cardinality(InPage(r)) /\ r.failed \in 0 .. N
  <2>1. R.after <= N /\ R.after \in Nat
    BY <1>3
  <2>2. /\ r.failed = R.failed + failed /\ Cardinality(Waits(r)) = Cardinality(R.todo) - 1
        /\ failed \in Nat /\ failed <= 1 /\ Cardinality(R.todo) - 1 \in Nat
    <3>1. r.failed = R.failed + failed /\ Waits(r) = rest
      BY <1>4, <1>5
    <3>2. failed \in Nat /\ failed <= 1
      OBVIOUS
    <3> HIDE DEF R, w
    <3> QED BY <1>7, <3>1, <3>2
  <2>3. r.failed + Cardinality(Waits(r)) <= R.scanned + Cardinality(R.page)
    <3> HIDE DEF R, w
    <3> QED BY <1>3, <1>7, <1>8, <2>2
  <2>4. r.failed \in Nat /\ r.failed <= N
    <3> HIDE DEF R, w
    <3> QED BY <1>3, <1>7, <1>8, <2>1, <2>2, <2>3
  <2> QED BY <1>3, <1>9, <2>3, <2>4
<1>11. r \in RunType
  <2>1. R.failed + failed \in 0 .. N /\ rest \subseteq 1 .. N
    BY <1>2, <1>4, <1>10
  <2>2. (IF rest = {} THEN R.scanned + Cardinality(R.page) ELSE R.scanned) \in 0 .. N
    BY <1>4, <1>9
  <2>3. (IF rest = {} THEN "fetch" ELSE "rows") \in {"idle", "fetch", "batch", "rows"}
    OBVIOUS
  <2> QED BY <1>2, <1>3, <2>1, <2>2, <2>3, ImportFacts DEF RunType
<1>12. \A v \in r.seen \cap Passed(r) :
          \/ v \in master'
          \/ r.failed > 0 /\ \E phase \in Phases : <<v, phase>> \in failures'
  <2> TAKE v \in r.seen \cap Passed(r)
  <2>1. failed = 1 \/ R.failed > 0 => r.failed > 0
    BY <1>3, <1>4
  <2>2. CASE v = w
    BY <2>1, <2>2
  <2>3. CASE v # w
    <3>1. v \in R.seen \cap Passed(R)
      BY <1>4, <1>6, <2>3
    <3> QED BY <1>2, <2>1, <3>1 DEF Underway, ImportGrows
  <2> QED BY <2>2, <2>3
<1>13. Underway(r)'
  <2>1. InPage(r) \subseteq 1 .. r.after /\ Waits(r) \subseteq InPage(r)
    BY <1>2, <1>4, <1>5 DEF Underway
  <2>2. r.status = "running" /\ ~r.tripped /\ r.seen \subseteq index'
    BY <1>2, <1>4 DEF Underway, ImportGrows
  <2>3. r.at # "fetch" => Waits(r) # {}
    BY <1>4, <1>5
  <2>4. r.streak <= Cardinality(Bad \cap Passed(r)) + faults'
    BY <1>4, <1>6
  <2>5. r.scanned + Cardinality(InPage(r)) <= r.after
    BY <1>4, <1>8, <1>9
  <2> QED BY <1>10, <1>12, <2>1, <2>2, <2>3, <2>4, <2>5 DEF Underway
<1>14. GoodRun(r)'
  BY <1>2, <1>4, <1>13 DEF GoodRun, Underway
<1> QED BY <1>1, <1>11, <1>14, RunUpdate

LEMMA ImportRowInv == ASSUME ImportInv, NEW b \in Boxes, ImportRow(b) PROVE ImportInv'
<1> DEFINE w == RowAt(b)
           failed == IF w \in Keyless THEN 1 ELSE 0
<1>1. /\ run[b].at = "rows" /\ Import({w})
      /\ run' = AfterRow(b, failed, 0)
      /\ UNCHANGED <<index, hashed, backingOff, audit, faults>>
  BY DEF ImportRow
<1>2. w \in 1 .. N
  BY <1>1, RowFacts
<1>3. /\ master \subseteq master' /\ master' \subseteq 1 .. N
      /\ failures \subseteq failures' /\ failures' \subseteq (1 .. N) \X Phases
      /\ \A v \in {w} : \/ v \in master'
                        \/ v \in Keyless /\ \E phase \in Phases : <<v, phase>> \in failures'
  <2> HIDE DEF w
  <2> QED BY <1>1, <1>2, ImportedRows
<1>4. ImportTables' /\ ImportGrows
  BY <1>1, <1>3, ImportParts DEF ImportTables, ImportGrows
<1>5. 0 <= Cardinality(Bad \cap (Passed(run[b]) \cup {w})) + faults'
  <2>1. Bad \cap (Passed(run[b]) \cup {w}) \subseteq 1 .. N /\ faults' \in Nat
    BY <1>1, ImportParts, ImportFacts
  <2>2. Cardinality(Bad \cap (Passed(run[b]) \cup {w})) \in Nat
    BY <2>1, RowSets
  <2> QED BY <2>1, <2>2
<1>6. failed \in {0, 1} /\ (w \in Keyless => failed = 1) /\ 0 \in 0 .. (MaxConsecutive - 1)
  BY ImportParts, ImportFacts
<1>7. \/ w \in master'
      \/ failed = 1 /\ \E phase \in Phases : <<w, phase>> \in failures'
  BY <1>3, <1>6
<1> HIDE DEF failed
<1> QED BY <1>1, <1>4, <1>5, <1>6, <1>7, AfterRowInv

\* A row that fails is one Postgres refuses or a fault: the streak is made of them.
LEMMA FailRowInv == ASSUME ImportInv, NEW b \in Boxes, FailRow(b) PROVE ImportInv'
<1> DEFINE R == run[b]
           w == RowAt(b)
           streak == R.streak + 1
           reached == Bad \cap (Passed(R) \cup {w})
<1>1. /\ R.at = "rows" /\ failures' = failures \cup {<<w, "import_error">>}
      /\ (w \in Bad /\ faults' = faults) \/ Fault
      /\ UNCHANGED <<index, master, hashed, backingOff, audit>>
  BY DEF FailRow, FailureOf
<1>2. /\ w \in 1 .. N /\ R \in RunType /\ Underway(R) /\ w \in R.todo
      /\ Waits(R) = R.todo /\ R.streak \in 0 .. (MaxConsecutive - 1)
      /\ Bad \subseteq 1 .. N /\ MaxConsecutive \in Nat /\ faults \in Nat
      /\ Passed(R) \subseteq 1 .. N
  BY <1>1, RowFacts, ImportParts, ImportFacts, RunFields
<1>3. faults' \in 0 .. MaxFaults /\ faults <= faults' /\ (w \notin Bad => faults' = faults + 1)
  BY <1>1, ImportFault, ImportParts DEF ImportTables
<1>4. ImportTables' /\ ImportGrows
  <2>1. <<w, "import_error">> \in (1 .. N) \X Phases
    BY <1>2 DEF Phases
  <2> QED BY <1>1, <1>3, <2>1, ImportParts DEF ImportTables, ImportGrows
<1>5. streak <= Cardinality(reached) + faults' /\ Cardinality(reached) \in Nat
      /\ Cardinality(reached) <= Cardinality(Bad) /\ Cardinality(Bad) \in Nat
  <2> DEFINE before == Bad \cap Passed(R)
  <2>1. w \notin Passed(R) /\ R.streak <= Cardinality(before) + faults
    BY <1>2 DEF Passed, Underway
  <2>2. /\ before \subseteq 1 .. N /\ reached \subseteq 1 .. N /\ before \subseteq reached
        /\ reached \subseteq Bad /\ w \notin before
        /\ (w \in Bad => reached = before \cup {w})
    BY <1>2, <2>1
  <2> HIDE DEF w, before, reached
  <2>3. /\ Cardinality(before) \in Nat /\ Cardinality(reached) \in Nat /\ Cardinality(Bad) \in Nat
        /\ Cardinality(before) <= Cardinality(reached) /\ Cardinality(reached) <= Cardinality(Bad)
    BY <1>2, <2>2, RowSets, SmallerSets
  <2>4. w \in Bad => Cardinality(reached) = Cardinality(before) + 1
    BY <1>2, <2>2, WithOne
  <2>5. R.streak \in Nat /\ faults' \in Nat
    BY <1>2, <1>3, ImportParts, ImportFacts
  <2> HIDE DEF R
  <2> QED BY <1>1, <1>2, <1>3, <2>1, <2>3, <2>4, <2>5
<1>6. CASE Trips(b)
  <2>1. run' = [Ended(b, "failed") EXCEPT ![b].tripped = TRUE]
    BY <1>6 DEF FailRow
  <2>2. "failed" \in {"running", "succeeded", "succeeded_with_failures", "cancelled", "failed"}
    OBVIOUS
  <2>3. PICK q \in RunType :
           /\ Ended(b, "failed") = [run EXCEPT ![b] = q]
           /\ q.at = "idle" /\ q.status = "failed"
           /\ [q EXCEPT !.tripped = TRUE] \in RunType
    BY <2>2, EndedFacts
  <2> PICK r : r = [q EXCEPT !.tripped = TRUE]
    OBVIOUS
  <2>4. r \in RunType /\ r.at = "idle" /\ r.status = "failed"
    BY <2>3 DEF RunType
  <2>5. run' = [run EXCEPT ![b] = r]
    BY <2>1, <2>3, ImportParts
  <2>6. Cardinality(Bad) + faults' >= MaxConsecutive
    <3>1. streak >= MaxConsecutive
      BY <1>6 DEF Trips
    <3>2. R.streak \in Nat /\ faults' \in Nat
      BY <1>2, <1>3, ImportParts, ImportFacts
    <3> HIDE DEF R, reached
    <3> QED BY <1>2, <1>5, <3>1, <3>2
  <2>7. GoodRun(r)'
    BY <2>4, <2>6 DEF GoodRun
  <2> QED BY <1>4, <2>4, <2>5, <2>7, RunUpdate
<1>7. CASE ~Trips(b)
  <2>1. run' = AfterRow(b, 1, streak)
    BY <1>7 DEF FailRow
  <2>2. streak \in 0 .. (MaxConsecutive - 1)
    BY <1>2, <1>7 DEF Trips
  <2>3. \E phase \in Phases : <<w, phase>> \in failures'
    BY <1>1 DEF Phases
  <2> HIDE DEF streak
  <2> QED BY <1>1, <1>4, <1>5, <2>1, <2>2, <2>3, AfterRowInv
<1> QED BY <1>6, <1>7

LEMMA RowFailsInv == ASSUME ImportInv, NEW b \in Boxes, RowFails(b) PROVE ImportInv'
<1>1. PICK status \in {"failed", "running"} : run' = Ended(b, status)
  BY DEF RowFails
<1>2. faults' \in 0 .. MaxFaults /\ faults <= faults'
  BY ImportFault DEF RowFails
<1>3. UNCHANGED <<index, hashed, backingOff, audit>>
  BY DEF RowFails
<1>4. /\ master \subseteq master' /\ master' \subseteq 1 .. N
      /\ failures \subseteq failures' /\ failures' \subseteq (1 .. N) \X Phases
  <2>1. {RowAt(b)} \subseteq 1 .. N
    BY RowFacts DEF RowFails
  <2>2. CASE Import({RowAt(b)})
    BY <2>1, <2>2, ImportedRows, ImportParts DEF ImportTables
  <2>3. CASE failures' = failures \cup FailureOf(b) /\ master' = master
    BY <2>1, <2>3, ImportParts DEF ImportTables, FailureOf, Phases
  <2>4. CASE master' = master /\ failures' = failures
    BY <2>4, ImportParts DEF ImportTables
  <2> QED BY <2>2, <2>3, <2>4 DEF RowFails
<1>5. ImportTables' /\ ImportGrows
  BY <1>2, <1>3, <1>4, ImportParts DEF ImportTables, ImportGrows
<1> QED BY <1>1, <1>5, EndedInv

LEMMA NoAuditType ==
  NoAudit \in [at : {"none", "read"}, box : Boxes, c : BOOLEAN, ids : SUBSET (1 .. N)]
<1>1. (CHOOSE b \in Boxes : TRUE) \in Boxes
  BY ImportFacts
<1> QED BY <1>1 DEF NoAudit

LEMMA AuditInv == ASSUME ImportInv, NEW b \in Boxes, Audit(b) PROVE ImportInv'
<1>1. CategoryBRows \subseteq 1 .. N
  BY ImportParts DEF CategoryBRows, ImportTables
<1>2. ImportTables' /\ ImportGrows /\ run' = run
  BY <1>1, ImportParts DEF Audit, tables, ImportTables, ImportGrows
<1> QED BY <1>2, TablesUpdate

LEMMA RemediateInv == ASSUME ImportInv, Remediate PROVE ImportInv'
<1>1. ImportTables' /\ ImportGrows /\ index' = index /\ faults' \in Nat
  <2>1. audit' = NoAudit /\ backingOff' \subseteq backingOff
        /\ UNCHANGED <<index, master, hashed, failures, faults>>
    BY DEF Remediate
  <2> QED BY <2>1, ImportParts, NoAuditType DEF ImportTables, ImportGrows
<1>2. CASE audit.c /\ Free(audit.box)
  <2>1. run' = [run EXCEPT ![audit.box] = Begun(N + 1)] /\ audit.box \in Boxes
        /\ N + 1 \in Limits
    BY <1>2, ImportParts, ImportFacts DEF Remediate, NoLimit, ImportTables
  <2>2. PICK r \in RunType : r = Begun(N + 1) /\ GoodRun(r)'
    BY <1>1, <2>1, BegunFacts
  <2> PICK b \in Boxes : b = audit.box
    BY <2>1
  <2>3. run' = [run EXCEPT ![b] = r]
    BY <2>1, <2>2
  <2> QED BY <1>1, <2>2, <2>3, RunUpdate
<1>3. CASE ~(audit.c /\ Free(audit.box))
  <2>1. run' = run
    BY <1>3 DEF Remediate
  <2> QED BY <1>1, <2>1, TablesUpdate
<1> QED BY <1>2, <1>3

LEMMA CancelJobsInv == ASSUME ImportInv, NEW b \in Boxes, CancelJobs(b) PROVE ImportInv'
<1> DEFINE R == run[b]
<1> PICK r : r = [R EXCEPT !.cancelled = TRUE]
  OBVIOUS
<1>1. /\ R.at # "idle" /\ run' = [run EXCEPT ![b] = r]
      /\ UNCHANGED <<index, master, hashed, backingOff, failures, audit>>
  BY ImportParts DEF CancelJobs, tables
<1>2. faults' \in 0 .. MaxFaults /\ faults <= faults'
  BY ImportFault DEF CancelJobs
<1>3. ImportTables' /\ ImportGrows /\ faults \in Nat /\ faults' \in Nat
  BY <1>1, <1>2, ImportParts, ImportFacts DEF ImportTables, ImportGrows
<1>4. R \in RunType /\ GoodRun(R)
  BY ImportParts
<1>5. /\ r \in RunType /\ r.at = R.at /\ r.page = R.page /\ r.todo = R.todo
      /\ r.after = R.after /\ r.status = R.status /\ r.limit = R.limit
      /\ r.scanned = R.scanned /\ r.failed = R.failed
      /\ r.streak = R.streak /\ r.tripped = R.tripped /\ r.seen = R.seen
  BY <1>4 DEF RunType
<1>6. InPage(r) = InPage(R) /\ Waits(r) = Waits(R) /\ Passed(r) = Passed(R)
  BY <1>5 DEF InPage, Waits, Passed
<1>7. GoodRun(r)
  BY <1>4, <1>5, <1>6 DEF GoodRun, Underway
<1>8. GoodRun(r)'
  BY <1>3, <1>5, <1>7, GoodRunGrows
<1> QED BY <1>1, <1>3, <1>5, <1>8, RunUpdate

LEMMA CrashInv == ASSUME ImportInv, NEW b \in Boxes, Crash(b) PROVE ImportInv'
<1>1. faults' \in 0 .. MaxFaults /\ faults <= faults'
  BY ImportFault DEF Crash
<1>2. audit' \in [at : {"none", "read"}, box : Boxes, c : BOOLEAN, ids : SUBSET (1 .. N)]
  <2>1. audit' = NoAudit \/ audit' = audit
    BY DEF Crash
  <2> QED BY <2>1, ImportParts, NoAuditType DEF ImportTables
<1>3. run' = Ended(b, "running")
      /\ UNCHANGED <<index, master, hashed, backingOff, failures>>
  BY DEF Crash, tables
<1>4. ImportTables' /\ ImportGrows
  BY <1>1, <1>2, <1>3, ImportParts DEF ImportTables, ImportGrows
<1> QED BY <1>3, <1>4, EndedInv

LEMMA ScanInv == ASSUME ImportInv, Scan PROVE ImportInv'
<1>1. ImportTables' /\ ImportGrows /\ run' = run
  BY ImportParts, ImportFacts DEF Scan, ImportTables, ImportGrows
<1> QED BY <1>1, TablesUpdate

LEMMA IngestInv == ASSUME ImportInv, Ingest PROVE ImportInv'
<1>1. ImportTables' /\ ImportGrows /\ run' = run
  BY ImportParts, ImportFacts DEF Ingest, ImportTables, ImportGrows
<1> QED BY <1>1, TablesUpdate

LEMMA HashInv == ASSUME ImportInv, NEW v \in Rows, Hash(v) PROVE ImportInv'
<1>1. faults' \in 0 .. MaxFaults /\ faults <= faults'
  BY ImportFault, ImportParts DEF Hash, ImportTables
<1>2. /\ v \in 1 .. N /\ hashed' \subseteq hashed \cup {v} /\ backingOff' \subseteq backingOff \cup {v}
      /\ UNCHANGED <<index, master, failures, run, audit>>
  BY ImportParts, ImportFacts DEF Hash
<1>3. ImportTables' /\ ImportGrows
  BY <1>1, <1>2, ImportParts DEF ImportTables, ImportGrows
<1> QED BY <1>2, <1>3, TablesUpdate

LEMMA InitImportInv == ASSUME ImportInit PROVE ImportInv
<1>1. ImportTables
  BY ImportFacts, NoAuditType DEF ImportInit, ImportTables
<1>2. \A b \in Boxes : run[b] = NoRun
  BY DEF ImportInit
<1>3. run \in [Boxes -> RunType]
  BY NoRunFacts DEF ImportInit
<1>4. ASSUME NEW b \in Boxes PROVE GoodRun(run[b])
  BY <1>2, NoRunFacts DEF GoodRun
<1>5. ImportTypeOK
  BY <1>1, <1>3, ImportType
<1> QED BY <1>4, <1>5 DEF ImportInv

LEMMA ImportStep == ImportInv /\ [ImportNext]_importVars => ImportInv'
<1> SUFFICES ASSUME ImportInv, [ImportNext]_importVars PROVE ImportInv'
  OBVIOUS
<1>1. CASE UNCHANGED importVars
  <2>1. ImportTables' /\ ImportGrows /\ run' = run
    BY <1>1, ImportParts DEF importVars, tables, ImportTables, ImportGrows
  <2> QED BY <2>1, TablesUpdate
<1>2. ASSUME NEW b \in Boxes, RunStep(b) PROVE ImportInv'
  <2>1. CASE Fetch(b)
    BY <2>1, FetchPageInv
  <2>2. CASE Complete(b)
    BY <2>2, CompleteInv
  <2>3. CASE FetchFails(b)
    BY <2>3, FailsInv DEF FetchFails
  <2>4. CASE CommitPage(b)
    BY <2>4, CommitPageInv
  <2>5. CASE RollbackPage(b)
    BY <2>5, RollbackPageInv
  <2>6. CASE CommitFails(b)
    BY <2>6, CommitFailsInv
  <2>7. CASE ImportRow(b)
    BY <2>7, ImportRowInv
  <2>8. CASE FailRow(b)
    BY <2>8, FailRowInv
  <2>9. CASE RowFails(b)
    BY <2>9, RowFailsInv
  <2> QED BY <1>2, <2>1, <2>2, <2>3, <2>4, <2>5, <2>6, <2>7, <2>8, <2>9 DEF RunStep
<1>3. ASSUME NEW b \in Boxes,
             \/ StartImport(b) \/ Audit(b) \/ CancelJobs(b) \/ Crash(b)
      PROVE  ImportInv'
  BY <1>3, StartImportInv, AuditInv, CancelJobsInv, CrashInv
<1>4. CASE Remediate \/ Scan \/ Ingest
  BY <1>4, RemediateInv, ScanInv, IngestInv
<1>5. ASSUME NEW v \in Rows, Hash(v) PROVE ImportInv'
  BY <1>5, HashInv
<1> QED BY <1>1, <1>2, <1>3, <1>4, <1>5 DEF ImportNext

LEMMA ImportInvariant == ImportSpec => []ImportInv
BY InitImportInv, ImportStep, PTL DEF ImportSpec

\* The tables, the runs of all boxes and the audit keep their types, and no
\* counter of a run passes the rows of video_index.
THEOREM ImportTypeCorrect == ImportSpec => []ImportTypeOK
<1>1. ImportInv => ImportTypeOK
  BY DEF ImportInv
<1> QED BY <1>1, ImportInvariant, PTL

\* A run without a limit that is recorded as succeeded has put every legacy row
\* of its start into the master, and one that succeeded with failures has left
\* a failure for each row that is not there (media_imports.rs), however the
\* runs of other boxes, scans and uploads change what is missing beside it.
THEOREM ImportSucceedsWithAll ==
  ImportSpec => []SucceededImportsAll
<1>1. ImportInv => SucceededImportsAll
  <2> SUFFICES ASSUME ImportInv PROVE SucceededImportsAll
    OBVIOUS
  <2>1. \A b \in Boxes : GoodRun(run[b])
    BY DEF ImportInv
  <2> QED BY <2>1 DEF GoodRun, SucceededImportsAll, NoLimit
<1> QED BY <1>1, ImportInvariant, PTL

\* The circuit breaker (MAX_CONSECUTIVE_IMPORT_FAILURES) aborts a run only where
\* the rows Postgres refuses and the faults reach its threshold together,
\* however the failures of a run fall into pages: any success resets the streak.
THEOREM ImportAbortsOnlySystemic ==
  ImportSpec => []AbortsOnlySystemic
<1>1. ImportInv => AbortsOnlySystemic
  <2> SUFFICES ASSUME ImportInv PROVE AbortsOnlySystemic
    OBVIOUS
  <2>1. \A b \in Boxes : GoodRun(run[b])
    BY DEF ImportInv
  <2> QED BY <2>1 DEF GoodRun, AbortsOnlySystemic
<1> QED BY <1>1, ImportInvariant, PTL

=============================================================================
