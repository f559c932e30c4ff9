------------------------ MODULE ConcurrentRequests -------------------------
(***************************************************************************)
(* Requests about one batch that overlap.  get_db gives each a transaction *)
(* at PostgreSQL's default level, READ COMMITTED: a statement sees what is *)
(* committed when it runs and the transaction's own writes, an UPDATE      *)
(* holds its row until the end, and nothing tests again what was read      *)
(* before.  Workflow says what each request does when it is alone.         *)
(***************************************************************************)
EXTENDS Naturals, FiniteSets, Sequences

CONSTANTS
    Rows,       \* the batch's records
    Requests,   \* requests in flight at a time
    NoRequest,  \* no request holds the row
    MaxQaTasks, \* bound: QA tasks ever created for one record
    Flagged     \* bound: the records on which flags are raised

ASSUME ConcurrentAssumption ==
    /\ Rows # {} /\ IsFiniteSet(Rows)
    /\ NoRequest \notin Requests
    /\ "batch" \notin Rows
    /\ MaxQaTasks \in Nat \ {0}
    /\ Flagged \subseteq Rows

VARIABLES
    rec,        \* records.status, as committed
    reopened,   \* whether the record's indexing task is in progress again
    qa_tasks,   \* the number of the record's QA tasks
    batch,      \* batches.status, as committed
    flags,      \* the record's open record_flags rows
    req,        \* per request: what it does, to which record, how far it is,
                \* and the statuses it saw in the rows it has read
    row_lock,   \* the request whose uncommitted UPDATE holds the row
    stale,      \* history: live requests that read what was since overwritten
    raced       \* history: the Deciding ones of them that have committed

ccVars == <<rec, reopened, qa_tasks, batch, flags, req, row_lock, stale, raced>>

LockRows == Rows \cup {"batch"}

Seen == [x \in LockRows |-> IF x = "batch" THEN batch ELSE rec[x]]

Idle == [op |-> "none", r |-> "batch", pc |-> "idle", saw |-> [x \in {} |-> x]]

CcInit ==
    /\ rec = [r \in Rows |-> "indexed"]
    /\ reopened = [r \in Rows |-> FALSE]
    /\ qa_tasks = [r \in Rows |-> 0]
    /\ batch = "indexing"
    /\ flags = [r \in Rows |-> 0]
    /\ req = [q \in Requests |-> Idle]
    /\ row_lock = [x \in LockRows |-> NoRequest]
    /\ stale = {}
    /\ raced = {}

\* Requests whose writes depend on what they read before.
Deciding == {"reopen", "complete", "pass"}

HasRead(q) == DOMAIN req[q].saw

At(q, op, pc) == req[q].op = op /\ req[q].pc = pc

Begin(q, op, r, pc, rows) ==
    /\ req[q] = Idle
    /\ req' = [req EXCEPT ![q] = [op |-> op, r |-> r, pc |-> pc,
                                     saw |-> [x \in rows |-> Seen[x]]]]

\* A further query.  The session keeps the row it loaded first as it was.
Reads(q, pc, rows) ==
    req' = [req EXCEPT ![q].pc = pc,
                       ![q].saw = [x \in HasRead(q) \cup rows |->
                                       IF x = req[q].r THEN @[x] ELSE Seen[x]]]

CanWrite(q, x) == row_lock[x] \in {NoRequest, q}

\* SQLAlchemy writes an attribute only if it differs from the value loaded.
Emits(q, x, new) == req[q].saw[x] # new

\* A slip: the exception handler that does not roll back.
GetDbEnd_NoRollback(q, written) ==
    /\ req' = [req EXCEPT ![q] = Idle]
    /\ row_lock' = IF written = {} THEN row_lock
                   ELSE [x \in LockRows |-> IF row_lock[x] = q THEN NoRequest ELSE row_lock[x]]
    /\ stale' = (stale \cup {p \in Requests : HasRead(p) \cap written # {}}) \ {q}
    /\ raced' = raced \cup {op \in {req[q].op} \cap Deciding : written # {} /\ q \in stale}

\* get_db's end of a request: commit, or rollback with nothing written.
GetDbEnd(q, written) ==
    /\ req' = [req EXCEPT ![q] = Idle]
    /\ row_lock' = [x \in LockRows |-> IF row_lock[x] = q THEN NoRequest ELSE row_lock[x]]
    /\ stale' = (stale \cup {p \in Requests : HasRead(p) \cap written # {}}) \ {q}
    /\ raced' = raced \cup {op \in {req[q].op} \cap Deciding : written # {} /\ q \in stale}

NoWrites == UNCHANGED <<rec, reopened, qa_tasks, batch, flags>>

NothingEnds == UNCHANGED <<row_lock, stale, raced>>

-----------------------------------------------------------------------------
(* start_task on the caller's completed indexing task, and complete_task   *)
(* on it, whether or not it was reopened.  Neither tests the record's      *)
(* status, and complete_task tests not even the task's or the batch's.     *)

\* A slip: work reopened whatever phase the batch is in.
ReopenRead_AnyPhase(q, r) ==
    /\ ~reopened[r]
    /\ Begin(q, "reopen", r, "flush", {"batch", r})
    /\ NoWrites /\ NothingEnds

ReopenRead(q, r) ==
    /\ ~reopened[r]
    /\ batch = "indexing"
    /\ Begin(q, "reopen", r, "flush", {"batch", r})
    /\ NoWrites /\ NothingEnds

FinishRead(q, r) ==
    /\ Begin(q, IF reopened[r] THEN "finish" ELSE "resubmit", r, "flush", {r})
    /\ NoWrites /\ NothingEnds

\* The flush of either, straight before the commit; a task that was completed
\* when it was loaded is not written again, the record's data always are.
IndexingFlush(q) ==
    LET r   == req[q].r
        new == IF req[q].op = "reopen" THEN "indexing" ELSE "indexed"
    IN  /\ req[q].op \in {"reopen", "finish", "resubmit"}
        /\ CanWrite(q, r)
        /\ rec' = IF Emits(q, r, new) THEN [rec EXCEPT ![r] = new] ELSE rec
        /\ reopened' = IF req[q].op = "resubmit" THEN reopened
                       ELSE [reopened EXCEPT ![r] = (req[q].op = "reopen")]
        /\ GetDbEnd(q, {r})
        /\ UNCHANGED <<qa_tasks, batch, flags>>

-----------------------------------------------------------------------------
(* complete_indexing_batch, with auto_advance_to_qa.                       *)

CompleteRead(q) ==
    /\ batch = "indexing"
    /\ Begin(q, "complete", "batch", "count", {"batch"})
    /\ NoWrites /\ NothingEnds

\* The records still to be indexed, then the open flags: 400 if any.
CompleteCount(q) ==
    /\ At(q, "complete", "count")
    /\ IF \A r \in Rows : rec[r] = "indexed" /\ flags[r] = 0
       THEN Reads(q, "advance", Rows) /\ NothingEnds
       ELSE GetDbEnd(q, {})
    /\ NoWrites

\* The batch's new status, flushed by the query for its records.
CompleteAdvance(q) ==
    /\ At(q, "complete", "advance")
    /\ CanWrite(q, "batch")
    /\ row_lock' = [row_lock EXCEPT !["batch"] = q]
    /\ Reads(q, "insert", Rows)
    /\ NoWrites
    /\ UNCHANGED <<stale, raced>>

\* A slip: the batch left in indexing.
CompleteInsert_BatchStays(q) ==
    LET written == {r \in Rows : Emits(q, r, "qa_pending")}
    IN  /\ At(q, "complete", "insert")
        /\ \A r \in written : CanWrite(q, r)
        /\ \A r \in Rows : qa_tasks[r] < MaxQaTasks
        /\ rec' = [r \in Rows |-> IF r \in written THEN "qa_pending" ELSE rec[r]]
        /\ qa_tasks' = [r \in Rows |-> qa_tasks[r] + 1]
        /\ GetDbEnd(q, written \cup {"batch"})
        /\ UNCHANGED <<reopened, batch, flags>>

\* The records' statuses and a QA task for each, then the commit.
CompleteInsert(q) ==
    LET written == {r \in Rows : Emits(q, r, "qa_pending")}
    IN  /\ At(q, "complete", "insert")
        /\ \A r \in written : CanWrite(q, r)
        /\ \A r \in Rows : qa_tasks[r] < MaxQaTasks
        /\ rec' = [r \in Rows |-> IF r \in written THEN "qa_pending" ELSE rec[r]]
        /\ qa_tasks' = [r \in Rows |-> qa_tasks[r] + 1]
        /\ batch' = "qa_review"
        /\ GetDbEnd(q, written \cup {"batch"})
        /\ UNCHANGED <<reopened, flags>>

-----------------------------------------------------------------------------
(* complete_task on a QA task, with _maybe_complete_batch.                 *)

PassRead(q, r) ==
    /\ qa_tasks[r] > 0
    /\ Begin(q, "pass", r, "flush", {r})
    /\ NoWrites /\ NothingEnds

\* The record's row is written in any case: locked_by is released with it.
PassFlush(q) ==
    /\ At(q, "pass", "flush")
    /\ CanWrite(q, req[q].r)
    /\ row_lock' = [row_lock EXCEPT ![req[q].r] = q]
    /\ req' = [req EXCEPT ![q].pc = "count"]
    /\ NoWrites
    /\ UNCHANGED <<stale, raced>>

Passed(q, x) == rec[x] = "qa_passed" \/ (x = req[q].r /\ Emits(q, x, "qa_passed"))

\* A slip: the count run before the flush of the caller's own record.
PassCount_Unflushed(q) ==
    /\ At(q, "pass", "count")
    /\ Reads(q, IF \A x \in Rows : rec[x] = "qa_passed" THEN "close" ELSE "commit", LockRows)
    /\ NoWrites /\ NothingEnds

\* The query for records not passed: what is committed, and the own record.
PassCount(q) ==
    /\ At(q, "pass", "count")
    /\ Reads(q, IF \A x \in Rows : Passed(q, x)
                THEN "close" ELSE "commit", LockRows)
    /\ NoWrites /\ NothingEnds

\* The commit; a request that closes writes the batch first.
PassEnd(q) ==
    LET r      == req[q].r
        closes == req[q].pc = "close" /\ Emits(q, "batch", "complete")
    IN  /\ req[q].op = "pass" /\ req[q].pc \in {"close", "commit"}
        /\ closes => CanWrite(q, "batch")
        /\ rec' = IF Emits(q, r, "qa_passed") THEN [rec EXCEPT ![r] = "qa_passed"] ELSE rec
        /\ batch' = IF closes THEN "complete" ELSE batch
        /\ GetDbEnd(q, {r} \cup {x \in {"batch"} : closes})
        /\ UNCHANGED <<reopened, qa_tasks, flags>>

-----------------------------------------------------------------------------
(* Flags: raised after a look for an open one, kept single by the partial  *)
(* unique index uq_record_flags_one_open.                                  *)

FlagRead(q, r) ==
    /\ r \in Flagged
    /\ flags[r] = 0
    /\ Begin(q, "flag", r, "flush", {})
    /\ NoWrites /\ NothingEnds

Inserted(p, r) == At(p, "flag", "commit") /\ req[p].r = r

\* A slip: the table without its index.
FlagInsert_NoIndex(q) ==
    /\ At(q, "flag", "flush")
    /\ req' = [req EXCEPT ![q].pc = "commit"]
    /\ NoWrites /\ NothingEnds

\* The INSERT waits for another one not yet committed; an open flag that was
\* committed meanwhile makes it raise IntegrityError.
FlagInsert(q) ==
    LET r == req[q].r
    IN  /\ At(q, "flag", "flush")
        /\ \A p \in Requests : ~Inserted(p, r)
        /\ IF flags[r] = 0
           THEN req' = [req EXCEPT ![q].pc = "commit"] /\ NothingEnds
           ELSE GetDbEnd(q, {})
        /\ NoWrites

FlagCommit(q) ==
    LET r == req[q].r
    IN  /\ At(q, "flag", "commit")
        /\ flags' = [flags EXCEPT ![r] = @ + 1]
        /\ GetDbEnd(q, {})
        /\ UNCHANGED <<rec, reopened, qa_tasks, batch>>

\* withdraw_flag and resolve_flag close the open flag in one statement.
FlagClose(r) ==
    /\ flags[r] > 0
    /\ flags' = [flags EXCEPT ![r] = 0]
    /\ UNCHANGED <<rec, reopened, qa_tasks, batch, req, row_lock, stale, raced>>

-----------------------------------------------------------------------------
\* PostgreSQL refuses one of two requests that wait for each other's rows:
\* one closes the batch and holds a record, the other holds the batch.
Deadlocked(p, q) ==
    /\ p # q
    /\ At(p, "complete", "insert") /\ At(q, "pass", "close")
    /\ row_lock["batch"] = p /\ Emits(q, "batch", "complete")
    /\ \E r \in Rows : row_lock[r] = q /\ Emits(p, r, "qa_pending")

RefuseDeadlocked(q) ==
    /\ \E p \in Requests : Deadlocked(p, q) \/ Deadlocked(q, p)
    /\ GetDbEnd(q, {})
    /\ NoWrites

\* What a request that has begun does next.
Goes(q) ==
    \/ IndexingFlush(q)
    \/ CompleteCount(q)
    \/ CompleteAdvance(q)
    \/ CompleteInsert(q)
    \/ PassFlush(q)
    \/ PassCount(q)
    \/ PassEnd(q)
    \/ FlagInsert(q)
    \/ FlagCommit(q)
    \/ RefuseDeadlocked(q)

CcNext ==
    \/ \E q \in Requests :
           \/ Goes(q)
           \/ CompleteRead(q)
           \/ \E r \in Rows : \/ ReopenRead(q, r)
                              \/ FinishRead(q, r)
                              \/ PassRead(q, r)
                              \/ FlagRead(q, r)
    \/ \E r \in Rows : FlagClose(r)

\* A request that waits for a row gets it: PostgreSQL queues the waiters, so
\* strong fairness; nothing makes anyone send a request.
CcFairness == \A q \in Requests : SF_ccVars(Goes(q))

CcSpec == CcInit /\ [][CcNext]_ccVars /\ CcFairness

-----------------------------------------------------------------------------
Ops == {"none", "reopen", "finish", "resubmit", "complete", "pass", "flag"}

\* A row is held exactly by the live request whose UPDATE of it is not yet
\* committed: the batch by the one that completes it, a record by a pass.
RowsHeld ==
    /\ \A q \in Requests : row_lock["batch"] = q <=> At(q, "complete", "insert")
    /\ \A q \in Requests, r \in Rows :
           row_lock[r] = q <=> /\ req[q].op = "pass" /\ req[q].r = r
                               /\ req[q].pc \in {"count", "close", "commit"}

InsertedIsAlone ==
    \A q \in Requests, r \in Rows :
        Inserted(q, r) => flags[r] = 0 /\ \A p \in Requests : Inserted(p, r) => p = q

\* What the columns hold, which requests hold the rows, and open flags as
\* "enforced by the database as well as the service" (8ecac36541a6) has them:
\* at most one, and an inserted one not yet committed is the record's only one.
CcTypeOK ==
    /\ rec \in [Rows -> {"indexed", "indexing", "qa_pending", "qa_passed"}]
    /\ reopened \in [Rows -> BOOLEAN]
    /\ qa_tasks \in [Rows -> 0 .. MaxQaTasks]
    /\ batch \in {"indexing", "qa_review", "complete"}
    /\ flags \in [Rows -> 0 .. 1]
    /\ \A q \in Requests : req[q].op \in Ops /\ HasRead(q) \subseteq LockRows
    /\ row_lock \in [LockRows -> Requests \cup {NoRequest}]
    /\ stale \subseteq Requests /\ raced \subseteq Deciding
    /\ RowsHeld
    /\ InsertedIsAlone

\* No record gets a second QA task unless a request that completes the batch
\* commits on a row overwritten since it read it: two requests that complete
\* one batch (batch_service.complete_indexing_batch).  Other stale commits,
\* of passes, reopenings and submissions, give none.
OneQaTask == "complete" \in raced \/ \A r \in Rows : qa_tasks[r] <= 1

\* In a batch past indexing no record is being indexed and no indexing task
\* in progress, unless a stale request reopened work or completed the batch
\* (task_service.start_task).  A finished task may be submitted again at any
\* time, and its record is then "indexed" while in QA.
NoIndexingInReview ==
    \/ raced \cap {"reopen", "complete"} # {}
    \/ batch # "indexing" => \A r \in Rows : ~reopened[r] /\ rec[r] # "indexing"

\* When all records have passed their batch is complete, unless a stale pass
\* (the last two do not see each other) or a stale completion committed; and a
\* complete batch has only records that passed or were submitted again since,
\* whatever passes were stale (task_service._maybe_complete_batch).
CompleteWhenPassed ==
    /\ \/ raced \cap {"pass", "complete"} # {}
       \/ (\A r \in Rows : rec[r] = "qa_passed") => batch = "complete"
    /\ \/ raced \cap {"reopen", "complete"} # {}
       \/ batch = "complete" => \A r \in Rows : rec[r] \in {"qa_passed", "indexed"}

\* "QA and QC are unchanged: still auto-advance on their own last task"
\* (task_service.py:198): with all records passed and no request under way the
\* batch has advanced.  Two last passes that overlap leave it in qa_review.
LastPassAdvances ==
    (\A r \in Rows : rec[r] = "qa_passed") /\ (\A q \in Requests : req[q] = Idle)
        => batch = "complete"

\* Every request ends, also when requests wait for each other's rows:
\* get_db gives up its rows on commit and on every exception.
RequestsEnd == \A q \in Requests : req[q] # Idle ~> req[q] = Idle

=============================================================================
