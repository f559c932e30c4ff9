------------------------------ MODULE Workflow ------------------------------
(***************************************************************************)
(* The digitizing workflow of one project: records are allocated to        *)
(* indexers in batches, indexed or skipped, sent to QA batch by batch,     *)
(* passed, rejected, reassigned or requeued.                               *)
(*                                                                         *)
(* Each action is one HTTP request: get_db (core/database.py) gives it one *)
(* session, commits at the end and rolls back on any exception, so a       *)
(* request either takes all of its effects or none.  Requests are serial   *)
(* here: what concurrent ones read of each other is not modelled.          *)
(***************************************************************************)
EXTENDS DocmateTypes

CONSTANTS
    Records,       \* the scanned records of the project
    Agents,        \* digitizing staff who work tasks
    Indexers,      \* the agents on shift in the indexer role
    QaAgents,      \* the agents on shift in the qa role
    NoOne,         \* NULL in a column that names a user
    SkipChoices,   \* the skip statuses an indexer picks from
    DirectAssign,  \* whether supervisors also call POST /api/tasks/assign,
                   \* which neither portal does
    DirectFail,    \* whether agents also call POST /api/tasks/{id}/fail on
                   \* an indexing task, which neither portal does
    MaxTasks,      \* bound: tasks ever created for one record
    MaxBatches,    \* bound: batches ever created
    MaxVersions    \* bound: version rows ever created for one record

ASSUME WorkflowAssumption ==
    /\ Indexers \subseteq Agents
    /\ QaAgents \subseteq Agents
    /\ NoOne \notin Agents
    /\ SkipChoices \subseteq SKIPPABLE_STATUSES
    /\ DirectAssign \in BOOLEAN
    /\ DirectFail \in BOOLEAN
    /\ MaxTasks \in Nat
    /\ MaxBatches \in Nat
    /\ MaxVersions \in Nat

VARIABLES
    status,           \* records.status
    batch_id,         \* records.batch_id, NoBatch for NULL
    locked_by,        \* records.locked_by, NoOne for NULL
    current_version,  \* records.current_version
    versions,         \* the record's record_versions rows, oldest first
    tasks,            \* the record's task rows, oldest first
    batches,          \* batches.status, indexed by batch id
    open_flag         \* whether the record has an open record_flags row

vars == <<status, batch_id, locked_by, current_version, versions, tasks,
          batches, open_flag>>

NoBatch == 0

Staff == Agents \cup {NoOne}

BatchIds == 1 .. Len(batches)

-----------------------------------------------------------------------------
(* Rows and the services every handler calls.                              *)

TaskRow == [task_type   : TaskType,
            batch       : Nat,
            assigned_to : Staff,
            status      : TaskStatus]

VersionRow == [number : Nat, reason : VersionReason]

NewTask(type, b, agent) ==
    [task_type |-> type, batch |-> b, assigned_to |-> agent,
     status |-> "pending"]

\* staff_assignment_service.require_shift_role_for_task_type: QC tasks are
\* not gated by the indexer and qa roles.
HoldsShiftRole(agent, type) ==
    CASE type = "indexing" -> agent \in Indexers
      [] type = "qa"       -> agent \in QaAgents
      [] type = "qc"       -> TRUE

\* Slips of the code, each with the name of the operator it would replace:
\* they show that the properties below can fail.
AcquireLock_Untested(r, u) == locked_by' = [locked_by EXCEPT ![r] = u]

ReleaseLock_Forgotten(r) == UNCHANGED locked_by

\* lock_service.acquire_lock
AcquireLock(r, u) ==
    /\ locked_by[r] \in {NoOne, u}
    /\ locked_by' = [locked_by EXCEPT ![r] = u]

\* lock_service.release_lock: whoever holds it.
ReleaseLock(r) == locked_by' = [locked_by EXCEPT ![r] = NoOne]

\* A slip: the record's own number left as it was.
CreateVersion_Uncounted(r, reason) ==
    /\ Len(versions[r]) < MaxVersions
    /\ versions' = [versions EXCEPT ![r] =
           Append(@, [number |-> current_version[r], reason |-> reason])]
    /\ UNCHANGED current_version

\* version_service.create_version
CreateVersion(r, reason) ==
    /\ Len(versions[r]) < MaxVersions
    /\ versions' = [versions EXCEPT ![r] =
           Append(@, [number |-> current_version[r], reason |-> reason])]
    /\ current_version' = [current_version EXCEPT ![r] = @ + 1]

SetTaskStatus(r, k, s) == tasks' = [tasks EXCEPT ![r][k].status = s]

IsMyTask(r, k, u) == k \in DOMAIN tasks[r] /\ tasks[r][k].assigned_to = u

HasRoom(r) == Len(tasks[r]) < MaxTasks

NewBatchId == Len(batches) + 1

InsertBatch(s) ==
    /\ Len(batches) < MaxBatches
    /\ batches' = Append(batches, s)

-----------------------------------------------------------------------------
(* Allocation (cabinet_service, batch_service, task_service).              *)

\* cabinet_service.create_indexing_batch: a batch and its tasks for the
\* chosen records of a cabinet, all given to one indexer.
CreateIndexingBatch(chosen, a) ==
    /\ chosen # {}
    /\ HoldsShiftRole(a, "indexing")
    /\ \A r \in chosen : /\ status[r] = "pending"
                         /\ batch_id[r] = NoBatch
                         /\ HasRoom(r)
    /\ InsertBatch("indexing")
    /\ batch_id' = [r \in Records |->
                        IF r \in chosen THEN NewBatchId ELSE batch_id[r]]
    /\ tasks' = [r \in Records |->
                     IF r \in chosen
                     THEN Append(tasks[r], NewTask("indexing", NewBatchId, a))
                     ELSE tasks[r]]
    /\ UNCHANGED <<status, locked_by, current_version, versions, open_flag>>

\* task_service.assign_task, behind POST /api/tasks/assign: no test of the
\* record's status, of the batch's, or of the tasks the record already has.
AssignTask(r, b, type, a) ==
    /\ DirectAssign
    /\ b \in BatchIds
    /\ HoldsShiftRole(a, type)
    /\ HasRoom(r)
    /\ tasks' = [tasks EXCEPT ![r] = Append(@, NewTask(type, b, a))]
    /\ UNCHANGED <<status, batch_id, locked_by, current_version, versions,
                   batches, open_flag>>

\* batch_service.assign_qa_agent: every pending QA task of a batch in QA
\* goes to one agent; 409 when none moves.
AssignableQaTask(t, b, a) ==
    /\ t.batch = b
    /\ t.task_type = "qa"
    /\ t.status = "pending"
    /\ t.assigned_to # a

AssignQaAgent(b, a) ==
    /\ b \in BatchIds
    /\ batches[b] = "qa_review"
    /\ HoldsShiftRole(a, "qa")
    /\ \E r \in Records : \E k \in DOMAIN tasks[r] :
           AssignableQaTask(tasks[r][k], b, a)
    /\ tasks' = [r \in Records |-> [k \in DOMAIN tasks[r] |->
           IF AssignableQaTask(tasks[r][k], b, a)
           THEN [tasks[r][k] EXCEPT !.assigned_to = a]
           ELSE tasks[r][k]]]
    /\ UNCHANGED <<status, batch_id, locked_by, current_version, versions,
                   batches, open_flag>>

\* task_service.reassign_task (and bulk_reassign, which iterates it): the
\* task goes back to pending whatever its status was, and the record is
\* unlocked when the old assignee holds it.
ReassignTask(r, k, a) ==
    /\ k \in DOMAIN tasks[r]
    /\ HoldsShiftRole(a, tasks[r][k].task_type)
    /\ locked_by' = IF locked_by[r] = tasks[r][k].assigned_to
                    THEN [locked_by EXCEPT ![r] = NoOne] ELSE locked_by
    /\ tasks' = [tasks EXCEPT ![r][k].assigned_to = a,
                              ![r][k].status = "pending"]
    /\ UNCHANGED <<status, batch_id, current_version, versions, batches,
                   open_flag>>

\* batch_service.reassign_batch: reassign_task on every open task of one
\* type in the batch.
MovedByBatch(t, b, type) ==
    /\ t.batch = b
    /\ t.task_type = type
    /\ t.status \in OpenTaskStatus

ReassignBatch(b, type, a) ==
    /\ HoldsShiftRole(a, type)
    /\ \E r \in Records : \E k \in DOMAIN tasks[r] : MovedByBatch(tasks[r][k], b, type)
    /\ locked_by' = [r \in Records |->
           IF \E k \in DOMAIN tasks[r] :
                  /\ MovedByBatch(tasks[r][k], b, type)
                  /\ tasks[r][k].assigned_to = locked_by[r]
           THEN NoOne ELSE locked_by[r]]
    /\ tasks' = [r \in Records |-> [k \in DOMAIN tasks[r] |->
           IF MovedByBatch(tasks[r][k], b, type)
           THEN [tasks[r][k] EXCEPT !.assigned_to = a, !.status = "pending"]
           ELSE tasks[r][k]]]
    /\ UNCHANGED <<status, batch_id, current_version, versions, batches, open_flag>>

-----------------------------------------------------------------------------
(* The agent's workspace (task_service).                                   *)

\* An indexer may reopen completed work while its batch is still in
\* indexing; other finished tasks answer 409.
Startable(t) ==
    \/ t.status \in OpenTaskStatus
    \/ /\ t.status = "completed"
       /\ t.task_type = "indexing"
       /\ t.batch \in BatchIds
       /\ batches[t.batch] = "indexing"

\* A slip: the record's status set for every type of task.
StartTask_AnyType(r, k, u) ==
    /\ IsMyTask(r, k, u)
    /\ Startable(tasks[r][k])
    /\ AcquireLock(r, u)
    /\ status' = [status EXCEPT ![r] = "indexing"]
    /\ SetTaskStatus(r, k, "in_progress")
    /\ UNCHANGED <<batch_id, current_version, versions, batches, open_flag>>

\* task_service.start_task
StartTask(r, k, u) ==
    /\ IsMyTask(r, k, u)
    /\ Startable(tasks[r][k])
    /\ AcquireLock(r, u)
    /\ status' = IF tasks[r][k].task_type = "indexing"
                 THEN [status EXCEPT ![r] = "indexing"] ELSE status
    /\ SetTaskStatus(r, k, "in_progress")
    /\ UNCHANGED <<batch_id, current_version, versions, batches, open_flag>>

\* task_service.complete_task's choice of VersionReason.
CompletionReason(r) ==
    IF status[r] = "qa_failed" THEN "rework_after_qa"
    ELSE IF current_version[r] = 1 THEN "initial_indexing"
    ELSE "correction"

\* indexed_data is optional in the request; only a request that carries it
\* writes a version.
VersionIfSubmitted(r, submitted) ==
    IF submitted THEN CreateVersion(r, CompletionReason(r))
    ELSE UNCHANGED <<versions, current_version>>

\* task_service.complete_task on an indexing task: neither the task's status
\* nor the lock's holder is tested.
CompleteIndexing(r, k, u, submitted) ==
    /\ IsMyTask(r, k, u)
    /\ tasks[r][k].task_type = "indexing"
    /\ VersionIfSubmitted(r, submitted)
    /\ ReleaseLock(r)
    /\ status' = [status EXCEPT ![r] = "indexed"]
    /\ SetTaskStatus(r, k, "completed")
    /\ UNCHANGED <<batch_id, batches, open_flag>>

\* A slip: the batch closed on its first passed record.
MaybeCompleteBatch_OnFirst(b, st) ==
    batches' = IF b \in BatchIds THEN [batches EXCEPT ![b] = "complete"] ELSE batches

\* task_service._maybe_complete_batch, reading the statuses st just flushed;
\* batch_service.mark_complete tests nothing.
MaybeCompleteBatch(b, st) ==
    batches' =
        IF /\ b \in BatchIds
           /\ \A r \in Records : batch_id[r] = b =>
                  st[r] \in {"qa_passed"} \cup SKIPPED_RECORD_STATUSES
        THEN [batches EXCEPT ![b] = "complete"] ELSE batches

\* task_service.complete_task on a QA task: as above, then the batch.
CompleteQa(r, k, u, submitted) ==
    /\ IsMyTask(r, k, u)
    /\ tasks[r][k].task_type = "qa"
    /\ VersionIfSubmitted(r, submitted)
    /\ ReleaseLock(r)
    /\ status' = [status EXCEPT ![r] = "qa_passed"]
    /\ SetTaskStatus(r, k, "completed")
    /\ MaybeCompleteBatch(tasks[r][k].batch, status')
    /\ UNCHANGED <<batch_id, open_flag>>

\* A slip: the rework task forgotten.
FailQa_WithoutRework(r, k, u) ==
    /\ IsMyTask(r, k, u)
    /\ tasks[r][k].task_type = "qa"
    /\ tasks[r][k].status = "in_progress"
    /\ ReleaseLock(r)
    /\ status' = [status EXCEPT ![r] = "qa_failed"]
    /\ CreateVersion(r, "rework_after_qa")
    /\ SetTaskStatus(r, k, "failed")
    /\ UNCHANGED <<batch_id, batches, open_flag>>

\* task_service.fail_task on a QA task: the record is snapshotted and gets an
\* unassigned indexing task in the same batch.
FailQa(r, k, u) ==
    /\ IsMyTask(r, k, u)
    /\ tasks[r][k].task_type = "qa"
    /\ tasks[r][k].status = "in_progress"
    /\ HasRoom(r)
    /\ ReleaseLock(r)
    /\ status' = [status EXCEPT ![r] = "qa_failed"]
    /\ CreateVersion(r, "rework_after_qa")
    /\ tasks' = [tasks EXCEPT ![r] =
           Append([@ EXCEPT ![k].status = "failed"],
                  NewTask("indexing", tasks[r][k].batch, NoOne))]
    /\ UNCHANGED <<batch_id, batches, open_flag>>

\* task_service.fail_task on an indexing task: only the task ends, the record
\* keeps its status and no task follows.
FailIndexing(r, k, u) ==
    /\ DirectFail
    /\ IsMyTask(r, k, u)
    /\ tasks[r][k].task_type = "indexing"
    /\ tasks[r][k].status = "in_progress"
    /\ ReleaseLock(r)
    /\ SetTaskStatus(r, k, "failed")
    /\ UNCHANGED <<status, batch_id, current_version, versions, batches, open_flag>>

\* task_service.skip_task: an indexing task of the caller's, in any status.
SkipTask(r, k, u, choice) ==
    /\ IsMyTask(r, k, u)
    /\ tasks[r][k].task_type = "indexing"
    /\ ReleaseLock(r)
    /\ status' = [status EXCEPT ![r] = choice]
    /\ SetTaskStatus(r, k, "completed")
    /\ UNCHANGED <<batch_id, current_version, versions, batches, open_flag>>

-----------------------------------------------------------------------------
(* Batches, flags and the supervisor's tools.                              *)

\* A slip: open flags not counted.
ReadyForQa_Unflagged(b) ==
    \A r \in Records : batch_id[r] = b =>
        status[r] \in {"indexed"} \cup SKIPPED_RECORD_STATUSES

\* batch_service.complete_indexing_batch, then auto_advance_to_qa: one
\* unassigned QA task for every record of the batch that was not skipped.
ReadyForQa(b) ==
    \A r \in Records : batch_id[r] = b =>
        /\ status[r] \in {"indexed"} \cup SKIPPED_RECORD_STATUSES
        /\ ~open_flag[r]

SentToQa(r, b) ==
    batch_id[r] = b /\ status[r] \notin SKIPPED_RECORD_STATUSES

\* A slip: the batch's phase not tested.
CompleteIndexingBatch_AnyPhase(b) ==
    /\ ReadyForQa(b)
    /\ \A r \in Records : SentToQa(r, b) => HasRoom(r)
    /\ batches' = [batches EXCEPT ![b] = "qa_review"]
    /\ status' = [r \in Records |->
                      IF SentToQa(r, b) THEN "qa_pending" ELSE status[r]]
    /\ tasks' = [r \in Records |->
                     IF SentToQa(r, b) THEN Append(tasks[r], NewTask("qa", b, NoOne))
                     ELSE tasks[r]]
    /\ UNCHANGED <<batch_id, locked_by, current_version, versions, open_flag>>

CompleteIndexingBatch(b) ==
    /\ b \in BatchIds
    /\ batches[b] = "indexing"
    /\ ReadyForQa(b)
    /\ \A r \in Records : SentToQa(r, b) => HasRoom(r)
    /\ batches' = [batches EXCEPT ![b] = "qa_review"]
    /\ status' = [r \in Records |->
                      IF SentToQa(r, b) THEN "qa_pending" ELSE status[r]]
    /\ tasks' = [r \in Records |->
                     IF SentToQa(r, b)
                     THEN Append(tasks[r], NewTask("qa", b, NoOne))
                     ELSE tasks[r]]
    /\ UNCHANGED <<batch_id, locked_by, current_version, versions, open_flag>>

\* record_service.requeue_record closes every open task of the record.
WithOpenTasksFailed(r) ==
    [k \in DOMAIN tasks[r] |->
        IF tasks[r][k].status \in OpenTaskStatus
        THEN [tasks[r][k] EXCEPT !.status = "failed"] ELSE tasks[r][k]]

\* A slip: the record left in its old batch.
RequeueForIndexing_KeepsBatch(r) ==
    /\ ReleaseLock(r)
    /\ tasks' = [tasks EXCEPT ![r] = WithOpenTasksFailed(r)]
    /\ CreateVersion(r, "supervisor_requeue")
    /\ status' = [status EXCEPT ![r] = "pending"]
    /\ UNCHANGED <<batch_id, batches, open_flag>>

\* record_service.requeue_record, target="indexing"
RequeueForIndexing(r) ==
    /\ ReleaseLock(r)
    /\ tasks' = [tasks EXCEPT ![r] = WithOpenTasksFailed(r)]
    /\ CreateVersion(r, "supervisor_requeue")
    /\ status' = [status EXCEPT ![r] = "pending"]
    /\ batch_id' = [batch_id EXCEPT ![r] = NoBatch]
    /\ UNCHANGED <<batches, open_flag>>

\* record_service.requeue_record, target="qa": a one-record rework batch.
RequeueForQa(r) ==
    /\ batch_id[r] # NoBatch
    /\ HasRoom(r)
    /\ ReleaseLock(r)
    /\ InsertBatch("qa_review")
    /\ batch_id' = [batch_id EXCEPT ![r] = NewBatchId]
    /\ status' = [status EXCEPT ![r] = "qa_pending"]
    /\ tasks' = [tasks EXCEPT ![r] = Append(WithOpenTasksFailed(r),
                                            NewTask("qa", NewBatchId, NoOne))]
    /\ UNCHANGED <<current_version, versions, open_flag>>

\* POST /api/records/{id}/unlock
UnlockRecord(r) ==
    /\ locked_by[r] # NoOne
    /\ ReleaseLock(r)
    /\ UNCHANGED <<status, batch_id, current_version, versions, tasks, batches,
                   open_flag>>

\* flag_service.raise_flag by a supervisor or anyone with a task on the
\* record; withdraw_flag or resolve_flag takes the flag down.
RaiseFlag(r) ==
    /\ ~open_flag[r]
    /\ open_flag' = [open_flag EXCEPT ![r] = TRUE]
    /\ UNCHANGED <<status, batch_id, locked_by, current_version, versions,
                   tasks, batches>>

CloseFlag(r) ==
    /\ open_flag[r]
    /\ open_flag' = [open_flag EXCEPT ![r] = FALSE]
    /\ UNCHANGED <<status, batch_id, locked_by, current_version, versions,
                   tasks, batches>>

-----------------------------------------------------------------------------
Init ==
    /\ status = [r \in Records |-> "pending"]
    /\ batch_id = [r \in Records |-> NoBatch]
    /\ locked_by = [r \in Records |-> NoOne]
    /\ current_version = [r \in Records |-> 1]
    /\ versions = [r \in Records |-> <<>>]
    /\ tasks = [r \in Records |-> <<>>]
    /\ batches = <<>>
    /\ open_flag = [r \in Records |-> FALSE]

\* What an agent does with one of the record's tasks.
AgentStep(r, k, u) ==
    \/ StartTask(r, k, u)
    \/ \E submitted \in BOOLEAN : \/ CompleteIndexing(r, k, u, submitted)
                                  \/ CompleteQa(r, k, u, submitted)
    \/ FailQa(r, k, u)
    \/ FailIndexing(r, k, u)
    \/ \E choice \in SkipChoices : SkipTask(r, k, u, choice)

Next ==
    \/ \E chosen \in SUBSET Records, a \in Agents : CreateIndexingBatch(chosen, a)
    \/ \E r \in Records, b \in BatchIds, type \in {"indexing", "qa"}, a \in Agents :
           AssignTask(r, b, type, a)
    \/ \E b \in BatchIds, a \in Agents : AssignQaAgent(b, a)
    \/ \E r \in Records : \E k \in DOMAIN tasks[r], a \in Agents : ReassignTask(r, k, a)
    \/ \E b \in BatchIds, type \in {"indexing", "qa"}, a \in Agents :
           ReassignBatch(b, type, a)
    \/ \E r \in Records : \E k \in DOMAIN tasks[r], u \in Agents : AgentStep(r, k, u)
    \/ \E b \in BatchIds : CompleteIndexingBatch(b)
    \/ \E r \in Records : \/ RequeueForIndexing(r)
                          \/ RequeueForQa(r)
                          \/ UnlockRecord(r)
                          \/ RaiseFlag(r)
                          \/ CloseFlag(r)

Spec == Init /\ [][Next]_vars

-----------------------------------------------------------------------------
(* What the workflow promises.                                             *)

\* Every column holds a value of its type.
ColumnsTyped ==
    /\ status \in [Records -> RecordStatus]
    /\ batch_id \in [Records -> Nat]
    /\ locked_by \in [Records -> Staff]
    /\ current_version \in [Records -> Nat]
    /\ versions \in [Records -> Seq(VersionRow)]
    /\ tasks \in [Records -> Seq(TaskRow)]
    /\ batches \in Seq(BatchStatus)
    /\ open_flag \in [Records -> BOOLEAN]

\* Every batch that a record or a task refers to has been created.
BatchesIssued ==
    \A r \in Records :
        /\ batch_id[r] \in BatchIds \cup {NoBatch}
        /\ \A k \in DOMAIN tasks[r] : tasks[r][k].batch \in BatchIds

\* The versions of a record are numbered without a gap, and its current version
\* is the one that the next of them will keep.
VersionsNumbered ==
    \A r \in Records :
        /\ current_version[r] = Len(versions[r]) + 1
        /\ \A k \in DOMAIN versions[r] : versions[r][k].number = k

\* Columns hold values of their type, batches that are referred to exist, and the
\* versions of a record are numbered one after the other (create_version).
TypeOK == ColumnsTyped /\ BatchesIssued /\ VersionsNumbered

HasTask(r, type, statuses) ==
    \E k \in DOMAIN tasks[r] : /\ tasks[r][k].task_type = type
                               /\ tasks[r][k].status \in statuses

HasTaskInItsBatch(r, type, statuses) ==
    \E k \in DOMAIN tasks[r] : /\ tasks[r][k].task_type = type
                               /\ tasks[r][k].status \in statuses
                               /\ tasks[r][k].batch = batch_id[r]

InBatch(r, s) == batch_id[r] \in BatchIds /\ batches[batch_id[r]] = s

\* A lock is never left behind by the task flow: whoever holds a record's
\* lock has a task of theirs in progress on it, so completing, failing,
\* skipping or reassigning that task gives the record back.
LockHasWorker ==
    \A r \in Records : locked_by[r] # NoOne =>
        \E k \in DOMAIN tasks[r] : /\ tasks[r][k].assigned_to = locked_by[r]
                                   /\ tasks[r][k].status = "in_progress"

\* An allocated record waits where an indexer can reach it: still pending, it
\* has a pending indexing task in its batch and the batch is in indexing.
AllocatedIsWorkable ==
    \A r \in Records : status[r] = "pending" /\ batch_id[r] # NoBatch =>
        InBatch(r, "indexing") /\ HasTaskInItsBatch(r, "indexing", {"pending"})

\* A record shown as being indexed has an open indexing task, however the
\* task was reassigned, reopened or unlocked since.  fail_task is documented
\* to "fail a QA or QC task" (task_service.py:375); on an indexing task it
\* breaks this, so it holds only without DirectFail.
IndexingIsWorkable ==
    \A r \in Records : status[r] = "indexing" =>
        HasTask(r, "indexing", OpenTaskStatus)

\* A record waiting for QA can be assigned: its batch is in qa_review, the
\* only status assign_qa_agent accepts, and holds an open QA task for it.
\* In particular no batch completes over a record QA has not seen.
QaPendingIsAssignable ==
    \A r \in Records : status[r] = "qa_pending" =>
        InBatch(r, "qa_review") /\ HasTaskInItsBatch(r, "qa", OpenTaskStatus)

\* A record QA rejected has its rework task waiting until someone starts,
\* skips or requeues it.
QaRejectionHasRework ==
    \A r \in Records : status[r] = "qa_failed" => HasTask(r, "indexing", {"pending"})

\* Ownership of a record, as RecordLock states it: who is busy on a record is
\* who has a task in progress on it.
BusyOn(r) ==
    {u \in Agents : \E k \in DOMAIN tasks[r] :
        tasks[r][k].assigned_to = u /\ tasks[r][k].status = "in_progress"}

Lock == INSTANCE RecordLock WITH
            holder <- locked_by, busy <- [r \in Records |-> BusyOn(r)]

\* No request takes a record from the agent who holds it and gives it to
\* another: start_task refuses, and every other handler frees it first.
LockSpec == Lock!Spec

\* Batches keep their phases in order although mark_complete, complete_task
\* and skip_task test no status: no request reopens, revives or skips back.
Lifecycle == INSTANCE BatchLifecycle WITH phase <- batches

LifecycleSpec == Lifecycle!Spec

\* flag_service: an indexing batch is not completed while one of its records
\* has an open flag or is unfinished.  It could leave indexing unseen through
\* _maybe_complete_batch, so this rests on QA tasks living in later batches.
FlagsHoldTheBatch ==
    [][\A b \in BatchIds :
           batches[b] = "indexing" /\ batches'[b] # "indexing" =>
               \A r \in Records : batch_id[r] = b =>
                   ~open_flag[r] /\ status[r] \notin {"pending", "indexing"}]_vars

=============================================================================
