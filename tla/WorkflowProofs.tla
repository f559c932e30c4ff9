--------------------------- MODULE WorkflowProofs ---------------------------
(***************************************************************************)
(* Proofs about Workflow, for every set of records and agents, every       *)
(* distribution of shift roles and every bound.                            *)
(***************************************************************************)
EXTENDS Workflow, SequenceTheorems, TLAPS

-----------------------------------------------------------------------------
(* Sequences of rows.                                                      *)

\* A sequence rewritten row by row keeps its length and its type.
LEMMA RowsRewritten ==
    ASSUME NEW S, NEW s \in Seq(S), NEW t \in [DOMAIN s -> S]
    PROVE  t \in Seq(S) /\ DOMAIN t = DOMAIN s /\ Len(t) = Len(s)
<1>1. DOMAIN s = 1 .. Len(s) /\ Len(s) \in Nat
    BY LenProperties
<1>2. t \in [1 .. Len(s) -> S]
    BY <1>1
<1>3. t \in Seq(S)
    BY <1>1, <1>2, SeqDef
<1> QED BY <1>1, <1>2, <1>3, LenProperties

\* The rows a new task row leaves in place, and where it goes.
LEMMA RowAdded ==
    ASSUME NEW S, NEW s \in Seq(S), NEW e \in S
    PROVE  /\ Append(s, e) \in Seq(S)
           /\ DOMAIN Append(s, e) = DOMAIN s \cup {Len(s) + 1}
           /\ \A k \in DOMAIN s : Append(s, e)[k] = s[k]
           /\ Append(s, e)[Len(s) + 1] = e
           /\ Len(s) + 1 \notin DOMAIN s
<1>1. DOMAIN s = 1 .. Len(s) /\ Len(s) \in Nat
    BY LenProperties
<1>2. /\ Append(s, e) \in Seq(S)
      /\ Len(Append(s, e)) = Len(s) + 1
      /\ \A i \in 1 .. Len(s) : Append(s, e)[i] = s[i]
      /\ Append(s, e)[Len(s) + 1] = e
    BY <1>1, AppendProperties
<1>3. DOMAIN Append(s, e) = 1 .. Len(s) + 1
    BY <1>2, LenProperties
<1> QED BY <1>1, <1>2, <1>3

-----------------------------------------------------------------------------
(* The types of the columns.                                               *)

LEMMA NewTaskType ==
    ASSUME NEW type \in TaskType, NEW b \in Nat, NEW a \in Staff
    PROVE  NewTask(type, b, a) \in TaskRow
BY DEF NewTask, TaskRow, TaskStatus

LEMMA ColumnsTypedInit == Init => ColumnsTyped
<1> SUFFICES ASSUME Init PROVE ColumnsTyped
    OBVIOUS
<1>1. <<>> \in Seq(VersionRow) /\ <<>> \in Seq(TaskRow) /\ <<>> \in Seq(BatchStatus)
    BY EmptySeq
<1> QED BY <1>1 DEF Init, ColumnsTyped, RecordStatus, Staff, NoBatch

LEMMA InsertBatchType ==
    ASSUME ColumnsTyped, NEW s \in BatchStatus, InsertBatch(s)
    PROVE  batches' \in Seq(BatchStatus) /\ NewBatchId \in Nat
<1>1. batches \in Seq(BatchStatus)
    BY DEF ColumnsTyped
<1> QED BY <1>1, RowAdded, LenProperties DEF InsertBatch, NewBatchId

LEMMA CreateIndexingBatchType ==
    ASSUME ColumnsTyped, NEW chosen \in SUBSET Records, NEW a \in Agents,
           CreateIndexingBatch(chosen, a)
    PROVE  ColumnsTyped'
<1>1. batches' \in Seq(BatchStatus) /\ NewBatchId \in Nat
    BY InsertBatchType DEF CreateIndexingBatch, BatchStatus
<1>2. NewTask("indexing", NewBatchId, a) \in TaskRow
    BY <1>1, NewTaskType DEF TaskType, Staff
<1>3. tasks' \in [Records -> Seq(TaskRow)]
  <2>1. \A r \in Records : Append(tasks[r], NewTask("indexing", NewBatchId, a)) \in Seq(TaskRow)
    BY <1>2, RowAdded DEF ColumnsTyped
  <2> QED BY <2>1 DEF CreateIndexingBatch, ColumnsTyped
<1>4. batch_id' \in [Records -> Nat]
    BY <1>1 DEF CreateIndexingBatch, ColumnsTyped
<1> QED BY <1>1, <1>3, <1>4 DEF CreateIndexingBatch, ColumnsTyped


\* A handler that rewrites one task row of the record.
LEMMA TaskRowType ==
    ASSUME ColumnsTyped, NEW r \in Records, NEW k \in DOMAIN tasks[r], NEW row \in TaskRow
    PROVE  [tasks EXCEPT ![r][k] = row] \in [Records -> Seq(TaskRow)]
<1>1. [tasks[r] EXCEPT ![k] = row] \in Seq(TaskRow)
    BY RowsRewritten, ElementOfSeq, LenProperties DEF ColumnsTyped
<1> QED BY <1>1 DEF ColumnsTyped

LEMMA TaskRowAt ==
    ASSUME ColumnsTyped, NEW r \in Records, NEW k \in DOMAIN tasks[r]
    PROVE  tasks[r][k] \in TaskRow
BY ElementOfSeq, LenProperties DEF ColumnsTyped

LEMMA SetTaskStatusType ==
    ASSUME ColumnsTyped, NEW r \in Records, NEW k \in DOMAIN tasks[r],
           NEW s \in TaskStatus, SetTaskStatus(r, k, s)
    PROVE  tasks' \in [Records -> Seq(TaskRow)]
<1>1. [tasks[r][k] EXCEPT !.status = s] \in TaskRow
    BY TaskRowAt DEF TaskRow
<1>2. tasks' = [tasks EXCEPT ![r][k] = [tasks[r][k] EXCEPT !.status = s]]
    BY DEF SetTaskStatus, ColumnsTyped
<1> QED BY <1>1, <1>2, TaskRowType

LEMMA CreateVersionType ==
    ASSUME ColumnsTyped, NEW r \in Records, NEW reason \in VersionReason,
           CreateVersion(r, reason)
    PROVE  /\ versions' \in [Records -> Seq(VersionRow)]
           /\ current_version' \in [Records -> Nat]
<1>1. [number |-> current_version[r], reason |-> reason] \in VersionRow
    BY DEF VersionRow, ColumnsTyped
<1>2. Append(versions[r], [number |-> current_version[r], reason |-> reason]) \in Seq(VersionRow)
    BY <1>1, RowAdded DEF ColumnsTyped
<1> QED BY <1>2 DEF CreateVersion, ColumnsTyped

LEMMA LockType ==
    ASSUME ColumnsTyped, NEW r \in Records
    PROVE  /\ ReleaseLock(r) => locked_by' \in [Records -> Staff]
           /\ \A u \in Agents : AcquireLock(r, u) => locked_by' \in [Records -> Staff]
BY DEF ColumnsTyped, ReleaseLock, AcquireLock, Staff

LEMMA AssignTaskType ==
    ASSUME ColumnsTyped, NEW r \in Records, NEW b \in BatchIds, NEW type \in TaskType,
           NEW a \in Agents, AssignTask(r, b, type, a)
    PROVE  ColumnsTyped'
<1>1. NewTask(type, b, a) \in TaskRow
    BY NewTaskType, LenProperties DEF TaskType, Staff, BatchIds, ColumnsTyped
<1>2. tasks' \in [Records -> Seq(TaskRow)]
    BY <1>1, RowAdded DEF AssignTask, ColumnsTyped
<1> QED BY <1>2 DEF AssignTask, ColumnsTyped

LEMMA AssignQaAgentType ==
    ASSUME ColumnsTyped, NEW b \in BatchIds, NEW a \in Agents, AssignQaAgent(b, a)
    PROVE  ColumnsTyped'
<1>1. ASSUME NEW r \in Records PROVE tasks'[r] \in Seq(TaskRow)
  <2>1. tasks'[r] \in [DOMAIN tasks[r] -> TaskRow]
    BY TaskRowAt DEF AssignQaAgent, TaskRow, Staff
  <2> QED BY <2>1, RowsRewritten DEF ColumnsTyped
<1>2. tasks' \in [Records -> Seq(TaskRow)]
    BY <1>1 DEF AssignQaAgent
<1> QED BY <1>2 DEF AssignQaAgent, ColumnsTyped

LEMMA ReassignTaskType ==
    ASSUME ColumnsTyped, NEW r \in Records, NEW k \in DOMAIN tasks[r], NEW a \in Agents,
           ReassignTask(r, k, a)
    PROVE  ColumnsTyped'
<1>1. [tasks[r][k] EXCEPT !.assigned_to = a, !.status = "pending"] \in TaskRow
    BY TaskRowAt DEF TaskRow, Staff, TaskStatus
<1>2. tasks' = [tasks EXCEPT ![r][k] =
                   [tasks[r][k] EXCEPT !.assigned_to = a, !.status = "pending"]]
    BY DEF ReassignTask, ColumnsTyped
<1>3. tasks' \in [Records -> Seq(TaskRow)]
    BY <1>1, <1>2, TaskRowType
<1>4. locked_by' \in [Records -> Staff]
    BY DEF ReassignTask, ColumnsTyped, Staff
<1> QED BY <1>3, <1>4 DEF ReassignTask, ColumnsTyped

LEMMA ReassignBatchType ==
    ASSUME ColumnsTyped, NEW b \in BatchIds, NEW type \in TaskType, NEW a \in Agents,
           ReassignBatch(b, type, a)
    PROVE  ColumnsTyped'
<1>1. ASSUME NEW r \in Records PROVE tasks'[r] \in Seq(TaskRow)
  <2>1. \A k \in DOMAIN tasks[r] :
            [tasks[r][k] EXCEPT !.assigned_to = a, !.status = "pending"] \in TaskRow
    BY TaskRowAt DEF TaskRow, Staff, TaskStatus
  <2>2. tasks'[r] \in [DOMAIN tasks[r] -> TaskRow]
    BY <2>1, TaskRowAt DEF ReassignBatch
  <2> QED BY <2>2, RowsRewritten DEF ColumnsTyped
<1>2. tasks' \in [Records -> Seq(TaskRow)]
    BY <1>1 DEF ReassignBatch
<1>3. locked_by' \in [Records -> Staff]
    BY DEF ReassignBatch, ColumnsTyped, Staff
<1> QED BY <1>2, <1>3 DEF ReassignBatch, ColumnsTyped

LEMMA StartTaskType ==
    ASSUME ColumnsTyped, NEW r \in Records, NEW k \in DOMAIN tasks[r], NEW u \in Agents,
           StartTask(r, k, u)
    PROVE  ColumnsTyped'
<1>1. tasks' \in [Records -> Seq(TaskRow)]
    BY SetTaskStatusType DEF StartTask, TaskStatus
<1>2. locked_by' \in [Records -> Staff]
    BY LockType DEF StartTask
<1>3. status' \in [Records -> RecordStatus]
    BY DEF StartTask, ColumnsTyped, RecordStatus
<1> QED BY <1>1, <1>2, <1>3 DEF StartTask, ColumnsTyped

LEMMA VersionIfSubmittedType ==
    ASSUME ColumnsTyped, NEW r \in Records, NEW submitted \in BOOLEAN,
           VersionIfSubmitted(r, submitted)
    PROVE  /\ versions' \in [Records -> Seq(VersionRow)]
           /\ current_version' \in [Records -> Nat]
<1>1. CompletionReason(r) \in VersionReason
    BY DEF CompletionReason, VersionReason
<1> QED BY <1>1, CreateVersionType DEF VersionIfSubmitted, ColumnsTyped

LEMMA CompleteIndexingType ==
    ASSUME ColumnsTyped, NEW r \in Records, NEW k \in DOMAIN tasks[r], NEW u \in Agents,
           NEW submitted \in BOOLEAN, CompleteIndexing(r, k, u, submitted)
    PROVE  ColumnsTyped'
<1>1. tasks' \in [Records -> Seq(TaskRow)]
    BY SetTaskStatusType DEF CompleteIndexing, TaskStatus
<1>2. locked_by' \in [Records -> Staff]
    BY LockType DEF CompleteIndexing
<1>3. status' \in [Records -> RecordStatus]
    BY DEF CompleteIndexing, ColumnsTyped, RecordStatus
<1> QED BY <1>1, <1>2, <1>3, VersionIfSubmittedType DEF CompleteIndexing, ColumnsTyped

LEMMA MaybeCompleteBatchType ==
    ASSUME ColumnsTyped, NEW b, NEW st, MaybeCompleteBatch(b, st)
    PROVE  batches' \in Seq(BatchStatus)
<1>1. batches \in Seq(BatchStatus)
    BY DEF ColumnsTyped
<1>2. [batches EXCEPT ![b] = "complete"] \in [DOMAIN batches -> BatchStatus]
    BY <1>1, ElementOfSeq, LenProperties DEF BatchStatus
<1> QED BY <1>1, <1>2, RowsRewritten DEF MaybeCompleteBatch

LEMMA CompleteQaType ==
    ASSUME ColumnsTyped, NEW r \in Records, NEW k \in DOMAIN tasks[r], NEW u \in Agents,
           NEW submitted \in BOOLEAN, CompleteQa(r, k, u, submitted)
    PROVE  ColumnsTyped'
<1>1. tasks' \in [Records -> Seq(TaskRow)]
    BY SetTaskStatusType DEF CompleteQa, TaskStatus
<1>2. locked_by' \in [Records -> Staff]
    BY LockType DEF CompleteQa
<1>3. status' \in [Records -> RecordStatus]
    BY DEF CompleteQa, ColumnsTyped, RecordStatus
<1>4. batches' \in Seq(BatchStatus)
    BY MaybeCompleteBatchType DEF CompleteQa
<1> QED BY <1>1, <1>2, <1>3, <1>4, VersionIfSubmittedType DEF CompleteQa, ColumnsTyped

LEMMA FailQaType ==
    ASSUME ColumnsTyped, NEW r \in Records, NEW k \in DOMAIN tasks[r], NEW u \in Agents,
           FailQa(r, k, u)
    PROVE  ColumnsTyped'
<1>1. NewTask("indexing", tasks[r][k].batch, NoOne) \in TaskRow
    BY TaskRowAt, NewTaskType DEF TaskRow, TaskType, Staff
<1>2. [tasks[r] EXCEPT ![k].status = "failed"] \in [DOMAIN tasks[r] -> TaskRow]
    BY TaskRowAt DEF TaskRow, TaskStatus, ColumnsTyped
<1>3. [tasks[r] EXCEPT ![k].status = "failed"] \in Seq(TaskRow)
    BY <1>2, RowsRewritten DEF ColumnsTyped
<1>4. tasks' \in [Records -> Seq(TaskRow)]
    BY <1>1, <1>3, RowAdded DEF FailQa, ColumnsTyped
<1>5. locked_by' \in [Records -> Staff]
    BY LockType DEF FailQa
<1>6. status' \in [Records -> RecordStatus]
    BY DEF FailQa, ColumnsTyped, RecordStatus
<1> QED BY <1>4, <1>5, <1>6, CreateVersionType DEF FailQa, ColumnsTyped, VersionReason

LEMMA FailIndexingType ==
    ASSUME ColumnsTyped, NEW r \in Records, NEW k \in DOMAIN tasks[r], NEW u \in Agents,
           FailIndexing(r, k, u)
    PROVE  ColumnsTyped'
<1>1. locked_by' \in [Records -> Staff]
    BY LockType DEF FailIndexing
<1>2. tasks' \in [Records -> Seq(TaskRow)]
    BY SetTaskStatusType DEF FailIndexing, TaskStatus
<1> QED BY <1>1, <1>2 DEF FailIndexing, ColumnsTyped

LEMMA SkipTaskType ==
    ASSUME ColumnsTyped, NEW r \in Records, NEW k \in DOMAIN tasks[r], NEW u \in Agents,
           NEW choice \in SkipChoices, SkipTask(r, k, u, choice)
    PROVE  ColumnsTyped'
<1>1. tasks' \in [Records -> Seq(TaskRow)]
    BY SetTaskStatusType DEF SkipTask, TaskStatus
<1>2. locked_by' \in [Records -> Staff]
    BY LockType DEF SkipTask
<1>3. choice \in RecordStatus
    BY WorkflowAssumption DEF RecordStatus, SKIPPED_RECORD_STATUSES
<1>4. status' \in [Records -> RecordStatus]
    BY <1>3 DEF SkipTask, ColumnsTyped
<1> QED BY <1>1, <1>2, <1>4 DEF SkipTask, ColumnsTyped

LEMMA CompleteIndexingBatchType ==
    ASSUME ColumnsTyped, NEW b \in BatchIds, CompleteIndexingBatch(b)
    PROVE  ColumnsTyped'
<1>1. b \in Nat
    BY LenProperties DEF BatchIds, ColumnsTyped
<1>2. NewTask("qa", b, NoOne) \in TaskRow
    BY <1>1, NewTaskType DEF TaskType, Staff
<1>3. \A r \in Records : Append(tasks[r], NewTask("qa", b, NoOne)) \in Seq(TaskRow)
    BY <1>2, RowAdded DEF ColumnsTyped
<1>4. tasks' \in [Records -> Seq(TaskRow)]
    BY <1>3 DEF CompleteIndexingBatch, ColumnsTyped
<1>5. batches' \in [DOMAIN batches -> BatchStatus]
    BY ElementOfSeq, LenProperties DEF CompleteIndexingBatch, ColumnsTyped, BatchStatus
<1>6. batches' \in Seq(BatchStatus)
    BY <1>5, RowsRewritten DEF ColumnsTyped
<1>7. status' \in [Records -> RecordStatus]
    BY DEF CompleteIndexingBatch, ColumnsTyped, RecordStatus
<1> QED BY <1>4, <1>6, <1>7 DEF CompleteIndexingBatch, ColumnsTyped

LEMMA WithOpenTasksFailedType ==
    ASSUME ColumnsTyped, NEW r \in Records
    PROVE  /\ WithOpenTasksFailed(r) \in Seq(TaskRow)
           /\ DOMAIN WithOpenTasksFailed(r) = DOMAIN tasks[r]
           /\ Len(WithOpenTasksFailed(r)) = Len(tasks[r])
<1>1. WithOpenTasksFailed(r) \in [DOMAIN tasks[r] -> TaskRow]
    BY TaskRowAt DEF WithOpenTasksFailed, TaskRow, TaskStatus
<1> QED BY <1>1, RowsRewritten DEF ColumnsTyped

LEMMA RequeueForIndexingType ==
    ASSUME ColumnsTyped, NEW r \in Records, RequeueForIndexing(r)
    PROVE  ColumnsTyped'
<1>1. tasks' \in [Records -> Seq(TaskRow)]
    BY WithOpenTasksFailedType DEF RequeueForIndexing, ColumnsTyped
<1>2. locked_by' \in [Records -> Staff]
    BY LockType DEF RequeueForIndexing
<1>3. status' \in [Records -> RecordStatus] /\ batch_id' \in [Records -> Nat]
    BY DEF RequeueForIndexing, ColumnsTyped, RecordStatus, NoBatch
<1> QED BY <1>1, <1>2, <1>3, CreateVersionType DEF RequeueForIndexing, ColumnsTyped, VersionReason

LEMMA RequeueForQaType ==
    ASSUME ColumnsTyped, NEW r \in Records, RequeueForQa(r)
    PROVE  ColumnsTyped'
<1>1. batches' \in Seq(BatchStatus) /\ NewBatchId \in Nat
    BY InsertBatchType DEF RequeueForQa, BatchStatus
<1>2. NewTask("qa", NewBatchId, NoOne) \in TaskRow
    BY <1>1, NewTaskType DEF TaskType, Staff
<1>3. tasks' \in [Records -> Seq(TaskRow)]
    BY <1>2, WithOpenTasksFailedType, RowAdded DEF RequeueForQa, ColumnsTyped
<1>4. locked_by' \in [Records -> Staff]
    BY LockType DEF RequeueForQa
<1>5. status' \in [Records -> RecordStatus] /\ batch_id' \in [Records -> Nat]
    BY <1>1 DEF RequeueForQa, ColumnsTyped, RecordStatus
<1> QED BY <1>1, <1>3, <1>4, <1>5 DEF RequeueForQa, ColumnsTyped

LEMMA ColumnsTypedNext == ColumnsTyped /\ [Next]_vars => ColumnsTyped'
<1> SUFFICES ASSUME ColumnsTyped, [Next]_vars PROVE ColumnsTyped'
    OBVIOUS
<1>1. ASSUME NEW chosen \in SUBSET Records, NEW a \in Agents, CreateIndexingBatch(chosen, a)
      PROVE  ColumnsTyped'
    BY <1>1, CreateIndexingBatchType
<1>2. ASSUME NEW r \in Records, NEW b \in BatchIds, NEW type \in {"indexing", "qa"},
             NEW a \in Agents, AssignTask(r, b, type, a)
      PROVE  ColumnsTyped'
    BY <1>2, AssignTaskType DEF TaskType
<1>3. ASSUME NEW b \in BatchIds, NEW a \in Agents, AssignQaAgent(b, a)
      PROVE  ColumnsTyped'
    BY <1>3, AssignQaAgentType
<1>4. ASSUME NEW r \in Records, NEW k \in DOMAIN tasks[r], NEW a \in Agents,
             ReassignTask(r, k, a)
      PROVE  ColumnsTyped'
    BY <1>4, ReassignTaskType
<1>5. ASSUME NEW b \in BatchIds, NEW type \in {"indexing", "qa"}, NEW a \in Agents,
             ReassignBatch(b, type, a)
      PROVE  ColumnsTyped'
    BY <1>5, ReassignBatchType DEF TaskType
<1>6. ASSUME NEW r \in Records, NEW k \in DOMAIN tasks[r], NEW u \in Agents,
             AgentStep(r, k, u)
      PROVE  ColumnsTyped'
    BY <1>6, StartTaskType, CompleteIndexingType, CompleteQaType, FailQaType,
       FailIndexingType, SkipTaskType
       DEF AgentStep
<1>7. ASSUME NEW b \in BatchIds, CompleteIndexingBatch(b)
      PROVE  ColumnsTyped'
    BY <1>7, CompleteIndexingBatchType
<1>8. ASSUME NEW r \in Records, RequeueForIndexing(r) \/ RequeueForQa(r)
      PROVE  ColumnsTyped'
    BY <1>8, RequeueForIndexingType, RequeueForQaType
<1>9. ASSUME NEW r \in Records, UnlockRecord(r) \/ RaiseFlag(r) \/ CloseFlag(r)
      PROVE  ColumnsTyped'
    BY <1>9, LockType DEF UnlockRecord, RaiseFlag, CloseFlag, ColumnsTyped
<1>10. CASE UNCHANGED vars
    BY <1>10 DEF vars, ColumnsTyped
<1> QED BY <1>1, <1>2, <1>3, <1>4, <1>5, <1>6, <1>7, <1>8, <1>9, <1>10 DEF Next

LEMMA ColumnsAlwaysTyped == Spec => []ColumnsTyped
BY ColumnsTypedInit, ColumnsTypedNext, PTL DEF Spec

-----------------------------------------------------------------------------
(* The record lock.                                                        *)

\* What a step does to a record's lock unless it takes the lock: it leaves it
\* free, or leaves it and the rows of its holder's work alone.
FreesOrKeepsLock(q) ==
    \/ locked_by'[q] = NoOne
    \/ /\ locked_by'[q] = locked_by[q]
       /\ \A k \in DOMAIN tasks[q] :
              /\ tasks[q][k].status = "in_progress"
              /\ tasks[q][k].assigned_to = locked_by[q]
              => k \in DOMAIN tasks'[q] /\ tasks'[q][k] = tasks[q][k]

LEMMA UntouchedLock ==
    ASSUME NEW q, tasks'[q] = tasks[q], locked_by'[q] = locked_by[q]
    PROVE  FreesOrKeepsLock(q)
BY DEF FreesOrKeepsLock

LEMMA AddedRowLock ==
    ASSUME ColumnsTyped, NEW q \in Records, NEW row \in TaskRow,
           tasks'[q] = Append(tasks[q], row), locked_by'[q] = locked_by[q]
    PROVE  FreesOrKeepsLock(q)
BY RowAdded DEF FreesOrKeepsLock, ColumnsTyped

\* Every action but start_task frees locks or keeps them with their worker.
LEMMA AllocationLock ==
    ASSUME ColumnsTyped, NEW chosen \in SUBSET Records, NEW a \in Agents,
           CreateIndexingBatch(chosen, a), NEW q \in Records
    PROVE  FreesOrKeepsLock(q)
<1>1. NewTask("indexing", NewBatchId, a) \in TaskRow
    BY InsertBatchType, NewTaskType DEF CreateIndexingBatch, BatchStatus, TaskType, Staff
<1>2. CASE q \in chosen
    BY <1>1, <1>2, AddedRowLock DEF CreateIndexingBatch
<1>3. CASE q \notin chosen
    BY <1>3, UntouchedLock DEF CreateIndexingBatch
<1> QED BY <1>2, <1>3

LEMMA AssignTaskLock ==
    ASSUME ColumnsTyped, NEW r \in Records, NEW b \in BatchIds, NEW type \in TaskType,
           NEW a \in Agents, AssignTask(r, b, type, a), NEW q \in Records
    PROVE  FreesOrKeepsLock(q)
<1>1. NewTask(type, b, a) \in TaskRow
    BY NewTaskType, LenProperties DEF TaskType, Staff, BatchIds, ColumnsTyped
<1>2. CASE q = r
    BY <1>1, <1>2, AddedRowLock DEF AssignTask, ColumnsTyped
<1>3. CASE q # r
    BY <1>3, UntouchedLock DEF AssignTask, ColumnsTyped
<1> QED BY <1>2, <1>3

LEMMA AssignQaAgentLock ==
    ASSUME ColumnsTyped, NEW b \in BatchIds, NEW a \in Agents, AssignQaAgent(b, a),
           NEW q \in Records
    PROVE  FreesOrKeepsLock(q)
BY DEF FreesOrKeepsLock, AssignQaAgent, AssignableQaTask

LEMMA ReassignTaskLock ==
    ASSUME ColumnsTyped, NEW r \in Records, NEW k \in DOMAIN tasks[r], NEW a \in Agents,
           ReassignTask(r, k, a), NEW q \in Records
    PROVE  FreesOrKeepsLock(q)
<1>1. CASE q # r
    BY <1>1, UntouchedLock DEF ReassignTask, ColumnsTyped
<1>2. CASE q = r /\ locked_by[r] = tasks[r][k].assigned_to
    BY <1>2 DEF FreesOrKeepsLock, ReassignTask, ColumnsTyped
<1>3. CASE q = r /\ locked_by[r] # tasks[r][k].assigned_to
  <2>1. locked_by'[q] = locked_by[q]
    BY <1>3 DEF ReassignTask
  <2>2. \A j \in DOMAIN tasks[q] : j # k => j \in DOMAIN tasks'[q] /\ tasks'[q][j] = tasks[q][j]
    BY <1>3 DEF ReassignTask, ColumnsTyped
  <2> QED BY <1>3, <2>1, <2>2 DEF FreesOrKeepsLock
<1> QED BY <1>1, <1>2, <1>3

LEMMA ReassignBatchLock ==
    ASSUME ColumnsTyped, NEW b \in BatchIds, NEW type \in TaskType, NEW a \in Agents,
           ReassignBatch(b, type, a), NEW q \in Records
    PROVE  FreesOrKeepsLock(q)
<1>1. CASE \E k \in DOMAIN tasks[q] : /\ MovedByBatch(tasks[q][k], b, type)
                                      /\ tasks[q][k].assigned_to = locked_by[q]
    BY <1>1 DEF FreesOrKeepsLock, ReassignBatch
<1>2. CASE \A k \in DOMAIN tasks[q] : ~ (/\ MovedByBatch(tasks[q][k], b, type)
                                         /\ tasks[q][k].assigned_to = locked_by[q])
  <2>1. locked_by'[q] = locked_by[q]
    BY <1>2 DEF ReassignBatch
  <2>2. \A k \in DOMAIN tasks[q] : tasks[q][k].assigned_to = locked_by[q] =>
            k \in DOMAIN tasks'[q] /\ tasks'[q][k] = tasks[q][k]
    BY <1>2 DEF ReassignBatch
  <2> QED BY <2>1, <2>2 DEF FreesOrKeepsLock
<1> QED BY <1>1, <1>2

LEMMA CompleteIndexingBatchLock ==
    ASSUME ColumnsTyped, NEW b \in BatchIds, CompleteIndexingBatch(b), NEW q \in Records
    PROVE  FreesOrKeepsLock(q)
<1>1. NewTask("qa", b, NoOne) \in TaskRow
    BY NewTaskType, LenProperties DEF TaskType, Staff, BatchIds, ColumnsTyped
<1>2. CASE SentToQa(q, b)
    BY <1>1, <1>2, AddedRowLock DEF CompleteIndexingBatch
<1>3. CASE ~SentToQa(q, b)
    BY <1>3, UntouchedLock DEF CompleteIndexingBatch
<1> QED BY <1>2, <1>3

\* The handlers that release the record they work on and touch no other.
LEMMA ReleasingLock ==
    ASSUME ColumnsTyped, NEW r \in Records, NEW q \in Records, ReleaseLock(r),
           \A p \in Records : p # r => tasks'[p] = tasks[p]
    PROVE  FreesOrKeepsLock(q)
<1>1. CASE q = r
    BY <1>1 DEF FreesOrKeepsLock, ReleaseLock, ColumnsTyped
<1>2. CASE q # r
    BY <1>2, UntouchedLock DEF ReleaseLock, ColumnsTyped
<1> QED BY <1>1, <1>2

LEMMA ReleasingActions ==
    ASSUME ColumnsTyped, NEW r \in Records, NEW q \in Records,
           \/ \E k \in DOMAIN tasks[r], u \in Agents :
                  \/ \E submitted \in BOOLEAN : \/ CompleteIndexing(r, k, u, submitted)
                                                \/ CompleteQa(r, k, u, submitted)
                  \/ FailQa(r, k, u)
                  \/ FailIndexing(r, k, u)
                  \/ \E choice \in SkipChoices : SkipTask(r, k, u, choice)
           \/ RequeueForIndexing(r)
           \/ RequeueForQa(r)
           \/ UnlockRecord(r)
    PROVE  FreesOrKeepsLock(q)
<1>1. ReleaseLock(r)
    BY DEF CompleteIndexing, CompleteQa, FailQa, FailIndexing, SkipTask, RequeueForIndexing,
           RequeueForQa, UnlockRecord
<1>2. \A p \in Records : p # r => tasks'[p] = tasks[p]
    BY DEF CompleteIndexing, CompleteQa, FailQa, FailIndexing, SkipTask, RequeueForIndexing,
           RequeueForQa, UnlockRecord, SetTaskStatus, ColumnsTyped
<1> QED BY <1>1, <1>2, ReleasingLock

LEMMA StartTaskLock ==
    ASSUME ColumnsTyped, NEW r \in Records, NEW k \in DOMAIN tasks[r], NEW u \in Agents,
           StartTask(r, k, u)
    PROVE  /\ \A q \in Records : q # r => FreesOrKeepsLock(q)
           /\ locked_by[r] \in {NoOne, u}
           /\ locked_by'[r] = u
           /\ k \in DOMAIN tasks'[r]
           /\ tasks'[r][k].assigned_to = u
           /\ tasks'[r][k].status = "in_progress"
<1>1. tasks'[r][k] = [tasks[r][k] EXCEPT !.status = "in_progress"] /\ k \in DOMAIN tasks'[r]
    BY DEF StartTask, SetTaskStatus, ColumnsTyped
<1>2. tasks[r][k] \in TaskRow /\ tasks[r][k].assigned_to = u
    BY TaskRowAt DEF StartTask, IsMyTask
<1>3. tasks'[r][k].assigned_to = u /\ tasks'[r][k].status = "in_progress"
    BY <1>1, <1>2 DEF TaskRow
<1>4. \A q \in Records : q # r => FreesOrKeepsLock(q)
    BY UntouchedLock DEF StartTask, SetTaskStatus, AcquireLock, ColumnsTyped
<1>5. locked_by[r] \in {NoOne, u} /\ locked_by'[r] = u
    BY DEF StartTask, AcquireLock, ColumnsTyped
<1> QED BY <1>1, <1>3, <1>4, <1>5

\* Each step either is a start_task or frees and keeps locks.
LEMMA LockSteps ==
    ASSUME ColumnsTyped, [Next]_vars
    PROVE  \/ \E r \in Records : \E k \in DOMAIN tasks[r], u \in Agents : StartTask(r, k, u)
           \/ \A q \in Records : FreesOrKeepsLock(q)
<1>1. ASSUME NEW chosen \in SUBSET Records, NEW a \in Agents, CreateIndexingBatch(chosen, a)
      PROVE  \A q \in Records : FreesOrKeepsLock(q)
    BY <1>1, AllocationLock
<1>2. ASSUME NEW r \in Records, NEW b \in BatchIds, NEW type \in {"indexing", "qa"},
             NEW a \in Agents, AssignTask(r, b, type, a)
      PROVE  \A q \in Records : FreesOrKeepsLock(q)
    BY <1>2, AssignTaskLock DEF TaskType
<1>3. ASSUME NEW b \in BatchIds, NEW a \in Agents, AssignQaAgent(b, a)
      PROVE  \A q \in Records : FreesOrKeepsLock(q)
    BY <1>3, AssignQaAgentLock
<1>4. ASSUME NEW r \in Records, NEW k \in DOMAIN tasks[r], NEW a \in Agents,
             ReassignTask(r, k, a)
      PROVE  \A q \in Records : FreesOrKeepsLock(q)
    BY <1>4, ReassignTaskLock
<1>5. ASSUME NEW b \in BatchIds, NEW type \in {"indexing", "qa"}, NEW a \in Agents,
             ReassignBatch(b, type, a)
      PROVE  \A q \in Records : FreesOrKeepsLock(q)
    BY <1>5, ReassignBatchLock DEF TaskType
<1>6. ASSUME NEW r \in Records, NEW k \in DOMAIN tasks[r], NEW u \in Agents,
             AgentStep(r, k, u), ~StartTask(r, k, u)
      PROVE  \A q \in Records : FreesOrKeepsLock(q)
    BY <1>6, ReleasingActions DEF AgentStep
<1>7. ASSUME NEW b \in BatchIds, CompleteIndexingBatch(b)
      PROVE  \A q \in Records : FreesOrKeepsLock(q)
    BY <1>7, CompleteIndexingBatchLock
<1>8. ASSUME NEW r \in Records, RequeueForIndexing(r) \/ RequeueForQa(r) \/ UnlockRecord(r)
      PROVE  \A q \in Records : FreesOrKeepsLock(q)
    BY <1>8, ReleasingActions
<1>9. ASSUME NEW r \in Records, RaiseFlag(r) \/ CloseFlag(r)
      PROVE  \A q \in Records : FreesOrKeepsLock(q)
    BY <1>9, UntouchedLock DEF RaiseFlag, CloseFlag
<1>10. CASE UNCHANGED vars
    BY <1>10, UntouchedLock DEF vars
<1> QED BY <1>1, <1>2, <1>3, <1>4, <1>5, <1>6, <1>7, <1>8, <1>9, <1>10 DEF Next

LEMMA LockHasWorkerNext == ColumnsTyped /\ LockHasWorker /\ [Next]_vars => LockHasWorker'
<1> SUFFICES ASSUME ColumnsTyped, LockHasWorker, [Next]_vars, NEW q \in Records,
                    locked_by'[q] # NoOne
             PROVE  \E k \in DOMAIN tasks'[q] : /\ tasks'[q][k].assigned_to = locked_by'[q]
                                                /\ tasks'[q][k].status = "in_progress"
    BY DEF LockHasWorker
<1>1. CASE FreesOrKeepsLock(q)
    BY <1>1 DEF FreesOrKeepsLock, LockHasWorker
<1>2. ASSUME NEW r \in Records, NEW k \in DOMAIN tasks[r], NEW u \in Agents,
             StartTask(r, k, u), ~FreesOrKeepsLock(q)
      PROVE  /\ k \in DOMAIN tasks'[q]
             /\ tasks'[q][k].assigned_to = locked_by'[q]
             /\ tasks'[q][k].status = "in_progress"
    BY <1>2, StartTaskLock
<1> QED BY <1>1, <1>2, LockSteps

\* Whoever holds a record's lock has a task in progress on it, in every
\* reachable state: the task flow never leaves an orphaned lock behind.
THEOREM LockAlwaysHasWorker == Spec => []LockHasWorker
<1>1. Init => LockHasWorker
    BY DEF Init, LockHasWorker
<1> QED BY <1>1, ColumnsTypedInit, ColumnsTypedNext, LockHasWorkerNext, PTL DEF Spec

\* A step of the workflow is a step of the abstract lock: a lock that stays is
\* still its worker's, and a lock that is taken was free.
LEMMA LockStep ==
    ASSUME ColumnsTyped, ColumnsTyped', LockHasWorker', [Next]_vars
    PROVE  Lock!Next
<1>1. locked_by' \in [Records -> Agents \cup {NoOne}]
    BY DEF ColumnsTyped, Staff
<1>2. [r \in Records |-> BusyOn(r)]' \in [Records -> SUBSET Agents]
    BY DEF BusyOn
<1>3. ASSUME NEW q \in Records, locked_by'[q] # NoOne
      PROVE  locked_by'[q] \in [r \in Records |-> BusyOn(r)]'[q]
  <2>1. locked_by'[q] \in Agents
    BY <1>1, <1>3
  <2> QED BY <1>3, <2>1 DEF BusyOn, LockHasWorker
<1>4. ASSUME NEW q \in Records
      PROVE  Lock!Acquire(q) \/ Lock!Keep(q) \/ Lock!Release(q)
  <2>1. CASE locked_by'[q] = NoOne
    BY <2>1 DEF Lock!Release
  <2>2. CASE locked_by'[q] # NoOne /\ FreesOrKeepsLock(q)
    BY <1>3, <2>2 DEF FreesOrKeepsLock, Lock!Keep
  <2>3. ASSUME NEW r \in Records, NEW k \in DOMAIN tasks[r], NEW u \in Agents,
               StartTask(r, k, u), ~FreesOrKeepsLock(q), locked_by'[q] # NoOne
        PROVE  Lock!Acquire(q) \/ Lock!Keep(q)
    <3>1. locked_by[q] \in {NoOne, locked_by'[q]}
      BY <2>3, StartTaskLock
    <3> QED BY <1>3, <2>3, <3>1 DEF Lock!Acquire, Lock!Keep
  <2> QED BY <2>1, <2>2, <2>3, LockSteps
<1> QED BY <1>1, <1>2, <1>4 DEF Lock!Next

\* The workflow implements the lock the README promises: no request hands a
\* record over from one agent to another without freeing it in between.
THEOREM ImplementsLock == Spec => LockSpec
<1>1. Init => Lock!Init
    BY DEF Init, Lock!Init, BusyOn
<1>2. ColumnsTyped /\ ColumnsTyped' /\ LockHasWorker' /\ [Next]_vars
      => [Lock!Next]_<<locked_by, [r \in Records |-> BusyOn(r)]>>
    BY LockStep
<1> QED BY <1>1, <1>2, ColumnsAlwaysTyped, LockAlwaysHasWorker, PTL DEF Spec, LockSpec, Lock!Spec

-----------------------------------------------------------------------------
(* No record is stranded: the four invariants that say where a record's    *)
(* next task is, and what LotQc says of a record rejected by QC, which no  *)
(* step below makes.  Each is about one record, so a step needs an         *)
(* argument only for the records it moves; the others keep their place.    *)

RecordWorkable(q) ==
    /\ status[q] = "pending" /\ batch_id[q] # NoBatch =>
           InBatch(q, "indexing") /\ HasTaskInItsBatch(q, "indexing", {"pending"})
    /\ status[q] = "indexing" => DirectFail \/ HasTask(q, "indexing", OpenTaskStatus)
    /\ status[q] = "qa_pending" =>
           InBatch(q, "qa_review") /\ HasTaskInItsBatch(q, "qa", OpenTaskStatus)
    /\ status[q] = "qa_failed" => HasTask(q, "indexing", {"pending"})
    /\ status[q] = "qc_failed" =>
           InBatch(q, "qa_review") /\ HasTaskInItsBatch(q, "qa", OpenTaskStatus)

Workable == \A q \in Records : RecordWorkable(q)

LEMMA WorkableParts ==
    Workable => /\ AllocatedIsWorkable
                /\ DirectFail \/ IndexingIsWorkable
                /\ QaPendingIsAssignable
                /\ QaRejectionHasRework
BY DEF Workable, RecordWorkable, AllocatedIsWorkable, IndexingIsWorkable,
       QaPendingIsAssignable, QaRejectionHasRework

\* A step keeps a record in its place: its status and batch stay, open tasks
\* stay open, indexing tasks nobody started stay so, and the batch it waits in
\* does not move.
KeepsRows(q) ==
    \A k \in DOMAIN tasks[q] :
        /\ k \in DOMAIN tasks'[q]
        /\ tasks'[q][k].task_type = tasks[q][k].task_type
        /\ tasks'[q][k].batch = tasks[q][k].batch
        /\ tasks[q][k].status \in OpenTaskStatus => tasks'[q][k].status \in OpenTaskStatus
        /\ tasks[q][k].task_type = "indexing" /\ tasks[q][k].status = "pending"
           => tasks'[q][k].status = "pending"

KeepsBatch(q) ==
    status[q] \in {"pending", "qa_pending", "qc_failed"} /\ batch_id[q] \in BatchIds =>
        batch_id[q] \in BatchIds' /\ batches'[batch_id[q]] = batches[batch_id[q]]

KeepsPlace(q) ==
    /\ status'[q] = status[q]
    /\ batch_id'[q] = batch_id[q]
    /\ KeepsRows(q)
    /\ KeepsBatch(q)

LEMMA PlaceKept ==
    ASSUME NEW q \in Records, RecordWorkable(q), KeepsPlace(q)
    PROVE  RecordWorkable(q)'
<1>1. \A type, s : s \in {{"pending"}, OpenTaskStatus} /\ (type = "qa" => s = OpenTaskStatus)
          /\ type \in {"indexing", "qa"} /\ HasTask(q, type, s) => HasTask(q, type, s)'
    BY DEF HasTask, KeepsPlace, KeepsRows, OpenTaskStatus
<1>2. \A type, s : s \in {{"pending"}, OpenTaskStatus} /\ (type = "qa" => s = OpenTaskStatus)
          /\ type \in {"indexing", "qa"} /\ HasTaskInItsBatch(q, type, s)
          => HasTaskInItsBatch(q, type, s)'
    BY DEF HasTaskInItsBatch, KeepsPlace, KeepsRows, OpenTaskStatus
<1>3. \A s : status[q] \in {"pending", "qa_pending", "qc_failed"} /\ InBatch(q, s) => InBatch(q, s)'
    BY DEF InBatch, KeepsPlace, KeepsBatch
<1>4. status'[q] = status[q] /\ batch_id'[q] = batch_id[q]
    BY DEF KeepsPlace
<1>5. CASE status[q] = "pending"
    BY <1>2, <1>3, <1>4, <1>5 DEF RecordWorkable, OpenTaskStatus
<1>6. CASE status[q] \in {"qa_pending", "qc_failed"}
    BY <1>2, <1>3, <1>4, <1>6 DEF RecordWorkable
<1>7. CASE status[q] = "indexing"
    BY <1>1, <1>4, <1>7 DEF RecordWorkable
<1>8. CASE status[q] = "qa_failed"
    BY <1>1, <1>4, <1>8 DEF RecordWorkable
<1>9. CASE status[q] \notin {"pending", "qa_pending", "indexing", "qa_failed", "qc_failed"}
    BY <1>4, <1>9 DEF RecordWorkable
<1> QED BY <1>5, <1>6, <1>7, <1>8, <1>9

LEMMA SameRows ==
    ASSUME NEW q, tasks'[q] = tasks[q]
    PROVE  KeepsRows(q)
BY DEF KeepsRows

LEMMA AddedRow ==
    ASSUME ColumnsTyped, NEW q \in Records, NEW row \in TaskRow,
           tasks'[q] = Append(tasks[q], row)
    PROVE  KeepsRows(q)
BY RowAdded DEF KeepsRows, ColumnsTyped

LEMMA SameBatches ==
    ASSUME NEW q, batches' = batches
    PROVE  KeepsBatch(q)
BY DEF KeepsBatch, BatchIds

LEMMA InsertedBatch ==
    ASSUME ColumnsTyped, NEW s \in BatchStatus, InsertBatch(s)
    PROVE  /\ \A q : KeepsBatch(q)
           /\ NewBatchId \in BatchIds'
           /\ batches'[NewBatchId] = s
           /\ NewBatchId # NoBatch
<1>1. batches \in Seq(BatchStatus) /\ batches' = Append(batches, s)
    BY DEF ColumnsTyped, InsertBatch
<1>2. DOMAIN batches = 1 .. Len(batches) /\ Len(batches) \in Nat
    BY <1>1, LenProperties
<1>3. Len(batches') = Len(batches) + 1
    BY <1>1, AppendProperties
<1>4. BatchIds' = 1 .. Len(batches) + 1
    BY <1>3 DEF BatchIds
<1>5. \A b \in BatchIds : batches'[b] = batches[b]
    BY <1>1, <1>2, RowAdded DEF BatchIds
<1> QED BY <1>1, <1>2, <1>4, <1>5, RowAdded DEF KeepsBatch, BatchIds, NewBatchId, NoBatch

LEMMA CreateIndexingBatchPlaces ==
    ASSUME ColumnsTyped, Workable, NEW chosen \in SUBSET Records, NEW a \in Agents,
           CreateIndexingBatch(chosen, a)
    PROVE  Workable'
<1>1. NewTask("indexing", NewBatchId, a) \in TaskRow
    BY InsertBatchType, NewTaskType DEF CreateIndexingBatch, BatchStatus, TaskType, Staff
<1>2. InsertBatch("indexing") /\ "indexing" \in BatchStatus
    BY DEF CreateIndexingBatch, BatchStatus
<1>3. ASSUME NEW q \in Records, q \notin chosen
      PROVE  RecordWorkable(q)'
  <2>1. KeepsPlace(q)
    BY <1>2, <1>3, InsertedBatch, SameRows DEF KeepsPlace, CreateIndexingBatch
  <2> QED BY <2>1, PlaceKept DEF Workable
<1>4. ASSUME NEW q \in chosen
      PROVE  RecordWorkable(q)'
  <2>1. q \in Records /\ status'[q] = "pending" /\ batch_id'[q] = NewBatchId
    BY DEF CreateIndexingBatch
  <2>2. tasks'[q] = Append(tasks[q], NewTask("indexing", NewBatchId, a))
    BY DEF CreateIndexingBatch
  <2>3. HasTaskInItsBatch(q, "indexing", {"pending"})'
    BY <1>1, <2>1, <2>2, RowAdded DEF HasTaskInItsBatch, NewTask, ColumnsTyped
  <2>4. InBatch(q, "indexing")'
    BY <1>2, <2>1, InsertedBatch DEF InBatch
  <2> QED BY <2>1, <2>3, <2>4 DEF RecordWorkable
<1> QED BY <1>3, <1>4 DEF Workable

\* The handlers that only hand tasks around keep every record in its place.
LEMMA AssignmentPlaces ==
    ASSUME ColumnsTyped, Workable, NEW b \in BatchIds, NEW type \in TaskType,
           NEW a \in Agents,
           \/ \E r \in Records : AssignTask(r, b, type, a)
           \/ AssignQaAgent(b, a)
           \/ ReassignBatch(b, type, a)
    PROVE  Workable'
<1>1. NewTask(type, b, a) \in TaskRow
    BY NewTaskType, LenProperties DEF TaskType, Staff, BatchIds, ColumnsTyped
<1>2. ASSUME NEW q \in Records, NEW r \in Records, AssignTask(r, b, type, a)
      PROVE  KeepsRows(q)
    BY <1>1, <1>2, SameRows, AddedRow DEF AssignTask, ColumnsTyped
<1>3. ASSUME NEW q \in Records, AssignQaAgent(b, a)
      PROVE  KeepsRows(q)
    BY <1>3, TaskRowAt DEF KeepsRows, AssignQaAgent, TaskRow
<1>4. ASSUME NEW q \in Records, ReassignBatch(b, type, a)
      PROVE  KeepsRows(q)
  <2>1. \A k \in DOMAIN tasks[q] :
            LET row == [tasks[q][k] EXCEPT !.assigned_to = a, !.status = "pending"]
            IN  /\ row.task_type = tasks[q][k].task_type
                /\ row.batch = tasks[q][k].batch
                /\ row.status = "pending"
    BY TaskRowAt DEF TaskRow
  <2> QED BY <1>4, <2>1 DEF KeepsRows, ReassignBatch, OpenTaskStatus
<1>5. ASSUME NEW q \in Records
      PROVE  KeepsPlace(q)
    BY <1>2, <1>3, <1>4, SameBatches
       DEF KeepsPlace, AssignTask, AssignQaAgent, ReassignBatch
<1> QED BY <1>5, PlaceKept DEF Workable

LEMMA ReassignTaskPlaces ==
    ASSUME ColumnsTyped, Workable, NEW r \in Records, NEW k \in DOMAIN tasks[r], NEW a \in Agents,
           ReassignTask(r, k, a)
    PROVE  Workable'
<1>1. ASSUME NEW q \in Records
      PROVE  KeepsRows(q)
  <2>1. CASE q # r
    BY <2>1, SameRows DEF ReassignTask, ColumnsTyped
  <2>2. CASE q = r
    <3>1. tasks'[r] = [tasks[r] EXCEPT ![k] =
              [tasks[r][k] EXCEPT !.assigned_to = a, !.status = "pending"]]
      BY DEF ReassignTask, ColumnsTyped
    <3>2. /\ tasks'[r][k].task_type = tasks[r][k].task_type
          /\ tasks'[r][k].batch = tasks[r][k].batch
          /\ tasks'[r][k].status = "pending"
      BY <3>1, TaskRowAt DEF TaskRow
    <3> QED BY <2>2, <3>1, <3>2 DEF KeepsRows, OpenTaskStatus
  <2> QED BY <2>1, <2>2
<1>2. \A q \in Records : KeepsPlace(q)
    BY <1>1, SameBatches DEF KeepsPlace, ReassignTask
<1> QED BY <1>2, PlaceKept DEF Workable

LEMMA StartTaskPlaces ==
    ASSUME ColumnsTyped, Workable, NEW r \in Records, NEW k \in DOMAIN tasks[r], NEW u \in Agents,
           StartTask(r, k, u)
    PROVE  Workable'
<1>1. ASSUME NEW q \in Records, q # r
      PROVE  KeepsPlace(q)
    BY <1>1, SameRows, SameBatches DEF KeepsPlace, StartTask, SetTaskStatus, ColumnsTyped
<1>2. tasks'[r] = [tasks[r] EXCEPT ![k] = [tasks[r][k] EXCEPT !.status = "in_progress"]]
    BY DEF StartTask, SetTaskStatus, ColumnsTyped
<1>3. tasks'[r][k].task_type = tasks[r][k].task_type /\ tasks'[r][k].status = "in_progress"
    BY <1>2, TaskRowAt DEF TaskRow, ColumnsTyped
<1>4. \A q \in Records : RecordWorkable(q)'
  <2>1. RecordWorkable(r)'
    <3>1. CASE tasks[r][k].task_type = "indexing"
      <4>1. HasTask(r, "indexing", OpenTaskStatus)'
        BY <1>2, <1>3, <3>1 DEF HasTask, OpenTaskStatus
      <4>2. status'[r] = "indexing"
        BY <3>1 DEF StartTask, ColumnsTyped
      <4> QED BY <4>1, <4>2 DEF RecordWorkable
    <3>2. CASE tasks[r][k].task_type # "indexing"
      <4>1. KeepsRows(r)
        BY <1>2, <3>2, TaskRowAt DEF KeepsRows, TaskRow, OpenTaskStatus
      <4>2. KeepsPlace(r)
        BY <3>2, <4>1, SameBatches DEF KeepsPlace, StartTask
      <4> QED BY <4>2, PlaceKept DEF Workable
    <3> QED BY <3>1, <3>2
  <2> QED BY <1>1, <2>1, PlaceKept DEF Workable
<1> QED BY <1>4 DEF Workable

\* A finished task that leaves its record settled for now: none of the
\* invariants asks for anything there.
LEMMA SettledPlaces ==
    ASSUME ColumnsTyped, Workable, NEW r \in Records, NEW k \in DOMAIN tasks[r],
           NEW st \in {"indexed", "qc_passed"} \cup SKIPPABLE_STATUSES,
           status' = [status EXCEPT ![r] = st],
           SetTaskStatus(r, k, "completed"),
           batch_id' = batch_id, batches' = batches
    PROVE  Workable'
<1>1. ASSUME NEW q \in Records, q # r
      PROVE  KeepsPlace(q)
    BY <1>1, SameRows, SameBatches DEF KeepsPlace, SetTaskStatus, ColumnsTyped
<1>2. status'[r] \notin {"pending", "indexing", "qa_pending", "qa_failed", "qc_failed"}
    BY DEF SKIPPABLE_STATUSES, ColumnsTyped
<1>3. RecordWorkable(r)'
    BY <1>2 DEF RecordWorkable
<1> QED BY <1>1, <1>3, PlaceKept DEF Workable

\* A failed indexing task was in progress, so only a record being indexed
\* may have counted on it.
LEMMA FailIndexingPlaces ==
    ASSUME ColumnsTyped, Workable, NEW r \in Records, NEW k \in DOMAIN tasks[r], NEW u \in Agents,
           FailIndexing(r, k, u)
    PROVE  Workable'
<1>1. ASSUME NEW q \in Records, q # r
      PROVE  KeepsPlace(q)
    BY <1>1, SameRows, SameBatches DEF KeepsPlace, FailIndexing, SetTaskStatus, ColumnsTyped
<1>2. tasks'[r] = [tasks[r] EXCEPT ![k] = [tasks[r][k] EXCEPT !.status = "failed"]]
    BY DEF FailIndexing, SetTaskStatus, ColumnsTyped
<1>3. \A j \in DOMAIN tasks[r] : j # k => j \in DOMAIN tasks'[r] /\ tasks'[r][j] = tasks[r][j]
    BY <1>2
<1>4. HasTask(r, "indexing", {"pending"}) => HasTask(r, "indexing", {"pending"})'
    BY <1>3 DEF HasTask, FailIndexing
<1>5. HasTaskInItsBatch(r, "indexing", {"pending"}) => HasTaskInItsBatch(r, "indexing", {"pending"})'
    BY <1>3 DEF HasTaskInItsBatch, FailIndexing
<1>6. HasTaskInItsBatch(r, "qa", OpenTaskStatus) => HasTaskInItsBatch(r, "qa", OpenTaskStatus)'
    BY <1>3 DEF HasTaskInItsBatch, FailIndexing
<1>7. /\ DirectFail
      /\ UNCHANGED <<status, batch_id, batches>>
    BY DEF FailIndexing
<1>8. RecordWorkable(r)'
    BY <1>4, <1>5, <1>6, <1>7 DEF Workable, RecordWorkable, InBatch, BatchIds
<1> QED BY <1>1, <1>8, PlaceKept DEF Workable

LEMMA CompleteIndexingPlaces ==
    ASSUME ColumnsTyped, Workable, NEW r \in Records, NEW k \in DOMAIN tasks[r], NEW u \in Agents,
           \/ \E submitted \in BOOLEAN : CompleteIndexing(r, k, u, submitted)
           \/ \E choice \in SkipChoices : SkipTask(r, k, u, choice)
    PROVE  Workable'
<1>1. ASSUME NEW submitted \in BOOLEAN, CompleteIndexing(r, k, u, submitted)
      PROVE  Workable'
    BY <1>1, SettledPlaces DEF CompleteIndexing
<1>2. ASSUME NEW choice \in SkipChoices, SkipTask(r, k, u, choice)
      PROVE  Workable'
  <2>1. choice \in SKIPPABLE_STATUSES
    BY WorkflowAssumption
  <2> QED BY <1>2, <2>1, SettledPlaces DEF SkipTask
<1> QED BY <1>1, <1>2

\* Moving one batch leaves the others where they are.
LEMMA MovedBatch ==
    ASSUME ColumnsTyped, NEW b \in BatchIds, NEW s \in BatchStatus,
           batches' = [batches EXCEPT ![b] = s]
    PROVE  /\ BatchIds' = BatchIds
           /\ batches'[b] = s
           /\ \A c \in BatchIds \ {b} : batches'[c] = batches[c]
<1>1. batches \in Seq(BatchStatus) /\ DOMAIN batches = BatchIds
    BY LenProperties DEF ColumnsTyped, BatchIds
<1>2. batches' \in [DOMAIN batches -> BatchStatus]
    BY <1>1, ElementOfSeq, LenProperties
<1>3. Len(batches') = Len(batches)
    BY <1>1, <1>2, RowsRewritten
<1> QED BY <1>1, <1>3 DEF BatchIds

\* A batch with a record still waiting does not complete: the record blocks
\* _maybe_complete_batch.
LEMMA MaybeCompleteKeeps ==
    ASSUME ColumnsTyped, NEW q \in Records, NEW b, NEW st, st[q] = status[q],
           MaybeCompleteBatch(b, st)
    PROVE  KeepsBatch(q)
<1>1. CASE batches' = batches
    BY <1>1, SameBatches
<1>2. CASE /\ b \in BatchIds
           /\ batches' = [batches EXCEPT ![b] = "complete"]
           /\ batch_id[q] = b => st[q] \in {"qa_passed"} \cup SKIPPED_RECORD_STATUSES
    BY <1>2, MovedBatch
       DEF KeepsBatch, BatchStatus, SKIPPED_RECORD_STATUSES, SKIPPABLE_STATUSES
<1> QED BY <1>1, <1>2 DEF MaybeCompleteBatch

LEMMA CompleteQaPlaces ==
    ASSUME ColumnsTyped, Workable, NEW r \in Records, NEW k \in DOMAIN tasks[r], NEW u \in Agents,
           NEW submitted \in BOOLEAN, CompleteQa(r, k, u, submitted)
    PROVE  Workable'
<1>1. ASSUME NEW q \in Records, q # r
      PROVE  KeepsPlace(q)
  <2>1. status'[q] = status[q] /\ tasks'[q] = tasks[q]
    BY <1>1 DEF CompleteQa, SetTaskStatus, ColumnsTyped
  <2>2. KeepsBatch(q)
    BY <2>1, MaybeCompleteKeeps DEF CompleteQa
  <2> QED BY <2>1, <2>2, SameRows DEF KeepsPlace, CompleteQa
<1>2. status'[r] = "qa_passed"
    BY DEF CompleteQa, ColumnsTyped
<1>3. RecordWorkable(r)'
    BY <1>2 DEF RecordWorkable
<1> QED BY <1>1, <1>3, PlaceKept DEF Workable

LEMMA FailQaPlaces ==
    ASSUME ColumnsTyped, Workable, NEW r \in Records, NEW k \in DOMAIN tasks[r], NEW u \in Agents,
           FailQa(r, k, u)
    PROVE  Workable'
<1>1. ASSUME NEW q \in Records, q # r
      PROVE  KeepsPlace(q)
    BY <1>1, SameRows, SameBatches DEF KeepsPlace, FailQa, ColumnsTyped
<1>2. NewTask("indexing", tasks[r][k].batch, NoOne) \in TaskRow
    BY TaskRowAt, NewTaskType DEF TaskRow, TaskType, Staff
<1>3. [tasks[r] EXCEPT ![k].status = "failed"] \in Seq(TaskRow)
  <2>1. [tasks[r] EXCEPT ![k].status = "failed"] \in [DOMAIN tasks[r] -> TaskRow]
    BY TaskRowAt DEF TaskRow, TaskStatus, ColumnsTyped
  <2> QED BY <2>1, RowsRewritten DEF ColumnsTyped
<1>4. tasks'[r] = Append([tasks[r] EXCEPT ![k].status = "failed"],
                         NewTask("indexing", tasks[r][k].batch, NoOne))
    BY DEF FailQa, ColumnsTyped
<1>5. HasTask(r, "indexing", {"pending"})'
    BY <1>2, <1>3, <1>4, RowAdded DEF HasTask, NewTask
<1>6. status'[r] = "qa_failed"
    BY DEF FailQa, ColumnsTyped
<1>7. RecordWorkable(r)'
    BY <1>5, <1>6 DEF RecordWorkable
<1> QED BY <1>1, <1>7, PlaceKept DEF Workable

\* Completing a batch's indexing carries its records into QA together: the
\* indexed ones get a QA task in the batch, the skipped ones are settled.
LEMMA CompleteIndexingBatchPlaces ==
    ASSUME ColumnsTyped, Workable, NEW b \in BatchIds, CompleteIndexingBatch(b)
    PROVE  Workable'
<1>1. batches' = [batches EXCEPT ![b] = "qa_review"] /\ "qa_review" \in BatchStatus
    BY DEF CompleteIndexingBatch, BatchStatus
<1>2. ASSUME NEW q \in Records, batch_id[q] # b
      PROVE  RecordWorkable(q)'
  <2>1. KeepsBatch(q)
    BY <1>1, <1>2, MovedBatch DEF KeepsBatch
  <2>2. KeepsPlace(q)
    BY <1>2, <2>1, SameRows DEF KeepsPlace, CompleteIndexingBatch, SentToQa
  <2> QED BY <2>2, PlaceKept DEF Workable
<1>3. ASSUME NEW q \in Records, batch_id[q] = b, status[q] \in SKIPPED_RECORD_STATUSES
      PROVE  RecordWorkable(q)'
  <2>1. status'[q] = status[q]
    BY <1>3 DEF CompleteIndexingBatch, SentToQa
  <2> QED BY <1>3, <2>1 DEF RecordWorkable, SKIPPED_RECORD_STATUSES, SKIPPABLE_STATUSES
<1>4. ASSUME NEW q \in Records, batch_id[q] = b, status[q] \notin SKIPPED_RECORD_STATUSES
      PROVE  RecordWorkable(q)'
  <2>1. /\ status'[q] = "qa_pending"
        /\ batch_id'[q] = b
        /\ tasks'[q] = Append(tasks[q], NewTask("qa", b, NoOne))
    BY <1>4 DEF CompleteIndexingBatch, SentToQa
  <2>2. NewTask("qa", b, NoOne) \in TaskRow
    BY NewTaskType, LenProperties DEF BatchIds, ColumnsTyped, TaskType, Staff
  <2>3. HasTaskInItsBatch(q, "qa", OpenTaskStatus)'
    BY <2>1, <2>2, RowAdded DEF HasTaskInItsBatch, NewTask, OpenTaskStatus, ColumnsTyped
  <2>4. InBatch(q, "qa_review")'
    BY <1>1, <2>1, MovedBatch DEF InBatch
  <2> QED BY <2>1, <2>3, <2>4 DEF RecordWorkable
<1> QED BY <1>2, <1>3, <1>4 DEF Workable

LEMMA RequeueForIndexingPlaces ==
    ASSUME ColumnsTyped, Workable, NEW r \in Records, RequeueForIndexing(r)
    PROVE  Workable'
<1>1. ASSUME NEW q \in Records, q # r
      PROVE  KeepsPlace(q)
    BY <1>1, SameRows, SameBatches DEF KeepsPlace, RequeueForIndexing, ColumnsTyped
<1>2. status'[r] = "pending" /\ batch_id'[r] = NoBatch
    BY DEF RequeueForIndexing, ColumnsTyped
<1>3. RecordWorkable(r)'
    BY <1>2 DEF RecordWorkable, NoBatch
<1> QED BY <1>1, <1>3, PlaceKept DEF Workable

LEMMA RequeueForQaPlaces ==
    ASSUME ColumnsTyped, Workable, NEW r \in Records, RequeueForQa(r)
    PROVE  Workable'
<1>1. InsertBatch("qa_review") /\ "qa_review" \in BatchStatus
    BY DEF RequeueForQa, BatchStatus
<1>2. ASSUME NEW q \in Records, q # r
      PROVE  KeepsPlace(q)
    BY <1>1, <1>2, InsertedBatch, SameRows DEF KeepsPlace, RequeueForQa, ColumnsTyped
<1>3. /\ status'[r] = "qa_pending"
      /\ batch_id'[r] = NewBatchId
      /\ tasks'[r] = Append(WithOpenTasksFailed(r), NewTask("qa", NewBatchId, NoOne))
    BY DEF RequeueForQa, ColumnsTyped
<1>4. NewTask("qa", NewBatchId, NoOne) \in TaskRow
    BY <1>1, InsertBatchType, NewTaskType DEF TaskType, Staff
<1>5. HasTaskInItsBatch(r, "qa", OpenTaskStatus)'
    BY <1>3, <1>4, WithOpenTasksFailedType, RowAdded
       DEF HasTaskInItsBatch, NewTask, OpenTaskStatus
<1>6. InBatch(r, "qa_review")'
    BY <1>1, <1>3, InsertedBatch DEF InBatch
<1>7. RecordWorkable(r)'
    BY <1>3, <1>5, <1>6 DEF RecordWorkable
<1> QED BY <1>2, <1>7, PlaceKept DEF Workable

\* Unlocking and flagging move no record.
LEMMA StillPlaces ==
    ASSUME Workable,
           \/ \E r \in Records : UnlockRecord(r) \/ RaiseFlag(r) \/ CloseFlag(r)
           \/ UNCHANGED vars
    PROVE  Workable'
<1>1. UNCHANGED <<status, batch_id, tasks, batches>>
    BY DEF UnlockRecord, RaiseFlag, CloseFlag, vars
<1>2. \A q \in Records : KeepsPlace(q)
    BY <1>1, SameRows, SameBatches DEF KeepsPlace
<1> QED BY <1>2, PlaceKept DEF Workable

LEMMA WorkableNext == ColumnsTyped /\ Workable /\ [Next]_vars => Workable'
<1> SUFFICES ASSUME ColumnsTyped, Workable, [Next]_vars PROVE Workable'
    OBVIOUS
<1>1. ASSUME NEW chosen \in SUBSET Records, NEW a \in Agents, CreateIndexingBatch(chosen, a)
      PROVE  Workable'
    BY <1>1, CreateIndexingBatchPlaces
<1>2. ASSUME NEW b \in BatchIds, NEW type \in {"indexing", "qa"}, NEW a \in Agents,
             \/ \E r \in Records : AssignTask(r, b, type, a)
             \/ AssignQaAgent(b, a)
             \/ ReassignBatch(b, type, a)
      PROVE  Workable'
    BY <1>2, AssignmentPlaces DEF TaskType
<1>3. ASSUME NEW r \in Records, NEW k \in DOMAIN tasks[r], NEW a \in Agents,
             ReassignTask(r, k, a)
      PROVE  Workable'
    BY <1>3, ReassignTaskPlaces
<1>4. ASSUME NEW r \in Records, NEW k \in DOMAIN tasks[r], NEW u \in Agents,
             AgentStep(r, k, u)
      PROVE  Workable'
    BY <1>4, StartTaskPlaces, CompleteIndexingPlaces, CompleteQaPlaces, FailQaPlaces,
       FailIndexingPlaces
       DEF AgentStep
<1>5. ASSUME NEW b \in BatchIds, CompleteIndexingBatch(b)
      PROVE  Workable'
    BY <1>5, CompleteIndexingBatchPlaces
<1>6. ASSUME NEW r \in Records, RequeueForIndexing(r) \/ RequeueForQa(r)
      PROVE  Workable'
    BY <1>6, RequeueForIndexingPlaces, RequeueForQaPlaces
<1> QED BY <1>1, <1>2, <1>3, <1>4, <1>5, <1>6, StillPlaces DEF Next

\* Every reachable state keeps each record where its next task can be given
\* out and done: the inductive invariant behind the four theorems below.
THEOREM AlwaysWorkable == Spec => []Workable
<1>1. Init => Workable
  <2>1. ASSUME Init, NEW q \in Records PROVE RecordWorkable(q)
    BY <2>1 DEF Init, RecordWorkable
  <2> QED BY <2>1 DEF Workable
<1> QED BY <1>1, ColumnsTypedInit, ColumnsTypedNext, WorkableNext, PTL DEF Spec

\* An allocated record waits, in every reachable state, where an indexer can
\* reach it.
THEOREM AllocatedStaysWorkable == Spec => []AllocatedIsWorkable
BY AlwaysWorkable, WorkableParts, PTL

\* Unless indexing tasks are failed, a record shown as being indexed has an
\* open indexing task.
THEOREM IndexingStaysWorkable == ~DirectFail /\ Spec => []IndexingIsWorkable
<1> SUFFICES ASSUME ~DirectFail PROVE Spec => []IndexingIsWorkable
    OBVIOUS
<1>1. Workable => IndexingIsWorkable
    BY WorkableParts
<1> QED BY <1>1, AlwaysWorkable, PTL

\* A record waiting for QA can be assigned: no batch completes over it.
THEOREM QaPendingStaysAssignable == Spec => []QaPendingIsAssignable
BY AlwaysWorkable, WorkableParts, PTL

\* A record QA rejected keeps its rework task until someone acts on it.
THEOREM QaRejectionKeepsRework == Spec => []QaRejectionHasRework
BY AlwaysWorkable, WorkableParts, PTL

-----------------------------------------------------------------------------
(* Batches.                                                                *)

\* Which step moves a batch, and how: mark_complete and the services that set
\* a status test none, yet each such step is a step of the abstract life.
LEMMA BatchStep ==
    ASSUME ColumnsTyped, [Next]_vars
    PROVE  [Lifecycle!Next]_batches
<1>1. DOMAIN batches = BatchIds /\ \A c \in BatchIds : batches[c] \in BatchStatus
    BY ElementOfSeq, LenProperties DEF ColumnsTyped, BatchIds
<1>2. ASSUME NEW s \in {"indexing", "qa_review"}, InsertBatch(s)
      PROVE  Lifecycle!Open
    BY <1>2 DEF InsertBatch, Lifecycle!Open
<1>3. ASSUME NEW b \in BatchIds, CompleteIndexingBatch(b)
      PROVE  Lifecycle!Next
    BY <1>1, <1>3 DEF CompleteIndexingBatch, Lifecycle!Next, Lifecycle!Advance
<1>4. ASSUME NEW b, NEW st, MaybeCompleteBatch(b, st)
      PROVE  [Lifecycle!Next]_batches
  <2>1. CASE batches' = batches
    BY <2>1
  <2>2. CASE b \in BatchIds /\ batches' = [batches EXCEPT ![b] = "complete"]
    <3>1. CASE batches[b] = "complete"
      <4>1. batches' = batches
        BY <1>1, <2>2, <3>1 DEF ColumnsTyped
      <4> QED BY <4>1
    <3>2. CASE batches[b] # "complete"
      BY <1>1, <2>2, <3>2 DEF BatchStatus, Lifecycle!Next, Lifecycle!Close
    <3> QED BY <3>1, <3>2
  <2> QED BY <1>4, <2>1, <2>2 DEF MaybeCompleteBatch
<1>5. ASSUME NEW r \in Records, NEW k \in DOMAIN tasks[r], NEW u \in Agents,
             AgentStep(r, k, u)
      PROVE  [Lifecycle!Next]_batches
    BY <1>4, <1>5 DEF AgentStep, StartTask, CompleteIndexing, CompleteQa, FailQa, FailIndexing,
            SkipTask
<1>6. ASSUME NEW chosen \in SUBSET Records, NEW a \in Agents, CreateIndexingBatch(chosen, a)
      PROVE  Lifecycle!Next
    BY <1>2, <1>6 DEF CreateIndexingBatch, Lifecycle!Next
<1>7. ASSUME NEW r \in Records, RequeueForQa(r)
      PROVE  Lifecycle!Next
    BY <1>2, <1>7 DEF RequeueForQa, Lifecycle!Next
<1>8. ASSUME \/ \E r \in Records, b \in BatchIds, type \in {"indexing", "qa"}, a \in Agents :
                    AssignTask(r, b, type, a)
             \/ \E b \in BatchIds, a \in Agents : AssignQaAgent(b, a)
             \/ \E r \in Records : \E k \in DOMAIN tasks[r], a \in Agents : ReassignTask(r, k, a)
             \/ \E b \in BatchIds, type \in {"indexing", "qa"}, a \in Agents :
                    ReassignBatch(b, type, a)
             \/ \E r \in Records : \/ RequeueForIndexing(r)
                                   \/ UnlockRecord(r)
                                   \/ RaiseFlag(r)
                                   \/ CloseFlag(r)
             \/ UNCHANGED vars
      PROVE  batches' = batches
    BY <1>8 DEF AssignTask, AssignQaAgent, ReassignTask, ReassignBatch,
                RequeueForIndexing, UnlockRecord, RaiseFlag, CloseFlag, vars
<1> QED BY <1>3, <1>5, <1>6, <1>7, <1>8 DEF Next

\* The workflow implements the life of a batch: no request reopens a batch,
\* revives a closed one or takes one back from QA to indexing.
THEOREM ImplementsLifecycle == Spec => LifecycleSpec
<1>1. Init => Lifecycle!Init
    BY DEF Init, Lifecycle!Init
<1> QED BY <1>1, BatchStep, ColumnsAlwaysTyped, PTL DEF Spec, LifecycleSpec, Lifecycle!Spec

\* Without direct assignment a QA task belongs to a batch that has left
\* indexing.
QaTasksLater ==
    \A r \in Records : \A k \in DOMAIN tasks[r] :
        tasks[r][k].task_type = "qa" =>
            /\ tasks[r][k].batch \in BatchIds
            /\ batches[tasks[r][k].batch] # "indexing"

\* Every row a step leaves behind is an old row, of the same type and batch,
\* or an indexing row of a batch there is, or a row of a batch in QA, or one
\* assigned directly.
OldRow(r, k) ==
    /\ k \in DOMAIN tasks[r]
    /\ tasks'[r][k].task_type = tasks[r][k].task_type
    /\ tasks'[r][k].batch = tasks[r][k].batch

RowOfReview(r, k) ==
    /\ tasks'[r][k].batch \in BatchIds'
    /\ batches'[tasks'[r][k].batch] = "qa_review"

RowOfKnownBatch(r, k) ==
    \/ tasks'[r][k].batch \in BatchIds'
    \/ \E j \in DOMAIN tasks[r] : tasks'[r][k].batch = tasks[r][j].batch

FitRow(r, k) ==
    \/ OldRow(r, k)
    \/ tasks'[r][k].task_type = "indexing" /\ RowOfKnownBatch(r, k)
    \/ RowOfReview(r, k)
    \/ DirectAssign /\ tasks'[r][k].batch \in BatchIds'

LEMMA UntouchedRows ==
    ASSUME NEW r, tasks'[r] = tasks[r], NEW k \in DOMAIN tasks'[r]
    PROVE  FitRow(r, k)
BY DEF FitRow, OldRow

LEMMA StatusRows ==
    ASSUME ColumnsTyped, NEW r \in Records, NEW k \in DOMAIN tasks[r], NEW s,
           SetTaskStatus(r, k, s), NEW q \in Records, NEW i \in DOMAIN tasks'[q]
    PROVE  FitRow(q, i)
<1>1. CASE q # r
    BY <1>1, UntouchedRows DEF SetTaskStatus, ColumnsTyped
<1>2. CASE q = r
  <2>1. tasks'[r] = [tasks[r] EXCEPT ![k] = [tasks[r][k] EXCEPT !.status = s]]
    BY DEF SetTaskStatus, ColumnsTyped
  <2>2. /\ tasks'[r][k].task_type = tasks[r][k].task_type
        /\ tasks'[r][k].batch = tasks[r][k].batch
    BY <2>1, TaskRowAt DEF TaskRow
  <2> QED BY <1>2, <2>1, <2>2 DEF FitRow, OldRow
<1> QED BY <1>1, <1>2

LEMMA AllocatedRows ==
    ASSUME ColumnsTyped, NEW chosen \in SUBSET Records, NEW a \in Agents,
           CreateIndexingBatch(chosen, a), NEW q \in Records, NEW i \in DOMAIN tasks'[q]
    PROVE  FitRow(q, i)
<1>1. NewTask("indexing", NewBatchId, a) \in TaskRow
    BY InsertBatchType, NewTaskType DEF CreateIndexingBatch, BatchStatus, TaskType, Staff
<1>2. CASE q \notin chosen
    BY <1>2, UntouchedRows DEF CreateIndexingBatch
<1>3. CASE q \in chosen
  <2>1. tasks'[q] = Append(tasks[q], NewTask("indexing", NewBatchId, a))
    BY <1>3 DEF CreateIndexingBatch
  <2>2. NewBatchId \in BatchIds'
    BY InsertedBatch DEF CreateIndexingBatch, BatchStatus
  <2> QED BY <1>1, <2>1, <2>2, RowAdded
          DEF FitRow, OldRow, RowOfKnownBatch, NewTask, ColumnsTyped
<1> QED BY <1>2, <1>3

LEMMA DirectRows ==
    ASSUME ColumnsTyped, NEW r \in Records, NEW b \in BatchIds, NEW type \in TaskType,
           NEW a \in Agents, AssignTask(r, b, type, a),
           NEW q \in Records, NEW i \in DOMAIN tasks'[q]
    PROVE  OldRow(q, i) \/ (DirectAssign /\ tasks'[q][i].batch \in BatchIds')
<1>1. NewTask(type, b, a) \in TaskRow
    BY NewTaskType, LenProperties DEF Staff, BatchIds, ColumnsTyped
<1>2. DirectAssign /\ BatchIds' = BatchIds
    BY DEF AssignTask, BatchIds
<1>3. CASE q # r
  <2>1. tasks'[q] = tasks[q]
    BY <1>3 DEF AssignTask, ColumnsTyped
  <2> QED BY <2>1 DEF OldRow
<1>4. CASE q = r
  <2>1. tasks'[r] = Append(tasks[r], NewTask(type, b, a)) /\ tasks[r] \in Seq(TaskRow)
    BY DEF AssignTask, ColumnsTyped
  <2>2. /\ DOMAIN tasks'[r] = DOMAIN tasks[r] \cup {Len(tasks[r]) + 1}
        /\ \A j \in DOMAIN tasks[r] : tasks'[r][j] = tasks[r][j]
        /\ tasks'[r][Len(tasks[r]) + 1] = NewTask(type, b, a)
    BY <1>1, <2>1, RowAdded
  <2> QED BY <1>2, <1>4, <2>2 DEF OldRow, NewTask
<1> QED BY <1>3, <1>4

LEMMA AssignedRows ==
    ASSUME ColumnsTyped, NEW b \in BatchIds, NEW a \in Agents,
           \/ AssignQaAgent(b, a)
           \/ \E type \in {"indexing", "qa"} : ReassignBatch(b, type, a),
           NEW q \in Records, NEW i \in DOMAIN tasks'[q]
    PROVE  FitRow(q, i)
<1>1. CASE AssignQaAgent(b, a)
    BY <1>1, TaskRowAt DEF FitRow, OldRow, AssignQaAgent, TaskRow
<1>2. ASSUME NEW type \in {"indexing", "qa"}, ReassignBatch(b, type, a)
      PROVE  FitRow(q, i)
  <2>1. \A k \in DOMAIN tasks[q] :
            LET row == [tasks[q][k] EXCEPT !.assigned_to = a, !.status = "pending"]
            IN  row.task_type = tasks[q][k].task_type /\ row.batch = tasks[q][k].batch
    BY TaskRowAt DEF TaskRow
  <2> QED BY <1>2, <2>1 DEF FitRow, OldRow, ReassignBatch
<1> QED BY <1>1, <1>2

LEMMA ReassignedRows ==
    ASSUME ColumnsTyped, NEW r \in Records, NEW k \in DOMAIN tasks[r], NEW a \in Agents,
           ReassignTask(r, k, a), NEW q \in Records, NEW i \in DOMAIN tasks'[q]
    PROVE  FitRow(q, i)
<1>1. CASE q # r
    BY <1>1, UntouchedRows DEF ReassignTask, ColumnsTyped
<1>2. CASE q = r
  <2>1. tasks'[r] = [tasks[r] EXCEPT ![k] =
            [tasks[r][k] EXCEPT !.assigned_to = a, !.status = "pending"]]
    BY DEF ReassignTask, ColumnsTyped
  <2>2. /\ tasks'[r][k].task_type = tasks[r][k].task_type
        /\ tasks'[r][k].batch = tasks[r][k].batch
    BY <2>1, TaskRowAt DEF TaskRow
  <2> QED BY <1>2, <2>1, <2>2 DEF FitRow, OldRow
<1> QED BY <1>1, <1>2

LEMMA FailedRows ==
    ASSUME ColumnsTyped, NEW r \in Records, NEW k \in DOMAIN tasks[r], NEW u \in Agents,
           FailQa(r, k, u), NEW q \in Records, NEW i \in DOMAIN tasks'[q]
    PROVE  FitRow(q, i)
<1>1. CASE q # r
    BY <1>1, UntouchedRows DEF FailQa, ColumnsTyped
<1>2. CASE q = r
  <2> DEFINE closed == [tasks[r] EXCEPT ![k] = [tasks[r][k] EXCEPT !.status = "failed"]]
  <2>1. tasks'[r] = Append(closed, NewTask("indexing", tasks[r][k].batch, NoOne))
    BY DEF FailQa, ColumnsTyped
  <2>2. closed \in [DOMAIN tasks[r] -> TaskRow]
    BY TaskRowAt DEF TaskRow, TaskStatus, ColumnsTyped
  <2>3. closed \in Seq(TaskRow) /\ DOMAIN closed = DOMAIN tasks[r]
    BY <2>2, RowsRewritten DEF ColumnsTyped
  <2>4. NewTask("indexing", tasks[r][k].batch, NoOne) \in TaskRow
    BY TaskRowAt, NewTaskType DEF TaskRow, TaskType, Staff
  <2>5. \A j \in DOMAIN closed : /\ closed[j].task_type = tasks[r][j].task_type
                                 /\ closed[j].batch = tasks[r][j].batch
    BY TaskRowAt DEF TaskRow
  <2> HIDE DEF closed
  <2>6. CASE i \in DOMAIN closed
    BY <1>2, <2>1, <2>3, <2>4, <2>5, <2>6, RowAdded DEF FitRow, OldRow
  <2>7. CASE i \notin DOMAIN closed
    BY <1>2, <2>1, <2>3, <2>4, <2>7, RowAdded DEF FitRow, RowOfKnownBatch, NewTask
  <2> QED BY <2>6, <2>7
<1> QED BY <1>1, <1>2

LEMMA SentRows ==
    ASSUME ColumnsTyped, NEW b \in BatchIds, CompleteIndexingBatch(b),
           NEW q \in Records, NEW i \in DOMAIN tasks'[q]
    PROVE  FitRow(q, i)
<1>1. CASE ~SentToQa(q, b)
    BY <1>1, UntouchedRows DEF CompleteIndexingBatch
<1>2. CASE SentToQa(q, b)
  <2>1. tasks'[q] = Append(tasks[q], NewTask("qa", b, NoOne))
    BY <1>2 DEF CompleteIndexingBatch
  <2>2. NewTask("qa", b, NoOne) \in TaskRow
    BY NewTaskType, LenProperties DEF BatchIds, ColumnsTyped, TaskType, Staff
  <2>3. b \in BatchIds' /\ batches'[b] = "qa_review"
    BY MovedBatch DEF CompleteIndexingBatch, BatchStatus
  <2> QED BY <2>1, <2>2, <2>3, RowAdded DEF FitRow, OldRow, RowOfReview, NewTask, ColumnsTyped
<1> QED BY <1>1, <1>2

LEMMA ClosedRows ==
    ASSUME ColumnsTyped, NEW r \in Records, NEW j \in DOMAIN tasks[r]
    PROVE  /\ WithOpenTasksFailed(r)[j].task_type = tasks[r][j].task_type
           /\ WithOpenTasksFailed(r)[j].batch = tasks[r][j].batch
BY TaskRowAt DEF WithOpenTasksFailed, TaskRow

LEMMA RequeuedRows ==
    ASSUME ColumnsTyped, NEW r \in Records, RequeueForIndexing(r) \/ RequeueForQa(r),
           NEW q \in Records, NEW i \in DOMAIN tasks'[q]
    PROVE  FitRow(q, i)
<1>1. CASE q # r
    BY <1>1, UntouchedRows DEF RequeueForIndexing, RequeueForQa, ColumnsTyped
<1>2. CASE q = r /\ RequeueForIndexing(r)
  <2>1. tasks'[r] = WithOpenTasksFailed(r)
    BY <1>2 DEF RequeueForIndexing, ColumnsTyped
  <2> QED BY <1>2, <2>1, WithOpenTasksFailedType, ClosedRows DEF FitRow, OldRow
<1>3. CASE q = r /\ RequeueForQa(r)
  <2>1. InsertBatch("qa_review") /\ "qa_review" \in BatchStatus
    BY <1>3 DEF RequeueForQa, BatchStatus
  <2>2. NewTask("qa", NewBatchId, NoOne) \in TaskRow
    BY <2>1, InsertBatchType, NewTaskType DEF TaskType, Staff
  <2>3. tasks'[r] = Append(WithOpenTasksFailed(r), NewTask("qa", NewBatchId, NoOne))
    BY <1>3 DEF RequeueForQa, ColumnsTyped
  <2>4. CASE i \in DOMAIN tasks[r]
    BY <1>3, <2>2, <2>3, <2>4, WithOpenTasksFailedType, ClosedRows, RowAdded
       DEF FitRow, OldRow
  <2>5. CASE i \notin DOMAIN tasks[r]
    BY <1>3, <2>1, <2>2, <2>3, <2>5, WithOpenTasksFailedType, RowAdded, InsertedBatch
       DEF FitRow, RowOfReview, NewTask
  <2> QED BY <2>4, <2>5
<1> QED BY <1>1, <1>2, <1>3

LEMMA FitRows ==
    ASSUME ColumnsTyped, [Next]_vars, NEW q \in Records, NEW i \in DOMAIN tasks'[q]
    PROVE  FitRow(q, i)
<1>1. ASSUME NEW r \in Records, NEW k \in DOMAIN tasks[r], NEW u \in Agents,
             AgentStep(r, k, u)
      PROVE  FitRow(q, i)
    BY <1>1, StatusRows, FailedRows
       DEF AgentStep, StartTask, CompleteIndexing, CompleteQa, FailIndexing, SkipTask
<1>2. ASSUME NEW b \in BatchIds, NEW a \in Agents,
             \/ AssignQaAgent(b, a)
             \/ \E type \in {"indexing", "qa"} : ReassignBatch(b, type, a)
      PROVE  FitRow(q, i)
    BY <1>2, AssignedRows
<1>3. ASSUME NEW r \in Records, NEW k \in DOMAIN tasks[r], NEW a \in Agents,
             ReassignTask(r, k, a)
      PROVE  FitRow(q, i)
    BY <1>3, ReassignedRows
<1>4. ASSUME NEW chosen \in SUBSET Records, NEW a \in Agents, CreateIndexingBatch(chosen, a)
      PROVE  FitRow(q, i)
    BY <1>4, AllocatedRows
<1>5. CASE UNCHANGED tasks
    BY <1>5, UntouchedRows
<1>6. ASSUME \/ \E r \in Records : UnlockRecord(r) \/ RaiseFlag(r) \/ CloseFlag(r)
             \/ UNCHANGED vars
      PROVE  UNCHANGED tasks
    BY <1>6 DEF UnlockRecord, RaiseFlag, CloseFlag, vars
<1>7. ASSUME NEW r \in Records, NEW b \in BatchIds, NEW type \in {"indexing", "qa"},
             NEW a \in Agents, AssignTask(r, b, type, a)
      PROVE  FitRow(q, i)
    BY <1>7, DirectRows DEF FitRow, TaskType
<1> QED BY <1>1, <1>2, <1>3, <1>4, <1>5, <1>6, <1>7, SentRows, RequeuedRows DEF Next

\* Which only helps because no batch goes back to indexing.
LEMMA NeverBackToIndexing ==
    ASSUME ColumnsTyped, [Next]_vars, NEW b \in BatchIds, batches[b] # "indexing"
    PROVE  b \in BatchIds' /\ batches'[b] # "indexing"
<1>1. batches \in Seq(BatchStatus) /\ DOMAIN batches = BatchIds
    BY LenProperties DEF ColumnsTyped, BatchIds
<1>2. CASE batches' = batches
    BY <1>2 DEF BatchIds
<1>3. ASSUME NEW s \in {"indexing", "qa_review"}, batches' = Append(batches, s)
      PROVE  b \in BatchIds' /\ batches'[b] # "indexing"
  <2>1. DOMAIN batches' = DOMAIN batches \cup {Len(batches) + 1} /\ batches'[b] = batches[b]
        /\ batches' \in Seq(BatchStatus)
    BY <1>1, <1>3, RowAdded DEF BatchStatus
  <2> QED BY <1>1, <2>1, LenProperties DEF BatchIds
<1>4. ASSUME NEW c \in BatchIds, NEW s \in {"qa_review", "complete"},
             batches' = [batches EXCEPT ![c] = s]
      PROVE  b \in BatchIds' /\ batches'[b] # "indexing"
    BY <1>4, MovedBatch DEF BatchStatus
<1> QED BY <1>1, <1>2, <1>3, <1>4, BatchStep
        DEF Lifecycle!Next, Lifecycle!Open, Lifecycle!Advance, Lifecycle!Close

LEMMA QaTasksLaterNext == ColumnsTyped /\ ColumnsTyped' /\ ~DirectAssign /\ QaTasksLater /\ [Next]_vars => QaTasksLater'
<1> SUFFICES ASSUME ColumnsTyped, ColumnsTyped', ~DirectAssign, QaTasksLater, [Next]_vars,
                    NEW r \in Records, NEW k \in DOMAIN tasks'[r],
                    tasks'[r][k].task_type = "qa"
             PROVE  /\ tasks'[r][k].batch \in BatchIds'
                    /\ batches'[tasks'[r][k].batch] # "indexing"
    BY DEF QaTasksLater
<1>1. CASE OldRow(r, k)
    BY <1>1, NeverBackToIndexing DEF OldRow, QaTasksLater
<1>2. CASE RowOfReview(r, k)
    BY <1>2 DEF RowOfReview
<1> QED BY <1>1, <1>2, FitRows DEF FitRow

\* An indexing batch leaves indexing only by complete_indexing_batch.
LEMMA LeavesIndexing ==
    ASSUME ColumnsTyped, QaTasksLater, [Next]_vars, NEW b \in BatchIds,
           batches[b] = "indexing", batches'[b] # "indexing"
    PROVE  ReadyForQa(b)
<1>1. ASSUME NEW s \in BatchStatus, InsertBatch(s)
      PROVE  FALSE
    BY <1>1, RowAdded, LenProperties DEF InsertBatch, BatchIds, ColumnsTyped
<1>2. ASSUME NEW c \in BatchIds, CompleteIndexingBatch(c)
      PROVE  ReadyForQa(b)
    BY <1>2 DEF CompleteIndexingBatch, ColumnsTyped
<1>3. ASSUME NEW r \in Records, NEW k \in DOMAIN tasks[r], NEW u \in Agents,
             NEW submitted \in BOOLEAN, CompleteQa(r, k, u, submitted)
      PROVE  FALSE
  <2>1. tasks[r][k].batch \in BatchIds /\ tasks[r][k].batch # b
    BY <1>3 DEF CompleteQa, QaTasksLater
  <2> QED BY <1>3, <2>1, MovedBatch DEF CompleteQa, MaybeCompleteBatch, BatchStatus
<1>4. batches' # batches
    OBVIOUS
<1>5. ASSUME NEW r \in Records, NEW k \in DOMAIN tasks[r], NEW u \in Agents,
             AgentStep(r, k, u)
      PROVE  FALSE
    BY <1>3, <1>4, <1>5 DEF AgentStep, StartTask, CompleteIndexing, FailQa, FailIndexing, SkipTask
<1>6. ASSUME NEW chosen \in SUBSET Records, NEW a \in Agents, CreateIndexingBatch(chosen, a)
      PROVE  FALSE
    BY <1>1, <1>6 DEF CreateIndexingBatch, BatchStatus
<1>7. ASSUME NEW r \in Records, RequeueForQa(r)
      PROVE  FALSE
    BY <1>1, <1>7 DEF RequeueForQa, BatchStatus
<1> QED BY <1>2, <1>4, <1>5, <1>6, <1>7
        DEF Next, AssignTask, AssignQaAgent, ReassignTask, ReassignBatch,
            RequeueForIndexing, UnlockRecord, RaiseFlag, CloseFlag, vars

\* Unless tasks are assigned directly, a batch leaves indexing only when its
\* records are indexed or skipped and none of them has an open flag.
THEOREM FlagsAlwaysHoldTheBatch == ~DirectAssign /\ Spec => FlagsHoldTheBatch
<1> SUFFICES ASSUME ~DirectAssign PROVE Spec => FlagsHoldTheBatch
    OBVIOUS
<1>1. Init => QaTasksLater
    BY DEF Init, QaTasksLater
<1>2. ColumnsTyped /\ QaTasksLater /\ [Next]_vars =>
          [\A b \in BatchIds :
               batches[b] = "indexing" /\ batches'[b] # "indexing" =>
                   \A r \in Records : batch_id[r] = b =>
                       ~open_flag[r] /\ status[r] \notin {"pending", "indexing"}]_vars
    BY LeavesIndexing DEF ReadyForQa, SKIPPED_RECORD_STATUSES, SKIPPABLE_STATUSES
<1>3. ColumnsTyped /\ ColumnsTyped' /\ QaTasksLater /\ [Next]_vars => QaTasksLater'
    BY QaTasksLaterNext
<1> QED BY <1>1, <1>2, <1>3, ColumnsAlwaysTyped, PTL DEF Spec, FlagsHoldTheBatch

-----------------------------------------------------------------------------
(* What rows refer to, and the numbers of the versions.                    *)

\* A batch that exists goes on existing.
LEMMA BatchesStay ==
    ASSUME ColumnsTyped, [Lifecycle!Next]_batches
    PROVE  BatchIds \subseteq BatchIds'
<1>1. batches \in Seq(BatchStatus) /\ DOMAIN batches = BatchIds
    BY LenProperties DEF ColumnsTyped, BatchIds
<1>2. CASE batches' = batches
    BY <1>2 DEF BatchIds
<1>3. ASSUME NEW s \in {"indexing", "qa_review"}, batches' = Append(batches, s)
      PROVE  BatchIds \subseteq BatchIds'
  <2>1. /\ DOMAIN batches' = DOMAIN batches \cup {Len(batches) + 1}
        /\ batches' \in Seq(BatchStatus)
    BY <1>1, <1>3, RowAdded DEF BatchStatus
  <2> QED BY <1>1, <2>1, LenProperties DEF BatchIds
<1>4. ASSUME NEW c \in BatchIds, NEW s \in {"qa_review", "complete"},
             batches' = [batches EXCEPT ![c] = s]
      PROVE  BatchIds \subseteq BatchIds'
    BY <1>4, MovedBatch DEF BatchStatus
<1> QED BY <1>1, <1>2, <1>3, <1>4
        DEF Lifecycle!Next, Lifecycle!Open, Lifecycle!Advance, Lifecycle!Close

\* Where a step puts a record: it leaves it, takes it out of its batch, or puts
\* it in the batch that it opens.
LEMMA RecordsPut ==
    ASSUME ColumnsTyped, [Next]_vars, NEW q \in Records
    PROVE  batch_id'[q] \in {batch_id[q], NoBatch} \cup BatchIds'
<1>1. ASSUME NEW chosen \in SUBSET Records, NEW a \in Agents, CreateIndexingBatch(chosen, a)
      PROVE  batch_id'[q] \in {batch_id[q]} \cup BatchIds'
  <2>1. NewBatchId \in BatchIds'
    BY <1>1, InsertedBatch DEF CreateIndexingBatch, BatchStatus
  <2> QED BY <1>1, <2>1 DEF CreateIndexingBatch
<1>2. ASSUME NEW r \in Records, RequeueForQa(r)
      PROVE  batch_id'[q] \in {batch_id[q]} \cup BatchIds'
  <2>1. NewBatchId \in BatchIds'
    BY <1>2, InsertedBatch DEF RequeueForQa, BatchStatus
  <2> QED BY <1>2, <2>1 DEF RequeueForQa, ColumnsTyped
<1>3. ASSUME NEW r \in Records, RequeueForIndexing(r)
      PROVE  batch_id'[q] \in {batch_id[q], NoBatch}
    BY <1>3 DEF RequeueForIndexing, ColumnsTyped
<1>4. ASSUME NEW r \in Records, NEW k \in DOMAIN tasks[r], NEW u \in Agents,
             AgentStep(r, k, u)
      PROVE  batch_id' = batch_id
    BY <1>4 DEF AgentStep, StartTask, CompleteIndexing, CompleteQa, FailQa, FailIndexing,
                SkipTask
<1>5. ASSUME \/ \E r \in Records, b \in BatchIds, type \in {"indexing", "qa"}, a \in Agents :
                    AssignTask(r, b, type, a)
             \/ \E b \in BatchIds, a \in Agents : AssignQaAgent(b, a)
             \/ \E r \in Records : \E k \in DOMAIN tasks[r], a \in Agents : ReassignTask(r, k, a)
             \/ \E b \in BatchIds, type \in {"indexing", "qa"}, a \in Agents :
                    ReassignBatch(b, type, a)
             \/ \E b \in BatchIds : CompleteIndexingBatch(b)
             \/ \E r \in Records : UnlockRecord(r) \/ RaiseFlag(r) \/ CloseFlag(r)
             \/ UNCHANGED vars
      PROVE  batch_id' = batch_id
    BY <1>5 DEF AssignTask, AssignQaAgent, ReassignTask, ReassignBatch,
                CompleteIndexingBatch, UnlockRecord, RaiseFlag, CloseFlag, vars
<1> QED BY <1>1, <1>2, <1>3, <1>4, <1>5 DEF Next

LEMMA BatchesIssuedNext == ColumnsTyped /\ BatchesIssued /\ [Next]_vars => BatchesIssued'
<1> SUFFICES ASSUME ColumnsTyped, BatchesIssued, [Next]_vars, NEW r \in Records
             PROVE  /\ batch_id'[r] \in BatchIds' \cup {NoBatch}
                    /\ \A k \in DOMAIN tasks'[r] : tasks'[r][k].batch \in BatchIds'
    BY DEF BatchesIssued, NoBatch
<1>1. BatchIds \subseteq BatchIds'
    BY BatchStep, BatchesStay
<1>2. batch_id'[r] \in BatchIds' \cup {NoBatch}
    BY <1>1, RecordsPut DEF BatchesIssued
<1>3. ASSUME NEW k \in DOMAIN tasks'[r]
      PROVE  tasks'[r][k].batch \in BatchIds'
    BY <1>1, FitRows DEF FitRow, OldRow, RowOfKnownBatch, RowOfReview, BatchesIssued
<1> QED BY <1>2, <1>3

LEMMA CreateVersionNumbers ==
    ASSUME ColumnsTyped, VersionsNumbered, NEW r \in Records, NEW reason \in VersionReason,
           CreateVersion(r, reason)
    PROVE  VersionsNumbered'
<1> DEFINE row == [number |-> current_version[r], reason |-> reason]
<1>1. row \in VersionRow /\ row.number = Len(versions[r]) + 1
    BY DEF VersionRow, ColumnsTyped, VersionsNumbered
<1>2. /\ versions' = [versions EXCEPT ![r] = Append(versions[r], row)]
      /\ current_version' = [current_version EXCEPT ![r] = current_version[r] + 1]
    BY DEF CreateVersion, ColumnsTyped
<1> HIDE DEF row
<1>3. versions[r] \in Seq(VersionRow) /\ Len(versions[r]) \in Nat
    BY LenProperties DEF ColumnsTyped
<1>4. /\ DOMAIN Append(versions[r], row) = DOMAIN versions[r] \cup {Len(versions[r]) + 1}
      /\ Len(Append(versions[r], row)) = Len(versions[r]) + 1
      /\ \A k \in DOMAIN versions[r] : Append(versions[r], row)[k] = versions[r][k]
      /\ Append(versions[r], row)[Len(versions[r]) + 1] = row
    BY <1>1, <1>3, RowAdded, AppendProperties
<1>5. /\ versions'[r] = Append(versions[r], row)
      /\ current_version'[r] = current_version[r] + 1
      /\ current_version[r] = Len(versions[r]) + 1
      /\ \A k \in DOMAIN versions[r] : versions[r][k].number = k
    BY <1>2 DEF ColumnsTyped, VersionsNumbered
<1>6. current_version'[r] = Len(versions'[r]) + 1
    BY <1>3, <1>4, <1>5
<1>7. ASSUME NEW k \in DOMAIN versions'[r]
      PROVE  versions'[r][k].number = k
    BY <1>1, <1>4, <1>5, <1>7
<1>8. ASSUME NEW q \in Records, q # r
      PROVE  current_version'[q] = current_version[q] /\ versions'[q] = versions[q]
    BY <1>2, <1>8 DEF ColumnsTyped
<1> QED BY <1>6, <1>7, <1>8 DEF VersionsNumbered

LEMMA VersionsNumberedNext == ColumnsTyped /\ VersionsNumbered /\ [Next]_vars => VersionsNumbered'
<1> SUFFICES ASSUME ColumnsTyped, VersionsNumbered, [Next]_vars PROVE VersionsNumbered'
    OBVIOUS
<1>1. CASE UNCHANGED <<versions, current_version>>
    BY <1>1 DEF VersionsNumbered
<1>2. ASSUME NEW r \in Records, NEW submitted \in BOOLEAN, VersionIfSubmitted(r, submitted)
      PROVE  VersionsNumbered'
  <2>1. CompletionReason(r) \in VersionReason
    BY DEF CompletionReason, VersionReason
  <2> QED BY <1>1, <1>2, <2>1, CreateVersionNumbers DEF VersionIfSubmitted
<1>3. ASSUME NEW r \in Records, NEW k \in DOMAIN tasks[r], NEW u \in Agents,
             AgentStep(r, k, u)
      PROVE  VersionsNumbered'
  <2>1. ASSUME FailQa(r, k, u)
        PROVE  VersionsNumbered'
    BY <2>1, CreateVersionNumbers DEF FailQa, VersionReason
  <2>2. ASSUME NEW submitted \in BOOLEAN,
               CompleteIndexing(r, k, u, submitted) \/ CompleteQa(r, k, u, submitted)
        PROVE  VersionsNumbered'
    BY <1>2, <2>2 DEF CompleteIndexing, CompleteQa
  <2> QED BY <1>1, <1>3, <2>1, <2>2 DEF AgentStep, StartTask, FailIndexing, SkipTask
<1>4. ASSUME NEW r \in Records, RequeueForIndexing(r)
      PROVE  VersionsNumbered'
    BY <1>4, CreateVersionNumbers DEF RequeueForIndexing, VersionReason
<1>5. ASSUME NEW chosen \in SUBSET Records, NEW a \in Agents, CreateIndexingBatch(chosen, a)
      PROVE  UNCHANGED <<versions, current_version>>
    BY <1>5 DEF CreateIndexingBatch
<1>6. ASSUME \/ \E r \in Records, b \in BatchIds, type \in {"indexing", "qa"}, a \in Agents :
                    AssignTask(r, b, type, a)
             \/ \E b \in BatchIds, a \in Agents : AssignQaAgent(b, a)
             \/ \E r \in Records : \E k \in DOMAIN tasks[r], a \in Agents : ReassignTask(r, k, a)
             \/ \E b \in BatchIds, type \in {"indexing", "qa"}, a \in Agents :
                    ReassignBatch(b, type, a)
             \/ \E b \in BatchIds : CompleteIndexingBatch(b)
             \/ \E r \in Records : \/ RequeueForQa(r) \/ UnlockRecord(r)
                                   \/ RaiseFlag(r) \/ CloseFlag(r)
             \/ UNCHANGED vars
      PROVE  UNCHANGED <<versions, current_version>>
    BY <1>6 DEF AssignTask, AssignQaAgent, ReassignTask, ReassignBatch, RequeueForQa,
                CompleteIndexingBatch, UnlockRecord, RaiseFlag, CloseFlag, vars
<1> QED BY <1>1, <1>3, <1>4, <1>5, <1>6 DEF Next

LEMMA NumbersInit == Init => BatchesIssued /\ VersionsNumbered
<1> SUFFICES ASSUME Init PROVE BatchesIssued /\ VersionsNumbered
    OBVIOUS
<1>1. Len(<<>>) = 0 /\ DOMAIN <<>> = {}
    OBVIOUS
<1>2. ASSUME NEW r \in Records
      PROVE  /\ batch_id[r] = NoBatch /\ tasks[r] = <<>>
             /\ current_version[r] = 1 /\ versions[r] = <<>>
    BY DEF Init
<1> QED BY <1>1, <1>2 DEF BatchesIssued, VersionsNumbered

\* Every reachable state is well typed: no handler writes a status outside its
\* enum, refers to a batch that was never created (create_indexing_batch,
\* fail_task, requeue_record), or skips or repeats a version's number
\* (create_version).
THEOREM TypeCorrect == Spec => []TypeOK
<1>1. Init => TypeOK
    BY ColumnsTypedInit, NumbersInit DEF TypeOK
<1>2. TypeOK /\ [Next]_vars => TypeOK'
    BY ColumnsTypedNext, BatchesIssuedNext, VersionsNumberedNext DEF TypeOK
<1> QED BY <1>1, <1>2, PTL DEF Spec

=============================================================================
