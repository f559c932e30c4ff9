---------------------------- MODULE LotQcProofs -----------------------------
(***************************************************************************)
(* Proofs about LotQc, for every set of records and agents, every shift    *)
(* role, every AQL level and every bound: that customer QC and the         *)
(* digitizing workflow, which share the records, do not strand each        *)
(* other's.  What WorkflowProofs shows of the workflow's steps is used     *)
(* here; the steps of QC are what is new.                                  *)
(***************************************************************************)
EXTENDS LotQc, WorkflowProofs, FiniteSetTheorems

-----------------------------------------------------------------------------
(* The sampling tables.                                                    *)

\* A non-empty set of row numbers has a first row.
LEMMA FirstRow ==
    ASSUME NEW fits \in SUBSET (1 .. 14), fits # {}
    PROVE  \E i \in fits : \A j \in fits : i <= j
<1> SUFFICES ASSUME \A i \in fits : \E j \in fits : j < i
             PROVE  FALSE
    OBVIOUS
<1> DEFINE none(n) == \A i \in fits : i > n
<1>1. none(0)
    OBVIOUS
<1>2. \A n \in Nat : none(n) => none(n + 1)
    OBVIOUS
<1>3. \E i \in fits : i \in 1 .. 14
    OBVIOUS
<1>4. none(14) => FALSE
    BY <1>3
<1> HIDE DEF none
<1>5. none(7)
    BY <1>1, <1>2
<1>6. none(14)
    BY <1>2, <1>5
<1> QED BY <1>4, <1>6

Letters == {"A", "B", "C", "D", "E", "F", "G", "H", "J", "K", "L", "M", "N", "P", "Q"}

\* Every lot size has a code letter.
LEMMA CodeLetterType ==
    ASSUME NEW n \in Nat
    PROVE  CodeLetter(n) \in Letters
<1> DEFINE fits == {i \in DOMAIN CODE_LETTER_TABLE : n <= CODE_LETTER_TABLE[i][1]}
<1>1. DOMAIN CODE_LETTER_TABLE = 1 .. 14
    BY DEF CODE_LETTER_TABLE
<1>2. \A i \in 1 .. 14 : CODE_LETTER_TABLE[i][2] \in Letters
    BY DEF CODE_LETTER_TABLE, Letters
<1>3. fits \in SUBSET (1 .. 14)
    BY <1>1
<1>4. CASE fits = {}
    BY <1>4 DEF CodeLetter, Letters
<1>5. CASE fits # {}
  <2>1. (CHOOSE i \in fits : \A j \in fits : i <= j) \in fits
    BY <1>3, <1>5, FirstRow
  <2> QED BY <1>1, <1>2, <1>5, <2>1 DEF CodeLetter
<1> QED BY <1>4, <1>5

\* Every AQL level has a column.
LEMMA ClosestAqlType ==
    ASSUME NEW aql \in Nat
    PROVE  ClosestAql(aql) \in 1 .. 4
<1> DEFINE d(i) == Distance(AQL_LEVELS[i], aql)
<1>1. DOMAIN AQL_LEVELS = 1 .. 4
    BY DEF AQL_LEVELS
<1>2. d(1) \in Nat /\ d(2) \in Nat /\ d(3) \in Nat /\ d(4) \in Nat
    BY DEF AQL_LEVELS, Distance
<1> HIDE DEF d
<1>3. \E i \in 1 .. 4 : \A j \in 1 .. 4 : d(i) < d(j) \/ (d(i) = d(j) /\ i <= j)
    BY <1>2
<1>4. (CHOOSE i \in 1 .. 4 : \A j \in 1 .. 4 : d(i) < d(j) \/ (d(i) = d(j) /\ i <= j)) \in 1 .. 4
    BY <1>3
<1> QED BY <1>1, <1>4 DEF ClosestAql, d

\* So compute_sample_size never fails to find an acceptance number.
LEMMA AcceptanceNumberType ==
    ASSUME NEW n \in Nat, NEW aql \in Nat
    PROVE  AcceptanceNumber(n, aql) \in Nat
<1>1. \A c \in Letters, i \in 1 .. 4 : SAMPLING_TABLE[c].accept[i] \in Nat
    BY DEF SAMPLING_TABLE, Letters
<1> QED BY <1>1, CodeLetterType, ClosestAqlType DEF AcceptanceNumber

-----------------------------------------------------------------------------
(* The types of the columns.                                               *)

LEMMA LotRowAt ==
    ASSUME LotColumns, NEW l \in LotIds
    PROVE  lots[l] \in LotRow /\ DOMAIN lots = LotIds
BY ElementOfSeq, LenProperties DEF LotColumns, LotIds

\* A handler that rewrites one lot, or several, keeps the lots well typed.
LEMMA LotRewritten ==
    ASSUME LotColumns, NEW l \in LotIds, NEW row \in LotRow,
           lots' = [lots EXCEPT ![l] = row]
    PROVE  lots' \in Seq(LotRow) /\ LotIds' = LotIds
<1>1. lots' \in [DOMAIN lots -> LotRow]
    BY LotRowAt
<1> QED BY <1>1, RowsRewritten DEF LotIds, LotColumns

LEMMA LotsRewritten ==
    ASSUME LotColumns, lots' \in [LotIds -> LotRow]
    PROVE  lots' \in Seq(LotRow) /\ LotIds' = LotIds
<1>1. DOMAIN lots = LotIds
    BY LenProperties DEF LotColumns, LotIds
<1> QED BY <1>1, RowsRewritten DEF LotColumns, LotIds

\* What the reviews do to a lot, the verdict included.
LEMMA ReviewedRow ==
    ASSUME NEW lot \in LotRow, NEW st, NEW defect
    PROVE  /\ Decided(lot, st) \in LotRow
           /\ Marked(lot, defect) \in LotRow
BY DEF Decided, Marked, LotRow, LotStatus

LEMMA CreateLotType ==
    ASSUME LotColumns, NEW chosen \in SUBSET Records, CreateLot(chosen)
    PROVE  LotColumns'
<1> DEFINE row == [status |-> "draft", members |-> chosen, sampled |-> {},
                   iso |-> FALSE, acceptance_number |-> 0, minor |-> 0, critical |-> 0]
<1>1. row \in LotRow
    BY DEF LotRow, LotStatus
<1>2. lots' = Append(lots, row) /\ UNCHANGED <<vars, sampling_mode>>
    BY DEF CreateLot
<1> HIDE DEF row
<1>3. lots' \in Seq(LotRow)
    BY <1>1, <1>2, RowAdded DEF LotColumns
<1> QED BY <1>2, <1>3 DEF LotColumns, ColumnsTyped, vars

LEMMA MoveLotType ==
    ASSUME LotColumns, NEW l \in LotIds, ReleaseLot(l) \/ SendForRemediation(l)
    PROVE  LotColumns'
<1>1. PICK s \in LotStatus : lots' = [lots EXCEPT ![l] = [lots[l] EXCEPT !.status = s]]
    BY LotRowAt DEF ReleaseLot, SendForRemediation, LotStatus
<1>2. [lots[l] EXCEPT !.status = s] \in LotRow
    BY LotRowAt DEF LotRow
<1>3. lots' \in Seq(LotRow)
    BY <1>1, <1>2, LotRewritten
<1> QED BY <1>3 DEF ReleaseLot, SendForRemediation, LotColumns, ColumnsTyped, vars

\* The row apply_sample writes.
SampledRow(l, drawn) ==
    [lots[l] EXCEPT !.status = "qc_in_progress",
                    !.sampled = drawn,
                    !.iso = (sampling_mode = "iso"),
                    !.acceptance_number =
                        IF sampling_mode = "iso"
                        THEN AcceptanceNumber(Cardinality(lots[l].members), AqlLevel)
                        ELSE 0]

LEMMA SampledRowWrites ==
    ASSUME LotColumns, NEW l \in LotIds, NEW drawn \in SUBSET lots[l].members,
           ApplySample(l, drawn)
    PROVE  /\ lots' = [lots EXCEPT ![l] = SampledRow(l, drawn)]
           /\ SampledRow(l, drawn).status = "qc_in_progress"
           /\ SampledRow(l, drawn).sampled = drawn
           /\ SampledRow(l, drawn).members = lots[l].members
           /\ drawn \subseteq Records
BY LotRowAt DEF ApplySample, SampledRow, LotRow

LEMMA ApplySampleType ==
    ASSUME LotColumns, NEW l \in LotIds, NEW drawn \in SUBSET lots[l].members,
           ApplySample(l, drawn)
    PROVE  LotColumns'
<1>1. IsFiniteSet(lots[l].members)
    BY LotAssumption, LotRowAt, FS_Subset DEF LotRow
<1>2. AcceptanceNumber(Cardinality(lots[l].members), AqlLevel) \in Nat
    BY <1>1, FS_CardinalityType, AcceptanceNumberType, LotAssumption
<1>3. SampledRow(l, drawn) \in LotRow
  <2> DEFINE c == IF sampling_mode = "iso"
                  THEN AcceptanceNumber(Cardinality(lots[l].members), AqlLevel) ELSE 0
  <2>1. c \in Nat /\ drawn \subseteq Records
    BY <1>2, SampledRowWrites
  <2>2. SampledRow(l, drawn) = [lots[l] EXCEPT !.status = "qc_in_progress", !.sampled = drawn,
                                    !.iso = (sampling_mode = "iso"), !.acceptance_number = c]
    BY DEF SampledRow
  <2> HIDE DEF c
  <2> QED BY <2>1, <2>2, LotRowAt DEF LotRow, LotStatus
<1>4. lots' \in Seq(LotRow)
    BY <1>3, LotRewritten, SampledRowWrites
<1>5. status' \in [Records -> RecordStatus]
    BY DEF ApplySample, LotColumns, ColumnsTyped, RecordStatus
<1> QED BY <1>4, <1>5 DEF ApplySample, LotColumns, ColumnsTyped

LEMMA CreateQcBatchType ==
    ASSUME LotColumns, NEW l \in LotIds, NEW chosen \in SUBSET Records, NEW a \in Agents,
           CreateQcBatch(l, chosen, a)
    PROVE  LotColumns'
<1>1. ColumnsTyped
    BY DEF LotColumns
<1>2. batches' \in Seq(BatchStatus) /\ NewBatchId \in Nat
    BY <1>1, InsertBatchType DEF CreateQcBatch, BatchStatus
<1>3. NewTask("qc", NewBatchId, a) \in TaskRow
    BY <1>2, NewTaskType DEF TaskType, Staff
<1>4. \A r \in Records : Append(tasks[r], NewTask("qc", NewBatchId, a)) \in Seq(TaskRow)
    BY <1>1, <1>3, RowAdded DEF ColumnsTyped
<1>5. tasks' \in [Records -> Seq(TaskRow)]
    BY <1>1, <1>4 DEF CreateQcBatch, ColumnsTyped
<1> QED BY <1>1, <1>2, <1>5 DEF CreateQcBatch, LotColumns, ColumnsTyped, lotVars

\* The lots after a verdict on r.
LEMMA ReviewedLots ==
    ASSUME LotColumns, NEW r \in Records, NEW k \in DOMAIN tasks[r], NEW u \in Agents,
           \/ CompleteQc(r, k, u)
           \/ \E defect \in {"minor", "critical"} : FailQc(r, k, u, defect)
    PROVE  lots' \in Seq(LotRow) /\ LotIds' = LotIds
<1>1. \A l \in LotIds : lots[l] \in LotRow
    BY LotRowAt
<1>2. CASE CompleteQc(r, k, u)
  <2>1. \A l \in LotIds : Decided(lots[l], status') \in LotRow
    BY <1>1, ReviewedRow
  <2>2. lots' \in [LotIds -> LotRow]
    BY <1>1, <1>2, <2>1 DEF CompleteQc
  <2> QED BY <2>2, LotsRewritten
<1>3. ASSUME NEW defect \in {"minor", "critical"}, FailQc(r, k, u, defect)
      PROVE  lots' \in Seq(LotRow) /\ LotIds' = LotIds
  <2>1. \A l \in LotIds : Decided(Marked(lots[l], defect), status') \in LotRow
    BY <1>1, ReviewedRow
  <2>2. lots' \in [LotIds -> LotRow]
    BY <1>1, <1>3, <2>1 DEF FailQc
  <2> QED BY <2>2, LotsRewritten
<1> QED BY <1>2, <1>3

LEMMA CompleteQcType ==
    ASSUME LotColumns, NEW r \in Records, NEW k \in DOMAIN tasks[r], NEW u \in Agents,
           CompleteQc(r, k, u)
    PROVE  LotColumns'
<1>1. ColumnsTyped
    BY DEF LotColumns
<1>2. tasks' \in [Records -> Seq(TaskRow)]
    BY <1>1, SetTaskStatusType DEF CompleteQc, TaskStatus
<1>3. locked_by' \in [Records -> Staff]
    BY <1>1, LockType DEF CompleteQc
<1>4. status' \in [Records -> RecordStatus]
    BY <1>1 DEF CompleteQc, ColumnsTyped, RecordStatus
<1>5. lots' \in Seq(LotRow)
    BY ReviewedLots
<1> QED BY <1>1, <1>2, <1>3, <1>4, <1>5 DEF CompleteQc, LotColumns, ColumnsTyped

\* The rows fail_task leaves behind: the QC task closed, a QA task added.
LEMMA FailQcRows ==
    ASSUME ColumnsTyped, NEW r \in Records, NEW k \in DOMAIN tasks[r], NEW u \in Agents,
           NEW defect \in {"minor", "critical"}, FailQc(r, k, u, defect)
    PROVE  /\ NewTask("qa", NewBatchId, NoOne) \in TaskRow
           /\ [tasks[r] EXCEPT ![k].status = "failed"] \in Seq(TaskRow)
           /\ tasks'[r] = Append([tasks[r] EXCEPT ![k].status = "failed"],
                                 NewTask("qa", NewBatchId, NoOne))
           /\ \A p \in Records : p # r => tasks'[p] = tasks[p]
<1>1. NewTask("qa", NewBatchId, NoOne) \in TaskRow
    BY InsertBatchType, NewTaskType DEF FailQc, BatchStatus, TaskType, Staff
<1>2. [tasks[r] EXCEPT ![k].status = "failed"] \in [DOMAIN tasks[r] -> TaskRow]
    BY TaskRowAt DEF TaskRow, TaskStatus, ColumnsTyped
<1>3. [tasks[r] EXCEPT ![k].status = "failed"] \in Seq(TaskRow)
    BY <1>2, RowsRewritten DEF ColumnsTyped
<1> QED BY <1>1, <1>3 DEF FailQc, ColumnsTyped

LEMMA FailQcType ==
    ASSUME LotColumns, NEW r \in Records, NEW k \in DOMAIN tasks[r], NEW u \in Agents,
           NEW defect \in {"minor", "critical"}, FailQc(r, k, u, defect)
    PROVE  LotColumns'
<1>1. ColumnsTyped
    BY DEF LotColumns
<1>2. tasks' \in [Records -> Seq(TaskRow)]
  <2> DEFINE closed == [tasks[r] EXCEPT ![k].status = "failed"]
  <2>1. /\ NewTask("qa", NewBatchId, NoOne) \in TaskRow
        /\ closed \in Seq(TaskRow)
        /\ tasks'[r] = Append(closed, NewTask("qa", NewBatchId, NoOne))
    BY <1>1, FailQcRows
  <2> HIDE DEF closed
  <2>2. tasks'[r] \in Seq(TaskRow)
    BY <2>1, RowAdded
  <2> QED BY <1>1, <2>2 DEF FailQc, ColumnsTyped
<1>3. locked_by' \in [Records -> Staff]
    BY <1>1, LockType DEF FailQc
<1>4. status' \in [Records -> RecordStatus]
    BY <1>1 DEF FailQc, ColumnsTyped, RecordStatus
<1>5. batches' \in Seq(BatchStatus) /\ NewBatchId \in Nat
    BY <1>1, InsertBatchType DEF FailQc, BatchStatus
<1>6. batch_id' \in [Records -> Nat]
    BY <1>1, <1>5 DEF FailQc, ColumnsTyped
<1>7. lots' \in Seq(LotRow)
    BY ReviewedLots
<1> QED BY <1>1, <1>2, <1>3, <1>4, <1>5, <1>6, <1>7 DEF FailQc, LotColumns, ColumnsTyped

LEMMA LotColumnsNext == LotColumns /\ [LotNext]_<<vars, lotVars>> => LotColumns'
<1> SUFFICES ASSUME LotColumns, [LotNext]_<<vars, lotVars>> PROVE LotColumns'
    OBVIOUS
<1>1. ColumnsTyped
    BY DEF LotColumns
<1>2. CASE [Next]_vars /\ UNCHANGED lotVars
    BY <1>1, <1>2, ColumnsTypedNext DEF LotColumns, lotVars
<1>3. CASE QcAssignment /\ UNCHANGED lotVars
    BY <1>1, <1>3, AssignTaskType, ReassignBatchType
       DEF QcAssignment, LotColumns, lotVars, TaskType
<1>4. ASSUME NEW chosen \in SUBSET Records, CreateLot(chosen)
      PROVE  LotColumns'
    BY <1>4, CreateLotType
<1>5. ASSUME NEW l \in LotIds, ReleaseLot(l) \/ SendForRemediation(l)
      PROVE  LotColumns'
    BY <1>5, MoveLotType
<1>6. ASSUME NEW l \in LotIds, NEW drawn \in SUBSET lots[l].members, ApplySample(l, drawn)
      PROVE  LotColumns'
    BY <1>6, ApplySampleType
<1>7. ASSUME NEW l \in LotIds, NEW chosen \in SUBSET lots[l].members, NEW a \in Agents,
             CreateQcBatch(l, chosen, a)
      PROVE  LotColumns'
    BY <1>7, LotRowAt, CreateQcBatchType DEF LotRow
<1>8. ASSUME NEW m \in SamplingMode, SetSamplingMode(m)
      PROVE  LotColumns'
    BY <1>8 DEF SetSamplingMode, LotColumns, ColumnsTyped, vars
<1>9. ASSUME NEW r \in Records, NEW k \in DOMAIN tasks[r], NEW u \in Agents,
             \/ CompleteQc(r, k, u)
             \/ \E defect \in {"minor", "critical"} : FailQc(r, k, u, defect)
      PROVE  LotColumns'
    BY <1>9, CompleteQcType, FailQcType
<1>10. CASE UNCHANGED <<vars, lotVars>>
    BY <1>2, <1>10
<1> QED BY <1>2, <1>3, <1>4, <1>5, <1>6, <1>7, <1>8, <1>9, <1>10 DEF LotNext, QcStep

LEMMA LotColumnsInit == LotInit => LotColumns
BY ColumnsTypedInit, EmptySeq DEF LotInit, LotColumns, SamplingMode

LEMMA LotColumnsAlwaysTyped == LotQcSpec => []LotColumns
BY LotColumnsInit, LotColumnsNext, PTL DEF LotQcSpec

-----------------------------------------------------------------------------
(* A record waiting for QC waits in a lot that is in QC.                   *)

\* The workflow takes records out of QC and puts none in it.
LEMMA WorkflowSetsNoQcStatus ==
    ASSUME ColumnsTyped, [Next]_vars, NEW q \in Records,
           status'[q] \in {"qc_pending", "qc_passed", "qc_failed"}
    PROVE  status'[q] = status[q]
<1>1. ASSUME NEW r \in Records, NEW k \in DOMAIN tasks[r], NEW u \in Agents,
             AgentStep(r, k, u)
      PROVE  status'[q] = status[q]
  <2>1. SkipChoices \cap {"qc_pending", "qc_passed", "qc_failed"} = {}
    BY WorkflowAssumption DEF SKIPPABLE_STATUSES
  <2> QED BY <1>1, <2>1 DEF AgentStep, StartTask, CompleteIndexing, CompleteQa, FailQa,
                            FailIndexing, SkipTask, ColumnsTyped
<1>2. ASSUME NEW b \in BatchIds, CompleteIndexingBatch(b)
      PROVE  status'[q] = status[q]
    BY <1>2 DEF CompleteIndexingBatch
<1>3. ASSUME NEW r \in Records, RequeueForIndexing(r) \/ RequeueForQa(r)
      PROVE  status'[q] = status[q]
    BY <1>3 DEF RequeueForIndexing, RequeueForQa, ColumnsTyped
<1>4. CASE UNCHANGED status
    BY <1>4
<1> QED BY <1>1, <1>2, <1>3, <1>4
        DEF Next, CreateIndexingBatch, AssignTask, AssignQaAgent, ReassignTask, ReassignBatch,
            UnlockRecord, RaiseFlag, CloseFlag, vars

\* A lot in QC for a record that still waits.
OpenFor(q, l) == l \in LotIds /\ q \in lots[l].sampled /\ lots[l].status = "qc_in_progress"

LEMMA OpenLotKept ==
    ASSUME LotColumns, [LotNext]_<<vars, lotVars>>, NEW q \in Records, NEW l,
           OpenFor(q, l), status'[q] = "qc_pending"
    PROVE  OpenFor(q, l)'
<1>1. CASE UNCHANGED lots
    BY <1>1 DEF OpenFor, LotIds
<1>2. ASSUME NEW chosen \in SUBSET Records, CreateLot(chosen)
      PROVE  OpenFor(q, l)'
  <2> DEFINE row == [status |-> "draft", members |-> chosen, sampled |-> {},
                     iso |-> FALSE, acceptance_number |-> 0, minor |-> 0, critical |-> 0]
  <2>1. lots' = Append(lots, row) /\ row \in LotRow
    BY <1>2 DEF CreateLot, LotRow, LotStatus
  <2> HIDE DEF row
  <2>2. lots'[l] = lots[l] /\ lots' \in Seq(LotRow) /\ l \in DOMAIN lots'
    BY <2>1, RowAdded, LotRowAt DEF LotColumns, OpenFor
  <2> QED BY <2>2, LenProperties DEF OpenFor, LotIds
<1>3. ASSUME NEW m \in LotIds, ReleaseLot(m) \/ SendForRemediation(m)
      PROVE  OpenFor(q, l)'
  <2>1. m # l /\ lots'[l] = lots[l] /\ DOMAIN lots' = DOMAIN lots
    BY <1>3, LotRowAt DEF OpenFor, ReleaseLot, SendForRemediation
  <2>2. LotIds' = LotIds
    BY <1>3, MoveLotType, LotRowAt, <2>1, LenProperties DEF LotIds, LotColumns
  <2> QED BY <2>1, <2>2 DEF OpenFor
<1>4. ASSUME NEW m \in LotIds, NEW drawn \in SUBSET lots[m].members, ApplySample(m, drawn)
      PROVE  OpenFor(q, l)'
  <2>1. m # l /\ lots'[l] = lots[l] /\ DOMAIN lots' = DOMAIN lots
    BY <1>4, SampledRowWrites, LotRowAt DEF OpenFor, ApplySample
  <2>2. LotIds' = LotIds
    BY <1>4, ApplySampleType, LotRowAt, <2>1, LenProperties DEF LotIds, LotColumns
  <2> QED BY <2>1, <2>2 DEF OpenFor
<1>5. ASSUME NEW r \in Records, NEW k \in DOMAIN tasks[r], NEW u \in Agents,
             CompleteQc(r, k, u)
      PROVE  OpenFor(q, l)'
  <2>1. lots'[l] \in {lots[l], Decided(lots[l], status')}
    BY <1>5 DEF CompleteQc, OpenFor
  <2>2. Decided(lots[l], status') = lots[l]
    BY DEF Decided, OpenFor
  <2> QED BY <1>5, <2>1, <2>2, ReviewedLots DEF OpenFor
<1>6. ASSUME NEW r \in Records, NEW k \in DOMAIN tasks[r], NEW u \in Agents,
             NEW defect \in {"minor", "critical"}, FailQc(r, k, u, defect)
      PROVE  OpenFor(q, l)'
  <2> DEFINE marked == Marked(lots[l], defect)
  <2>1. lots'[l] \in {lots[l], Decided(marked, status')}
    BY <1>6 DEF FailQc, OpenFor
  <2>2. marked.sampled = lots[l].sampled /\ marked.status = lots[l].status
    BY LotRowAt DEF Marked, LotRow, OpenFor
  <2> HIDE DEF marked
  <2>3. Decided(marked, status') = marked
    BY <2>2 DEF Decided, OpenFor
  <2> QED BY <1>6, <2>1, <2>2, <2>3, ReviewedLots DEF OpenFor
<1> QED BY <1>1, <1>2, <1>3, <1>4, <1>5, <1>6
        DEF LotNext, QcStep, CreateQcBatch, SetSamplingMode, lotVars

LEMMA QcPendingNext ==
    LotColumns /\ LotColumns' /\ QcPendingHasOpenLot /\ [LotNext]_<<vars, lotVars>>
        => QcPendingHasOpenLot'
<1> SUFFICES ASSUME LotColumns, LotColumns', QcPendingHasOpenLot, [LotNext]_<<vars, lotVars>>,
                    NEW q \in Records, status'[q] = "qc_pending"
             PROVE  \E l : OpenFor(q, l)'
    BY DEF QcPendingHasOpenLot, OpenFor, SampledIn
<1>1. CASE status[q] = "qc_pending"
  <2>1. PICK l : OpenFor(q, l)
    BY <1>1 DEF QcPendingHasOpenLot, OpenFor, SampledIn
  <2> QED BY <2>1, OpenLotKept
<1>2. CASE status[q] # "qc_pending"
  <2>1. ColumnsTyped
    BY DEF LotColumns
  <2>2. PICK l \in LotIds : \E drawn \in SUBSET lots[l].members : ApplySample(l, drawn)
    BY <1>2, <2>1, WorkflowSetsNoQcStatus
       DEF LotNext, QcAssignment, QcStep, AssignTask, ReassignBatch, CreateLot, ReleaseLot,
           SendForRemediation, CreateQcBatch, SetSamplingMode, CompleteQc, FailQc, vars, ColumnsTyped
  <2>3. PICK drawn \in SUBSET lots[l].members : ApplySample(l, drawn)
    BY <2>2
  <2>4. q \in drawn
    BY <1>2, <2>3 DEF ApplySample
  <2>5. lots'[l] = SampledRow(l, drawn) /\ l \in DOMAIN lots'
    BY <2>3, SampledRowWrites, LotRowAt
  <2>6. l \in LotIds'
    BY <2>5, LenProperties DEF LotColumns, LotIds
  <2> QED BY <2>3, <2>4, <2>5, <2>6, SampledRowWrites DEF OpenFor
<1> QED BY <1>1, <1>2

\* In every reachable state each record that waits for QC is sampled in a lot
\* still in QC, so that it can be given to a QC agent: no verdict and no
\* supervisor closes a lot over it.
THEOREM QcPendingKeepsOpenLot == LotQcSpec => []QcPendingHasOpenLot
<1>1. LotInit => QcPendingHasOpenLot
    BY DEF LotInit, Init, QcPendingHasOpenLot
<1> QED BY <1>1, LotColumnsAlwaysTyped, QcPendingNext, PTL DEF LotQcSpec

-----------------------------------------------------------------------------
(* Customer QC strands no record of the workflow.                          *)

\* What supervisors do with lots moves no record, but for apply_sample, which
\* takes its sample out of whatever place the records have by now.
LEMMA SupervisorPlaces ==
    ASSUME ColumnsTyped, Workable,
           \/ \E chosen \in SUBSET Records : CreateLot(chosen)
           \/ \E l \in LotIds : ReleaseLot(l) \/ SendForRemediation(l)
           \/ \E m \in SamplingMode : SetSamplingMode(m)
    PROVE  Workable'
<1>1. UNCHANGED vars
    BY DEF CreateLot, ReleaseLot, SendForRemediation, SetSamplingMode
<1> QED BY <1>1, StillPlaces

LEMMA ApplySamplePlaces ==
    ASSUME ColumnsTyped, Workable, NEW l, NEW drawn, ApplySample(l, drawn)
    PROVE  Workable'
<1>1. ASSUME NEW q \in Records, q \in drawn
      PROVE  RecordWorkable(q)'
    BY <1>1 DEF ApplySample, RecordWorkable
<1>2. ASSUME NEW q \in Records, q \notin drawn
      PROVE  RecordWorkable(q)'
  <2>1. KeepsPlace(q)
    BY <1>2, SameRows, SameBatches DEF KeepsPlace, ApplySample
  <2> QED BY <2>1, PlaceKept DEF Workable
<1> QED BY <1>1, <1>2 DEF Workable

LEMMA CreateQcBatchPlaces ==
    ASSUME ColumnsTyped, Workable, NEW l, NEW chosen, NEW a \in Agents,
           CreateQcBatch(l, chosen, a)
    PROVE  Workable'
<1>1. InsertBatch("indexing") /\ "indexing" \in BatchStatus
    BY DEF CreateQcBatch, BatchStatus
<1>2. NewTask("qc", NewBatchId, a) \in TaskRow
    BY <1>1, InsertBatchType, NewTaskType DEF TaskType, Staff
<1>3. ASSUME NEW q \in Records
      PROVE  KeepsPlace(q)
  <2>1. KeepsRows(q)
    BY <1>2, SameRows, AddedRow DEF CreateQcBatch
  <2> QED BY <1>1, <2>1, InsertedBatch DEF KeepsPlace, CreateQcBatch
<1> QED BY <1>3, PlaceKept DEF Workable

LEMMA CompleteQcPlaces ==
    ASSUME ColumnsTyped, Workable, NEW r \in Records, NEW k \in DOMAIN tasks[r], NEW u \in Agents,
           CompleteQc(r, k, u)
    PROVE  Workable'
BY SettledPlaces DEF CompleteQc

\* A rejected record's QA task is in the batch the record is moved to.
LEMMA FailQcPlaces ==
    ASSUME ColumnsTyped, Workable, NEW r \in Records, NEW k \in DOMAIN tasks[r], NEW u \in Agents,
           NEW defect \in {"minor", "critical"}, FailQc(r, k, u, defect)
    PROVE  Workable'
<1>1. InsertBatch("qa_review") /\ "qa_review" \in BatchStatus
    BY DEF FailQc, BatchStatus
<1>2. ASSUME NEW q \in Records, q # r
      PROVE  RecordWorkable(q)'
  <2>1. KeepsPlace(q)
    BY <1>1, <1>2, InsertedBatch, SameRows, FailQcRows DEF KeepsPlace, FailQc, ColumnsTyped
  <2> QED BY <2>1, PlaceKept DEF Workable
<1>3. status'[r] = "qc_failed" /\ batch_id'[r] = NewBatchId
    BY DEF FailQc, ColumnsTyped
<1>4. HasTaskInItsBatch(r, "qa", OpenTaskStatus)'
  <2> DEFINE closed == [tasks[r] EXCEPT ![k].status = "failed"]
  <2>1. /\ NewTask("qa", NewBatchId, NoOne) \in TaskRow
        /\ closed \in Seq(TaskRow)
        /\ tasks'[r] = Append(closed, NewTask("qa", NewBatchId, NoOne))
    BY FailQcRows
  <2> HIDE DEF closed
  <2> QED BY <1>3, <2>1, RowAdded DEF HasTaskInItsBatch, NewTask, OpenTaskStatus
<1>5. InBatch(r, "qa_review")'
    BY <1>1, <1>3, InsertedBatch DEF InBatch
<1>6. RecordWorkable(r)'
    BY <1>3, <1>4, <1>5 DEF RecordWorkable
<1> QED BY <1>2, <1>6 DEF Workable

LEMMA LotWorkableNext ==
    LotColumns /\ Workable /\ [LotNext]_<<vars, lotVars>> => Workable'
<1> SUFFICES ASSUME LotColumns, Workable, [LotNext]_<<vars, lotVars>> PROVE Workable'
    OBVIOUS
<1>1. ColumnsTyped
    BY DEF LotColumns
<1>2. CASE [Next]_vars
    BY <1>1, <1>2, WorkableNext
<1>3. CASE QcAssignment
  <2>1. ASSUME NEW b \in BatchIds, NEW a \in Agents,
               \/ \E r \in Records : AssignTask(r, b, "qc", a)
               \/ ReassignBatch(b, "qc", a)
        PROVE  Workable'
    BY <1>1, <2>1, AssignmentPlaces DEF TaskType
  <2> QED BY <1>3, <2>1 DEF QcAssignment
<1>4. CASE QcStep
    BY <1>1, <1>4, SupervisorPlaces, ApplySamplePlaces, CreateQcBatchPlaces,
       CompleteQcPlaces, FailQcPlaces
       DEF QcStep
<1> QED BY <1>2, <1>3, <1>4 DEF LotNext

\* What AlwaysWorkable is for the workflow alone, with customer QC beside it.
THEOREM LotAlwaysWorkable == LotQcSpec => []Workable
<1>1. LotInit => Workable
  <2>1. ASSUME Init, NEW q \in Records PROVE RecordWorkable(q)
    BY <2>1 DEF Init, RecordWorkable
  <2> QED BY <2>1 DEF LotInit, Workable
<1> QED BY <1>1, LotColumnsAlwaysTyped, LotWorkableNext, PTL DEF LotQcSpec

\* Customer QC strands no record: with lots created, sampled and decided over
\* records in any status, each still waits where its next task can be given
\* out and done.  As for the workflow alone, indexing tasks are not failed.
THEOREM QcNeverStrandsARecord == ~DirectFail /\ LotQcSpec => []QcStrandsNoRecord
<1> SUFFICES ASSUME ~DirectFail PROVE LotQcSpec => []QcStrandsNoRecord
    OBVIOUS
<1>1. Workable => QcStrandsNoRecord
    BY WorkableParts DEF QcStrandsNoRecord
<1> QED BY <1>1, LotAlwaysWorkable, PTL

\* A record QC rejected stays assignable to a QA agent until someone takes it
\* up, whatever happens to its lots, batches and other tasks meanwhile.
THEOREM QcRejectionStaysAssignable == LotQcSpec => []QcRejectionIsAssignable
<1>1. Workable => QcRejectionIsAssignable
    BY DEF Workable, RecordWorkable, QcRejectionIsAssignable
<1> QED BY <1>1, LotAlwaysWorkable, PTL

-----------------------------------------------------------------------------
(* The record lock, for QC agents as well.                                 *)

LEMMA LotLockSteps ==
    ASSUME LotColumns, QcStep \/ QcAssignment, NEW q \in Records
    PROVE  FreesOrKeepsLock(q)
<1>1. ColumnsTyped
    BY DEF LotColumns
<1>2. CASE QcAssignment
    BY <1>1, <1>2, AssignTaskLock, ReassignBatchLock DEF QcAssignment, TaskType
<1>3. ASSUME \/ UNCHANGED vars
             \/ \E l \in LotIds : \E drawn \in SUBSET lots[l].members : ApplySample(l, drawn)
      PROVE  FreesOrKeepsLock(q)
    BY <1>3, UntouchedLock DEF ApplySample, vars
<1>4. ASSUME NEW l, NEW chosen, NEW a \in Agents, CreateQcBatch(l, chosen, a)
      PROVE  FreesOrKeepsLock(q)
  <2>1. NewTask("qc", NewBatchId, a) \in TaskRow
    BY <1>1, <1>4, InsertBatchType, NewTaskType DEF CreateQcBatch, BatchStatus, TaskType, Staff
  <2> QED BY <1>1, <1>4, <2>1, AddedRowLock, UntouchedLock DEF CreateQcBatch
<1>5. ASSUME NEW r \in Records, NEW k \in DOMAIN tasks[r], NEW u \in Agents,
             \/ CompleteQc(r, k, u)
             \/ \E defect \in {"minor", "critical"} : FailQc(r, k, u, defect)
      PROVE  FreesOrKeepsLock(q)
  <2>1. ReleaseLock(r)
    BY <1>5 DEF CompleteQc, FailQc
  <2>2. \A p \in Records : p # r => tasks'[p] = tasks[p]
    BY <1>1, <1>5 DEF CompleteQc, FailQc, SetTaskStatus, ColumnsTyped
  <2> QED BY <1>1, <2>1, <2>2, ReleasingLock
<1>6. ASSUME \/ \E chosen \in SUBSET Records : CreateLot(chosen)
             \/ \E l \in LotIds : ReleaseLot(l) \/ SendForRemediation(l)
             \/ \E m \in SamplingMode : SetSamplingMode(m)
      PROVE  UNCHANGED vars
    BY <1>6 DEF CreateLot, ReleaseLot, SendForRemediation, SetSamplingMode
<1> QED BY <1>2, <1>3, <1>4, <1>5, <1>6 DEF QcStep

\* The lock of a record under QC review is its reviewer's: with QC tasks too,
\* no lock outlives the task it was taken for.
THEOREM LotLockAlwaysHasWorker == LotQcSpec => []LockHasWorker
<1>1. LotInit => LockHasWorker
    BY DEF LotInit, Init, LockHasWorker
<1>2. LotColumns /\ LockHasWorker /\ [LotNext]_<<vars, lotVars>> => LockHasWorker'
  <2> SUFFICES ASSUME LotColumns, LockHasWorker, [LotNext]_<<vars, lotVars>>
               PROVE  LockHasWorker'
    OBVIOUS
  <2>1. CASE [Next]_vars
    BY <2>1, LockHasWorkerNext DEF LotColumns
  <2>2. CASE QcStep \/ QcAssignment
    BY <2>2, LotLockSteps DEF FreesOrKeepsLock, LockHasWorker
  <2> QED BY <2>1, <2>2 DEF LotNext
<1> QED BY <1>1, <1>2, LotColumnsAlwaysTyped, PTL DEF LotQcSpec

-----------------------------------------------------------------------------
(* The life of a lot.                                                      *)

AbstractLots ==
    [l \in LotIds |-> [phase   |-> lots[l].status,
                       members |-> lots[l].members,
                       sample  |-> lots[l].sampled]]

\* Only a lot that entered QC has a sample, so that a verdict, which tests
\* no status, falls on no other lot.
SampledLots ==
    \A l \in LotIds : lots[l].sampled # {} =>
        lots[l].status \in {"qc_in_progress", "passed", "failed", "remediation"}

\* The lots after a verdict on r: at most one has r in its sample, and what
\* changes there is marks and, once its sample is reviewed, its status.
LEMMA VerdictOnOneLot ==
    ASSUME LotColumns, NEW r \in Records, NEW k \in DOMAIN tasks[r], NEW u \in Agents,
           \/ CompleteQc(r, k, u)
           \/ \E defect \in {"minor", "critical"} : FailQc(r, k, u, defect),
           NEW l \in LotIds
    PROVE  /\ l \notin SampledIn(r) => lots'[l] = lots[l]
           /\ lots'[l].members = lots[l].members
           /\ lots'[l].sampled = lots[l].sampled
           /\ lots'[l].status \in {lots[l].status, "passed", "failed"}
           /\ lots'[l].status # lots[l].status =>
                  \A p \in lots[l].sampled : status'[p] \in {"qc_passed", "qc_failed"}
<1>1. lots[l] \in LotRow
    BY LotRowAt
<1>2. ASSUME NEW lot \in LotRow, NEW st
      PROVE  /\ Decided(lot, st).members = lot.members
             /\ Decided(lot, st).sampled = lot.sampled
             /\ Decided(lot, st).status \in {lot.status, "passed", "failed"}
             /\ Decided(lot, st).status # lot.status =>
                    \A p \in lot.sampled : st[p] \in {"qc_passed", "qc_failed"}
    BY <1>2 DEF Decided, LotRow
<1>3. CASE CompleteQc(r, k, u)
  <2>1. lots'[l] = IF l \in SampledIn(r) THEN Decided(lots[l], status') ELSE lots[l]
    BY <1>3 DEF CompleteQc
  <2> QED BY <1>1, <1>2, <2>1
<1>4. ASSUME NEW defect \in {"minor", "critical"}, FailQc(r, k, u, defect)
      PROVE  /\ l \notin SampledIn(r) => lots'[l] = lots[l]
             /\ lots'[l].members = lots[l].members
             /\ lots'[l].sampled = lots[l].sampled
             /\ lots'[l].status \in {lots[l].status, "passed", "failed"}
             /\ lots'[l].status # lots[l].status =>
                    \A p \in lots[l].sampled : status'[p] \in {"qc_passed", "qc_failed"}
  <2> DEFINE marked == Marked(lots[l], defect)
  <2>1. lots'[l] = IF l \in SampledIn(r) THEN Decided(marked, status') ELSE lots[l]
    BY <1>4 DEF FailQc
  <2>2. /\ marked \in LotRow
        /\ marked.members = lots[l].members
        /\ marked.sampled = lots[l].sampled
        /\ marked.status = lots[l].status
    BY <1>1 DEF Marked, LotRow
  <2> HIDE DEF marked
  <2> QED BY <1>1, <1>2, <2>1, <2>2
<1> QED BY <1>3, <1>4

\* How a step changes the lots, as the two proofs below need it.
LEMMA LotStep ==
    ASSUME LotColumns, [LotNext]_<<vars, lotVars>>
    PROVE  \/ UNCHANGED lots
           \/ \E chosen \in SUBSET Records : CreateLot(chosen)
           \/ \E l \in LotIds :
                  \/ ReleaseLot(l)
                  \/ SendForRemediation(l)
                  \/ \E drawn \in SUBSET lots[l].members : ApplySample(l, drawn)
           \/ \E r \in Records : \E k \in DOMAIN tasks[r], u \in Agents :
                  \/ CompleteQc(r, k, u)
                  \/ \E defect \in {"minor", "critical"} : FailQc(r, k, u, defect)
BY DEF LotNext, QcStep, CreateQcBatch, SetSamplingMode, lotVars

\* The lots one lot's move leaves behind.
LEMMA LotMoved ==
    ASSUME LotColumns, NEW l \in LotIds, NEW row \in LotRow, lots' = [lots EXCEPT ![l] = row]
    PROVE  /\ LotIds' = LotIds
           /\ lots'[l] = row
           /\ \A m \in LotIds : m # l => lots'[m] = lots[m]
           /\ AbstractLots' = [AbstractLots EXCEPT ![l] =
                  [phase |-> row.status, members |-> row.members, sample |-> row.sampled]]
<1>1. DOMAIN lots = LotIds
    BY LotRowAt, LenProperties DEF LotColumns, LotIds
<1>2. /\ LotIds' = LotIds
      /\ lots'[l] = row
      /\ \A m \in LotIds : m # l => lots'[m] = lots[m]
    BY <1>1, LotRewritten
<1> QED BY <1>2 DEF AbstractLots

LEMMA AbstractLotAt ==
    ASSUME NEW l \in LotIds
    PROVE  AbstractLots[l] = [phase |-> lots[l].status, members |-> lots[l].members,
                              sample |-> lots[l].sampled]
BY DEF AbstractLots

LEMMA AbstractMove ==
    ASSUME NEW a, NEW b, NEW c, NEW x
    PROVE  [[phase |-> a, members |-> b, sample |-> c] EXCEPT !.phase = x] =
               [phase |-> x, members |-> b, sample |-> c]
OBVIOUS

\* The rows of the handlers that move one lot, and their types.
LEMMA MovedRows ==
    ASSUME LotColumns, LotColumns', NEW l \in LotIds
    PROVE  /\ ReleaseLot(l) =>
                  /\ lots[l].status = "draft"
                  /\ \E row \in LotRow : /\ lots' = [lots EXCEPT ![l] = row]
                                         /\ row.status = "released"
                                         /\ row.members = lots[l].members
                                         /\ row.sampled = lots[l].sampled
           /\ SendForRemediation(l) =>
                  /\ lots[l].status = "failed"
                  /\ \E row \in LotRow : /\ lots' = [lots EXCEPT ![l] = row]
                                         /\ row.status = "remediation"
                                         /\ row.members = lots[l].members
                                         /\ row.sampled = lots[l].sampled
<1>1. lots[l] \in LotRow
    BY LotRowAt
<1>2. ASSUME NEW s \in LotStatus
      PROVE  LET row == [lots[l] EXCEPT !.status = s]
             IN  /\ row \in LotRow
                 /\ row.status = s
                 /\ row.members = lots[l].members
                 /\ row.sampled = lots[l].sampled
    BY <1>1 DEF LotRow
<1>3. CASE ReleaseLot(l)
  <2>1. lots' = [lots EXCEPT ![l] = [lots[l] EXCEPT !.status = "released"]]
    BY <1>3 DEF ReleaseLot
  <2> QED BY <1>2, <1>3, <2>1 DEF ReleaseLot, SendForRemediation, LotStatus
<1>4. CASE SendForRemediation(l)
  <2>1. lots' = [lots EXCEPT ![l] = [lots[l] EXCEPT !.status = "remediation"]]
    BY <1>4 DEF SendForRemediation
  <2> QED BY <1>2, <1>4, <2>1 DEF ReleaseLot, SendForRemediation, LotStatus
<1> QED BY <1>3, <1>4

LEMMA SampledLotsNext ==
    LotColumns /\ LotColumns' /\ SampledLots /\ [LotNext]_<<vars, lotVars>> => SampledLots'
<1> SUFFICES ASSUME LotColumns, LotColumns', SampledLots, [LotNext]_<<vars, lotVars>>,
                    NEW m \in LotIds', lots'[m].sampled # {}
             PROVE  lots'[m].status \in {"qc_in_progress", "passed", "failed", "remediation"}
    BY DEF SampledLots
<1>1. CASE UNCHANGED lots
    BY <1>1 DEF SampledLots, LotIds
<1>2. ASSUME NEW chosen \in SUBSET Records, CreateLot(chosen)
      PROVE  lots'[m].status \in {"qc_in_progress", "passed", "failed", "remediation"}
  <2> DEFINE row == [status |-> "draft", members |-> chosen, sampled |-> {},
                     iso |-> FALSE, acceptance_number |-> 0, minor |-> 0, critical |-> 0]
  <2>1. lots' = Append(lots, row) /\ row \in LotRow /\ row.sampled = {}
    BY <1>2 DEF CreateLot, LotRow, LotStatus
  <2> HIDE DEF row
  <2>2. m \in DOMAIN lots' /\ lots \in Seq(LotRow)
    BY LenProperties DEF LotColumns, LotIds
  <2>3. m \in LotIds /\ lots'[m] = lots[m]
    BY <2>1, <2>2, RowAdded, LotRowAt DEF LotIds
  <2> QED BY <2>3 DEF SampledLots
<1>3. ASSUME NEW l \in LotIds, ReleaseLot(l) \/ SendForRemediation(l)
      PROVE  lots'[m].status \in {"qc_in_progress", "passed", "failed", "remediation"}
  <2>1. PICK row \in LotRow : /\ lots' = [lots EXCEPT ![l] = row]
                              /\ row.sampled = lots[l].sampled
                              /\ \/ row.status = "released" /\ lots[l].status = "draft"
                                 \/ row.status = "remediation"
    BY <1>3, MovedRows
  <2>2. /\ m \in LotIds
        /\ lots'[l] = row
        /\ m # l => lots'[m] = lots[m]
    BY <2>1, LotMoved
  <2> QED BY <2>1, <2>2 DEF SampledLots
<1>4. ASSUME NEW l \in LotIds, NEW drawn \in SUBSET lots[l].members, ApplySample(l, drawn)
      PROVE  lots'[m].status \in {"qc_in_progress", "passed", "failed", "remediation"}
  <2>1. DOMAIN lots' = DOMAIN lots /\ LotIds' = LotIds
    BY <1>4, SampledRowWrites, LenProperties DEF LotColumns, LotIds
  <2> QED BY <1>4, <2>1, SampledRowWrites, LotRowAt DEF SampledLots
<1>5. ASSUME NEW r \in Records, NEW k \in DOMAIN tasks[r], NEW u \in Agents,
             \/ CompleteQc(r, k, u)
             \/ \E defect \in {"minor", "critical"} : FailQc(r, k, u, defect)
      PROVE  lots'[m].status \in {"qc_in_progress", "passed", "failed", "remediation"}
  <2>1. m \in LotIds
    BY <1>5, ReviewedLots
  <2> QED BY <1>5, <2>1, VerdictOnOneLot DEF SampledLots
<1> QED BY <1>1, <1>2, <1>3, <1>4, <1>5, LotStep

\* A step of LotQc is a step of the abstract life of a lot, or none.
LEMMA LotLifeStep ==
    ASSUME LotColumns, LotColumns', SampledLots, [LotNext]_<<vars, lotVars>>
    PROVE  [Lots!Next]_AbstractLots
<1>1. DOMAIN AbstractLots = LotIds /\ DOMAIN lots = LotIds
    BY LenProperties DEF AbstractLots, LotColumns, LotIds
<1>2. CASE UNCHANGED lots
    BY <1>2 DEF AbstractLots, LotIds
<1>3. ASSUME NEW chosen \in SUBSET Records, CreateLot(chosen)
      PROVE  Lots!Next
  <2> DEFINE row == [status |-> "draft", members |-> chosen, sampled |-> {},
                     iso |-> FALSE, acceptance_number |-> 0, minor |-> 0, critical |-> 0]
             abstract == [phase |-> "draft", members |-> chosen, sample |-> {}]
  <2>1. lots' = Append(lots, row) /\ row \in LotRow
    BY <1>3 DEF CreateLot, LotRow, LotStatus
  <2>2. abstract = [phase |-> row.status, members |-> row.members, sample |-> row.sampled]
    OBVIOUS
  <2> HIDE DEF row
  <2>3. AbstractLots' = Append(AbstractLots, abstract)
    <3>1. /\ LotIds' = 1 .. Len(lots) + 1
          /\ \A l \in LotIds : lots'[l] = lots[l]
          /\ lots'[Len(lots) + 1] = row
      BY <2>1, AppendProperties DEF LotColumns, LotIds
    <3>2. Len(AbstractLots) = Len(lots) /\ Len(lots) \in Nat
      BY LenProperties DEF AbstractLots, LotIds, LotColumns
    <3>3. Append(AbstractLots, abstract) =
              [i \in 1 .. Len(lots) + 1 |->
                  IF i <= Len(lots) THEN AbstractLots[i] ELSE abstract]
      BY <3>2 DEF AbstractLots, LotIds
    <3> QED BY <2>2, <3>1, <3>2, <3>3 DEF AbstractLots, LotIds
  <2> QED BY <2>3 DEF Lots!Next, Lots!Create, AbstractLots
<1>4. ASSUME NEW l \in LotIds, ReleaseLot(l) \/ SendForRemediation(l)
      PROVE  Lots!Next
  <2>1. PICK row \in LotRow : /\ lots' = [lots EXCEPT ![l] = row]
                              /\ row.members = lots[l].members
                              /\ row.sampled = lots[l].sampled
                              /\ \/ row.status = "released" /\ lots[l].status = "draft"
                                 \/ row.status = "remediation" /\ lots[l].status = "failed"
    BY <1>4, MovedRows
  <2>2. /\ AbstractLots' = [AbstractLots EXCEPT ![l] =
               [phase |-> row.status, members |-> row.members, sample |-> row.sampled]]
        /\ AbstractLots[l] = [phase |-> lots[l].status, members |-> lots[l].members,
                              sample |-> lots[l].sampled]
    BY <2>1, LotMoved, AbstractLotAt
  <2>3. [AbstractLots[l] EXCEPT !.phase = row.status] =
            [phase |-> row.status, members |-> row.members, sample |-> row.sampled]
    BY <2>1, <2>2, AbstractMove
  <2>4. AbstractLots' = [AbstractLots EXCEPT ![l] = [AbstractLots[l] EXCEPT !.phase = row.status]]
    BY <2>2, <2>3
  <2> QED BY <1>1, <2>1, <2>4 DEF Lots!Next, Lots!Release, Lots!Remediate, AbstractLots
<1>5. ASSUME NEW l \in LotIds, NEW drawn \in SUBSET lots[l].members, ApplySample(l, drawn)
      PROVE  Lots!Next
  <2>1. /\ lots[l].status = "released"
        /\ lots' = [lots EXCEPT ![l] = SampledRow(l, drawn)]
    BY <1>5, SampledRowWrites DEF ApplySample
  <2>2. SampledRow(l, drawn) \in LotRow
    BY <1>1, <2>1, ElementOfSeq, LenProperties DEF LotColumns
  <2>3. /\ SampledRow(l, drawn).status = "qc_in_progress"
        /\ SampledRow(l, drawn).sampled = drawn
        /\ SampledRow(l, drawn).members = lots[l].members
    BY <1>5, SampledRowWrites
  <2>4. /\ AbstractLots' = [AbstractLots EXCEPT ![l] =
               [phase |-> SampledRow(l, drawn).status,
                members |-> SampledRow(l, drawn).members,
                sample |-> SampledRow(l, drawn).sampled]]
        /\ AbstractLots[l] = [phase |-> lots[l].status, members |-> lots[l].members,
                              sample |-> lots[l].sampled]
    BY <2>1, <2>2, LotMoved, AbstractLotAt
  <2>5. /\ AbstractLots[l].phase = "released"
        /\ AbstractLots[l].members = lots[l].members
        /\ AbstractLots' = [AbstractLots EXCEPT ![l] =
               [phase |-> "qc_in_progress", members |-> AbstractLots[l].members,
                sample |-> drawn]]
    BY <2>1, <2>3, <2>4
  <2>6. Lots!Sample(l)
    BY <2>5 DEF Lots!Sample, AbstractLots
  <2> QED BY <1>1, <2>6 DEF Lots!Next, AbstractLots
<1>6. ASSUME NEW r \in Records, NEW k \in DOMAIN tasks[r], NEW u \in Agents,
             \/ CompleteQc(r, k, u)
             \/ \E defect \in {"minor", "critical"} : FailQc(r, k, u, defect)
      PROVE  [Lots!Next]_AbstractLots
  <2>1. LotIds' = LotIds
    BY <1>6, ReviewedLots
  <2>2. CASE \A l \in LotIds : lots'[l].status = lots[l].status
    <3>1. AbstractLots' = AbstractLots
      BY <1>6, <2>1, <2>2, VerdictOnOneLot DEF AbstractLots
    <3> QED BY <3>1
  <2>3. ASSUME NEW l \in LotIds, lots'[l].status # lots[l].status
        PROVE  Lots!Next
    <3>1. l \in SampledIn(r) /\ lots'[l].status \in {"passed", "failed"}
      BY <1>6, <2>3, VerdictOnOneLot
    <3>2. \A m \in LotIds : m # l => lots'[m] = lots[m]
      BY <1>6, <3>1, VerdictOnOneLot DEF CompleteQc, FailQc, FoundAtMostOneLot
    <3>3. /\ lots'[l].members = lots[l].members
          /\ lots'[l].sampled = lots[l].sampled
      BY <1>6, VerdictOnOneLot
    <3>4. AbstractLots' = [AbstractLots EXCEPT ![l].phase = lots'[l].status]
      BY <2>1, <3>2, <3>3 DEF AbstractLots
    <3>5. /\ lots[l].sampled # {}
          /\ lots[l].status \in {"qc_in_progress", "passed", "failed", "remediation"}
      BY <3>1 DEF SampledIn, SampledLots
    <3> QED BY <1>1, <3>1, <3>4, <3>5 DEF Lots!Next, Lots!Decide, AbstractLots
  <2> QED BY <2>2, <2>3
<1> QED BY <1>2, <1>3, <1>4, <1>5, <1>6, LotStep

\* LotQc implements the life of a lot: its sample is drawn once and stays, it
\* is decided only after that, and one request moves one lot.
THEOREM ImplementsLotLifecycle == LotQcSpec => LotLifecycleSpec
<1>1. LotInit => SampledLots /\ Lots!Init
  <2>1. ASSUME LotInit PROVE LotIds = {} /\ AbstractLots = <<>>
    BY <2>1 DEF LotInit, LotIds, AbstractLots
  <2> QED BY <2>1 DEF SampledLots, Lots!Init, AbstractLots
<1>2. LotColumns /\ LotColumns' /\ SampledLots /\ [LotNext]_<<vars, lotVars>>
      => [Lots!Next]_AbstractLots
    BY LotLifeStep
<1> QED BY <1>1, <1>2, LotColumnsAlwaysTyped, SampledLotsNext, PTL
        DEF LotQcSpec, LotLifecycleSpec, Lots!Spec, AbstractLots

-----------------------------------------------------------------------------
(* No verdict without the reviews it counts.                               *)

\* Task rows are never deleted, nor does one change its type: a record that
\* was given to a QC agent once stays so.
RowsStay(q) ==
    \A k \in DOMAIN tasks[q] :
        k \in DOMAIN tasks'[q] /\ tasks'[q][k].task_type = tasks[q][k].task_type

LEMMA UntouchedRowsStay ==
    ASSUME NEW q, tasks'[q] = tasks[q]
    PROVE  RowsStay(q)
BY DEF RowsStay

LEMMA AddedRowStays ==
    ASSUME ColumnsTyped, NEW q \in Records, NEW row \in TaskRow,
           tasks'[q] = Append(tasks[q], row)
    PROVE  RowsStay(q)
BY RowAdded DEF RowsStay, ColumnsTyped

LEMMA StatusRowsStay ==
    ASSUME ColumnsTyped, NEW r \in Records, NEW k \in DOMAIN tasks[r], NEW s,
           SetTaskStatus(r, k, s), NEW q \in Records
    PROVE  RowsStay(q)
<1>1. CASE q # r
    BY <1>1, UntouchedRowsStay DEF SetTaskStatus, ColumnsTyped
<1>2. CASE q = r
  <2>1. tasks'[r] = [tasks[r] EXCEPT ![k] = [tasks[r][k] EXCEPT !.status = s]]
    BY DEF SetTaskStatus, ColumnsTyped
  <2>2. tasks'[r][k].task_type = tasks[r][k].task_type
    BY <2>1, TaskRowAt DEF TaskRow
  <2> QED BY <1>2, <2>1, <2>2 DEF RowsStay
<1> QED BY <1>1, <1>2

LEMMA AssignmentRowsStay ==
    ASSUME ColumnsTyped, NEW b \in BatchIds, NEW type \in TaskType, NEW a \in Agents,
           \/ \E r \in Records : AssignTask(r, b, type, a)
           \/ AssignQaAgent(b, a)
           \/ ReassignBatch(b, type, a),
           NEW q \in Records
    PROVE  RowsStay(q)
<1>1. ASSUME NEW r \in Records, AssignTask(r, b, type, a)
      PROVE  RowsStay(q)
  <2>1. NewTask(type, b, a) \in TaskRow
    BY NewTaskType, LenProperties DEF Staff, BatchIds, ColumnsTyped
  <2> QED BY <1>1, <2>1, AddedRowStays, UntouchedRowsStay DEF AssignTask, ColumnsTyped
<1>2. CASE AssignQaAgent(b, a)
    BY <1>2, TaskRowAt DEF RowsStay, AssignQaAgent, TaskRow
<1>3. CASE ReassignBatch(b, type, a)
  <2>1. \A k \in DOMAIN tasks[q] :
            [tasks[q][k] EXCEPT !.assigned_to = a, !.status = "pending"].task_type =
                tasks[q][k].task_type
    BY TaskRowAt DEF TaskRow
  <2> QED BY <1>3, <2>1 DEF RowsStay, ReassignBatch
<1> QED BY <1>1, <1>2, <1>3

LEMMA ReassignedRowStays ==
    ASSUME ColumnsTyped, NEW r \in Records, NEW k \in DOMAIN tasks[r], NEW a \in Agents,
           ReassignTask(r, k, a), NEW q \in Records
    PROVE  RowsStay(q)
<1>1. tasks' = [tasks EXCEPT ![r] = [tasks[r] EXCEPT ![k] =
                   [tasks[r][k] EXCEPT !.assigned_to = a, !.status = "pending"]]]
    BY DEF ReassignTask, ColumnsTyped
<1>2. [tasks[r][k] EXCEPT !.assigned_to = a, !.status = "pending"].task_type =
          tasks[r][k].task_type
    BY TaskRowAt DEF TaskRow
<1> QED BY <1>1, <1>2 DEF RowsStay, ColumnsTyped

\* A rejection, by QA or by QC, closes one row and adds one.
LEMMA RejectedRowsStay ==
    ASSUME ColumnsTyped, NEW r \in Records, NEW k \in DOMAIN tasks[r], NEW row \in TaskRow,
           tasks' = [tasks EXCEPT ![r] = Append([@ EXCEPT ![k].status = "failed"], row)],
           NEW q \in Records
    PROVE  RowsStay(q)
<1> DEFINE closed == [tasks[r] EXCEPT ![k] = [tasks[r][k] EXCEPT !.status = "failed"]]
<1>1. tasks'[r] = Append(closed, row) /\ (q # r => tasks'[q] = tasks[q])
    BY DEF ColumnsTyped
<1>2. closed \in [DOMAIN tasks[r] -> TaskRow]
    BY TaskRowAt DEF TaskRow, TaskStatus, ColumnsTyped
<1>3. closed \in Seq(TaskRow) /\ DOMAIN closed = DOMAIN tasks[r]
    BY <1>2, RowsRewritten DEF ColumnsTyped
<1>4. \A j \in DOMAIN closed : closed[j].task_type = tasks[r][j].task_type
    BY TaskRowAt DEF TaskRow
<1> HIDE DEF closed
<1>5. RowsStay(r)
    BY <1>1, <1>3, <1>4, RowAdded DEF RowsStay
<1> QED BY <1>1, <1>5, UntouchedRowsStay

LEMMA RequeuedRowsStay ==
    ASSUME ColumnsTyped, NEW r \in Records, RequeueForIndexing(r) \/ RequeueForQa(r),
           NEW q \in Records
    PROVE  RowsStay(q)
<1>1. CASE q # r
    BY <1>1, UntouchedRowsStay DEF RequeueForIndexing, RequeueForQa, ColumnsTyped
<1>2. CASE RequeueForIndexing(r)
  <2>1. tasks'[r] = WithOpenTasksFailed(r)
    BY <1>2 DEF RequeueForIndexing, ColumnsTyped
  <2> QED BY <1>1, <2>1, WithOpenTasksFailedType, ClosedRows DEF RowsStay
<1>3. CASE RequeueForQa(r)
  <2>1. NewTask("qa", NewBatchId, NoOne) \in TaskRow
    BY <1>3, InsertBatchType, NewTaskType DEF RequeueForQa, BatchStatus, TaskType, Staff
  <2>2. tasks'[r] = Append(WithOpenTasksFailed(r), NewTask("qa", NewBatchId, NoOne))
    BY <1>3 DEF RequeueForQa, ColumnsTyped
  <2> QED BY <1>1, <2>1, <2>2, WithOpenTasksFailedType, ClosedRows, RowAdded DEF RowsStay
<1> QED BY <1>2, <1>3

\* A batch of tasks handed out: one row more for each record of some set.
LEMMA BatchedRowsStay ==
    ASSUME ColumnsTyped, NEW q \in Records,
           \/ \E chosen \in SUBSET Records, a \in Agents : CreateIndexingBatch(chosen, a)
           \/ \E b \in BatchIds : CompleteIndexingBatch(b)
           \/ \E l \in LotIds, a \in Agents : \E chosen \in SUBSET lots[l].members :
                  CreateQcBatch(l, chosen, a)
    PROVE  RowsStay(q)
<1>1. ASSUME NEW type \in TaskType, NEW b \in Nat, NEW a \in Staff,
             tasks'[q] \in {tasks[q], Append(tasks[q], NewTask(type, b, a))}
      PROVE  RowsStay(q)
    BY <1>1, NewTaskType, AddedRowStays, UntouchedRowsStay
<1>2. ASSUME NEW chosen \in SUBSET Records, NEW a \in Agents, CreateIndexingBatch(chosen, a)
      PROVE  RowsStay(q)
    BY <1>1, <1>2, InsertBatchType DEF CreateIndexingBatch, BatchStatus, TaskType, Staff
<1>3. ASSUME NEW b \in BatchIds, CompleteIndexingBatch(b)
      PROVE  RowsStay(q)
  <2>1. b \in Nat
    BY LenProperties DEF BatchIds, ColumnsTyped
  <2> QED BY <1>1, <1>3, <2>1 DEF CompleteIndexingBatch, TaskType, Staff
<1>4. ASSUME NEW l \in LotIds, NEW chosen \in SUBSET lots[l].members, NEW a \in Agents,
             CreateQcBatch(l, chosen, a)
      PROVE  RowsStay(q)
    BY <1>1, <1>4, InsertBatchType DEF CreateQcBatch, BatchStatus, TaskType, Staff
<1> QED BY <1>2, <1>3, <1>4

LEMMA AgentRowsStay ==
    ASSUME ColumnsTyped, NEW r \in Records, NEW k \in DOMAIN tasks[r], NEW u \in Agents,
           \/ AgentStep(r, k, u)
           \/ CompleteQc(r, k, u)
           \/ \E defect \in {"minor", "critical"} : FailQc(r, k, u, defect),
           NEW q \in Records
    PROVE  RowsStay(q)
<1>1. CASE FailQa(r, k, u)
  <2>1. NewTask("indexing", tasks[r][k].batch, NoOne) \in TaskRow
    BY TaskRowAt, NewTaskType DEF TaskRow, TaskType, Staff
  <2> QED BY <1>1, <2>1, RejectedRowsStay DEF FailQa
<1>2. ASSUME NEW defect \in {"minor", "critical"}, FailQc(r, k, u, defect)
      PROVE  RowsStay(q)
  <2>1. NewTask("qa", NewBatchId, NoOne) \in TaskRow
    BY <1>2, InsertBatchType, NewTaskType DEF FailQc, BatchStatus, TaskType, Staff
  <2> QED BY <1>2, <2>1, RejectedRowsStay DEF FailQc
<1> QED BY <1>1, <1>2, StatusRowsStay
        DEF AgentStep, StartTask, CompleteIndexing, CompleteQa, FailIndexing, SkipTask,
            CompleteQc

LEMMA RowsAlwaysStay ==
    ASSUME ColumnsTyped, [LotNext]_<<vars, lotVars>>, NEW q \in Records
    PROVE  RowsStay(q)
<1>1. CASE UNCHANGED tasks
    BY <1>1, UntouchedRowsStay
<1>2. ASSUME NEW b \in BatchIds, NEW type \in TaskType, NEW a \in Agents,
             \/ \E r \in Records : AssignTask(r, b, type, a)
             \/ AssignQaAgent(b, a)
             \/ ReassignBatch(b, type, a)
      PROVE  RowsStay(q)
    BY <1>2, AssignmentRowsStay
<1>3. CASE [Next]_vars
  <2>1. ASSUME \/ \E r \in Records : UnlockRecord(r) \/ RaiseFlag(r) \/ CloseFlag(r)
               \/ UNCHANGED vars
        PROVE  UNCHANGED tasks
    BY <2>1 DEF UnlockRecord, RaiseFlag, CloseFlag, vars
  <2> QED BY <1>1, <1>2, <1>3, <2>1, ReassignedRowStays, RequeuedRowsStay, BatchedRowsStay,
             AgentRowsStay
          DEF Next, TaskType
<1>4. CASE QcAssignment
    BY <1>2, <1>4 DEF QcAssignment, TaskType
<1>5. CASE QcStep
  <2>1. ASSUME \/ \E chosen \in SUBSET Records : CreateLot(chosen)
               \/ \E l \in LotIds : \/ ReleaseLot(l) \/ SendForRemediation(l)
                                    \/ \E drawn \in SUBSET lots[l].members :
                                           ApplySample(l, drawn)
               \/ \E m \in SamplingMode : SetSamplingMode(m)
        PROVE  UNCHANGED tasks
    BY <2>1 DEF CreateLot, ReleaseLot, SendForRemediation, ApplySample, SetSamplingMode, vars
  <2>2. ASSUME NEW l \in LotIds, NEW chosen \in SUBSET lots[l].members, NEW a \in Agents,
               CreateQcBatch(l, chosen, a)
        PROVE  RowsStay(q)
    BY <2>2, BatchedRowsStay
  <2>3. ASSUME NEW r \in Records, NEW k \in DOMAIN tasks[r], NEW u \in Agents,
               \/ CompleteQc(r, k, u)
               \/ \E defect \in {"minor", "critical"} : FailQc(r, k, u, defect)
        PROVE  RowsStay(q)
    BY <2>3, AgentRowsStay
  <2> QED BY <1>1, <1>5, <2>1, <2>2, <2>3 DEF QcStep
<1> QED BY <1>3, <1>4, <1>5 DEF LotNext

\* The record was given to a QC agent, now or before.
WithQcAgent(q) == \E k \in DOMAIN tasks[q] : tasks[q][k].task_type = "qc"

\* Only a verdict on its QC task gives a record a QC status.
ReviewedHadAgent ==
    \A q \in Records : status[q] \in {"qc_passed", "qc_failed"} => WithQcAgent(q)

LEMMA ReviewedHadAgentNext ==
    LotColumns /\ ReviewedHadAgent /\ [LotNext]_<<vars, lotVars>> => ReviewedHadAgent'
<1> SUFFICES ASSUME LotColumns, ReviewedHadAgent, [LotNext]_<<vars, lotVars>>,
                    NEW q \in Records, status'[q] \in {"qc_passed", "qc_failed"}
             PROVE  WithQcAgent(q)'
    BY DEF ReviewedHadAgent
<1>1. WithQcAgent(q) => WithQcAgent(q)'
    BY RowsAlwaysStay DEF LotColumns, WithQcAgent, RowsStay
<1>2. CASE status'[q] = status[q]
    BY <1>1, <1>2 DEF ReviewedHadAgent
<1>3. ASSUME NEW r \in Records, NEW k \in DOMAIN tasks[r], NEW u \in Agents,
             \/ CompleteQc(r, k, u)
             \/ \E defect \in {"minor", "critical"} : FailQc(r, k, u, defect)
      PROVE  WithQcAgent(q)'
  <2>1. q = r \/ status'[q] = status[q]
    BY <1>3 DEF CompleteQc, FailQc, LotColumns, ColumnsTyped
  <2>2. WithQcAgent(r)
    BY <1>3 DEF WithQcAgent, CompleteQc, FailQc
  <2> QED BY <1>1, <1>2, <2>1, <2>2
<1>4. CASE [Next]_vars
    BY <1>2, <1>4, WorkflowSetsNoQcStatus DEF LotColumns
<1>5. ASSUME NEW l, NEW drawn, ApplySample(l, drawn)
      PROVE  status'[q] = status[q]
    BY <1>5 DEF ApplySample
<1> QED BY <1>2, <1>3, <1>4, <1>5
        DEF LotNext, QcAssignment, QcStep, AssignTask, ReassignBatch, CreateLot, ReleaseLot,
            SendForRemediation, CreateQcBatch, SetSamplingMode, vars

LEMMA NoVerdictNext ==
    /\ LotColumns /\ LotColumns' /\ ReviewedHadAgent' /\ NoVerdictWithoutReview
    /\ [LotNext]_<<vars, lotVars>>
    => NoVerdictWithoutReview'
<1> SUFFICES ASSUME LotColumns, LotColumns', ReviewedHadAgent', NoVerdictWithoutReview,
                    [LotNext]_<<vars, lotVars>>, NEW m \in LotIds',
                    lots'[m].status \in {"passed", "failed", "remediation"},
                    NEW q \in lots'[m].sampled
             PROVE  WithQcAgent(q)'
    BY DEF NoVerdictWithoutReview, WithQcAgent
<1>1. q \in Records
  <2>1. lots' \in Seq(LotRow) /\ m \in 1 .. Len(lots')
    BY DEF LotColumns, LotIds
  <2>2. lots'[m] \in LotRow
    BY <2>1, ElementOfSeq
  <2> QED BY <2>2 DEF LotRow
<1>2. WithQcAgent(q) => WithQcAgent(q)'
    BY <1>1, RowsAlwaysStay DEF LotColumns, WithQcAgent, RowsStay
<1>3. ASSUME m \in LotIds, lots[m].status \in {"passed", "failed", "remediation"},
             lots'[m].sampled = lots[m].sampled
      PROVE  WithQcAgent(q)'
    BY <1>2, <1>3 DEF NoVerdictWithoutReview, WithQcAgent
<1>4. CASE UNCHANGED lots
    BY <1>3, <1>4 DEF LotIds
<1>5. ASSUME NEW chosen \in SUBSET Records, CreateLot(chosen)
      PROVE  WithQcAgent(q)'
  <2> DEFINE row == [status |-> "draft", members |-> chosen, sampled |-> {},
                     iso |-> FALSE, acceptance_number |-> 0, minor |-> 0, critical |-> 0]
  <2>1. lots' = Append(lots, row) /\ row \in LotRow /\ row.sampled = {}
    BY <1>5 DEF CreateLot, LotRow, LotStatus
  <2> HIDE DEF row
  <2>2. m \in DOMAIN lots' /\ lots \in Seq(LotRow)
    BY LenProperties DEF LotColumns, LotIds
  <2>3. m \in LotIds /\ lots'[m] = lots[m]
    BY <2>1, <2>2, RowAdded, LotRowAt DEF LotIds
  <2> QED BY <1>3, <2>3
<1>6. ASSUME NEW l \in LotIds, ReleaseLot(l) \/ SendForRemediation(l)
      PROVE  WithQcAgent(q)'
  <2>1. PICK row \in LotRow : /\ lots' = [lots EXCEPT ![l] = row]
                              /\ row.sampled = lots[l].sampled
                              /\ row.status = "released" \/ lots[l].status = "failed"
    BY <1>6, MovedRows
  <2>2. /\ m \in LotIds
        /\ lots'[l] = row
        /\ m # l => lots'[m] = lots[m]
    BY <2>1, LotMoved
  <2> QED BY <1>3, <2>1, <2>2
<1>7. ASSUME NEW l \in LotIds, NEW drawn \in SUBSET lots[l].members, ApplySample(l, drawn)
      PROVE  WithQcAgent(q)'
  <2>1. DOMAIN lots' = DOMAIN lots /\ LotIds' = LotIds
    BY <1>7, SampledRowWrites, LenProperties DEF LotColumns, LotIds
  <2>2. m # l /\ lots'[m] = lots[m]
    BY <1>7, <2>1, SampledRowWrites, LotRowAt
  <2> QED BY <1>3, <2>1, <2>2
<1>8. ASSUME NEW r \in Records, NEW k \in DOMAIN tasks[r], NEW u \in Agents,
             \/ CompleteQc(r, k, u)
             \/ \E defect \in {"minor", "critical"} : FailQc(r, k, u, defect)
      PROVE  WithQcAgent(q)'
  <2>1. m \in LotIds
    BY <1>8, ReviewedLots
  <2>2. CASE lots'[m].status = lots[m].status
    BY <1>3, <1>8, <2>1, <2>2, VerdictOnOneLot
  <2>3. CASE lots'[m].status # lots[m].status
    <3>1. status'[q] \in {"qc_passed", "qc_failed"}
      BY <1>8, <2>1, <2>3, VerdictOnOneLot
    <3> QED BY <1>1, <3>1 DEF ReviewedHadAgent
  <2> QED BY <2>2, <2>3
<1> QED BY <1>4, <1>5, <1>6, <1>7, <1>8, LotStep

\* In every reachable state each record in the sample of a decided lot has been
\* given to a QC agent: nothing the workflow or the supervisors do to the shared
\* status column passes for a review.
THEOREM VerdictsFollowReviews == LotQcSpec => []NoVerdictWithoutReview
<1>1. LotInit => ReviewedHadAgent /\ NoVerdictWithoutReview
    BY DEF LotInit, Init, LotIds, ReviewedHadAgent, NoVerdictWithoutReview
<1> QED BY <1>1, LotColumnsAlwaysTyped, ReviewedHadAgentNext, NoVerdictNext, PTL DEF LotQcSpec

-----------------------------------------------------------------------------
(* What the abstract lock and batch promise, with customer QC beside the   *)
(* digitizing workflow.                                                    *)

\* A step of customer QC is a step of the abstract lock: it takes no lock.
LEMMA QcLockStep ==
    ASSUME LotColumns, ColumnsTyped', LockHasWorker', QcStep \/ QcAssignment
    PROVE  Lock!Next
<1>1. locked_by' \in [Records -> Agents \cup {NoOne}]
    BY DEF ColumnsTyped, Staff
<1>2. [r \in Records |-> BusyOn(r)]' \in [Records -> SUBSET Agents]
    BY DEF BusyOn
<1>3. ASSUME NEW q \in Records, locked_by'[q] # NoOne
      PROVE  locked_by'[q] \in [r \in Records |-> BusyOn(r)]'[q]
  <2>1. locked_by'[q] \in Agents
    BY <1>1, <1>3
  <2> QED BY <1>3, <2>1 DEF BusyOn, LockHasWorker
<1>4. ASSUME NEW q \in Records
      PROVE  Lock!Keep(q) \/ Lock!Release(q)
  <2>1. FreesOrKeepsLock(q)
    BY LotLockSteps
  <2>2. CASE locked_by'[q] = NoOne
    BY <2>2 DEF Lock!Release
  <2>3. CASE locked_by'[q] # NoOne
    BY <1>3, <2>1, <2>3 DEF FreesOrKeepsLock, Lock!Keep
  <2> QED BY <2>2, <2>3
<1> QED BY <1>1, <1>2, <1>4 DEF Lock!Next

\* With QC agents too, no request hands a record over from one agent to
\* another without freeing it in between (complete_task, fail_task).
THEOREM QcImplementsLock == LotQcSpec => LockSpec
<1>1. LotInit => Lock!Init
    BY DEF LotInit, Init, Lock!Init, BusyOn
<1>2. LotColumns /\ LotColumns' /\ LockHasWorker' /\ [LotNext]_<<vars, lotVars>>
      => [Lock!Next]_<<locked_by, [r \in Records |-> BusyOn(r)]>>
  <2> SUFFICES ASSUME LotColumns, LotColumns', LockHasWorker', [LotNext]_<<vars, lotVars>>
               PROVE  [Lock!Next]_<<locked_by, [r \in Records |-> BusyOn(r)]>>
    OBVIOUS
  <2>1. ColumnsTyped /\ ColumnsTyped'
    BY DEF LotColumns
  <2>2. CASE [Next]_vars
    <3>1. CASE Next
      BY <2>1, <3>1, LockStep
    <3>2. CASE UNCHANGED vars
      BY <2>1, <3>2, LockStep
    <3> QED BY <2>2, <3>1, <3>2
  <2>3. CASE QcStep \/ QcAssignment
    BY <2>1, <2>3, QcLockStep
  <2> QED BY <2>2, <2>3 DEF LotNext
<1> QED BY <1>1, <1>2, LotColumnsAlwaysTyped, LotLockAlwaysHasWorker, PTL
        DEF LotQcSpec, LockSpec, Lock!Spec

\* What reassign_batch does to the customer QC tasks of a batch.
LEMMA QcReassigned ==
    ASSUME NEW b, NEW a, ReassignBatch(b, "qc", a)
    PROVE  /\ batches' = batches
           /\ \A q \in Records :
                  /\ DOMAIN tasks'[q] = DOMAIN tasks[q]
                  /\ \A k \in DOMAIN tasks[q] :
                         tasks'[q][k] = IF MovedByBatch(tasks[q][k], b, "qc")
                                        THEN [tasks[q][k] EXCEPT !.assigned_to = a,
                                                                 !.status = "pending"]
                                        ELSE tasks[q][k]
<1>1. batches' = batches
    BY Zenon DEF ReassignBatch
<1>2. tasks' = [q \in Records |-> [k \in DOMAIN tasks[q] |->
            IF MovedByBatch(tasks[q][k], b, "qc")
            THEN [tasks[q][k] EXCEPT !.assigned_to = a, !.status = "pending"]
            ELSE tasks[q][k]]]
    BY Zenon DEF ReassignBatch
<1> QED BY <1>1, <1>2

\* What customer QC does to batches: it opens one or leaves them all alone.
LEMMA QcBatches ==
    ASSUME QcStep \/ QcAssignment
    PROVE  batches' = batches \/ \E s \in {"indexing", "qa_review"} : batches' = Append(batches, s)
<1> DEFINE Fine == \/ batches' = batches
                   \/ \E s \in {"indexing", "qa_review"} : batches' = Append(batches, s)
<1>1. ASSUME NEW r, NEW b, NEW a, AssignTask(r, b, "qc", a) \/ ReassignBatch(b, "qc", a)
      PROVE  Fine
  <2>1. CASE AssignTask(r, b, "qc", a)
    BY <2>1, Zenon DEF AssignTask
  <2>2. CASE ReassignBatch(b, "qc", a)
    BY <2>2, QcReassigned
  <2> QED BY <1>1, <2>1, <2>2
<1>2. ASSUME NEW l, NEW chosen, NEW a, CreateQcBatch(l, chosen, a)
      PROVE  Fine
    BY <1>2 DEF CreateQcBatch, InsertBatch
<1>3. ASSUME NEW l, NEW drawn, ApplySample(l, drawn)
      PROVE  Fine
    BY <1>3 DEF ApplySample
<1>4. ASSUME NEW r, NEW k, NEW u, CompleteQc(r, k, u)
      PROVE  Fine
    BY <1>4 DEF CompleteQc
<1>5. ASSUME NEW r, NEW k, NEW u, NEW defect, FailQc(r, k, u, defect)
      PROVE  Fine
    BY <1>5 DEF FailQc, InsertBatch
<1>6. ASSUME \/ \E chosen : CreateLot(chosen)
             \/ \E l : ReleaseLot(l) \/ SendForRemediation(l)
             \/ \E m : SetSamplingMode(m)
      PROVE  Fine
    BY <1>6 DEF CreateLot, ReleaseLot, SendForRemediation, SetSamplingMode, vars
<1> HIDE DEF Fine
<1>7. Fine
    BY <1>1, <1>2, <1>3, <1>4, <1>5, <1>6 DEF QcStep, QcAssignment
<1> QED BY <1>7 DEF Fine

\* Customer QC opens batches and moves none, so batches keep their phases in
\* order there as well (create_qc_batches, fail_task).
THEOREM QcImplementsLifecycle == LotQcSpec => LifecycleSpec
<1>1. LotInit => Lifecycle!Init
    BY DEF LotInit, Init, Lifecycle!Init
<1>2. LotColumns /\ [LotNext]_<<vars, lotVars>> => [Lifecycle!Next]_batches
  <2> SUFFICES ASSUME LotColumns, [LotNext]_<<vars, lotVars>>
               PROVE  [Lifecycle!Next]_batches
    OBVIOUS
  <2>1. ColumnsTyped
    BY DEF LotColumns
  <2>2. CASE [Next]_vars
    BY <2>1, <2>2, BatchStep
  <2>3. CASE QcStep \/ QcAssignment
    BY <2>3, QcBatches DEF Lifecycle!Next, Lifecycle!Open
  <2> QED BY <2>2, <2>3 DEF LotNext
<1> QED BY <1>1, <1>2, LotColumnsAlwaysTyped, PTL DEF LotQcSpec, LifecycleSpec, Lifecycle!Spec

\* The rows customer QC leaves behind, of the kinds of QaTasksLater or of QC.
QcRow(q, k) ==
    \/ OldRow(q, k)
    \/ tasks'[q][k].task_type = "qc" /\ RowOfKnownBatch(q, k)
    \/ RowOfReview(q, k)

LEMMA QcRows ==
    ASSUME LotColumns, QcStep \/ QcAssignment,
           NEW q \in Records, NEW i \in DOMAIN tasks'[q]
    PROVE  QcRow(q, i)
<1>1. ColumnsTyped
    BY DEF LotColumns
<1>2. ASSUME tasks'[q] = tasks[q]
      PROVE  QcRow(q, i)
    BY <1>2 DEF QcRow, OldRow
<1>3. ASSUME NEW b \in BatchIds, NEW a \in Agents, ReassignBatch(b, "qc", a)
      PROVE  QcRow(q, i)
  <2>1. \A k \in DOMAIN tasks[q] :
            LET row == [tasks[q][k] EXCEPT !.assigned_to = a, !.status = "pending"]
            IN  row.task_type = tasks[q][k].task_type /\ row.batch = tasks[q][k].batch
    BY <1>1, TaskRowAt DEF TaskRow
  <2>2. \A p \in Records :
            /\ DOMAIN tasks'[p] = DOMAIN tasks[p]
            /\ \A k \in DOMAIN tasks[p] :
                   tasks'[p][k] = IF MovedByBatch(tasks[p][k], b, "qc")
                                  THEN [tasks[p][k] EXCEPT !.assigned_to = a,
                                                           !.status = "pending"]
                                  ELSE tasks[p][k]
    BY <1>3, QcReassigned
  <2>3. i \in DOMAIN tasks[q] /\ tasks'[q][i].task_type = tasks[q][i].task_type
        /\ tasks'[q][i].batch = tasks[q][i].batch
    BY <2>1, <2>2
  <2> QED BY <2>3 DEF QcRow, OldRow
<1>4. ASSUME NEW l, NEW chosen, NEW a \in Agents, CreateQcBatch(l, chosen, a)
      PROVE  QcRow(q, i)
  <2>1. CASE q \notin chosen
    BY <1>2, <1>4, <2>1 DEF CreateQcBatch
  <2>2. CASE q \in chosen
    <3>1. NewTask("qc", NewBatchId, a) \in TaskRow
      BY <1>1, <1>4, InsertBatchType, NewTaskType DEF CreateQcBatch, BatchStatus, TaskType, Staff
    <3>2. tasks'[q] = Append(tasks[q], NewTask("qc", NewBatchId, a))
      BY <1>4, <2>2 DEF CreateQcBatch
    <3>3. NewBatchId \in BatchIds'
      <4>1. batches \in Seq(BatchStatus) /\ batches' = Append(batches, "indexing")
        BY <1>1, <1>4 DEF CreateQcBatch, InsertBatch, ColumnsTyped
      <4> QED BY <4>1, RowAdded, LenProperties DEF BatchStatus, NewBatchId, BatchIds
    <3> QED BY <1>1, <3>1, <3>2, <3>3, RowAdded
            DEF QcRow, OldRow, RowOfKnownBatch, NewTask, ColumnsTyped
  <2> QED BY <2>1, <2>2
<1>5. ASSUME NEW r \in Records, NEW k \in DOMAIN tasks[r], NEW s, SetTaskStatus(r, k, s)
      PROVE  QcRow(q, i)
  <2>1. CASE q # r
    BY <1>1, <1>2, <1>5, <2>1 DEF SetTaskStatus, ColumnsTyped
  <2>2. CASE q = r
    <3>1. tasks'[r] = [tasks[r] EXCEPT ![k] = [tasks[r][k] EXCEPT !.status = s]]
      BY <1>1, <1>5 DEF SetTaskStatus, ColumnsTyped
    <3>2. /\ tasks'[r][k].task_type = tasks[r][k].task_type
          /\ tasks'[r][k].batch = tasks[r][k].batch
      BY <1>1, <3>1, TaskRowAt DEF TaskRow
    <3> QED BY <2>2, <3>1, <3>2 DEF QcRow, OldRow
  <2> QED BY <2>1, <2>2
<1>6. ASSUME NEW r \in Records, NEW k \in DOMAIN tasks[r], NEW u \in Agents,
             NEW defect, FailQc(r, k, u, defect)
      PROVE  QcRow(q, i)
  <2>1. CASE q # r
    BY <1>1, <1>2, <1>6, <2>1 DEF FailQc, ColumnsTyped
  <2>2. CASE q = r
    <3> DEFINE closed == [tasks[r] EXCEPT ![k] = [tasks[r][k] EXCEPT !.status = "failed"]]
    <3>1. /\ NewTask("qa", NewBatchId, NoOne) \in TaskRow /\ NewBatchId \in Nat
          /\ NewTask("qa", NewBatchId, NoOne).batch = NewBatchId
      BY <1>1, <1>6, InsertBatchType, NewTaskType
         DEF FailQc, BatchStatus, TaskType, Staff, NewTask, NewBatchId
    <3>2. tasks'[r] = Append(closed, NewTask("qa", NewBatchId, NoOne))
      BY <1>1, <1>6 DEF FailQc, ColumnsTyped
    <3>3. closed \in Seq(TaskRow) /\ DOMAIN closed = DOMAIN tasks[r]
      <4>1. closed \in [DOMAIN tasks[r] -> TaskRow]
        BY <1>1, TaskRowAt DEF TaskRow, TaskStatus, ColumnsTyped
      <4> QED BY <1>1, <4>1, RowsRewritten DEF ColumnsTyped
    <3>4. \A j \in DOMAIN closed : /\ closed[j].task_type = tasks[r][j].task_type
                                   /\ closed[j].batch = tasks[r][j].batch
      BY <1>1, TaskRowAt DEF TaskRow
    <3> HIDE DEF closed
    <3>5. NewBatchId \in BatchIds' /\ batches'[NewBatchId] = "qa_review"
      <4>1. batches \in Seq(BatchStatus) /\ batches' = Append(batches, "qa_review")
        BY <1>1, <1>6 DEF FailQc, InsertBatch, ColumnsTyped
      <4> QED BY <4>1, RowAdded, LenProperties DEF BatchStatus, NewBatchId, BatchIds
    <3>6. DOMAIN tasks'[r] = DOMAIN closed \cup {Len(closed) + 1}
          /\ (\A j \in DOMAIN closed : tasks'[r][j] = closed[j])
          /\ tasks'[r][Len(closed) + 1] = NewTask("qa", NewBatchId, NoOne)
      BY <3>1, <3>2, <3>3, RowAdded
    <3>7. CASE i \in DOMAIN closed
      BY <2>2, <3>3, <3>4, <3>6, <3>7 DEF QcRow, OldRow
    <3>8. CASE i = Len(closed) + 1
      BY <2>2, <3>1, <3>5, <3>6, <3>8 DEF QcRow, RowOfReview
    <3> QED BY <2>2, <3>6, <3>7, <3>8
  <2> QED BY <2>1, <2>2
<1>7. CASE QcAssignment
  <2>1. ASSUME NEW r \in Records, NEW b \in BatchIds, NEW a \in Agents,
               AssignTask(r, b, "qc", a)
        PROVE  QcRow(q, i)
    <3>1. CASE q # r
      BY <1>1, <1>2, <2>1, <3>1 DEF AssignTask, ColumnsTyped
    <3>2. CASE q = r
      <4>1. NewTask("qc", b, a) \in TaskRow
        BY <1>1, NewTaskType, LenProperties DEF Staff, BatchIds, ColumnsTyped, TaskType
      <4>2. tasks'[r] = Append(tasks[r], NewTask("qc", b, a)) /\ tasks[r] \in Seq(TaskRow)
        BY <1>1, <2>1 DEF AssignTask, ColumnsTyped
      <4>3. BatchIds' = BatchIds
        BY <2>1 DEF AssignTask, BatchIds
      <4> QED BY <3>2, <4>1, <4>2, <4>3, RowAdded DEF QcRow, OldRow, RowOfKnownBatch, NewTask
    <3> QED BY <3>1, <3>2
  <2> QED BY <1>3, <1>7, <2>1 DEF QcAssignment
<1>8. CASE QcStep
  <2>1. ASSUME \/ \E chosen \in SUBSET Records : CreateLot(chosen)
               \/ \E l \in LotIds : \/ ReleaseLot(l) \/ SendForRemediation(l)
                                    \/ \E drawn \in SUBSET lots[l].members :
                                           ApplySample(l, drawn)
               \/ \E m \in SamplingMode : SetSamplingMode(m)
        PROVE  UNCHANGED tasks
    <3>1. ASSUME NEW l, NEW drawn, ApplySample(l, drawn) PROVE UNCHANGED tasks
      BY <3>1 DEF ApplySample
    <3>2. ASSUME \/ \E chosen : CreateLot(chosen)
                 \/ \E l : ReleaseLot(l) \/ SendForRemediation(l)
                 \/ \E m : SetSamplingMode(m)
          PROVE  UNCHANGED tasks
      BY <3>2 DEF CreateLot, ReleaseLot, SendForRemediation, SetSamplingMode, vars
    <3> QED BY <2>1, <3>1, <3>2
  <2>2. ASSUME NEW r \in Records, NEW k \in DOMAIN tasks[r], NEW u \in Agents, CompleteQc(r, k, u)
        PROVE  QcRow(q, i)
    BY <1>5, <2>2 DEF CompleteQc
  <2> QED BY <1>2, <1>4, <1>6, <1>8, <2>1, <2>2 DEF QcStep
<1> QED BY <1>7, <1>8

LEMMA LotQaTasksLaterNext ==
    LotColumns /\ LotColumns' /\ ~DirectAssign /\ QaTasksLater /\ [LotNext]_<<vars, lotVars>>
    => QaTasksLater'
<1> SUFFICES ASSUME LotColumns, LotColumns', ~DirectAssign, QaTasksLater,
                    [LotNext]_<<vars, lotVars>>
             PROVE  QaTasksLater'
    OBVIOUS
<1>1. ColumnsTyped /\ ColumnsTyped'
    BY DEF LotColumns
<1>2. CASE [Next]_vars
    BY <1>1, <1>2, QaTasksLaterNext
<1>3. CASE QcStep \/ QcAssignment
  <2> SUFFICES ASSUME NEW r \in Records, NEW k \in DOMAIN tasks'[r],
                      tasks'[r][k].task_type = "qa"
               PROVE  /\ tasks'[r][k].batch \in BatchIds'
                      /\ batches'[tasks'[r][k].batch] # "indexing"
    BY DEF QaTasksLater
  <2>1. CASE RowOfReview(r, k)
    BY <2>1 DEF RowOfReview
  <2>2. CASE OldRow(r, k)
    <3>1. PICK b \in BatchIds : b = tasks'[r][k].batch /\ batches[b] # "indexing"
      BY <2>2 DEF OldRow, QaTasksLater
    <3>2. b \in BatchIds' /\ batches'[b] = batches[b]
      <4>1. batches \in Seq(BatchStatus) /\ DOMAIN batches = BatchIds
        BY <1>1, LenProperties DEF ColumnsTyped, BatchIds
      <4>2. CASE batches' = batches
        BY <4>2 DEF BatchIds
      <4>3. ASSUME NEW s \in {"indexing", "qa_review"}, batches' = Append(batches, s)
            PROVE  b \in BatchIds' /\ batches'[b] = batches[b]
        <5>1. /\ DOMAIN batches' = DOMAIN batches \cup {Len(batches) + 1}
              /\ batches'[b] = batches[b] /\ batches' \in Seq(BatchStatus)
          BY <4>1, <4>3, RowAdded DEF BatchStatus
        <5> QED BY <4>1, <5>1, LenProperties DEF BatchIds
      <4> QED BY <1>3, <4>2, <4>3, QcBatches
    <3> QED BY <3>1, <3>2
  <2> QED BY <1>3, <2>1, <2>2, QcRows DEF QcRow
<1> QED BY <1>2, <1>3 DEF LotNext

\* Customer QC, which opens batches in indexing for its own tasks, lets no
\* batch leave indexing over a flagged or unfinished record either.
THEOREM QcFlagsHoldTheBatch == ~DirectAssign /\ LotQcSpec => FlagsHoldTheBatch
<1> SUFFICES ASSUME ~DirectAssign PROVE LotQcSpec => FlagsHoldTheBatch
    OBVIOUS
<1>1. LotInit => QaTasksLater
    BY DEF LotInit, Init, QaTasksLater
<1>2. LotColumns /\ QaTasksLater /\ [LotNext]_<<vars, lotVars>> =>
          [\A b \in BatchIds :
               batches[b] = "indexing" /\ batches'[b] # "indexing" =>
                   \A r \in Records : batch_id[r] = b =>
                       ~open_flag[r] /\ status[r] \notin {"pending", "indexing"}]_vars
  <2> SUFFICES ASSUME LotColumns, QaTasksLater, [LotNext]_<<vars, lotVars>>,
                      NEW b \in BatchIds, batches[b] = "indexing", batches'[b] # "indexing"
               PROVE  ReadyForQa(b)
    BY DEF ReadyForQa, SKIPPED_RECORD_STATUSES, SKIPPABLE_STATUSES
  <2>1. ColumnsTyped
    BY DEF LotColumns
  <2>2. CASE [Next]_vars
    BY <2>1, <2>2, LeavesIndexing
  <2>3. CASE QcStep \/ QcAssignment
    <3>1. batches \in Seq(BatchStatus) /\ DOMAIN batches = BatchIds
      BY <2>1, LenProperties DEF ColumnsTyped, BatchIds
    <3>2. batches'[b] = batches[b]
      BY <2>3, <3>1, QcBatches, RowAdded DEF BatchStatus
    <3> QED BY <3>2
  <2> QED BY <2>2, <2>3 DEF LotNext
<1>3. LotColumns /\ LotColumns' /\ QaTasksLater /\ [LotNext]_<<vars, lotVars>> => QaTasksLater'
    BY LotQaTasksLaterNext
<1>4. LotColumns /\ QaTasksLater /\ [LotNext]_<<vars, lotVars>> =>
          [\A b \in BatchIds :
               batches[b] = "indexing" /\ batches'[b] # "indexing" =>
                   \A r \in Records : batch_id[r] = b =>
                       ~open_flag[r] /\ status[r] \notin {"pending", "indexing"}]_vars
    BY <1>2
<1> QED BY <1>1, <1>3, <1>4, LotColumnsAlwaysTyped, PTL DEF LotQcSpec, FlagsHoldTheBatch

-----------------------------------------------------------------------------
(* What rows refer to, and when a lot has a sample and marks.              *)

LEMMA QcBatchesStay ==
    ASSUME ColumnsTyped, QcStep \/ QcAssignment
    PROVE  BatchIds \subseteq BatchIds'
<1>1. [Lifecycle!Next]_batches
    BY QcBatches DEF Lifecycle!Next, Lifecycle!Open
<1> QED BY <1>1, BatchesStay

\* Customer QC moves a record only when it rejects it, into the batch it opens.
LEMMA QcRecordsPut ==
    ASSUME ColumnsTyped, QcStep \/ QcAssignment, NEW q \in Records
    PROVE  batch_id'[q] \in {batch_id[q]} \cup BatchIds'
<1>1. ASSUME NEW r \in Records, NEW k \in DOMAIN tasks[r], NEW u \in Agents, NEW defect,
             FailQc(r, k, u, defect)
      PROVE  batch_id'[q] \in {batch_id[q]} \cup BatchIds'
  <2>1. NewBatchId \in BatchIds'
    <3>1. batches \in Seq(BatchStatus) /\ batches' = Append(batches, "qa_review")
      BY <1>1 DEF FailQc, InsertBatch, ColumnsTyped
    <3> QED BY <3>1, RowAdded, LenProperties DEF BatchStatus, NewBatchId, BatchIds
  <2>2. batch_id' = [batch_id EXCEPT ![r] = NewBatchId]
    BY <1>1, Zenon DEF FailQc
  <2> QED BY <2>1, <2>2 DEF ColumnsTyped
<1>2. ASSUME NEW l, NEW chosen, NEW a, CreateQcBatch(l, chosen, a)
      PROVE  batch_id' = batch_id
    BY <1>2, Zenon DEF CreateQcBatch
<1>3. ASSUME NEW l, NEW drawn, ApplySample(l, drawn)
      PROVE  batch_id' = batch_id
    BY <1>3 DEF ApplySample
<1>4. ASSUME NEW r, NEW k, NEW u, CompleteQc(r, k, u)
      PROVE  batch_id' = batch_id
    BY <1>4 DEF CompleteQc
<1>5. ASSUME NEW r, NEW b, NEW a, AssignTask(r, b, "qc", a) \/ ReassignBatch(b, "qc", a)
      PROVE  batch_id' = batch_id
    BY <1>5, Zenon DEF AssignTask, ReassignBatch
<1>6. ASSUME \/ \E chosen : CreateLot(chosen)
             \/ \E l : ReleaseLot(l) \/ SendForRemediation(l)
             \/ \E m : SetSamplingMode(m)
      PROVE  batch_id' = batch_id
    BY <1>6 DEF CreateLot, ReleaseLot, SendForRemediation, SetSamplingMode, vars
<1> QED BY <1>1, <1>2, <1>3, <1>4, <1>5, <1>6 DEF QcStep, QcAssignment

LEMMA LotBatchesIssuedNext ==
    LotColumns /\ BatchesIssued /\ [LotNext]_<<vars, lotVars>> => BatchesIssued'
<1> SUFFICES ASSUME LotColumns, BatchesIssued, [LotNext]_<<vars, lotVars>>
             PROVE  BatchesIssued'
    OBVIOUS
<1>1. ColumnsTyped
    BY DEF LotColumns
<1>2. CASE [Next]_vars
    BY <1>1, <1>2, BatchesIssuedNext
<1>3. CASE QcStep \/ QcAssignment
  <2>1. BatchIds \subseteq BatchIds'
    BY <1>1, <1>3, QcBatchesStay
  <2>2. ASSUME NEW r \in Records
        PROVE  batch_id'[r] \in BatchIds' \cup {NoBatch}
    BY <1>1, <1>3, <2>1, QcRecordsPut DEF BatchesIssued
  <2>3. ASSUME NEW r \in Records, NEW k \in DOMAIN tasks'[r]
        PROVE  tasks'[r][k].batch \in BatchIds'
    <3>1. QcRow(r, k)
      BY <1>3, QcRows
    <3> QED BY <2>1, <3>1 DEF QcRow, OldRow, RowOfKnownBatch, RowOfReview, BatchesIssued
  <2> QED BY <2>2, <2>3 DEF BatchesIssued, NoBatch
<1> QED BY <1>2, <1>3 DEF LotNext

\* Customer QC writes no versions.
LEMMA LotVersionsNumberedNext ==
    LotColumns /\ VersionsNumbered /\ [LotNext]_<<vars, lotVars>> => VersionsNumbered'
<1> SUFFICES ASSUME LotColumns, VersionsNumbered, [LotNext]_<<vars, lotVars>>
             PROVE  VersionsNumbered'
    OBVIOUS
<1>1. CASE [Next]_vars
    BY <1>1, VersionsNumberedNext DEF LotColumns
<1>2. CASE UNCHANGED <<versions, current_version>>
    BY <1>2 DEF VersionsNumbered
<1>3. ASSUME NEW r, NEW k, NEW u, NEW defect, CompleteQc(r, k, u) \/ FailQc(r, k, u, defect)
      PROVE  UNCHANGED <<versions, current_version>>
    BY <1>3, Zenon DEF CompleteQc, FailQc
<1>4. ASSUME NEW l, NEW drawn, ApplySample(l, drawn)
      PROVE  UNCHANGED <<versions, current_version>>
    BY <1>4, Zenon DEF ApplySample
<1>5. ASSUME NEW l, NEW chosen, NEW a, CreateQcBatch(l, chosen, a)
      PROVE  UNCHANGED <<versions, current_version>>
    BY <1>5, Zenon DEF CreateQcBatch
<1>6. ASSUME NEW r, NEW b, NEW a, AssignTask(r, b, "qc", a) \/ ReassignBatch(b, "qc", a)
      PROVE  UNCHANGED <<versions, current_version>>
    BY <1>6, Zenon DEF AssignTask, ReassignBatch
<1>7. ASSUME \/ \E chosen : CreateLot(chosen)
             \/ \E l : ReleaseLot(l) \/ SendForRemediation(l)
             \/ \E m : SetSamplingMode(m)
      PROVE  UNCHANGED <<versions, current_version>>
    BY <1>7 DEF CreateLot, ReleaseLot, SendForRemediation, SetSamplingMode, vars
<1> QED BY <1>1, <1>2, <1>3, <1>4, <1>5, <1>6, <1>7 DEF LotNext, QcStep, QcAssignment

\* A lot fits when its sample and its marks do.
LotFits(lot) ==
    /\ lot.sampled \subseteq lot.members
    /\ lot.status \in {"draft", "released"} =>
           lot.sampled = {} /\ lot.minor = 0 /\ lot.critical = 0

\* A verdict falls only on a lot that has r in its sample, hence not on a draft
\* or a released one, and puts no lot back there.
LEMMA SamplesFitNext ==
    LotColumns /\ LotColumns' /\ SamplesFit /\ [LotNext]_<<vars, lotVars>> => SamplesFit'
<1> SUFFICES ASSUME LotColumns, LotColumns', SamplesFit, [LotNext]_<<vars, lotVars>>,
                    NEW m \in LotIds'
             PROVE  LotFits(lots'[m])
    BY DEF SamplesFit, LotFits
<1>1. CASE UNCHANGED lots
    BY <1>1 DEF SamplesFit, LotFits, LotIds
<1>2. ASSUME NEW chosen \in SUBSET Records, CreateLot(chosen)
      PROVE  LotFits(lots'[m])
  <2> DEFINE row == [status |-> "draft", members |-> chosen, sampled |-> {},
                     iso |-> FALSE, acceptance_number |-> 0, minor |-> 0, critical |-> 0]
  <2>1. lots' = Append(lots, row) /\ row \in LotRow /\ LotFits(row)
    BY <1>2 DEF CreateLot, LotRow, LotStatus, LotFits
  <2> HIDE DEF row
  <2>2. m \in DOMAIN lots' /\ lots \in Seq(LotRow) /\ DOMAIN lots = LotIds
    BY LenProperties DEF LotColumns, LotIds
  <2>3. lots'[m] = row \/ (m \in LotIds /\ lots'[m] = lots[m])
    BY <2>1, <2>2, RowAdded
  <2> QED BY <2>1, <2>3 DEF SamplesFit, LotFits
<1>3. ASSUME NEW l \in LotIds, ReleaseLot(l) \/ SendForRemediation(l)
      PROVE  LotFits(lots'[m])
  <2>1. PICK s \in {"released", "remediation"} :
            /\ lots' = [lots EXCEPT ![l] = [lots[l] EXCEPT !.status = s]]
            /\ s = "released" => lots[l].status = "draft"
    BY <1>3, LotRowAt DEF ReleaseLot, SendForRemediation
  <2> DEFINE row == [lots[l] EXCEPT !.status = s]
  <2>2. /\ row \in LotRow /\ row.status = s
        /\ row.sampled = lots[l].sampled /\ row.members = lots[l].members
        /\ row.minor = lots[l].minor /\ row.critical = lots[l].critical
    BY LotRowAt DEF LotRow, LotStatus
  <2>3. lots' = [lots EXCEPT ![l] = row]
    BY <2>1
  <2> HIDE DEF row
  <2>4. m \in LotIds /\ lots'[l] = row /\ (m # l => lots'[m] = lots[m])
    BY <2>2, <2>3, LotMoved
  <2> QED BY <2>1, <2>2, <2>4 DEF SamplesFit, LotFits
<1>4. ASSUME NEW l \in LotIds, NEW drawn \in SUBSET lots[l].members, ApplySample(l, drawn)
      PROVE  LotFits(lots'[m])
  <2>1. /\ lots' = [lots EXCEPT ![l] = SampledRow(l, drawn)]
        /\ SampledRow(l, drawn).status = "qc_in_progress"
        /\ SampledRow(l, drawn).sampled = drawn
        /\ SampledRow(l, drawn).members = lots[l].members
    BY <1>4, SampledRowWrites
  <2>2. DOMAIN lots' = DOMAIN lots /\ LotIds' = LotIds /\ DOMAIN lots = LotIds
    BY <2>1, LenProperties DEF LotColumns, LotIds
  <2>3. m # l => lots'[m] = lots[m]
    BY <2>1, <2>2
  <2> QED BY <2>1, <2>2, <2>3 DEF SamplesFit, LotFits
<1>5. ASSUME NEW r \in Records, NEW k \in DOMAIN tasks[r], NEW u \in Agents,
             \/ CompleteQc(r, k, u)
             \/ \E defect \in {"minor", "critical"} : FailQc(r, k, u, defect)
      PROVE  LotFits(lots'[m])
  <2>1. m \in LotIds
    BY <1>5, ReviewedLots
  <2>2. /\ m \notin SampledIn(r) => lots'[m] = lots[m]
        /\ lots'[m].members = lots[m].members
        /\ lots'[m].sampled = lots[m].sampled
        /\ lots'[m].status \in {lots[m].status, "passed", "failed"}
    BY <1>5, <2>1, VerdictOnOneLot
  <2>3. CASE m \notin SampledIn(r)
    BY <2>1, <2>2, <2>3 DEF SamplesFit, LotFits
  <2>4. CASE m \in SampledIn(r)
    <3>1. lots[m].sampled # {} /\ lots[m].status \notin {"draft", "released"}
      BY <2>1, <2>4 DEF SampledIn, SamplesFit
    <3> QED BY <2>1, <2>2, <3>1 DEF SamplesFit, LotFits
  <2> QED BY <2>3, <2>4
<1> QED BY <1>1, <1>2, <1>3, <1>4, <1>5, LotStep

\* Every reachable state of the workflow with customer QC is well typed: no
\* lot gets a status, a sample or an acceptance number outside its column, the
\* batches that QC tasks and rejected records refer to exist, and no lot has a
\* sample or marks before it is sampled, so that no verdict falls on it
\* (create_qc_batches, fail_task, apply_sample, calculate_accuracy).
THEOREM LotTypeCorrect == LotQcSpec => []LotTypeOK
<1>1. LotInit => LotTypeOK
  <2> SUFFICES ASSUME LotInit PROVE LotTypeOK
    OBVIOUS
  <2>1. LotIds = {}
    BY DEF LotInit, LotIds
  <2> QED BY <2>1, LotColumnsInit, NumbersInit DEF LotInit, LotTypeOK, SamplesFit
<1>2. LotTypeOK /\ [LotNext]_<<vars, lotVars>> => LotTypeOK'
    BY LotColumnsNext, LotBatchesIssuedNext, LotVersionsNumberedNext, SamplesFitNext
       DEF LotTypeOK
<1> QED BY <1>1, <1>2, PTL DEF LotQcSpec

=============================================================================
