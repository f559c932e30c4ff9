------------------------------- MODULE LotQc --------------------------------
(***************************************************************************)
(* Customer quality control on top of the digitizing workflow: records     *)
(* that passed QA are grouped into lots, a lot is released, sampled, the   *)
(* sampled records are reviewed by QC agents, and the lot is decided; a    *)
(* rejected record goes back to QA in a batch of its own.                  *)
(*                                                                         *)
(* The workflow of the digitizing staff goes on beside it and shares the   *)
(* records, their tasks and the batches.                                   *)
(***************************************************************************)
EXTENDS Workflow, AqlTables, FiniteSets

CONSTANTS
    MaxLots,   \* bound: lots ever created
    AqlLevel   \* the project's AQL level: no reachable handler moves
               \* aql_configs.current_status from normal

ASSUME LotAssumption == IsFiniteSet(Records) /\ MaxLots \in Nat /\ AqlLevel \in Nat

VARIABLES
    lots,          \* the rows of lots with their lot_records, by lot id
    sampling_mode  \* aql_configs.sampling_mode of the project

lotVars == <<lots, sampling_mode>>

LotStatus ==
    {"draft", "released", "qc_in_progress", "passed", "failed", "remediation"}

SamplingMode == {"iso", "manual"}

\* A lot with its lot_records: acceptance_number is NULL unless the lot was
\* sampled under "iso"; minor and critical count the lot's defective
\* qc_field_results rows.
LotRow == [status            : LotStatus,
           members           : SUBSET Records,
           sampled           : SUBSET Records,
           iso               : BOOLEAN,
           acceptance_number : Nat,
           minor             : Nat,
           critical          : Nat]

LotIds == 1 .. Len(lots)

-----------------------------------------------------------------------------
(* The supervisors' side (lot_service).                                    *)

\* lot_service.create_lot: every record has passed QA; that a record is in
\* another lot is not looked at.
CreateLot(chosen) ==
    /\ Len(lots) < MaxLots
    /\ \A r \in chosen : status[r] = "qa_passed"
    /\ lots' = Append(lots, [status |-> "draft", members |-> chosen, sampled |-> {},
                             iso |-> FALSE, acceptance_number |-> 0,
                             minor |-> 0, critical |-> 0])
    /\ UNCHANGED <<vars, sampling_mode>>

\* A slip: a lot that is not a draft released, or released again.
ReleaseLot_AnyStatus(l) ==
    /\ lots' = [lots EXCEPT ![l].status = "released"]
    /\ UNCHANGED <<vars, sampling_mode>>

\* lot_service.release_lot
ReleaseLot(l) ==
    /\ lots[l].status = "draft"
    /\ lots' = [lots EXCEPT ![l].status = "released"]
    /\ UNCHANGED <<vars, sampling_mode>>

Smaller(m, n) == IF m <= n THEN m ELSE n

\* How many of n records the sample has: the table's number under "iso", the
\* share the supervisor chose, rounded up, under "manual".
SampleSizes(n) ==
    IF n = 0 THEN {0}
    ELSE IF sampling_mode = "iso" THEN {Smaller(SampleSize(n), n)}
    ELSE 1 .. n

\* lot_service.apply_sample: the records' statuses, tested by create_lot, are
\* not tested again.
ApplySample(l, drawn) ==
    /\ lots[l].status = "released"
    /\ drawn \subseteq lots[l].members
    /\ Cardinality(drawn) \in SampleSizes(Cardinality(lots[l].members))
    /\ lots' = [lots EXCEPT ![l] =
           [@ EXCEPT !.status = "qc_in_progress",
                     !.sampled = drawn,
                     !.iso = (sampling_mode = "iso"),
                     !.acceptance_number =
                         IF sampling_mode = "iso"
                         THEN AcceptanceNumber(Cardinality(lots[l].members), AqlLevel)
                         ELSE 0]]
    /\ status' = [r \in Records |-> IF r \in drawn THEN "qc_pending" ELSE status[r]]
    /\ UNCHANGED <<batch_id, locked_by, current_version, versions, tasks, batches,
                   open_flag, sampling_mode>>

\* lot_service.create_qc_batches for one assignment; a request with several
\* does the same for each, on disjoint records.
NoOpenQcTask(r) ==
    \A k \in DOMAIN tasks[r] :
        tasks[r][k].task_type = "qc" => tasks[r][k].status \notin OpenTaskStatus

CreateQcBatch(l, chosen, a) ==
    /\ lots[l].status = "qc_in_progress"
    /\ chosen # {}
    /\ \A r \in chosen : /\ r \in lots[l].members
                         /\ status[r] = "qc_pending"
                         /\ NoOpenQcTask(r)
                         /\ HasRoom(r)
    /\ InsertBatch("indexing")
    /\ tasks' = [r \in Records |->
                     IF r \in chosen THEN Append(tasks[r], NewTask("qc", NewBatchId, a))
                     ELSE tasks[r]]
    /\ UNCHANGED <<status, batch_id, locked_by, current_version, versions, open_flag,
                   lotVars>>

\* A slip: the lot's status not tested.
SendForRemediation_AnyLot(l) ==
    /\ lots' = [lots EXCEPT ![l].status = "remediation"]
    /\ UNCHANGED <<vars, sampling_mode>>

\* lot_service.send_for_remediation
SendForRemediation(l) ==
    /\ lots[l].status = "failed"
    /\ lots' = [lots EXCEPT ![l].status = "remediation"]
    /\ UNCHANGED <<vars, sampling_mode>>

\* aql_service.update_config: the sampling mode may change at any time.
SetSamplingMode(m) ==
    /\ m # sampling_mode
    /\ sampling_mode' = m
    /\ UNCHANGED <<vars, lots>>

-----------------------------------------------------------------------------
(* The QC agent's verdicts (task_service) and the lot's (lot_service).     *)

\* task_service._find_sampled_lot_record: scalar_one_or_none raises, and the
\* request is rolled back, when the record is sampled in two lots.
SampledIn(r) == {l \in LotIds : r \in lots[l].sampled}

FoundAtMostOneLot(r) == \A l, m \in SampledIn(r) : l = m

\* task_service._persist_qc_field_results, which looks at the project's mode
\* as it is now.  In "manual" the field marks are ignored.
MarksAccepted(r) == sampling_mode = "iso" => SampledIn(r) # {}

Marked(lot, defect) ==
    IF sampling_mode = "manual" THEN lot
    ELSE IF defect = "critical" THEN [lot EXCEPT !.critical = @ + 1]
    ELSE [lot EXCEPT !.minor = @ + 1]

\* lot_service.calculate_accuracy: the verdict once every sampled record has
\* one, whatever the lot's status is.
Passes(lot, st) ==
    IF lot.iso
    THEN lot.critical = 0 /\ lot.minor <= lot.acceptance_number
    ELSE 10 * Cardinality({r \in lot.sampled : st[r] = "qc_passed"})
             >= 9 * Cardinality(lot.sampled)

\* A slip: the lot decided by its first reviewed record.
Decided_OnFirst(lot, st) ==
    IF \E r \in lot.sampled : st[r] \in {"qc_passed", "qc_failed"}
    THEN [lot EXCEPT !.status = IF Passes(lot, st) THEN "passed" ELSE "failed"]
    ELSE lot

Decided(lot, st) ==
    IF \A r \in lot.sampled : st[r] \in {"qc_passed", "qc_failed"}
    THEN [lot EXCEPT !.status = IF Passes(lot, st) THEN "passed" ELSE "failed"]
    ELSE lot

\* task_service.complete_task on a QC task: the task's status is not tested.
CompleteQc(r, k, u) ==
    /\ IsMyTask(r, k, u)
    /\ tasks[r][k].task_type = "qc"
    /\ MarksAccepted(r)
    /\ FoundAtMostOneLot(r)
    /\ ReleaseLock(r)
    /\ status' = [status EXCEPT ![r] = "qc_passed"]
    /\ SetTaskStatus(r, k, "completed")
    /\ lots' = [l \in LotIds |->
                    IF l \in SampledIn(r) THEN Decided(lots[l], status') ELSE lots[l]]
    /\ UNCHANGED <<batch_id, current_version, versions, batches, open_flag,
                   sampling_mode>>

\* Slips: the QA task put in the batch of the QC task; the record sent to
\* QA without a batch that is in QA.
FailQc_OriginalBatch(r, k, u, defect) ==
    /\ IsMyTask(r, k, u)
    /\ tasks[r][k].task_type = "qc"
    /\ tasks[r][k].status = "in_progress"
    /\ HasRoom(r)
    /\ status' = [status EXCEPT ![r] = "qc_failed"]
    /\ tasks' = [tasks EXCEPT ![r] =
           Append([@ EXCEPT ![k].status = "failed"],
                  NewTask("qa", tasks[r][k].batch, NoOne))]
    /\ UNCHANGED <<batch_id, locked_by, current_version, versions, batches,
                   open_flag, lotVars>>

FailQc_Pending(r, k, u, defect) ==
    /\ IsMyTask(r, k, u)
    /\ tasks[r][k].task_type = "qc"
    /\ tasks[r][k].status = "in_progress"
    /\ HasRoom(r)
    /\ status' = [status EXCEPT ![r] = "qa_pending"]
    /\ tasks' = [tasks EXCEPT ![r] =
           Append([@ EXCEPT ![k].status = "failed"], NewTask("qa", batch_id[r], NoOne))]
    /\ UNCHANGED <<batch_id, locked_by, current_version, versions, batches,
                   open_flag, lotVars>>

\* task_service.fail_task on a QC task: the record gets a batch of its own in
\* QA with an unassigned QA task, but keeps status qc_failed.
FailQc(r, k, u, defect) ==
    /\ IsMyTask(r, k, u)
    /\ tasks[r][k].task_type = "qc"
    /\ tasks[r][k].status = "in_progress"
    /\ MarksAccepted(r)
    /\ FoundAtMostOneLot(r)
    /\ HasRoom(r)
    /\ ReleaseLock(r)
    /\ status' = [status EXCEPT ![r] = "qc_failed"]
    /\ InsertBatch("qa_review")
    /\ batch_id' = [batch_id EXCEPT ![r] = NewBatchId]
    /\ tasks' = [tasks EXCEPT ![r] =
           Append([@ EXCEPT ![k].status = "failed"], NewTask("qa", NewBatchId, NoOne))]
    /\ lots' = [l \in LotIds |->
                    IF l \in SampledIn(r) THEN Decided(Marked(lots[l], defect), status')
                    ELSE lots[l]]
    /\ UNCHANGED <<current_version, versions, open_flag, sampling_mode>>

-----------------------------------------------------------------------------
LotInit == Init /\ lots = <<>> /\ sampling_mode = "iso"

\* What the workflow lets supervisors do with tasks, for QC tasks.
QcAssignment ==
    \/ \E r \in Records, b \in BatchIds, a \in Agents : AssignTask(r, b, "qc", a)
    \/ \E b \in BatchIds, a \in Agents : ReassignBatch(b, "qc", a)

QcStep ==
    \/ \E chosen \in SUBSET Records : CreateLot(chosen)
    \/ \E l \in LotIds : \/ ReleaseLot(l)
                         \/ SendForRemediation(l)
                         \/ \E drawn \in SUBSET lots[l].members : ApplySample(l, drawn)
                         \/ \E chosen \in SUBSET lots[l].members, a \in Agents :
                                CreateQcBatch(l, chosen, a)
    \/ \E m \in SamplingMode : SetSamplingMode(m)
    \/ \E r \in Records : \E k \in DOMAIN tasks[r], u \in Agents :
           \/ CompleteQc(r, k, u)
           \/ \E defect \in {"minor", "critical"} : FailQc(r, k, u, defect)

LotNext ==
    \/ (Next \/ QcAssignment) /\ UNCHANGED lotVars
    \/ QcStep

LotQcSpec == LotInit /\ [][LotNext]_<<vars, lotVars>>

-----------------------------------------------------------------------------
(* What customer QC promises.                                              *)

\* Every column holds a value of its type.
LotColumns ==
    /\ ColumnsTyped
    /\ lots \in Seq(LotRow)
    /\ sampling_mode \in SamplingMode

\* The sampled records are members of the lot, and only a lot that was sampled
\* has a sample and marks.
SamplesFit ==
    \A l \in LotIds :
        /\ lots[l].sampled \subseteq lots[l].members
        /\ lots[l].status \in {"draft", "released"} =>
               lots[l].sampled = {} /\ lots[l].minor = 0 /\ lots[l].critical = 0

\* Columns hold values of their type, ids that are referred to exist also where
\* QC opens batches, and no lot has a sample or marks before it is sampled, so
\* that no verdict falls on it (calculate_accuracy).
LotTypeOK == LotColumns /\ BatchesIssued /\ VersionsNumbered /\ SamplesFit

\* A record waiting for QC waits in a lot that is in QC, the only one
\* create_qc_batches accepts: whatever happens to its other lots and its
\* tasks, no lot is closed over it.
QcPendingHasOpenLot ==
    \A r \in Records : status[r] = "qc_pending" =>
        \E l \in SampledIn(r) : lots[l].status = "qc_in_progress"

\* tests/test_qc_rejection_rework.py: "QC-rejected records must become
\* assignable to a QA agent for remediation", and stay so until someone takes
\* them up.
QcRejectionIsAssignable ==
    \A r \in Records : status[r] = "qc_failed" =>
        InBatch(r, "qa_review") /\ HasTaskInItsBatch(r, "qa", OpenTaskStatus)

\* No lot is decided, now or again, before each of its sampled records was
\* given to a QC agent.
NoVerdictWithoutReview ==
    \A l \in LotIds : lots[l].status \in {"passed", "failed", "remediation"} =>
        \A r \in lots[l].sampled : \E k \in DOMAIN tasks[r] : tasks[r][k].task_type = "qc"

\* Customer QC strands no record of the digitizing workflow although it sets
\* the same status column without testing it.
QcStrandsNoRecord ==
    AllocatedIsWorkable /\ IndexingIsWorkable /\ QaPendingIsAssignable /\ QaRejectionHasRework

Lots == INSTANCE LotLifecycle WITH
            lot <- [l \in LotIds |-> [phase   |-> lots[l].status,
                                      members |-> lots[l].members,
                                      sample  |-> lots[l].sampled]]

\* Lots keep their phases in order, although calculate_accuracy sets the
\* verdict of a lot in any status.
LotLifecycleSpec == Lots!Spec

-----------------------------------------------------------------------------
(* What the code asserts, and a long enough sequence of requests breaks.   *)

\* task_service.py:224-228, _find_sampled_lot_record: scalar_one_or_none
\* asserts that a record is sampled in at most one lot.
SampledOnce == \A r \in Records : FoundAtMostOneLot(r)

=============================================================================
