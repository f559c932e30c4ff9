---------------------------- MODULE DocmateTypes ----------------------------
(***************************************************************************)
(* The vocabulary every module shares: the status columns of the database  *)
(* (backend/app/models/{record,task,batch,record_version}.py) and the sets *)
(* of statuses the services test against.                                  *)
(***************************************************************************)
EXTENDS Naturals, Sequences

\* What task_service.skip_task lets an indexer choose.
SKIPPABLE_STATUSES ==
    {"withdrawn", "ineligible", "excluded", "lapsed", "illegible"}

\* What batch progress treats as settled without QA; "disqualified" is a
\* legacy value no handler writes any more.
SKIPPED_RECORD_STATUSES == SKIPPABLE_STATUSES \cup {"disqualified"}

RecordStatus ==
    {"pending", "indexing", "indexed", "qa_pending", "qa_passed", "qa_failed",
     "qc_pending", "qc_passed", "qc_failed"} \cup SKIPPED_RECORD_STATUSES

TaskType == {"indexing", "qa", "qc"}

TaskStatus == {"pending", "in_progress", "completed", "failed"}

\* The batch statuses a reachable handler writes: batches are inserted in
\* "indexing" or "qa_review" and mark_complete closes them.
BatchStatus == {"indexing", "qa_review", "complete"}

VersionReason ==
    {"initial_indexing", "correction", "rework_after_qa",
     "rework_after_customer_rejection", "supervisor_requeue"}

\* A task some agent can still be asked to work.
OpenTaskStatus == {"pending", "in_progress"}

=============================================================================
