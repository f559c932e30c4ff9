--------------------------- MODULE StatusScripts ---------------------------
(***************************************************************************)
(* Scripts that operators run beside live traffic to rewrite what the      *)
(* workflow has recorded: requeue_qa_passed_records,                       *)
(* generate_qc_training_data, backfill_task_failed_status,                 *)
(* backfill_supervisor_requeue_status and rollback_lot.  Each reads its    *)
(* rows first and writes them later; its session's objects stay as they    *)
(* were loaded, and no write tests again what was read.  Workflow and      *)
(* LotQc have the requests in full; here they are what moves a record      *)
(* between a script's read and its write.                                  *)
(***************************************************************************)
EXTENDS Naturals, FiniteSets, Sequences

CONSTANTS
    Docs,         \* records of the project
    MaxDocTasks,  \* bound: tasks ever created for a record
    MaxScripts,   \* bound: script runs
    OldRows       \* whether rows are there that earlier releases got wrong

ASSUME ScriptsAssumption ==
    MaxDocTasks \in Nat /\ MaxScripts \in Nat /\ OldRows \in BOOLEAN

VARIABLES
    doc,      \* per record: its status, its tasks, oldest first, and whether
              \* it is in the one-off batch that the old requeue made
    doc_lot,  \* the lot: no row, draft, released, qc or rolled back
    script,   \* the running script: which, and the rows it has loaded
    started,  \* scripts begun so far
    sampled_late  \* history: a sample was drawn after rollback_lot had read

scriptVars == <<doc, doc_lot, script, started, sampled_late>>

DocStatus == {"pending", "indexing", "indexed", "qa_pending", "qa_passed",
              "qa_failed", "qc_pending", "qc_passed"}

\* A task.  logged: its audit trail has a change to failed.  passed: history,
\* its last end was a completion.
DocTask == [type : {"indexing", "qa"}, logged : BOOLEAN, passed : BOOLEAN,
            status : {"pending", "in_progress", "completed", "failed"}]

DocRow == [status : DocStatus, old : BOOLEAN, tasks : Seq(DocTask)]

NewDocTask(type) == [type |-> type, logged |-> FALSE, passed |-> FALSE, status |-> "pending"]

IsOpen(t) == t.status \in {"pending", "in_progress"}

NoScript == [name |-> "none", loaded |-> {}]

\* What earlier releases left: a QA rejection recorded as completed, or a
\* record that the old requeue put in a batch nobody can assign.
OldRejection == [status |-> "qa_failed", old |-> FALSE,
                 tasks |-> <<[NewDocTask("qa") EXCEPT !.status = "completed", !.logged = TRUE],
                             NewDocTask("indexing")>>]

OldRequeue == [status |-> "qa_failed", old |-> TRUE, tasks |-> <<NewDocTask("indexing")>>]

Fresh == [status |-> "qa_pending", old |-> FALSE, tasks |-> <<NewDocTask("qa")>>]

ScriptsInit ==
    /\ doc \in [Docs -> {Fresh} \cup {row \in {OldRejection, OldRequeue} : OldRows}]
    /\ doc_lot = "none"
    /\ script = NoScript
    /\ started = 0
    /\ sampled_late = FALSE

HasRoomForTask(r) == Len(doc[r].tasks) < MaxDocTasks

\* A record's row and its tasks, all that these transactions write.
Writes(r, status, tasks) ==
    doc' = [doc EXCEPT ![r].status = status, ![r].tasks = tasks]

OthersStand == UNCHANGED <<doc_lot, script, started, sampled_late>>

\* requeue_record and the requeue backfill close every open task.
WithOpenClosed(tasks) ==
    [k \in DOMAIN tasks |->
        IF IsOpen(tasks[k])
        THEN [tasks[k] EXCEPT !.status = "failed", !.logged = TRUE, !.passed = FALSE]
        ELSE tasks[k]]

\* A submission repeated is no new outcome.
Completed(tasks, k) ==
    [tasks EXCEPT ![k].status = "completed", ![k].passed = @ \/ IsOpen(tasks[k])]

-----------------------------------------------------------------------------
(* Live traffic.                                                           *)

LiveReassign(r, k) ==
    /\ k \in DOMAIN doc[r].tasks
    /\ Writes(r, doc[r].status,
              [doc[r].tasks EXCEPT ![k].status = "pending", ![k].passed = FALSE])
    /\ OthersStand

LiveStart(r, k) ==
    /\ k \in DOMAIN doc[r].tasks /\ IsOpen(doc[r].tasks[k])
    /\ Writes(r, IF doc[r].tasks[k].type = "indexing" THEN "indexing" ELSE doc[r].status,
              [doc[r].tasks EXCEPT ![k].status = "in_progress"])
    /\ OthersStand

LiveComplete(r, k) ==
    /\ k \in DOMAIN doc[r].tasks
    /\ Writes(r, IF doc[r].tasks[k].type = "indexing" THEN "indexed" ELSE "qa_passed",
              Completed(doc[r].tasks, k))
    /\ OthersStand

LiveReject(r, k) ==
    /\ HasRoomForTask(r)
    /\ k \in DOMAIN doc[r].tasks
    /\ doc[r].tasks[k].type = "qa" /\ doc[r].tasks[k].status = "in_progress"
    /\ Writes(r, "qa_failed",
              Append([doc[r].tasks EXCEPT ![k].status = "failed", ![k].logged = TRUE,
                                          ![k].passed = FALSE],
                     NewDocTask("indexing")))
    /\ OthersStand

\* complete_indexing_batch, as this record sees it.
LiveToQa(r) ==
    /\ HasRoomForTask(r)
    /\ doc[r].status = "indexed"
    /\ Writes(r, "qa_pending", Append(doc[r].tasks, NewDocTask("qa")))
    /\ OthersStand

\* requeue_record, to indexing or to QA.
RequeuedToQa(r) ==
    [status |-> "qa_pending", old |-> FALSE,
     tasks |-> Append(WithOpenClosed(doc[r].tasks), NewDocTask("qa"))]

RequeuedToIndexing(r) ==
    [status |-> "pending", old |-> FALSE, tasks |-> WithOpenClosed(doc[r].tasks)]

LiveRequeue(r) ==
    /\ \/ HasRoomForTask(r) /\ doc' = [doc EXCEPT ![r] = RequeuedToQa(r)]
       \/ doc' = [doc EXCEPT ![r] = RequeuedToIndexing(r)]
    /\ OthersStand

\* create_lot, release_lot, apply_sample with every record, and a QC pass.
LiveLot ==
    \/ /\ doc_lot = "none" /\ \A r \in Docs : doc[r].status = "qa_passed"
       /\ doc_lot' = "draft"
       /\ UNCHANGED <<doc, script, started, sampled_late>>
    \/ /\ doc_lot = "draft"
       /\ doc_lot' = "released"
       /\ UNCHANGED <<doc, script, started, sampled_late>>
    \/ /\ doc_lot = "released"
       /\ doc_lot' = "qc"
       /\ doc' = [r \in Docs |-> [doc[r] EXCEPT !.status = "qc_pending"]]
       /\ sampled_late' = (sampled_late \/ script.name = "rollback_lot")
       /\ UNCHANGED <<script, started>>
    \/ /\ doc_lot = "qc"
       /\ \E r \in Docs : /\ doc[r].status = "qc_pending"
                          /\ doc' = [doc EXCEPT ![r].status = "qc_passed"]
       /\ UNCHANGED <<doc_lot, script, started, sampled_late>>

-----------------------------------------------------------------------------
(* The scripts: --confirm runs, one at a time.                             *)

Begins(name, loaded) ==
    /\ script = NoScript /\ started < MaxScripts
    /\ script' = [name |-> name, loaded |-> loaded]
    /\ started' = started + 1
    /\ UNCHANGED <<doc, doc_lot, sampled_late>>

\* One row is dealt with, or all of them.
Through(items) ==
    script' = IF script.loaded \subseteq items THEN NoScript
              ELSE [script EXCEPT !.loaded = @ \ items]

BeginRequeue ==
    Begins("requeue_qa", {<<r, 0>> : r \in {x \in Docs : doc[x].status = "qa_passed"}})

\* A slip: an open QA task counted on instead of a new one.
RequeueOne_NoTask(r) ==
    /\ script.name = "requeue_qa" /\ <<r, 0>> \in script.loaded
    /\ doc' = [doc EXCEPT ![r].status = "qa_pending", ![r].old = FALSE]
    /\ Through({<<r, 0>>})
    /\ UNCHANGED <<doc_lot, started, sampled_late>>

\* requeue_record on the loaded object, whatever the row has become; its
\* status was loaded as qa_passed, so the new one is always written.
RequeueOne(r) ==
    /\ script.name = "requeue_qa" /\ <<r, 0>> \in script.loaded
    /\ HasRoomForTask(r)
    /\ doc' = [doc EXCEPT ![r] = RequeuedToQa(r)]
    /\ Through({<<r, 0>>})
    /\ UNCHANGED <<doc_lot, started, sampled_late>>

\* _find_qa_pending: the newest open QA task of each.
OpenQa(r) == {k \in DOMAIN doc[r].tasks : doc[r].tasks[k].type = "qa" /\ IsOpen(doc[r].tasks[k])}

AwaitsQa(r, k) ==
    doc[r].status = "qa_pending" /\ k \in OpenQa(r) /\ \A j \in OpenQa(r) : j <= k

BeginTraining ==
    Begins("train_qc", {item \in Docs \X (1 .. MaxDocTasks) : AwaitsQa(item[1], item[2])})

\* _advance_one: reassign_task, start_task and complete_task on the loaded
\* objects, which were open when loaded and qa_pending.
TrainOne(r, k) ==
    /\ script.name = "train_qc" /\ <<r, k>> \in script.loaded
    /\ Writes(r, "qa_passed", Completed(doc[r].tasks, k))
    /\ Through({<<r, k>>})
    /\ UNCHANGED <<doc_lot, started, sampled_late>>

\* A record fails in either loop: the rollback expires all that was loaded,
\* and the handler itself raises when it names the record.
LoopDies ==
    /\ script.name \in {"requeue_qa", "train_qc"} /\ script.loaded # {}
    /\ script' = NoScript
    /\ UNCHANGED <<doc, doc_lot, started, sampled_late>>

\* _find_stale_task_ids: the trail is read first and only grows.
IsStale(r, k) ==
    /\ k \in DOMAIN doc[r].tasks
    /\ doc[r].tasks[k].logged /\ doc[r].tasks[k].status = "completed"

BeginFailedBackfill ==
    Begins("fix_failed", {item \in Docs \X (1 .. MaxDocTasks) : IsStale(item[1], item[2])})

WithLoadedFailed(r) ==
    [k \in DOMAIN doc[r].tasks |->
        IF <<r, k>> \in script.loaded
        THEN [doc[r].tasks[k] EXCEPT !.status = "failed"]
        ELSE doc[r].tasks[k]]

\* One UPDATE of the ids.
FixFailed ==
    /\ script.name = "fix_failed"
    /\ doc' = [r \in Docs |-> [doc[r] EXCEPT !.tasks = WithLoadedFailed(r)]]
    /\ script' = NoScript
    /\ UNCHANGED <<doc_lot, started, sampled_late>>

\* _find_stale_records of the requeue backfill.
BeginRequeueBackfill ==
    Begins("fix_requeued",
           {<<r, 0>> : r \in {x \in Docs : doc[x].old /\ doc[x].status = "qa_failed"}})

\* _apply_fix, one transaction.
FixRequeued ==
    /\ script.name = "fix_requeued"
    /\ doc' = [r \in Docs |-> IF <<r, 0>> \in script.loaded THEN RequeuedToIndexing(r) ELSE doc[r]]
    /\ script' = NoScript
    /\ UNCHANGED <<doc_lot, started, sampled_late>>

\* _resolve_lot: draft and released lots only.
BeginRollback ==
    /\ doc_lot \in {"draft", "released"}
    /\ Begins("rollback_lot", {})

\* The DELETEs, by the lot's id alone.
RollBackLot ==
    /\ script.name = "rollback_lot"
    /\ doc_lot' = "gone"
    /\ script' = NoScript
    /\ UNCHANGED <<doc, started, sampled_late>>

ScriptsNext ==
    \/ LiveLot
    \/ BeginRequeue \/ BeginTraining \/ LoopDies
    \/ BeginFailedBackfill \/ FixFailed
    \/ BeginRequeueBackfill \/ FixRequeued
    \/ BeginRollback \/ RollBackLot
    \/ \E r \in Docs :
           \/ LiveToQa(r)
           \/ LiveRequeue(r)
           \/ RequeueOne(r)
           \/ \E k \in 1 .. MaxDocTasks : \/ LiveReassign(r, k)
                                          \/ LiveStart(r, k)
                                          \/ LiveComplete(r, k)
                                          \/ LiveReject(r, k)
                                          \/ TrainOne(r, k)

ScriptsSpec == ScriptsInit /\ [][ScriptsNext]_scriptVars

-----------------------------------------------------------------------------
ScriptsTypeOK ==
    /\ doc \in [Docs -> DocRow]
    /\ doc_lot \in {"none", "draft", "released", "qc", "gone"}
    /\ script \in [name : {"none", "requeue_qa", "train_qc", "fix_failed",
                           "fix_requeued", "rollback_lot"},
                   loaded : SUBSET (Docs \X (0 .. MaxDocTasks))]
    /\ started \in 0 .. MaxScripts
    /\ sampled_late \in BOOLEAN

\* However stale the rows a script works on, it strands nobody: a record that
\* waits for QA has an open QA task, and one that waits for customer QC has
\* its lot, unless the sample was drawn while rollback_lot was running
\* (requeue_record, _advance_one, _apply_fix, _resolve_lot).
ScriptsStrandNobody ==
    \A r \in Docs :
        /\ doc[r].status = "qa_pending" => OpenQa(r) # {}
        /\ doc[r].status = "qc_pending" => doc_lot = "qc" \/ sampled_late

\* backfill_task_failed_status.py:17-20, "once corrected (here, or by a fixed
\* fail_task() going forward) it's excluded from future runs": where fail_task
\* recorded every rejection as failed the backfill has nothing to correct, and
\* a task whose last end was a completion stays completed.
BackfillKeepsCompletions ==
    \A r \in Docs : \A k \in DOMAIN doc[r].tasks :
        doc[r].tasks[k].status = "failed" => ~doc[r].tasks[k].passed

=============================================================================
