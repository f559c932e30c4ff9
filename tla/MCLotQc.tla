------------------------------ MODULE MCLotQc -------------------------------
(***************************************************************************)
(* LotQc on small instances.  To reach QC within the bounds, a behaviour   *)
(* starts where the workflow has one batch behind it: indexed and passed   *)
(* by QA, without resubmitted data.                                        *)
(***************************************************************************)
EXTENDS LotQc, TLC

Done(type, u) ==
    [task_type |-> type, batch |-> 1, assigned_to |-> u, status |-> "completed"]

MCInit ==
    \E u \in Indexers \cap QaAgents :
        /\ status = [r \in Records |-> "qa_passed"]
        /\ batch_id = [r \in Records |-> 1]
        /\ locked_by = [r \in Records |-> NoOne]
        /\ current_version = [r \in Records |-> 1]
        /\ versions = [r \in Records |-> <<>>]
        /\ tasks = [r \in Records |-> <<Done("indexing", u), Done("qa", u)>>]
        /\ batches = <<"complete">>
        /\ open_flag = [r \in Records |-> FALSE]
        /\ lots = <<>>
        /\ sampling_mode = "iso"

MCSpec == MCInit /\ [][LotNext]_<<vars, lotVars>>

\* Left to the runs of Workflow: flags, which only matter to batches in
\* indexing, and handing the tasks of the past batch to someone else.  They
\* may still be completed again.
QcOnly ==
    \A r \in Records : /\ ~open_flag[r]
                       /\ \A k \in {1, 2} : tasks[r][k].status = "completed"

\* And lots without a record to lot_of_two: nothing waits in them.
ReworkOnly == QcOnly /\ \A l \in LotIds : lots[l].members # {}

Symmetry == Permutations(Records) \cup Permutations(Agents)

=============================================================================
