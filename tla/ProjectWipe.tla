---------------------------- MODULE ProjectWipe ----------------------------
(***************************************************************************)
(* scripts/wipe_project_data.py as its database sees it, beside the        *)
(* application: it reads the ids of what is there, asks, and then deletes  *)
(* by those ids, statement by statement in one READ COMMITTED transaction, *)
(* from tables that refer to each other.  Of the rows only their kinds     *)
(* count.  One run; Ingestion has its objects.                             *)
(***************************************************************************)
EXTENDS Naturals, FiniteSets, Sequences

CONSTANT MaxRowKinds   \* bound: the kinds of row there are at a time

ASSUME WipeAssumption == MaxRowKinds \in Nat

VARIABLES
    stored,   \* the kinds of row that the tables hold, as committed
    purge,    \* the script: how far it is, and the kinds as its transaction
              \* has them
    late      \* history: kinds of row committed since the first DELETE

purgeVars == <<stored, purge, late>>

\* The foreign keys of the models, referring table first.
References ==
    {<<"records", "batches">>, <<"record_versions", "records">>,
     <<"tasks", "records">>, <<"tasks", "batches">>,
     <<"lot_records", "lots">>, <<"lot_records", "records">>,
     <<"batch_qc_results", "batches">>,
     <<"qc_field_results", "tasks">>, <<"qc_field_results", "records">>,
     <<"qc_field_results", "lots">>,
     <<"record_flags", "records">>, <<"record_flags", "batches">>}

\* Those that may be NULL, and those that take the referring rows along.
Nullable == {<<"records", "batches">>, <<"record_flags", "batches">>}

Cascades == {<<"record_flags", "records">>}

\* What is gathered by id, in the order of _gather_scope; the ids of tasks
\* serve for their audit events only.
GatherOrder == <<"batches", "lots", "records">>

Owned == {"batches", "lots", "records"}

Tables == {ref[1] : ref \in References} \cup Owned \cup {"audit_logs"}

\* A slip: the audit rows of the project forgotten.
DeleteOrder_NoAudit ==
    <<"lot_records", "lots", "batch_qc_results", "tasks", "record_versions",
      "records", "batches">>

\* A slip: the records before the rows that refer to them.
DeleteOrder_RecordsFirst ==
    <<"audit_logs", "lot_records", "lots", "batch_qc_results", "records",
      "tasks", "record_versions", "batches">>

\* The DELETEs of _delete_db_rows.
DeleteOrder ==
    <<"audit_logs", "lot_records", "lots", "batch_qc_results", "tasks",
      "record_versions", "records", "batches">>

\* Rows are of one kind when they are in one table, their ids are both in the
\* gathered scope or both not, and the rows of that scope that they refer to are
\* in the same tables.  An audit row refers to the record, task or batch whose id
\* was gathered and which its entity is; the events of a lot, whose id they bear as
\* a record's (lot_service.create_lot), and those of a task made after the ids were
\* read refer to none.
Kinds ==
    {k \in [table : Tables, own : BOOLEAN, of : SUBSET (Owned \cup {"tasks"})] :
        /\ k.own => k.table \in Owned
        /\ IF k.table = "audit_logs"
           THEN k.of \in {{}, {"records"}, {"tasks"}, {"batches"}}
           ELSE \A t \in k.of : <<k.table, t>> \in References
        \* A record enters only a batch created with its entry.
        /\ k.table = "records" /\ "batches" \in k.of => k.own
        \* A flag has its record's batch, a verdict its task's record.
        /\ k.table = "record_flags" /\ "batches" \in k.of => "records" \in k.of
        /\ k.table = "qc_field_results" /\ "records" \in k.of => "tasks" \in k.of}

\* What the script is to delete, with the rows that refer to it.
InScope(k) == IF k.table \in Owned THEN k.own ELSE k.of # {}

PurgeInit ==
    /\ stored = {}
    /\ purge = [pc |-> "off", at |-> 1, left |-> {}]
    /\ late = {}

Holds(rows, t) == \E p \in rows : p.table = t /\ InScope(p)

\* A row inserted before its table is read is in the scope, one after that is
\* not, nor is a record of a cabinet made after the cabinets were read.
Gathered(t) ==
    \/ purge.pc \notin {"off", "gathering"}
    \/ purge.pc = "gathering" /\ \E i \in 1 .. purge.at - 1 : GatherOrder[i] = t

Timely(k) ==
    IF k.own THEN ~Gathered(k.table)
    ELSE k.table \in Owned =>
             Gathered(k.table) \/ (k.table = "records" /\ purge.pc # "off")

\* The rows a new row refers to are there; the check of a foreign key waits for
\* a transaction that has deleted the row, that of an audit row is none.
ParentsThere(k) ==
    IF k.table = "audit_logs"
    THEN purge.pc # "done" => \A t \in k.of : Holds(stored, t)
    ELSE \A ref \in References : ref[1] = k.table =>
             IF ref[2] \in k.of
             THEN Holds(IF purge.pc = "deleting" THEN purge.left ELSE stored, ref[2])
             ELSE ref \in Nullable \/ purge.pc # "off"

\* The application commits a row, at any time.
RowAdded(k) ==
    /\ k \notin IF purge.pc = "deleting" THEN purge.left ELSE stored
    /\ Timely(k) /\ ParentsThere(k)
    /\ Cardinality(stored \cup {k}) <= MaxRowKinds
    /\ stored' = stored \cup {k}
    /\ purge' = IF purge.pc = "deleting" THEN [purge EXCEPT !.left = @ \cup {k}] ELSE purge
    /\ late' = IF purge.pc \in {"deleting", "done"} THEN late \cup {k} ELSE late

\* _gather_scope has read the cabinets, and then reads one table's ids.
PurgeBegins ==
    /\ purge.pc = "off"
    /\ purge' = [purge EXCEPT !.pc = "gathering"]
    /\ UNCHANGED <<stored, late>>

GatherTable ==
    /\ purge.pc = "gathering"
    /\ purge' = IF purge.at < Len(GatherOrder)
                THEN [purge EXCEPT !.at = @ + 1]
                ELSE [purge EXCEPT !.pc = "asked", !.at = 1]
    /\ UNCHANGED <<stored, late>>

\* The operator types the project's name, or never does.
PurgeConfirmed ==
    /\ purge.pc = "asked"
    /\ purge' = [purge EXCEPT !.pc = "deleting", !.left = stored]
    /\ UNCHANGED <<stored, late>>

Doomed(t, left) == {k \in left : k.table = t /\ InScope(k)}

TakenAlong(t, left) == {k \in left : <<k.table, t>> \in Cascades /\ t \in k.of}

Blockers(t, left) == {k \in left : <<k.table, t>> \in References \ Cascades /\ t \in k.of}

\* One DELETE: a row that still refers to what it deletes raises, and the
\* transaction rolls back.
PurgeTable ==
    LET t     == DeleteOrder[purge.at]
        gone  == Doomed(t, purge.left) \cup TakenAlong(t, purge.left)
    IN  /\ purge.pc = "deleting" /\ purge.at <= Len(DeleteOrder)
        /\ IF Doomed(t, purge.left) # {} /\ Blockers(t, purge.left) # {}
           THEN purge' = [purge EXCEPT !.pc = "refused"] /\ UNCHANGED late
           ELSE /\ purge' = [purge EXCEPT !.at = @ + 1, !.left = @ \ gone]
                /\ late' = late \ gone
        /\ UNCHANGED stored

PurgeCommits ==
    /\ purge.pc = "deleting" /\ purge.at > Len(DeleteOrder)
    /\ purge' = [purge EXCEPT !.pc = "done"]
    /\ stored' = purge.left
    /\ UNCHANGED late

PurgeNext ==
    \/ \E k \in Kinds : RowAdded(k)
    \/ PurgeBegins
    \/ GatherTable
    \/ PurgeConfirmed
    \/ PurgeTable
    \/ PurgeCommits

PurgeSpec == PurgeInit /\ [][PurgeNext]_purgeVars

-----------------------------------------------------------------------------
PurgeTypeOK ==
    /\ stored \subseteq Kinds /\ late \subseteq Kinds
    /\ purge \in [pc : {"off", "gathering", "asked", "deleting", "refused", "done"},
                  at : 1 .. Len(DeleteOrder) + 1, left : SUBSET Kinds]
    /\ purge.pc = "deleting" => late \subseteq purge.left
    /\ purge.pc = "done" => late \subseteq stored

\* A wipe that reports success has left no row that it gathered and none that
\* refers to one, in any table, but for audit events written since the first
\* DELETE, which no foreign key holds back (_delete_db_rows).  Batches, lots and
\* records made after their table was read, and the events of lots, stay.
WipeLeavesNothing ==
    purge.pc = "done" =>
        \A k \in stored : InScope(k) => k.table = "audit_logs" /\ k \in late

\* A wipe is refused for the field verdicts of customer QC and for rows that the
\* application committed between two DELETEs, and for nothing that was there
\* before: the tables that the script names come after those that refer to them,
\* and the flags, which it does not name, go with their records (_delete_db_rows).
RefusedForVerdicts ==
    purge.pc = "refused" =>
        \A k \in Blockers(DeleteOrder[purge.at], purge.left) :
            k.table = "qc_field_results" \/ k \in late

\* A row of the project as the script found it: its whole surroundings are in
\* the scope.
Settled(k) ==
    /\ k \notin late
    /\ k.own \/ \A ref \in References \ Nullable : ref[1] = k.table => ref[2] \in k.of

\* What _delete_db_rows says of its order: no foreign key is ever violated, even
\* where nothing was written beside the script.
WipeIsNeverRefused ==
    (\A k \in purge.left : Settled(k)) => purge.pc # "refused"

=============================================================================
