-------------------------- MODULE RecordMigration --------------------------
(***************************************************************************)
(* scripts/migrate_records_to_training.py: copies records of one project   *)
(* into a cabinet of another deployment.  Nothing links a copy with its    *)
(* original but source_identifier and original_filename, by which a later  *)
(* run tells what to skip.                                                 *)
(***************************************************************************)
EXTENDS Naturals, FiniteSets, Sequences

CONSTANTS
    Originals,    \* the source project's records with the asked status,
                  \* as a sequence in the asked order
    Identity,     \* what _identity returns for each
    Fileless,     \* those without a file_reference
    Limit,        \* --limit
    MaxUpsets     \* bound: failing calls and killed runs

ASSUME MigrationAssumption ==
    /\ Identity \in [1 .. Len(Originals) -> STRING]
    /\ Fileless \subseteq 1 .. Len(Originals)
    /\ Limit \in Nat /\ MaxUpsets \in Nat

VARIABLES
    copies,     \* rows in the target cabinet, by the original each is a copy of
    migration,  \* the run: how far it is, what it will copy, its failures,
                \* whether the target session is still in its first transaction
                \* and whether what it loaded there is expired
    upsets

migrateVars == <<copies, migration, upsets>>

Run(pc, ids) == [pc |-> pc, todo |-> ids, failed |-> {},
                 first |-> TRUE, expired |-> FALSE]

MigrateInit ==
    /\ copies = <<>>
    /\ migration = Run("off", {})
    /\ upsets = 0

\* _select_source_records
Candidates == {i \in 1 .. Len(Originals) : i <= Limit}

\* _already_migrated: a copy always has a file.
AlreadyMigrated == {Identity[copies[j]] : j \in DOMAIN copies}

\* A slip: what is there is not looked at.
BeginMigration_Blind ==
    /\ migration.pc # "copying"
    /\ migration' = Run("copying", Candidates)
    /\ UNCHANGED <<copies, upsets>>

BeginMigration ==
    /\ migration.pc # "copying"
    /\ migration' = Run("copying", {i \in Candidates : Identity[i] \notin AlreadyMigrated})
    /\ UNCHANGED <<copies, upsets>>

MayUpset == migration.pc = "copying" /\ migration.todo # {} /\ upsets < MaxUpsets

\* The loop goes through what it selected in its order.
Due(i) ==
    /\ migration.pc = "copying" /\ i \in migration.todo
    /\ \A j \in migration.todo : i <= j

NextWithFailed(i) == [migration EXCEPT !.todo = @ \ {i}, !.failed = @ \cup {i}]

\* A slip: the loop left on the first record without a file.
SkipFileless_Stops(i) ==
    /\ Due(i) /\ i \in Fileless
    /\ migration' = [migration EXCEPT !.todo = {}, !.failed = @ \cup {i}]
    /\ UNCHANGED <<copies, upsets>>

SkipFileless(i) ==
    /\ Due(i) /\ i \in Fileless
    /\ migration' = NextWithFailed(i)
    /\ UNCHANGED <<copies, upsets>>

\* The object under a fresh key, then the row, committed by itself.
CopyRecord(i) ==
    /\ Due(i) /\ i \notin Fileless /\ ~migration.expired
    /\ copies' = Append(copies, i)
    /\ migration' = [migration EXCEPT !.todo = @ \ {i}, !.first = FALSE]
    /\ UNCHANGED upsets

\* S3 or a database fails: the exception is kept and the loop goes on; the
\* commit may have taken place when its answer is lost.  The rollback expires
\* the cabinet and the project if the target session is in a transaction.
CopyFails(i) ==
    \E inTarget \in BOOLEAN :
        /\ MayUpset /\ Due(i) /\ i \notin Fileless /\ ~migration.expired
        /\ \/ UNCHANGED copies
           \/ inTarget /\ copies' = Append(copies, i)
        /\ migration' = [NextWithFailed(i) EXCEPT !.first = FALSE,
                                                  !.expired = inTarget \/ migration.first]
        /\ upsets' = upsets + 1

\* Then every later record fails on target_project.id.
FailsExpired(i) ==
    /\ Due(i) /\ i \notin Fileless /\ migration.expired
    /\ migration' = NextWithFailed(i)
    /\ UNCHANGED <<copies, upsets>>

\* The run is interrupted.
MigrationKilled ==
    /\ MayUpset
    /\ migration' = [migration EXCEPT !.pc = "killed", !.todo = {}]
    /\ upsets' = upsets + 1
    /\ UNCHANGED copies

\* The report names the cabinet, which raises when it is expired.
EndMigration ==
    /\ migration.pc = "copying" /\ migration.todo = {}
    /\ migration' = [migration EXCEPT !.pc = IF migration.expired THEN "died" ELSE "ended"]
    /\ UNCHANGED <<copies, upsets>>

MigrateNext ==
    \/ BeginMigration
    \/ \E i \in 1 .. Len(Originals) : \/ SkipFileless(i)
                                      \/ CopyRecord(i)
                                      \/ CopyFails(i)
                                      \/ FailsExpired(i)
    \/ MigrationKilled
    \/ EndMigration

MigrateSpec == MigrateInit /\ [][MigrateNext]_migrateVars

-----------------------------------------------------------------------------
MigrateTypeOK ==
    /\ copies \in Seq(1 .. Len(Originals))
    /\ migration \in [pc : {"off", "copying", "killed", "ended", "died"},
                      todo : SUBSET (1 .. Len(Originals)),
                      failed : SUBSET (1 .. Len(Originals)),
                      first : BOOLEAN, expired : BOOLEAN]
    /\ upsets \in 0 .. MaxUpsets

\* However often the script is interrupted and run again, no original has two
\* copies: also when a commit's answer was lost (one commit per record).
CopiedOnce ==
    \A i, j \in DOMAIN copies : copies[i] = copies[j] => i = j

\* A run that goes through to its end, or dies only in its report, has in the
\* target every candidate but those it counts as failed, whatever happened to
\* the runs before: "an interrupted --confirm run can just be re-run to pick up
\* where it left off" (the script's docstring).
RerunPicksUp ==
    migration.pc \in {"ended", "died"} =>
        \A i \in Candidates \ migration.failed : \E j \in DOMAIN copies : copies[j] = i

=============================================================================
