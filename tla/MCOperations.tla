---------------------------- MODULE MCOperations ----------------------------
(***************************************************************************)
(* What surrounds the workflow, on small instances: customers, accounts,   *)
(* staffing, the AQL rules and the operators' scripts.  These parts share  *)
(* no state here, so a behaviour moves one of them, chosen at the start,   *)
(* while the others stand still: what they would do changes nothing for    *)
(* it.                                                                     *)
(***************************************************************************)
EXTENDS Provisioning, Accounts, Staffing, AqlEscalation, RecordMigration,
        ProjectWipe, StatusScripts

VARIABLE focus

Parts == {"provisioning", "accounts", "staffing", "aql", "migration", "purge", "scripts"}

allVars == <<focus, provVars, accountVars, staffVars, aqlVars, migrateVars, purgeVars,
             scriptVars>>

Init ==
    /\ focus \in Parts
    /\ ProvInit /\ AccountsInit /\ StaffInit /\ AqlInit
    /\ MigrateInit /\ PurgeInit /\ ScriptsInit
    \* A part that stands still has one start.
    /\ focus # "scripts" => \A r \in Docs : doc[r] = Fresh

Next ==
    \/ /\ focus = "provisioning" /\ ProvNext
       /\ UNCHANGED <<focus, accountVars, staffVars, aqlVars, migrateVars,
                      purgeVars, scriptVars>>
    \/ /\ focus = "accounts" /\ AccountsNext
       /\ UNCHANGED <<focus, provVars, staffVars, aqlVars, migrateVars,
                      purgeVars, scriptVars>>
    \/ /\ focus = "staffing" /\ StaffNext
       /\ UNCHANGED <<focus, provVars, accountVars, aqlVars, migrateVars,
                      purgeVars, scriptVars>>
    \/ /\ focus = "aql" /\ AqlNext
       /\ UNCHANGED <<focus, provVars, accountVars, staffVars, migrateVars,
                      purgeVars, scriptVars>>
    \/ /\ focus = "migration" /\ MigrateNext
       /\ UNCHANGED <<focus, provVars, accountVars, staffVars, aqlVars,
                      purgeVars, scriptVars>>
    \/ /\ focus = "purge" /\ PurgeNext
       /\ UNCHANGED <<focus, provVars, accountVars, staffVars, aqlVars,
                      migrateVars, scriptVars>>
    \/ /\ focus = "scripts" /\ ScriptsNext
       /\ UNCHANGED <<focus, provVars, accountVars, staffVars, aqlVars,
                      migrateVars, purgeVars>>

Spec == Init /\ [][Next]_allVars

\* Two names of one realm, and one of another would add nothing.
MCSlug == [n \in {"Acme Inc", "acme-inc"} |-> "acme-inc"]

\* An original without a file between two that have one, and a fourth beyond
\* the limit.
MCOriginals == <<"x1", "x2", "x3", "x4">>

MCIdentity == <<"s1", "s2", "s3", "s4">>

\* LooserAcceptsMore of AqlEscalation, where the levels move
\* (compute_sample_size).
LooserLevelAcceptsMore == focus = "aql" => LooserAcceptsMore

\* The parts' type invariants: ids, references and counters stay in range.
OperationsTypeOK ==
    /\ focus \in Parts
    /\ ProvTypeOK /\ AccountsTypeOK /\ StaffTypeOK
    /\ AqlTypeOK /\ MigrateTypeOK /\ PurgeTypeOK /\ ScriptsTypeOK

=============================================================================
