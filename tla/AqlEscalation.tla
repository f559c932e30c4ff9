--------------------------- MODULE AqlEscalation ---------------------------
(***************************************************************************)
(* The switching rules between normal, tightened and reduced inspection:   *)
(* aql_service.evaluate_batch and update_config on one project's           *)
(* AQLConfig row.  Nothing in the repository calls evaluate_batch yet; the *)
(* module says what its first caller gets.                                 *)
(***************************************************************************)
EXTENDS AqlTables, Integers

CONSTANTS
    BatchSizes,   \* sizes of the evaluated batches
    Defects,      \* defect counts found in them
    PassesValues, \* what passes_to_reduce is set to: any integer is accepted
    LevelValues,  \* what the three AQL columns are set to
    MaxRun        \* bound: batches passed, or rejected, in a row

ASSUME AqlAssumption ==
    /\ BatchSizes \subseteq Nat
    /\ Defects \subseteq Nat
    /\ PassesValues \subseteq Int
    /\ LevelValues \subseteq Nat
    /\ MaxRun \in Nat

VARIABLES
    current_status,
    consecutive_passes,
    consecutive_failures,
    passes_to_reduce,
    aql,      \* the columns normal_aql, tightened_aql and reduced_aql
    result,   \* the last batch_qc_results row: its outcome, also the batch's
              \* status, and the AQL it was judged by
    run,      \* history: batches passed since the last rejection
    quota,    \* history: the least passes_to_reduce so far
    rejected  \* history: whether any batch was rejected

aqlVars == <<current_status, consecutive_passes, consecutive_failures,
             passes_to_reduce, aql, result, run, quota, rejected>>

AQLStatus == {"normal", "tightened", "reduced"}

\* The column defaults of models/aql.py.
AqlInit ==
    /\ current_status = "normal"
    /\ consecutive_passes = 0
    /\ consecutive_failures = 0
    /\ passes_to_reduce = 5
    /\ aql = [normal |-> 150, tightened |-> 100, reduced |-> 250]
    /\ result = [outcome |-> "none", aql |-> 0]
    /\ run = 0
    /\ quota = 5
    /\ rejected = FALSE

\* update_config on the column that the rules read.
SetPassesToReduce(n) ==
    /\ passes_to_reduce' = n
    /\ quota' = IF n < quota THEN n ELSE quota
    /\ UNCHANGED <<current_status, consecutive_passes, consecutive_failures,
                   aql, result, run, rejected>>

\* update_config on one of the AQL columns: no order between them is tested.
SetAqlLevel(s, level) ==
    /\ aql' = [aql EXCEPT ![s] = level]
    /\ UNCHANGED <<current_status, consecutive_passes, consecutive_failures,
                   passes_to_reduce, result, run, quota, rejected>>

\* get_current_aql_level
CurrentAql == aql[current_status]

\* evaluate_batch's rejection: tightened at once; failures_to_tighten is not
\* consulted.
Reject ==
    /\ consecutive_failures < MaxRun
    /\ consecutive_passes' = 0
    /\ consecutive_failures' = consecutive_failures + 1
    /\ current_status' = "tightened"
    /\ run' = 0
    /\ rejected' = TRUE

\* A slip: the passes that earned normal inspection counted for reduced too.
Switch_KeepCount(passes) ==
    /\ current_status' = IF passes < passes_to_reduce THEN current_status
                         ELSE IF current_status = "tightened" THEN "normal" ELSE "reduced"
    /\ consecutive_passes' = passes

\* One step towards reduced inspection once there are enough passes, which
\* are then counted anew; reduced stays and counts on.
Switch(passes) ==
    LET moves == current_status # "reduced" /\ passes >= passes_to_reduce
    IN  /\ current_status' = IF ~moves THEN current_status
                             ELSE IF current_status = "tightened" THEN "normal" ELSE "reduced"
        /\ consecutive_passes' = IF moves THEN 0 ELSE passes

Pass ==
    /\ run < MaxRun
    /\ consecutive_failures' = 0
    /\ Switch(consecutive_passes + 1)
    /\ run' = run + 1
    /\ UNCHANGED rejected

EvaluateBatch(n, defects) ==
    LET passes == defects <= AcceptanceNumber(n, CurrentAql)
    IN  /\ result' = [outcome |-> IF passes THEN "passed" ELSE "rejected", aql |-> CurrentAql]
        /\ passes => Pass
        /\ ~passes => Reject
        /\ UNCHANGED <<passes_to_reduce, aql, quota>>

AqlNext ==
    \/ \E n \in PassesValues : SetPassesToReduce(n)
    \/ \E s \in AQLStatus, level \in LevelValues : SetAqlLevel(s, level)
    \/ \E n \in BatchSizes, defects \in Defects : EvaluateBatch(n, defects)

AqlSpec == AqlInit /\ [][AqlNext]_aqlVars

-----------------------------------------------------------------------------
AqlTypeOK ==
    /\ current_status \in AQLStatus
    /\ consecutive_passes \in Nat
    /\ consecutive_failures \in Nat
    /\ passes_to_reduce \in Int
    /\ aql \in [AQLStatus -> Nat]
    /\ result \in [outcome : {"none", "passed", "rejected"}, aql : Nat]
    /\ run \in Nat
    /\ quota \in Int
    /\ rejected \in BOOLEAN

\* Looser inspection is earned: reduced needs passes_to_reduce batches passed
\* in a row since the last rejection, twice that after a rejection, and normal
\* after a rejection needs them once; passes_to_reduce is read when the step
\* is taken, so its least value so far counts (evaluate_batch's counters).
LooserIsEarned ==
    /\ current_status = "reduced" => run >= IF rejected THEN 2 * quota ELSE quota
    /\ current_status = "normal" /\ rejected => run >= quota

\* With the columns in order, a looser level never accepts fewer defects in a
\* batch of the same size, whichever table row and columns they fall on
\* (compute_sample_size).
LooserAcceptsMore ==
    \A n \in BatchSizes, s, t \in AQLStatus :
        aql[s] <= aql[t] => AcceptanceNumber(n, aql[s]) <= AcceptanceNumber(n, aql[t])

=============================================================================
