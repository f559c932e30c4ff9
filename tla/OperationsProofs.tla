-------------------------- MODULE OperationsProofs --------------------------
(***************************************************************************)
(* Proofs about Staffing, for any number of users, projects and shifts;    *)
(* about AqlEscalation and the tables it judges by, for every lot size,    *)
(* AQL level, defect count and sequence of settings; and about the parts   *)
(* together, as the operations run moves them.                             *)
(***************************************************************************)
EXTENDS MCOperations, KeycloakProofs, ScriptProofs

-----------------------------------------------------------------------------
(* Staffing.                                                               *)

USE DEF ShiftRole

\* A task rewritten in place stays a task among tasks.
LEMMA JobRewritten ==
    ASSUME NEW s \in Seq(Job), NEW k \in DOMAIN s, NEW j \in Job
    PROVE  /\ [s EXCEPT ![k] = j] \in Seq(Job)
           /\ Len([s EXCEPT ![k] = j]) = Len(s)
           /\ DOMAIN [s EXCEPT ![k] = j] = DOMAIN s
<1>1. k \in 1 .. Len(s)
    BY LenProperties
<1> QED BY <1>1, ExceptSeq

\* The rows a new task leaves in place, and where it goes.
LEMMA JobAdded ==
    ASSUME NEW s \in Seq(Job), NEW j \in Job
    PROVE  /\ Append(s, j) \in Seq(Job)
           /\ Len(Append(s, j)) = Len(s) + 1
           /\ DOMAIN Append(s, j) = DOMAIN s \cup {Len(s) + 1}
           /\ \A k \in DOMAIN s : Append(s, j)[k] = s[k]
           /\ Append(s, j)[Len(s) + 1] = j
<1>1. DOMAIN s = 1 .. Len(s) /\ Len(s) \in Nat
    BY LenProperties
<1>2. /\ Append(s, j) \in Seq(Job)
      /\ Len(Append(s, j)) = Len(s) + 1
      /\ \A i \in 1 .. Len(s) : Append(s, j)[i] = s[i]
      /\ Append(s, j)[Len(s) + 1] = j
    BY <1>1, AppendProperties
<1>3. DOMAIN Append(s, j) = 1 .. Len(s) + 1
    BY <1>2, LenProperties
<1> QED BY <1>1, <1>2, <1>3

\* Who passes the role test holds the role on some shift.
LEMMA TestedHolds ==
    ASSUME NEW u, NEW p, NEW type, HasShiftRoleFor(u, p, type)
    PROVE  Holding(u, p, RequiredRole(type)) # {}
<1>1. SUFFICES ASSUME Holding(u, p, RequiredRole(type)) = {} PROVE FALSE
    OBVIOUS
<1>2. Cardinality({}) = 0
    BY FS_EmptySet
<1> QED BY <1>1, <1>2 DEF HasShiftRoleFor

-----------------------------------------------------------------------------
(* Staffing: type correctness.                                             *)

LEMMA StaffTypeInit == StaffInit => StaffTypeOK
<1> SUFFICES ASSUME StaffInit PROVE StaffTypeOK
    OBVIOUS
<1>1. <<>> \in Seq(Job) /\ Len(<<>>) = 0
    BY EmptySeq
<1> QED BY <1>1, StaffingAssumption DEF StaffInit, StaffTypeOK

\* A request that rewrites one task.
LEMMA RewriteType ==
    ASSUME StaffTypeOK, NEW k \in DOMAIN jobs, NEW j \in Job,
           jobs' = [jobs EXCEPT ![k] = j],
           UNCHANGED <<shifts, project_shifts, shift_role>>
    PROVE  StaffTypeOK'
<1>1. jobs' \in Seq(Job) /\ Len(jobs') = Len(jobs)
    BY JobRewritten DEF StaffTypeOK
<1> QED BY <1>1 DEF StaffTypeOK

LEMMA StaffTypeNext == StaffTypeOK /\ [StaffNext]_staffVars => StaffTypeOK'
<1> SUFFICES ASSUME StaffTypeOK, [StaffNext]_staffVars PROVE StaffTypeOK'
    OBVIOUS
<1>1. CASE UNCHANGED staffVars
    BY <1>1 DEF StaffTypeOK, staffVars
<1>2. ASSUME NEW s \in Shifts, CreateShift(s) \/ DeleteShift(s)
      PROVE  StaffTypeOK'
    BY <1>2 DEF StaffTypeOK, CreateShift, DeleteShift
<1>3. ASSUME NEW s \in Shifts, NEW p \in Projects,
             AssignShiftToProject(p, s) \/ DeassignShiftFromProject(p, s)
      PROVE  StaffTypeOK'
    BY <1>3 DEF StaffTypeOK, AssignShiftToProject, DeassignShiftFromProject
<1>4. ASSUME NEW s \in Shifts, NEW p \in Projects, NEW u \in Users,
             \/ AssignStaffToProject(u, p, s)
             \/ \E role \in ShiftRole \cup {"none"} : MoveUserBucket(u, p, s, role)
      PROVE  StaffTypeOK'
    BY <1>4 DEF StaffTypeOK, AssignStaffToProject, MoveUserBucket, Rosters
<1>5. ASSUME NEW u \in Users, NEW p \in Projects, NEW type \in {"indexing", "qa"},
             HandOut(u, p, type)
      PROVE  StaffTypeOK'
  <2> DEFINE j == [project |-> p, type |-> type, holder |-> u, status |-> "pending",
                   in_indexing |-> (type = "indexing"), reopened |-> FALSE]
  <2>1. j \in Job
      BY DEF Job
  <2>2. jobs' = Append(jobs, j) /\ Len(jobs) < MaxJobs
      BY <1>5 DEF HandOut
  <2>3. jobs' \in Seq(Job) /\ Len(jobs') = Len(jobs) + 1
      BY <2>1, <2>2, JobAdded DEF StaffTypeOK
  <2>4. Len(jobs) \in Nat
      BY LenProperties DEF StaffTypeOK
  <2>5. Len(jobs') <= MaxJobs
      BY <2>2, <2>3, <2>4, StaffingAssumption
  <2> QED BY <1>5, <2>3, <2>5 DEF StaffTypeOK, HandOut
<1>6. ASSUME NEW k \in 1 .. MaxJobs,
             \/ StartJob(k) \/ CompleteJob(k) \/ BatchMovesOn(k)
             \/ \E u \in Users : HandOver(k, u)
      PROVE  StaffTypeOK'
  <2>1. k \in DOMAIN jobs
      BY <1>6 DEF StartJob, CompleteJob, BatchMovesOn, HandOver
  <2>2. jobs[k] \in Job
      BY <2>1, ElementOfSeq, LenProperties DEF StaffTypeOK
  <2>3. PICK j \in Job : jobs' = [jobs EXCEPT ![k] = j]
    <3>1. CASE StartJob(k)
        BY <2>1, <2>2, <3>1 DEF StartJob, Job
    <3>2. CASE CompleteJob(k)
        BY <2>1, <2>2, <3>2 DEF CompleteJob, Job
    <3>3. CASE BatchMovesOn(k)
        BY <2>1, <2>2, <3>3 DEF BatchMovesOn, Job
    <3>4. ASSUME NEW u \in Users, HandOver(k, u)
          PROVE  \E j \in Job : jobs' = [jobs EXCEPT ![k] = j]
        BY <2>1, <2>2, <3>4 DEF HandOver, Job
    <3> QED BY <1>6, <3>1, <3>2, <3>3, <3>4
  <2>4. UNCHANGED <<shifts, project_shifts, shift_role>>
      BY <1>6 DEF StartJob, CompleteJob, BatchMovesOn, HandOver
  <2> QED BY <2>1, <2>3, <2>4, RewriteType
<1> QED BY <1>1, <1>2, <1>3, <1>4, <1>5, <1>6 DEF StaffNext

\* Ids, rows and roles stay in range.
THEOREM StaffTypeCorrect == StaffSpec => []StaffTypeOK
<1> QED BY StaffTypeInit, StaffTypeNext, PTL DEF StaffSpec

-----------------------------------------------------------------------------
(* Staffing: open work and roles.                                          *)

\* A task that tests nothing new: its holder keeps the role that it needed.
HeldProperly(j) ==
    j.status # "completed" /\ ~j.reopened =>
        Holding(j.holder, j.project, RequiredRole(j.type)) # {}

\* A role moves only where nobody's open work depends on it.
LEMMA RolesStay ==
    ASSUME StaffTypeOK, WorkerHoldsRole,
           NEW u \in Users, NEW p \in Projects, NEW s \in Shifts,
           NEW role \in ShiftRole \cup {"none"}, MoveUserBucket(u, p, s, role)
    PROVE  WorkerHoldsRole'
<1>1. jobs' = jobs
    BY DEF MoveUserBucket
<1> SUFFICES ASSUME NEW k \in DOMAIN jobs, jobs[k].status # "completed", ~jobs[k].reopened
             PROVE  Holding(jobs[k].holder, jobs[k].project, RequiredRole(jobs[k].type))' # {}
    BY <1>1 DEF WorkerHoldsRole
<1>2. jobs[k] \in Job
    BY ElementOfSeq, LenProperties DEF StaffTypeOK
<1>3. ~(jobs[k].holder = u /\ jobs[k].project = p)
    BY <1>2 DEF MoveUserBucket, HasActiveWork, Job
<1>4. PICK t \in Shifts :
          shift_role[<<jobs[k].holder, jobs[k].project, t>>] = RequiredRole(jobs[k].type)
    BY DEF WorkerHoldsRole, Holding
<1>5. <<jobs[k].holder, jobs[k].project, t>> # <<u, p, s>>
    BY <1>3
<1>6. <<jobs[k].holder, jobs[k].project, t>> \in Rosters
    BY <1>2 DEF Rosters, Job
<1>7. shift_role'[<<jobs[k].holder, jobs[k].project, t>>] = RequiredRole(jobs[k].type)
    BY <1>4, <1>5, <1>6 DEF MoveUserBucket, StaffTypeOK
<1> QED BY <1>1, <1>7 DEF Holding

\* A new row gives no role and takes none.
LEMMA NewStaffRow ==
    ASSUME StaffTypeOK, WorkerHoldsRole,
           NEW u \in Users, NEW p \in Projects, NEW s \in Shifts,
           AssignStaffToProject(u, p, s)
    PROVE  WorkerHoldsRole'
<1>1. jobs' = jobs
    BY DEF AssignStaffToProject
<1> SUFFICES ASSUME NEW k \in DOMAIN jobs, jobs[k].status # "completed", ~jobs[k].reopened
             PROVE  Holding(jobs[k].holder, jobs[k].project, RequiredRole(jobs[k].type))' # {}
    BY <1>1 DEF WorkerHoldsRole
<1>2. jobs[k] \in Job
    BY ElementOfSeq, LenProperties DEF StaffTypeOK
<1>3. PICK t \in Shifts :
          shift_role[<<jobs[k].holder, jobs[k].project, t>>] = RequiredRole(jobs[k].type)
    BY DEF WorkerHoldsRole, Holding
<1>4. <<jobs[k].holder, jobs[k].project, t>> # <<u, p, s>>
    BY <1>3 DEF AssignStaffToProject, RequiredRole
<1>5. <<jobs[k].holder, jobs[k].project, t>> \in Rosters
    BY <1>2 DEF Rosters, Job
<1>6. shift_role'[<<jobs[k].holder, jobs[k].project, t>>] = RequiredRole(jobs[k].type)
    BY <1>3, <1>4, <1>5 DEF AssignStaffToProject, StaffTypeOK
<1> QED BY <1>1, <1>6 DEF Holding

\* Where the roles stand still, only the task that changes is to be argued.
LEMMA OneJobChanges ==
    ASSUME StaffTypeOK, WorkerHoldsRole, shift_role' = shift_role,
           NEW k \in DOMAIN jobs, NEW j \in Job,
           jobs' = [jobs EXCEPT ![k] = j], HeldProperly(j)
    PROVE  WorkerHoldsRole'
<1>1. jobs \in Seq(Job) /\ DOMAIN jobs' = DOMAIN jobs
    BY JobRewritten DEF StaffTypeOK
<1>2. ASSUME NEW i \in DOMAIN jobs PROVE HeldProperly(jobs'[i])
  <2>1. CASE i = k
      BY <1>1, <2>1
  <2>2. CASE i # k
      BY <1>1, <2>2 DEF WorkerHoldsRole, HeldProperly
  <2> QED BY <2>1, <2>2
<1> QED BY <1>1, <1>2 DEF WorkerHoldsRole, HeldProperly, Holding

LEMMA WorkerHoldsRoleNext ==
    StaffTypeOK /\ WorkerHoldsRole /\ [StaffNext]_staffVars => WorkerHoldsRole'
<1> SUFFICES ASSUME StaffTypeOK, WorkerHoldsRole, [StaffNext]_staffVars
             PROVE  WorkerHoldsRole'
    OBVIOUS
<1>1. ASSUME UNCHANGED <<shift_role, jobs>> PROVE WorkerHoldsRole'
    BY <1>1 DEF WorkerHoldsRole, Holding
<1>2. ASSUME NEW s \in Shifts, NEW p \in Projects, NEW u \in Users,
             \/ AssignStaffToProject(u, p, s)
             \/ \E role \in ShiftRole \cup {"none"} : MoveUserBucket(u, p, s, role)
      PROVE  WorkerHoldsRole'
    BY <1>2, NewStaffRow, RolesStay
<1>3. ASSUME NEW u \in Users, NEW p \in Projects, NEW type \in {"indexing", "qa"},
             HandOut(u, p, type)
      PROVE  WorkerHoldsRole'
  <2> DEFINE j == [project |-> p, type |-> type, holder |-> u, status |-> "pending",
                   in_indexing |-> (type = "indexing"), reopened |-> FALSE]
  <2>1. j \in Job
      BY DEF Job
  <2>2. /\ DOMAIN jobs' = DOMAIN jobs \cup {Len(jobs) + 1}
        /\ \A k \in DOMAIN jobs : jobs'[k] = jobs[k]
        /\ jobs'[Len(jobs) + 1] = j
      BY <1>3, <2>1, JobAdded DEF HandOut, StaffTypeOK
  <2>3. HeldProperly(j)
      BY <1>3, TestedHolds DEF HandOut, HeldProperly
  <2>4. \A k \in DOMAIN jobs' : HeldProperly(jobs'[k])
      BY <2>2, <2>3 DEF WorkerHoldsRole, HeldProperly
  <2>5. shift_role' = shift_role
      BY <1>3 DEF HandOut
  <2> QED BY <2>4, <2>5 DEF WorkerHoldsRole, HeldProperly, Holding
<1>4. ASSUME NEW k \in 1 .. MaxJobs,
             \/ StartJob(k) \/ CompleteJob(k) \/ BatchMovesOn(k)
             \/ \E u \in Users : HandOver(k, u)
      PROVE  WorkerHoldsRole'
  <2>1. k \in DOMAIN jobs /\ shift_role' = shift_role
      BY <1>4 DEF StartJob, CompleteJob, BatchMovesOn, HandOver
  <2>2. jobs[k] \in Job /\ HeldProperly(jobs[k])
      BY <2>1, ElementOfSeq, LenProperties DEF StaffTypeOK, WorkerHoldsRole, HeldProperly
  <2>3. CASE StartJob(k)
    <3> DEFINE j == [jobs[k] EXCEPT !.status = "in_progress",
                         !.reopened = @ \/ jobs[k].status = "completed"]
    <3>1. j \in Job
        BY <2>2 DEF Job
    <3>2. HeldProperly(j)
        BY <2>2 DEF HeldProperly, Job
    <3>3. jobs' = [jobs EXCEPT ![k] = j]
        BY <2>1, <2>3 DEF StartJob
    <3> QED BY <2>1, <3>1, <3>2, <3>3, OneJobChanges
  <2>4. CASE CompleteJob(k)
    <3> DEFINE j == [jobs[k] EXCEPT !.status = "completed"]
    <3>1. j \in Job /\ HeldProperly(j)
        BY <2>2 DEF Job, HeldProperly
    <3>2. jobs' = [jobs EXCEPT ![k] = j]
        BY <2>1, <2>4 DEF CompleteJob
    <3> QED BY <2>1, <3>1, <3>2, OneJobChanges
  <2>5. CASE BatchMovesOn(k)
    <3> DEFINE j == [jobs[k] EXCEPT !.in_indexing = FALSE]
    <3>1. j \in Job /\ HeldProperly(j)
        BY <2>2 DEF Job, HeldProperly
    <3>2. jobs' = [jobs EXCEPT ![k] = j]
        BY <2>1, <2>5 DEF BatchMovesOn
    <3> QED BY <2>1, <3>1, <3>2, OneJobChanges
  <2>6. ASSUME NEW u \in Users, HandOver(k, u) PROVE WorkerHoldsRole'
    <3> DEFINE j == [jobs[k] EXCEPT !.holder = u, !.status = "pending", !.reopened = FALSE]
    <3>1. j \in Job
        BY <2>2 DEF Job
    <3>2. HeldProperly(j)
        BY <2>2, <2>6, TestedHolds DEF HandOver, HeldProperly, Job
    <3>3. jobs' = [jobs EXCEPT ![k] = j]
        BY <2>1, <2>6 DEF HandOver
    <3> QED BY <2>1, <3>1, <3>2, <3>3, OneJobChanges
  <2> QED BY <1>4, <2>3, <2>4, <2>5, <2>6
<1>5. CASE UNCHANGED staffVars
    BY <1>1, <1>5 DEF staffVars
<1>6. ASSUME NEW s \in Shifts, CreateShift(s) \/ DeleteShift(s)
      PROVE  WorkerHoldsRole'
    BY <1>1, <1>6 DEF CreateShift, DeleteShift
<1>7. ASSUME NEW s \in Shifts, NEW p \in Projects,
             AssignShiftToProject(p, s) \/ DeassignShiftFromProject(p, s)
      PROVE  WorkerHoldsRole'
    BY <1>1, <1>7 DEF AssignShiftToProject, DeassignShiftFromProject
<1> QED BY <1>2, <1>3, <1>4, <1>5, <1>6, <1>7 DEF StaffNext

\* Nobody loses the role that their open work needs, whatever supervisors and
\* staff do in whatever order (require_shift_role_for_task_type when work is
\* handed out, has_active_work when roles move).
THEOREM WorkersKeepTheirRole == StaffSpec => []WorkerHoldsRole
<1>1. StaffInit => WorkerHoldsRole
    BY DEF StaffInit, WorkerHoldsRole
<1> QED BY <1>1, WorkerHoldsRoleNext, StaffTypeCorrect, PTL DEF StaffSpec

HIDE DEF ShiftRole

-----------------------------------------------------------------------------
(* AqlEscalation: the switching rules.                                     *)

\* The rules' fields, as far as looser inspection depends on them.
SwitchTypeOK ==
    /\ current_status \in AQLStatus
    /\ consecutive_passes \in Nat
    /\ passes_to_reduce \in Int
    /\ run \in Nat
    /\ quota \in Int
    /\ rejected \in BOOLEAN

\* The counter never runs ahead of the batches passed in a row, and what was
\* counted for one step is not counted for the next.
CountedOnce ==
    /\ quota <= passes_to_reduce
    /\ consecutive_passes <= run
    /\ current_status = "normal" /\ rejected => run >= quota + consecutive_passes
    /\ current_status = "reduced" => run >= IF rejected THEN 2 * quota ELSE quota

SwitchInv == SwitchTypeOK /\ CountedOnce

LEMMA SwitchInvInit == AqlInit => SwitchInv
<1> SUFFICES ASSUME AqlInit PROVE SwitchInv
    OBVIOUS
<1>1. rejected \in BOOLEAN /\ ~rejected
    BY Zenon DEF AqlInit
<1>2. SwitchTypeOK
    BY <1>1 DEF AqlInit, SwitchTypeOK, AQLStatus
<1>3. CountedOnce
    BY <1>1 DEF AqlInit, CountedOnce
<1> QED BY <1>2, <1>3 DEF SwitchInv

LEMMA RejectInv ==
    ASSUME SwitchInv, Reject, UNCHANGED <<passes_to_reduce, quota>>
    PROVE  SwitchInv'
<1>1. rejected' \in BOOLEAN
    BY Zenon DEF Reject
<1> QED BY <1>1 DEF Reject, SwitchInv, SwitchTypeOK, CountedOnce, AQLStatus

LEMMA PassInv ==
    ASSUME SwitchInv, Pass, UNCHANGED <<passes_to_reduce, quota>>
    PROVE  SwitchInv'
<1> USE DEF SwitchInv, SwitchTypeOK, CountedOnce, AQLStatus
<1> DEFINE passes == consecutive_passes + 1
<1>1. Switch(passes) /\ run' = run + 1 /\ rejected' = rejected
    BY DEF Pass
<1>2. CASE current_status # "reduced" /\ passes >= passes_to_reduce
  <2>1. /\ current_status' = IF current_status = "tightened" THEN "normal" ELSE "reduced"
        /\ consecutive_passes' = 0
      BY <1>1, <1>2 DEF Switch
  <2>2. SwitchTypeOK'
      BY <1>1, <2>1
  <2>3. CASE current_status = "tightened"
      BY <1>1, <1>2, <2>1, <2>2, <2>3
  <2>4. CASE current_status = "normal"
    <3>1. run + 1 >= IF rejected THEN 2 * quota ELSE quota
        BY <1>2, <2>4
    <3> QED BY <1>1, <2>1, <2>2, <2>4, <3>1
  <2> QED BY <1>2, <2>3, <2>4
<1>3. CASE ~(current_status # "reduced" /\ passes >= passes_to_reduce)
  <2>1. current_status' = current_status /\ consecutive_passes' = passes
      BY <1>1, <1>3 DEF Switch
  <2> QED BY <1>1, <2>1
<1> QED BY <1>2, <1>3

LEMMA SwitchInvNext == SwitchInv /\ [AqlNext]_aqlVars => SwitchInv'
<1> SUFFICES ASSUME SwitchInv, [AqlNext]_aqlVars PROVE SwitchInv'
    OBVIOUS
<1>1. ASSUME NEW n \in PassesValues, SetPassesToReduce(n) PROVE SwitchInv'
    BY <1>1, AqlAssumption DEF SetPassesToReduce, SwitchInv, SwitchTypeOK, CountedOnce
<1>2. ASSUME NEW s \in AQLStatus, NEW level \in LevelValues, SetAqlLevel(s, level)
      PROVE  SwitchInv'
    BY <1>2 DEF SetAqlLevel, SwitchInv, SwitchTypeOK, CountedOnce
<1>3. ASSUME NEW n \in BatchSizes, NEW defects \in Defects, EvaluateBatch(n, defects)
      PROVE  SwitchInv'
    BY <1>3, PassInv, RejectInv DEF EvaluateBatch
<1>4. CASE UNCHANGED aqlVars
    BY <1>4 DEF aqlVars, SwitchInv, SwitchTypeOK, CountedOnce
<1> QED BY <1>1, <1>2, <1>3, <1>4 DEF AqlNext

\* consecutive_passed counts steps that earned it (evaluate_batch,
\* update_config).
THEOREM SwitchInvariant == AqlSpec => []SwitchInv
<1> QED BY SwitchInvInit, SwitchInvNext, PTL DEF AqlSpec

\* Inspection is loosened only after the passes that passes_to_reduce asked
\* for, each counted for one step, however the setting is changed on the way
\* (evaluate_batch).
THEOREM LoosenedWhenEarned == AqlSpec => []LooserIsEarned
<1>1. SwitchInv => LooserIsEarned
    BY DEF SwitchInv, SwitchTypeOK, CountedOnce, LooserIsEarned
<1> QED BY <1>1, SwitchInvariant, PTL

-----------------------------------------------------------------------------
(* AqlTables.                                                              *)

Letters == {"A", "B", "C", "D", "E", "F", "G", "H", "J", "K", "L", "M", "N", "P", "Q"}

\* Every lot size has a row.
LEMMA LetterOfLot ==
    ASSUME NEW n \in Nat
    PROVE  CodeLetter(n) \in Letters
<1> DEFINE fits == {i \in DOMAIN CODE_LETTER_TABLE : n <= CODE_LETTER_TABLE[i][1]}
<1>1. DOMAIN CODE_LETTER_TABLE = 1 .. 14
    BY DEF CODE_LETTER_TABLE
<1>2. \A i \in 1 .. 14 : CODE_LETTER_TABLE[i][2] \in Letters
    BY DEF CODE_LETTER_TABLE, Letters
<1>3. \A i \in 1 .. 14 : CODE_LETTER_TABLE[i][1] \in Nat
    BY DEF CODE_LETTER_TABLE
<1>4. CASE fits = {}
    BY <1>4 DEF CodeLetter, Letters
<1>5. CASE fits # {}
  <2>1. \E i \in fits : \A j \in fits : i <= j
    <3> DEFINE In(i) == i \in fits
    <3>1. fits \subseteq 1 .. 14
        BY <1>1
    <3>2. \E i \in 1 .. 14 : In(i)
        BY <1>5, <3>1
    <3> HIDE DEF In
    <3>3. \E i \in 1 .. 14 : In(i) /\ \A j \in 1 .. 14 : In(j) => i <= j
        BY <3>2
    <3> QED BY <3>1, <3>3 DEF In
  <2>2. (CHOOSE i \in fits : \A j \in fits : i <= j) \in fits
      BY <2>1
  <2> QED BY <1>1, <1>2, <1>5, <2>2 DEF CodeLetter
<1> QED BY <1>4, <1>5

\* Down every row the acceptance numbers do not fall.
LEMMA RowsRise ==
    \A c \in Letters, i, j \in 1 .. 4 :
        /\ SAMPLING_TABLE[c].accept[i] \in Nat
        /\ i <= j => SAMPLING_TABLE[c].accept[i] <= SAMPLING_TABLE[c].accept[j]
BY DEF SAMPLING_TABLE, Letters

\* The closest column is one of the four, and no other is closer.
LEMMA ClosestColumn ==
    ASSUME NEW level \in Nat
    PROVE  /\ ClosestAql(level) \in 1 .. 4
           /\ \A j \in 1 .. 4 :
                  \/ Distance(AQL_LEVELS[ClosestAql(level)], level)
                         < Distance(AQL_LEVELS[j], level)
                  \/ /\ Distance(AQL_LEVELS[ClosestAql(level)], level)
                            = Distance(AQL_LEVELS[j], level)
                     /\ ClosestAql(level) <= j
<1> DEFINE d(i) == Distance(AQL_LEVELS[i], level)
           Nearest(i) == \A j \in 1 .. 4 : d(i) < d(j) \/ (d(i) = d(j) /\ i <= j)
<1>1. DOMAIN AQL_LEVELS = 1 .. 4
    BY DEF AQL_LEVELS
<1>2. d(1) \in Nat /\ d(2) \in Nat /\ d(3) \in Nat /\ d(4) \in Nat
    BY DEF AQL_LEVELS, Distance
<1>3. ClosestAql(level) = CHOOSE i \in 1 .. 4 : Nearest(i)
    BY <1>1 DEF ClosestAql
<1> HIDE DEF d
<1>4. \E i \in 1 .. 4 : Nearest(i)
    BY <1>2
<1> HIDE DEF Nearest
<1>5. ClosestAql(level) \in 1 .. 4 /\ Nearest(ClosestAql(level))
    BY <1>3, <1>4
<1> QED BY <1>5 DEF Nearest, d

\* A higher level is read from the same column or a later one.
LEMMA ColumnsRise ==
    ASSUME NEW a \in Nat, NEW b \in Nat, a <= b
    PROVE  ClosestAql(a) <= ClosestAql(b)
<1> DEFINE i == ClosestAql(a)
           j == ClosestAql(b)
<1>1. i \in 1 .. 4 /\ j \in 1 .. 4
    BY ClosestColumn
<1>2. \/ Distance(AQL_LEVELS[i], a) < Distance(AQL_LEVELS[j], a)
      \/ Distance(AQL_LEVELS[i], a) = Distance(AQL_LEVELS[j], a) /\ i <= j
    BY <1>1, ClosestColumn
<1>3. \/ Distance(AQL_LEVELS[j], b) < Distance(AQL_LEVELS[i], b)
      \/ Distance(AQL_LEVELS[j], b) = Distance(AQL_LEVELS[i], b) /\ j <= i
    BY <1>1, ClosestColumn
<1>4. \A k, l \in 1 .. 4 : /\ AQL_LEVELS[k] \in Nat
                           /\ k < l => AQL_LEVELS[k] < AQL_LEVELS[l]
    BY DEF AQL_LEVELS
<1> HIDE DEF i, j
<1>5. SUFFICES ASSUME j < i PROVE FALSE
    BY <1>1 DEF i, j
<1>6. AQL_LEVELS[j] < AQL_LEVELS[i] /\ AQL_LEVELS[i] \in Nat /\ AQL_LEVELS[j] \in Nat
    BY <1>1, <1>4, <1>5
<1> QED BY <1>1, <1>2, <1>3, <1>5, <1>6 DEF Distance

\* With the levels in order, a looser one accepts at least as many defects in
\* a batch of any size.
THEOREM LooserAcceptsAsMany ==
    ASSUME NEW n \in Nat, NEW a \in Nat, NEW b \in Nat, a <= b
    PROVE  AcceptanceNumber(n, a) <= AcceptanceNumber(n, b)
BY LetterOfLot, RowsRise, ClosestColumn, ColumnsRise DEF AcceptanceNumber

LevelsTyped == aql \in [AQLStatus -> Nat]

\* So it is for the levels a project is set to (compute_sample_size).
THEOREM LooserLevelsAcceptMore == AqlSpec => []LooserAcceptsMore
<1>1. AqlInit => LevelsTyped
    BY DEF AqlInit, AQLStatus, LevelsTyped
<1>2. LevelsTyped /\ [AqlNext]_aqlVars => LevelsTyped'
    BY AqlAssumption
       DEF AqlNext, SetPassesToReduce, SetAqlLevel, EvaluateBatch, aqlVars, LevelsTyped
<1>3. LevelsTyped => LooserAcceptsMore
    BY LooserAcceptsAsMany, AqlAssumption DEF LooserAcceptsMore, LevelsTyped
<1> QED BY <1>1, <1>2, <1>3, PTL DEF AqlSpec

\* The rules' fields and the last result stay in range.
THEOREM AqlTyped == AqlSpec => []AqlTypeOK
<1> DEFINE Judged == /\ consecutive_failures \in Nat
                     /\ result \in [outcome : {"none", "passed", "rejected"}, aql : Nat]
<1>1. AqlInit => LevelsTyped /\ Judged
    BY DEF AqlInit, AQLStatus, LevelsTyped
<1>2. LevelsTyped /\ [AqlNext]_aqlVars => LevelsTyped'
    BY AqlAssumption
       DEF AqlNext, SetPassesToReduce, SetAqlLevel, EvaluateBatch, aqlVars, LevelsTyped
<1>3. SwitchInv /\ LevelsTyped /\ Judged /\ [AqlNext]_aqlVars => Judged'
  <2> SUFFICES ASSUME SwitchInv, LevelsTyped, Judged, [AqlNext]_aqlVars PROVE Judged'
      OBVIOUS
  <2>1. CASE UNCHANGED <<consecutive_failures, result>>
      BY <2>1
  <2>2. ASSUME NEW n \in BatchSizes, NEW defects \in Defects, EvaluateBatch(n, defects)
        PROVE  Judged'
    <3>1. CurrentAql \in Nat
        BY DEF CurrentAql, LevelsTyped, SwitchInv, SwitchTypeOK
    <3>2. result' \in [outcome : {"none", "passed", "rejected"}, aql : Nat]
        BY <2>2, <3>1 DEF EvaluateBatch
    <3>3. consecutive_failures' \in Nat
        BY <2>2 DEF EvaluateBatch, Pass, Reject
    <3> QED BY <3>2, <3>3
  <2>3. ASSUME \/ \E n \in PassesValues : SetPassesToReduce(n)
               \/ \E s \in AQLStatus, level \in LevelValues : SetAqlLevel(s, level)
               \/ UNCHANGED aqlVars
        PROVE  UNCHANGED <<consecutive_failures, result>>
      BY <2>3 DEF SetPassesToReduce, SetAqlLevel, aqlVars
  <2> QED BY <2>1, <2>2, <2>3 DEF AqlNext
<1>4. SwitchInv /\ LevelsTyped /\ Judged => AqlTypeOK
    BY DEF SwitchInv, SwitchTypeOK, LevelsTyped, AqlTypeOK
<1> QED BY <1>1, <1>2, <1>3, <1>4, SwitchInvariant, PTL DEF AqlSpec

-----------------------------------------------------------------------------
(* The parts together.                                                     *)

\* Whichever part a behaviour moves, it is one of every part: the others
\* stand still at their start.
THEOREM OperationsImplementParts ==
    Spec => /\ ProvSpec /\ AccountsSpec /\ StaffSpec /\ AqlSpec
            /\ MigrateSpec /\ PurgeSpec /\ ScriptsSpec
<1>1. Init => /\ ProvInit /\ AccountsInit /\ StaffInit /\ AqlInit
              /\ MigrateInit /\ PurgeInit /\ ScriptsInit
    BY DEF Init
<1>2. [Next]_allVars => /\ [ProvNext]_provVars /\ [AccountsNext]_accountVars
                        /\ [StaffNext]_staffVars /\ [AqlNext]_aqlVars
                        /\ [MigrateNext]_migrateVars /\ [PurgeNext]_purgeVars
                        /\ [ScriptsNext]_scriptVars
    BY DEF Next, allVars
<1> QED BY <1>1, <1>2, PTL
        DEF Spec, ProvSpec, AccountsSpec, StaffSpec, AqlSpec, MigrateSpec, PurgeSpec,
            ScriptsSpec

\* The part that moves is chosen once, and is one of the seven.
OnePart == focus \in Parts

LEMMA FocusStays == Spec => []OnePart
<1>1. Init => OnePart
    BY DEF Init, OnePart
<1>2. OnePart /\ [Next]_allVars => OnePart'
    BY DEF Next, allVars, OnePart
<1> QED BY <1>1, <1>2, PTL DEF Spec

\* Ids, references and counters of all parts stay in range, for every value of
\* the constants.
THEOREM OperationsTyped == Spec => []OperationsTypeOK
<1>1. MigrateInv => MigrateTypeOK
    BY DEF MigrateInv
<1>2. WipeInv => PurgeTypeOK
    BY DEF WipeInv
<1>3. ScriptsInv => ScriptsTypeOK
    BY DEF ScriptsInv
<1>4. MigrateSpec => []MigrateTypeOK
    BY <1>1, MigrateInvInit, MigrateInvNext, PTL DEF MigrateSpec
<1>5. PurgeSpec => []PurgeTypeOK
    BY <1>2, WipeInvInit, WipeInvNext, PTL DEF PurgeSpec
<1>6. ScriptsSpec => []ScriptsTypeOK
    BY <1>3, ScriptsInvInit, ScriptsInvNext, PTL DEF ScriptsSpec
<1>7. /\ OnePart /\ ProvTypeOK /\ AccountsTypeOK /\ StaffTypeOK
      /\ AqlTypeOK /\ MigrateTypeOK /\ PurgeTypeOK /\ ScriptsTypeOK
      => OperationsTypeOK
    BY DEF OperationsTypeOK, OnePart
<1> QED BY <1>4, <1>5, <1>6, <1>7, FocusStays, OperationsImplementParts, ProvTyped,
           AccountsTyped, StaffTypeCorrect, AqlTyped, PTL

\* LooserLevelsAcceptMore where the other parts are there too.
THEOREM LooserLevelsAcceptMoreHere == Spec => []LooserLevelAcceptsMore
<1>1. LooserAcceptsMore => LooserLevelAcceptsMore
    BY DEF LooserLevelAcceptsMore
<1> QED BY <1>1, OperationsImplementParts, LooserLevelsAcceptMore, PTL

\* What the parts promise holds where all are there: customers have realms,
\* refusals a cause, deactivated users stay out, the mirror agrees, workers
\* keep their role, looser inspection is earned, nothing is copied twice, a
\* finished wipe left no row it gathered but late audit events, only verdicts and
\* rows committed between its DELETEs refuse one, and scripts strand nobody.
THEOREM OperationsKeepPromises ==
    Spec => [](/\ OrgHasRealm /\ RefusedForCause
               /\ DeactivatedStaysOut /\ MirrorAgrees
               /\ WorkerHoldsRole /\ LooserIsEarned
               /\ CopiedOnce /\ WipeLeavesNothing
               /\ RefusedForVerdicts /\ ScriptsStrandNobody)
<1> QED BY OperationsImplementParts, CustomersHaveRealms, RefusalsHaveCause,
           DeactivatedExcluded, AccountsAgree, WorkersKeepTheirRole, LoosenedWhenEarned,
           MigrationCopiesOnce, WipedClean, RefusalsAreForVerdicts, NobodyStranded, PTL

=============================================================================
