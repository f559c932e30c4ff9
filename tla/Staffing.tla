------------------------------ MODULE Staffing -----------------------------
(***************************************************************************)
(* Shifts, the projects they work on, the staff on them and the roles that *)
(* say who may be given indexing or QA work.  Workflow takes the roles as  *)
(* constants; here they change, and of a task only what the role tests     *)
(* look at is kept.                                                        *)
(***************************************************************************)
EXTENDS Naturals, FiniteSets, Sequences

CONSTANTS
    Users,      \* active digitizing staff of the tenant
    Projects,   \* the tenant's projects
    Shifts,     \* ids that shifts will get
    MaxJobs     \* bound: gated tasks ever handed out

ASSUME StaffingAssumption == MaxJobs \in Nat

VARIABLES
    shifts,          \* per id: not created yet, live, or deleted
    project_shifts,  \* the project_shifts rows
    shift_role,      \* user_project_assignments: the row's role, "none" for
                     \* NULL and "absent" for no row; rows stay active
    jobs             \* indexing and QA tasks

staffVars == <<shifts, project_shifts, shift_role, jobs>>

ShiftRole == {"indexer", "qa"}

Rosters == Users \X Projects \X Shifts

\* in_indexing: whether the task's batch is still in indexing.  reopened: the
\* holder went back to it after completing it.
Job == [project : Projects, type : {"indexing", "qa"}, holder : Users,
        status : {"pending", "in_progress", "completed"},
        in_indexing : BOOLEAN, reopened : BOOLEAN]

StaffInit ==
    /\ shifts = [s \in Shifts |-> "new"]
    /\ project_shifts = {}
    /\ shift_role = [x \in Rosters |-> "absent"]
    /\ jobs = <<>>

-----------------------------------------------------------------------------
(* The shifts of a tenant and of a project (routers/shifts.py).            *)

CreateShift(s) ==
    /\ shifts[s] = "new"
    /\ shifts' = [shifts EXCEPT ![s] = "live"]
    /\ UNCHANGED <<project_shifts, shift_role, jobs>>

\* The ORM would set the shift_id of dependent rows to NULL, which their
\* columns refuse: a shift in use raises and stays.
DeleteShift(s) ==
    /\ shifts[s] = "live"
    /\ \A p \in Projects : <<p, s>> \notin project_shifts
    /\ \A u \in Users, p \in Projects : shift_role[<<u, p, s>>] = "absent"
    /\ shifts' = [shifts EXCEPT ![s] = "deleted"]
    /\ UNCHANGED <<project_shifts, shift_role, jobs>>

AssignShiftToProject(p, s) ==
    /\ shifts[s] = "live"
    /\ <<p, s>> \notin project_shifts
    /\ project_shifts' = project_shifts \cup {<<p, s>>}
    /\ UNCHANGED <<shifts, shift_role, jobs>>

\* The staff's own rows on the project and the shift stay.
DeassignShiftFromProject(p, s) ==
    /\ <<p, s>> \in project_shifts
    /\ project_shifts' = project_shifts \ {<<p, s>>}
    /\ UNCHANGED <<shifts, shift_role, jobs>>

AssignStaffToProject(u, p, s) ==
    /\ <<p, s>> \in project_shifts
    /\ shift_role[<<u, p, s>>] = "absent"
    /\ shift_role' = [shift_role EXCEPT ![<<u, p, s>>] = "none"]
    /\ UNCHANGED <<shifts, project_shifts, jobs>>

-----------------------------------------------------------------------------
(* Roles (staff_assignment_service.py).                                    *)

\* A slip: work that has not been started not counted.
HasActiveWork_Started(u, p) ==
    \E k \in DOMAIN jobs : /\ jobs[k].project = p
                           /\ jobs[k].holder = u
                           /\ jobs[k].status = "in_progress"

HasActiveWork(u, p) ==
    \E k \in DOMAIN jobs : /\ jobs[k].project = p
                           /\ jobs[k].holder = u
                           /\ jobs[k].status \in {"pending", "in_progress"}

MoveUserBucket(u, p, s, role) ==
    /\ shift_role[<<u, p, s>>] # "absent"
    /\ ~HasActiveWork(u, p)
    /\ shift_role' = [shift_role EXCEPT ![<<u, p, s>>] = role]
    /\ UNCHANGED <<shifts, project_shifts, jobs>>

RequiredRole(type) == IF type = "indexing" THEN "indexer" ELSE "qa"

Holding(u, p, role) == {s \in Shifts : shift_role[<<u, p, s>>] = role}

\* require_shift_role_for_task_type: scalar_one_or_none raises on a second
\* row, so an agent with the role on two shifts is refused as well.
HasShiftRoleFor(u, p, type) == Cardinality(Holding(u, p, RequiredRole(type))) = 1

\* create_indexing_batch, assign_task, or an unassigned QA or rework task
\* that is given to its first agent.
HandOut(u, p, type) ==
    /\ Len(jobs) < MaxJobs
    /\ HasShiftRoleFor(u, p, type)
    /\ jobs' = Append(jobs, [project |-> p, type |-> type, holder |-> u,
                             status |-> "pending",
                             in_indexing |-> (type = "indexing"), reopened |-> FALSE])
    /\ UNCHANGED <<shifts, project_shifts, shift_role>>

\* task_service.reassign_task: whatever the task's status.
HandOver(k, u) ==
    /\ k \in DOMAIN jobs
    /\ HasShiftRoleFor(u, jobs[k].project, jobs[k].type)
    /\ jobs' = [jobs EXCEPT ![k] = [@ EXCEPT !.holder = u, !.status = "pending",
                                            !.reopened = FALSE]]
    /\ UNCHANGED <<shifts, project_shifts, shift_role>>

\* task_service.start_task: no role is tested.
StartJob(k) ==
    /\ k \in DOMAIN jobs
    /\ \/ jobs[k].status # "completed"
       \/ jobs[k].type = "indexing" /\ jobs[k].in_indexing
    /\ jobs' = [jobs EXCEPT
           ![k] = [@ EXCEPT !.status = "in_progress",
                            !.reopened = jobs[k].reopened \/ jobs[k].status = "completed"]]
    /\ UNCHANGED <<shifts, project_shifts, shift_role>>

\* task_service.complete_task: whatever the task's status.
CompleteJob(k) ==
    /\ k \in DOMAIN jobs
    /\ jobs' = [jobs EXCEPT ![k].status = "completed"]
    /\ UNCHANGED <<shifts, project_shifts, shift_role>>

\* batch_service.complete_indexing_batch, as seen by its tasks.
BatchMovesOn(k) ==
    /\ k \in DOMAIN jobs
    /\ jobs[k].in_indexing
    /\ jobs[k].status = "completed"
    /\ jobs' = [jobs EXCEPT ![k].in_indexing = FALSE]
    /\ UNCHANGED <<shifts, project_shifts, shift_role>>

StaffNext ==
    \/ \E s \in Shifts :
           \/ CreateShift(s)
           \/ DeleteShift(s)
           \/ \E p \in Projects :
                  \/ AssignShiftToProject(p, s)
                  \/ DeassignShiftFromProject(p, s)
                  \/ \E u \in Users :
                         \/ AssignStaffToProject(u, p, s)
                         \/ \E role \in ShiftRole \cup {"none"} :
                                MoveUserBucket(u, p, s, role)
    \/ \E u \in Users, p \in Projects, type \in {"indexing", "qa"} : HandOut(u, p, type)
    \/ \E k \in 1 .. MaxJobs :
           \/ StartJob(k)
           \/ CompleteJob(k)
           \/ BatchMovesOn(k)
           \/ \E u \in Users : HandOver(k, u)

StaffSpec == StaffInit /\ [][StaffNext]_staffVars

-----------------------------------------------------------------------------
StaffTypeOK ==
    /\ shifts \in [Shifts -> {"new", "live", "deleted"}]
    /\ project_shifts \subseteq Projects \X Shifts
    /\ shift_role \in [Rosters -> ShiftRole \cup {"none", "absent"}]
    /\ jobs \in Seq(Job) /\ Len(jobs) <= MaxJobs

\* Whoever has open work on a project holds the role for it there: roles are
\* tested when work is handed out, and a change of role later is refused while
\* work is open.  Only an indexer's return to completed work escapes the test.
WorkerHoldsRole ==
    \A k \in DOMAIN jobs :
        jobs[k].status # "completed" /\ ~jobs[k].reopened =>
            Holding(jobs[k].holder, jobs[k].project, RequiredRole(jobs[k].type)) # {}

=============================================================================
