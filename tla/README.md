# Docmate in TLA+

Docmate is a record digitizing system: a FastAPI backend over PostgreSQL
(`backend/app`), two React portals (digitizing staff and customers), Keycloak
for users and S3 for images.  Scanned records are allocated to indexers,
checked by QA agents, grouped into lots and sampled by the customer's QC
agents.  Operators run scripts beside it that upload, convert, migrate, wipe
and repair.  This directory holds TLA+ models of the backend and of those
scripts, TLC configurations that check them and TLAPS proofs about them.

Check a run with `tlc -config <run>.cfg <module>.tla` and the proofs of a module
with `tlapm <module>.tla`.  `PROJECT.json` lists the runs, the source lines each
definition models, the hazards and the theorems.

## 1. The system

### Components, their state and operations

| component | state | operations that change it |
|---|---|---|
| digitizing workflow (`task_service`, `batch_service`, `lock_service`, `version_service`, `record_service`, `cabinet_service.create_indexing_batch`) | `records.status/batch_id/locked_by/current_version`, `record_versions`, `tasks`, `batches.status` | create_indexing_batch, assign_task, assign_qa_agent, reassign_task / bulk_reassign / reassign_batch, start_task, complete_task, fail_task, skip_task, complete_indexing_batch (with auto_advance_to_qa), requeue_record (to indexing or to QA), unlock_record |
| record flags (`flag_service`) | `record_flags` | raise, withdraw, resolve |
| database sessions (`core/database.py`) | a transaction per request, rows it has locked, objects it has loaded | begin, flush, commit, rollback |
| lots and customer QC (`lot_service`, the QC branches of `task_service`) | `lots`, `lot_records`, `qc_field_results` | create_lot, release_lot, apply_sample, create_qc_batches, complete and fail of QC tasks with calculate_accuracy, send_for_remediation |
| AQL (`aql_service`) | `aql_configs`, `batch_qc_results` | compute_sample_size, update_config, evaluate_batch |
| shift staffing (`staff_assignment_service`, `routers/shifts.py`) | `shifts`, `project_shifts`, `user_project_assignments` | create and delete shifts, assign and deassign, move_user_bucket, require_shift_role_for_task_type |
| cabinets, ingestion, images | `cabinets`, `records.file_reference`, S3 objects | upload, ingest_json_records, get_record_image (converts a TIFF), bulk uploader, backfill of TIFFs |
| tenants, organisations, projects | `organizations`, `projects`; Keycloak realms and clients, S3 buckets | create_organization, create_project, seed.py |
| users and Keycloak | `users`; accounts, the portal's client | create_user, update_user, provisioning scripts, sync_de_client at start-up |
| operator scripts | all tables | migrate to training, wipe a project, requeue QA-passed records, generate QC training data, two status backfills, rollback_lot; exports |
| audit log, analytics, portals, gateway | none the above depends on for a decision | |

### How they interact

All of it is shared state in one database.  A request handler runs in one
session that `get_db` commits at the end, or rolls back on any exception; the
services call each other inside it.  Three columns couple the components:

- `records.status` is written by indexing, QA, QC, requeue and sampling, mostly
  without a test of its old value; each component relies on the phase it means;
- `records.batch_id` is moved by allocation, requeue and QC rejection, while
  `tasks.batch_id` stays with the task, so that a record has tasks of several
  batches;
- `tasks` of all three types are started, completed and failed by the same
  handlers; the task's type selects what happens to record, batch and lot.

Outside the database, `records.file_reference` names an S3 object, an
organisation names a realm and a bucket, and a user row names a Keycloak
account: pairs of which the two halves are written one after the other.

There are no background jobs (`app/background` is empty).  Concurrency is that
of requests in different sessions under READ COMMITTED, of gunicorn workers at
start-up, and of scripts beside live traffic.  No query locks rows; a row is
held from the flush that updates it to the end of its transaction.

### What is hard

- long legal sequences: complete_task tests neither the task's nor the record's
  status, reassign_task revives any task, start_task may reopen finished work,
  requeue leaves completed tasks behind.  Whether a record can still get to its
  next phase after any such sequence is not visible in any handler;
- ownership: the lock column is taken by start_task only, and released by seven
  handlers that do not look at who holds it;
- aggregate decisions: a batch or a lot moves on by looking at all its records,
  which others may have moved, in transactions that have not committed;
- a rule read at one time and applied at another: roles, sampling mode, the
  `qa_passed` test of create_lot, the rows a script loaded;
- two stores written one after the other, with failures and crashes between;
- retries of what already happened: uploads, migrations, created customers.

### What makes each component correct

- workflow: every record that is not settled has an open task of the phase it is
  in, in a batch that admits it; ownership of a record is exclusive and belongs
  to who works it; batches go through their phases in order; a flag holds a batch;
- overlapping requests: what comes out is what requests one after the other would
  give, unless one commits on rows that were overwritten after it read them; every
  request ends;
- lots: no verdict without the reviews it counts; a record waiting for QC has an
  open lot; rejected records can be remediated; lots go through their phases in
  order; customer QC strands no record of the workflow;
- AQL: looser inspection is earned, and a looser level accepts more;
- staffing: who holds an open task holds the role for it;
- ingestion: no record without its object, no reported success without a record,
  the uploader and the backfill end;
- customers and users: nothing half made is committed, nothing left behind blocks
  a retry, a deactivated user stays out;
- scripts: run again or beside live traffic, they lose and strand nothing.

## 2. Modules

| module | contents |
|---|---|
| `DocmateTypes` | the enums and the sets of statuses the services test against |
| `Workflow` | the digitizing workflow with flags, one action per request: the core |
| `RecordLock`, `BatchLifecycle` | abstract: exclusive ownership of records; the phases of a batch |
| `ConcurrentRequests` | the requests that decide about one batch, statement by statement, in transactions that overlap |
| `LotQc` | lots and customer QC on top of `Workflow` (EXTENDS it; its Next is a disjunct) |
| `LotLifecycle` | abstract: the phases of a lot, its members and sample |
| `AqlTables`, `AqlEscalation` | code letters, sampling table, compute_sample_size; the switching rules over them |
| `Staffing` | shifts, project assignments, roles, and the work handed out by role |
| `Ingestion` | scans: the uploader's threads and retries, the upload and view requests, backfill and wipe over one bucket |
| `Provisioning` | organisations and projects against Keycloak and S3 |
| `Accounts` | user rows against Keycloak accounts |
| `ClientSync` | the workers' update of the Keycloak client under an advisory lock |
| `RecordMigration`, `ProjectWipe`, `StatusScripts` | the migration to a training deployment; the wipe's transaction; the scripts that rewrite what the workflow recorded |
| `MCWorkflow`, `MCLotQc`, `MCIngestion` | instances: symmetry, settled initial states, a constraint |
| `MCServices`, `MCOperations` | compositions of the independent parts for one run each |
| `WorkflowProofs`, `LotQcProofs`, `ConcurrentProofs`, `IngestionProofs`, `KeycloakProofs`, `ScriptProofs` | the theorems of the modules they are named for; `KeycloakProofs` of `Provisioning` and `Accounts`, `ScriptProofs` of the three modules of scripts |
| `ServicesProofs`, `OperationsProofs` | those of `ClientSync`, and of `Staffing`, `AqlEscalation` and `AqlTables`; and, for the two compositions, of the parts together |

State and code.  `Workflow`'s variables are columns, as functions of the
record: `status`, `batch_id` (0 for NULL), `locked_by`, `current_version`,
`versions` and `tasks` (the record's rows, oldest first), `batches` (status by
batch id) and `open_flag`.  A task is a row `[task_type, batch, assigned_to,
status]`.  One action is one request with every service call it makes; a guard
that fails stands for the 4xx answer, after which get_db rolls back, so that a
refused request is no step.  bulk_reassign and bulk_requeue_records repeat
reassign_task and requeue_record; reassign_batch is an action because it is one
transaction over many tasks.  LotQc adds `lots` (one row per lot with its
lot_records as sets, and the number of its defective field marks) and
`sampling_mode`.

`ConcurrentRequests` takes five of those requests apart: reopening a task and
submitting it (after a reopening or once more), completing the batch, a QA pass,
and a flag.  A request reads rows into its session (`saw`), flushes an UPDATE if
the attribute differs from what it loaded (as SQLAlchemy does), waits for a row
another holds, and ends in `GetDbEnd`.  The INSERT of a flag waits for another
one not yet committed and raises IntegrityError when that one is.  A wait in a
circle is what PostgreSQL's detector refuses.  `stale` are the requests one of
whose rows was overwritten since they read it, `raced` the kinds of those that
committed all the same.

`ProjectWipe` has the wipe as its database sees it, for one run: the reads of ids,
the prompt and each DELETE are steps, with commits of the application between any
two of them.  Rows count by kind only: their table, whether their own id was
gathered, and which gathered rows they refer to.

The other modules keep a process's position in `pc` (`slot`, `call`, `acall`,
`wpc`, `migration`, `purge`, `script`), one action per call that another process
can see or that can fail by itself.

Abstractions, each meant to keep all control:

- `indexed_data` is reduced to whether a request carries it; save_draft only
  writes it and is left out; timestamps, audit rows and metrics are left out
  (StatusScripts has the audit rows its scripts read);
- a flag is a Boolean in `Workflow` and a count in `ConcurrentRequests`: who may
  close it and the notes do not change the control of any other handler;
- a QC rejection marks one field, minor or critical, of a document type that
  has fields: the verdict of an ISO lot only counts marks;
- one project, one document type, one cabinet: nothing in the modelled handlers
  relates two projects except 4xx tests;
- shift roles are constants of `Workflow` (`Indexers`, `QaAgents`) and state of
  `Staffing`, which in turn keeps of a task only what the role tests look at;
- `BatchStatus` has the three values a reachable handler writes.
  submit_batch, advance_to_indexing, advance_to_qa, advance_to_customer_qc,
  record_qc_result and reject_record_by_customer have no caller in `src/`;
  README.md:42 describes the state machine they would give.  evaluate_batch has
  no caller either; AqlEscalation says what its first caller gets;
- `DirectAssign` and `DirectFail` say whether clients also send two requests
  that the API takes and neither portal sends: POST /api/tasks/assign and
  POST /api/tasks/{id}/fail on an indexing task.  The properties hold for both
  values unless said otherwise;
- an S3 key is the number of its upload and its extension: the random part of
  record_image_key is what makes it fresh, and a converted file keeps it.  A file
  is a PDF, a TIFF, or a TIFF that Pillow refuses;
- Keycloak, S3, PostgreSQL's locks and the killing of a process are modelled from
  how the code uses them, and marked external in the map.

Operators whose name continues another's after an underscore, such as
`AfterFailure_OneMore`, are what that definition would be with one slip in the
code; no specification uses them, and every property fails with one of them.

## 3. Runs

Bounds are constants of the models.  An action that would exceed one is not taken.

| run | instance | what it shows |
|---|---|---|
| `one_record` | 1 record, 2 agents in both roles, 3 tasks, 2 batches, 1 version, direct assignment | the lock follows the work (`LockHasWorker`, `LockSpec`); no record is stranded by any sequence of supervisor and agent requests (`AllocatedIsWorkable`, `IndexingIsWorkable`, `QaRejectionHasRework`) |
| `shared_batch` | 2 records in one batch, 1 agent, 2 tasks each, indexing tasks may be failed | `QaPendingIsAssignable`, `FlagsHoldTheBatch`, and the refinement `LifecycleSpec` |
| `lot_of_two` | 2 QA-passed records, 1 lot | `NoVerdictWithoutReview`, `LotLifecycleSpec` |
| `lot_rework` | 1 record, 1 agent, 2 lots, 5 tasks, 3 batches, 1 version | `QcPendingHasOpenLot`, `QcRejectionIsAssignable`, `QcStrandsNoRecord`, through QC rejection, QA, then a QA rejection and rework, or a requeue and a new allocation, and a second lot |
| `overlapping_requests` | 2 records, 2 requests in flight, flags on 1 record | which stale commits can break `OneQaTask`, `NoIndexingInReview` and `CompleteWhenPassed`, and that nothing else does; who holds which row and that one flag is open (`CcTypeOK`); `RequestsEnd` |
| `services` | one TIFF, 2 served requests, 2 attempts, 3 keys, 2 failures; or 3 workers, 2 faults | `ReferencedObjectsExist`, `SuccessIsStored`, `OneUpdate`; `UploaderEnds`, `BackfillEnds`, `StartupEnds` |
| `operations` | 2 names of one realm and 2 requests; 2 emails, 2 realms, 2 calls; 2 users, 2 shifts, 1 task; 2 batch sizes and levels; 4 originals; a wipe beside up to 4 kinds of row; 1 record under scripts | `OrgHasRealm`, `RefusedForCause`, `DeactivatedStaysOut`, `MirrorAgrees`, `WorkerHoldsRole`, `LooserIsEarned`, `LooserLevelAcceptsMore`, `CopiedOnce`, `RerunPicksUp`, `WipeLeavesNothing`, `RefusedForVerdicts`, `ScriptsStrandNobody` |
| `last_passes`, `sampled_once`, `backfill_overwrites`, `wipe_fails`, `failed_backfill` | the modules above | five disagreements between code and its comments, below |

Why these bounds are enough to be interesting.  Three tasks let a record be
indexed, QA'd and reworked, or allocated, requeued and allocated again; two
agents are what a lock conflict needs; two records are what an aggregate
decision needs; two lots are what sampling a record twice needs.  Two requests
in flight are what a stale read and a circle of waits need; three workers are
two that wait for a third.  Three keys are an upload, its retry and a second run
of the uploader; two failures let one hit the recovery from another.  Two names
of one realm, four originals with one that has no file and one beyond the limit,
and three tasks of a record under scripts are the least in which those cases
exist; two batch sizes fall on different letters of the table, and a run of
seven passes is more than a setting of three asks for after a rejection.  Four
kinds of row are a batch, a record in it, a task, and one that arrives late or
refers to them; `wipe_fails` has five, for the lot that a verdict needs as well.

The type invariants also say what types alone do not: in `TypeOK` every batch that
a record or task refers to has been created and versions are numbered without a
gap; in `LotTypeOK` the sample is within the lot's members and only a lot that was
sampled has a sample or marks; in `CcTypeOK` a row is held by exactly the request
whose UPDATE of it is not committed, and an inserted flag is the only open one.

What stays open under overlap.  The three properties of `overlapping_requests`
name the stale commits that break them: two completions of one batch create two
QA tasks per record; a reopening that overlaps the completion leaves indexing work
in a batch in review; two last passes leave the batch there (`last_passes`).
Nothing in the code or its comments promises otherwise of the first two.  And with
no overlap at all, a finished indexing task that is submitted again while its
batch is in review or complete sets the record back to `indexed`, as `Workflow`
has it too; the properties allow for it.

Records and agents are interchangeable in `Workflow` and `LotQc`, so `Symmetry`
permutes them; no liveness property is checked with it.  The runs of `LotQc`
start where the workflow has one completed batch behind it (`MCInit`, a
reachable state of `Workflow`) and leave out flags and the reassignment of that
batch's tasks (`QcOnly`), which `shared_batch` and `one_record` explore; the
tasks may be submitted again.  `lot_rework` also leaves out lots without a record
(`ReworkOnly`), which `lot_of_two` has.

`RerunPicksUp` is checked with a candidate that has no file, which every run counts
as failed; the property is about the others, and about runs that end well and
those that die in their report.

`services` and `operations` each check parts that share no variable.  `focus`,
chosen in the initial state, says which part moves; the others stand still.  So
each part has all its behaviours, and none is multiplied by those of the
others.

Deadlock is checked in the runs of `Workflow`, `LotQc` and
`ConcurrentRequests`: some supervisor's tool is always available, some request
can always be sent.  It is not in the others, where the system may stop: an
uploader that is done, a wiped cabinet, a script that ended, failures and
attempts used up to their bound.

### Fairness

Where people act no fairness is assumed: what is next is up to them, and the
code promises only that work can be given out, which the invariants say.
Machines go on:

- `CcFairness`: a request that has begun takes its next statement.  It may wait
  for a row that requests keep taking, so the fairness is strong: PostgreSQL
  queues the waiters of a row.  Nothing makes anyone send a request.
- `IngestFairness`: the uploader's threads run and get their turn at the
  backend's slots (strong: the server takes connections in turn), the backend
  serves what it has begun, and the backfill goes through its records (weak:
  nobody takes these from them).  Failures, timeouts, reruns, views and the wipe
  are not fair.
- `SyncFairness`: a worker that starts goes on; for the advisory lock, which others
  take in between, the fairness is strong (PostgreSQL queues these too).

In `services` the same formulas are guarded by `focus`, so that the part that
stands still owes nothing.  `UploaderEnds` allows for the bound on keys;
`BackfillEnds` holds as long as Pillow reads every TIFF, since the script selects
again what it could not convert.

### Disagreements found

- `last_passes`: two agents pass a batch's last two records at the same time;
  neither transaction sees the other's record passed, so neither completes the
  batch, which stays in `qa_review` with nothing left to do in it
  (task_service.py:198, :213).
- `sampled_once`: a record can be sampled in two lots; then
  `_find_sampled_lot_record` raises at every verdict (task_service.py:224-228).
- `backfill_overwrites`: the TIFF backfill repoints a record that was uploaded
  again meanwhile to the PDF of the old scan, though it says it is safe beside
  live traffic (backfill_tiff_to_pdf.py:12, :66).
- `wipe_fails`: the wipe of a project with field verdicts is refused by a foreign
  key, and rolls back (wipe_project_data.py:204), also when nothing is written
  beside it.  What else makes the database refuse one are rows that the application
  commits between two of the DELETEs (`RefusedForVerdicts`).
- `failed_backfill`: a requeue closes an open QA task as failed, a supervisor
  reassigns it and the agent completes it; the backfill of failed tasks then writes
  failed over the completion, although no rejection was ever mis-recorded
  (backfill_task_failed_status.py:17-20, :92).  The run starts without the rows
  that the scripts were written for (`OldRows = FALSE`), which `operations` has.

Seen while modelling and not kept as runs: a record reworked after a QA rejection
ends `indexed` in a batch in `qa_review` with no QA task, until a supervisor
requeues it (task_service.py:415); its rework is versioned as `correction`, since
start_task has overwritten qa_failed (task_service.py:87, :130-141); a wipe that
reports success leaves the audit events of lots, and the batches, lots and records
made after their table was read (wipe_project_data.py:93-184, :209-223); fail_task on an indexing
task leaves the record without one (task_service.py:385); a switch to manual
sampling during an ISO lot's QC drops its marks (lot_service.py:315-317); a lot
whose rejected record passes QA again before the last review stays in QC
(lot_service.py:291); two uploads of one new file that overlap make two records,
after which every further upload of it answers 500 (cabinet_service's
scalar_one_or_none); the migration takes originals with one source identifier
and file name for one another.

## 4. Proofs

Every theorem is for all values of the constants, under the module's named
assumption about their types (`WorkflowAssumption`, `LotAssumption`,
`ConcurrentAssumption`, ...): any number of records, agents, requests, files,
workers, failures.

`WorkflowProofs`:

- `TypeCorrect`: the types of the columns are inductive, one lemma per action
  (`ColumnsTypedNext`).  Relative to them, every batch referred to is one that was
  created (`BatchesIssued`: batches are appended to, never removed), and the
  current version is one more than those kept (`VersionsNumbered`: only
  create_version writes either).
- `LockAlwaysHasWorker`: `LockHasWorker` is inductive relative to those types.  Every
  step but start_task frees a record's lock or keeps it together with the rows
  its holder works on (`FreesOrKeepsLock`).  `ImplementsLock` maps `locked_by`
  and the agents with a task in progress to `RecordLock`.
- `AlwaysWorkable`: the four invariants of stranded records are not inductive
  one by one (a requeue to QA relies on the record's batch, a QA rejection on the
  task it adds), so `Workable`, their conjunction record by record, is.  A step
  is argued only for the records it moves; every other one keeps its place
  (`PlaceKept`).  `IndexingStaysWorkable` needs `~DirectFail`, since fail_task on
  an indexing task leaves its record without one.
- `ImplementsLifecycle`: every step that writes a batch's status is a step of
  `BatchLifecycle`.
- `FlagsAlwaysHoldTheBatch`: needs `~DirectAssign` and the invariant
  `QaTasksLater`: a QA task belongs to a batch that has left indexing, so
  completing it cannot close one that is still in indexing.

`LotQcProofs` carries this over to customer QC.  It EXTENDS `WorkflowProofs`
and argues only about the new actions:

- `LotTypeCorrect`: needs that the tables of `AqlTables` answer for every lot size
  and AQL level, and `LotAssumption` (finitely many records).  `BatchesIssued` and
  `VersionsNumbered` are carried over to the actions of QC, and `SamplesFit` is
  inductive because only release_lot leaves draft and only apply_sample, which
  draws from the members, leaves released.
- `QcPendingKeepsOpenLot`: only apply_sample makes a record wait for QC, and a
  verdict moves a lot only when none of its sampled records waits, so
  `QcPendingHasOpenLot` is inductive relative to the types.
- `LotAlwaysWorkable`: `Workable` again, with the place of a record QC rejected as
  its fifth part.  `QcNeverStrandsARecord` (with `~DirectFail`) and
  `QcRejectionStaysAssignable` follow from it.
- `LotLockAlwaysHasWorker`: the actions of QC also free locks or keep them with
  their worker.
- `ImplementsLotLifecycle`: calculate_accuracy tests no status, so the proof needs
  `SampledLots` (only a lot that entered QC has a sample) and the assertion of
  `_find_sampled_lot_record` (at most one lot per verdict).
- `VerdictsFollowReviews`: from `ReviewedHadAgent` (only a verdict on a QC task
  gives a QC status) and `RowsStay` (task rows are never deleted or retyped).
- `QcImplementsLock`, `QcImplementsLifecycle`: a QC step takes no lock from anyone
  and opens batches without moving any, so the refinements of `Workflow` are
  `LotQc`'s too.
- `QcFlagsHoldTheBatch`: customer QC opens its batches in indexing, so that
  `QaTasksLater` had to be argued for each row it leaves behind (`QcRows`): a row
  is an old one, a QC task, or the QA task of a rejected record in a batch that
  it opens in QA.

`ConcurrentProofs`: the invariant is `CcInv`.  `Shaped` says what a request has read
at each of its steps and which rows it holds.  `Current` says what a request has
decided from (`Decided`) and that a request that is not stale still has what is
committed in every row it has read (`Knows`): a commit makes every other reader of
the row stale.  `QaPhase`, `IndexingPhase` and `LastPass` say what the batch's
phases keep, each up to the stale commits that break it, so that the property
that follows from it is shown to fail by no others.  The rows held and the open
flags need no excuse: the wait for an uncommitted flag and the index are what
`InsertedIsAlone` follows from.

`IngestionProofs`: `ReferencedObjectsExist` is not inductive, because a commit
trusts an object put long before and the wipe deletes by a list made long before.
The invariant adds that a storage key has one owner, the record that points at
it, is being made with it or is about to be repointed to it (`Owned`): the keys
of the wipe's list belong to rows it has deleted.  `owner` is not a variable of
the program; the invariant quantifies it, and each step says how it changes.

`SuccessIsStored` and the type invariant need a second one on top of it,
`ServedInv`: every key is of an upload that was begun (`InBounds`), an upload
that is not done has tries left (`Tried`), and a slot that is heard serves the
record of its own file (`Answered`).  The bound on records is itself an argument
by counting: a pending upload may still add one record, and the records and the
pending uploads together never outnumber what was begun.

`KeycloakProofs`:

- provisioning: what a request has made in Keycloak at each step
  (`MadeInKeycloak`), and the unique index on an uncommitted row (`SlugHeld`).
- `DeactivatedExcluded` and `AccountsAgree`: neither property is inductive, since a
  deactivated row and the account it names are written by different requests
  that overlap.  `AccountsInv` adds that two rows never share an account
  (`SubsUnique`), that a request between Keycloak and the database holds an
  account that exists (`RequestsHold`), that each account outside `drifted` is
  updated by one request at a time, which has it as its own (`OneUpdater`), and
  that in between the account is what that request has told it (`AgreesSoFar`).
  `DisabledHasRow` is what the CLI's provisioning relies on, which enables the
  service account without a look at the rows.

`ScriptProofs`:

- `WipedClean`: the database keeps every reference between the rows in the scope
  (`Parents`), through the DELETEs and through the application's inserts.  Of the
  tables the script has been through only rows committed since the first DELETE are
  left, and no batches, lots and records, whose ids were all read before (`Behind`);
  so at the end there is nothing left for a row to refer to, and only audit events,
  which no foreign key holds, remain (`ScopeIsGone`).
- `RefusalsAreForVerdicts`: what blocks a DELETE is in a table that the script named
  earlier, and then late, or in one that it does not name: a flag, which goes with
  its record, or a verdict (`HeldUpByVerdicts`).
- `MigrationCopiesOnce`: what a run still has to do has no copy yet.
  `MigrationCoversIdentities` says that a run that goes through to its end leaves
  the identity of each candidate that it does not count as failed in the target.  `RerunPicksUp`, which speaks of the
  originals, follows only where identities are unique (`IdentityIsUnique`, which
  the instance of `operations` satisfies and nothing in the code enforces), so
  `MigrationPicksUp` assumes it.
- `NobodyStranded`: a record that waits for QA has an open QA task that the failed
  backfill has not loaded (`WaitsWithTask`), since it gets to wait for QA only with
  a new task.  A record that waits for customer QC has its lot in QC, where
  rollback_lot does not touch it, or was sampled while that script ran.

`OperationsProofs`: a role moves only where nobody's open work depends on it
(`RolesStay`); each counted pass is one of the run (`CountedOnce`); and,
separately, the nearest column of the table is monotone in the level, so that
`LooserLevelsAcceptMore` needs no bound on sizes or levels.  The composition is
argued once: a behaviour of `MCOperations` is a behaviour of each of its parts
(`OperationsImplementParts`), so every theorem about a part holds of it
(`OperationsTyped`, `OperationsKeepPromises`, `LooserLevelsAcceptMoreHere`).

`ServicesProofs`: at most one worker is between taking and giving back the lock
(`LockedInside`), and an update made or under way counts for all (`OneForAll`).
The parts of `MCServices` have fairness of their own, which the composition
guards by `focus`, so there the invariants are composed instead of the
specifications (`ServicesInvariant`).

Every invariant and every refinement that a passing run checks is now also a
theorem, and so is its only other action property.  Assumptions beyond those on
the types of constants are in the statements: `~DirectAssign` (`FlagsHoldTheBatch`),
`~DirectFail` (`IndexingIsWorkable`, `QcStrandsNoRecord`) and `IdentityIsUnique`
(`RerunPicksUp`).  Only model-checked are the liveness properties (`RequestsEnd`,
`UploaderEnds`, `BackfillEnds`, `StartupEnds`), since the prover does not reason
about fairness, and the five violations.

## 5. Not modelled, and the plan

Left out for good: pixels and presigned URLs, token signatures, the audit log
and analytics (written or read, never decided on), the portals' rendering, the
gateway and observability configuration, and exports.

Left out so far:

- overlapping requests other than those of `ConcurrentRequests`: two starts of one
  record, two allocations, two QC batches or verdicts of a lot, a requeue or
  reassignment in between; in `Staffing` too requests are serial, so that a role
  test that races a hand-out is not covered;
- locks and batches in `StatusScripts`: a stale unlock by a script, or a record that
  a script pulls out of a batch or a sampled lot, would not be seen there;
- a second run of the wipe, and more of `Kinds` at a time than `MaxRowKinds`;
- an empty lot, a batch of nothing but skipped records, a mode switch between
  sampling and verdict;
- update_user moving a user to another organisation, whose mirroring then
  addresses another realm; the cache of signing keys in `security`;
- what follows from a project that provision_bucket reports ready although its
  organisation's bucket failed (s3_service.py:92-94);
- `--order random` of the migration, dry runs and reports of all scripts.

Plan for what is next, in this order:

1. `ConcurrentRequests` for lots: sampling, QC batches and the last verdicts, with
   the same transaction model, and the lock column under two starts.
2. `Staffing` composed with `Workflow`, the roles as state.
3. Proofs: an abstract, serial specification of the requests of
   `ConcurrentRequests`, and that the overlapping ones implement it until a stale
   commit; what each of the five violations leaves true.
