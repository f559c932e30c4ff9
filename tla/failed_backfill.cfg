\* A QA task that a requeue closed as failed, then reassigned and completed,
\* and the backfill of failed tasks.
SPECIFICATION ScriptsSpec
CONSTANTS
    d1 = d1
    Docs = {d1}
    MaxDocTasks = 3
    MaxScripts = 2
    OldRows = FALSE
INVARIANTS
    BackfillKeepsCompletions
CHECK_DEADLOCK FALSE
