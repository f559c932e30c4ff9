\* One record passed between two agents.
SPECIFICATION Spec
CONSTANTS
    r1 = r1
    a1 = a1
    a2 = a2
    Records = {r1}
    Agents = {a1, a2}
    Indexers = {a1, a2}
    QaAgents = {a1, a2}
    NoOne = NoOne
    SkipChoices = {"withdrawn"}
    DirectAssign = TRUE
    DirectFail = FALSE
    MaxTasks = 3
    MaxBatches = 2
    MaxVersions = 1
SYMMETRY Symmetry
INVARIANTS
    TypeOK
    LockHasWorker
    AllocatedIsWorkable
    IndexingIsWorkable
    QaRejectionHasRework
PROPERTIES
    LockSpec
