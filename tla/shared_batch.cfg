\* Two records of one batch.
SPECIFICATION Spec
CONSTANTS
    r1 = r1
    r2 = r2
    a1 = a1
    Records = {r1, r2}
    Agents = {a1}
    Indexers = {a1}
    QaAgents = {a1}
    NoOne = NoOne
    SkipChoices = {"withdrawn"}
    DirectAssign = FALSE
    DirectFail = TRUE
    MaxTasks = 2
    MaxBatches = 1
    MaxVersions = 1
SYMMETRY Symmetry
INVARIANTS
    QaPendingIsAssignable
PROPERTIES
    LifecycleSpec
    FlagsHoldTheBatch
