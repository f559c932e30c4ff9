\* One record in two lots, rejected by QC, reworked by QA and indexing.
SPECIFICATION MCSpec
CONSTANTS
    r1 = r1
    a1 = a1
    Records = {r1}
    Agents = {a1}
    Indexers = {a1}
    QaAgents = {a1}
    NoOne = NoOne
    SkipChoices = {}
    DirectAssign = FALSE
    DirectFail = FALSE
    MaxTasks = 5
    MaxBatches = 3
    MaxVersions = 1
    MaxLots = 2
    AqlLevel = 150
CONSTRAINT ReworkOnly
SYMMETRY Symmetry
INVARIANTS
    QcRejectionIsAssignable
    QcStrandsNoRecord
    QcPendingHasOpenLot
