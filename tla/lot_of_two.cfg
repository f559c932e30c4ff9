\* A lot of two records, one lot.
SPECIFICATION MCSpec
CONSTANTS
    r1 = r1
    r2 = r2
    a1 = a1
    Records = {r1, r2}
    Agents = {a1}
    Indexers = {a1}
    QaAgents = {a1}
    NoOne = NoOne
    SkipChoices = {}
    DirectAssign = FALSE
    DirectFail = FALSE
    MaxTasks = 4
    MaxBatches = 3
    MaxVersions = 0
    MaxLots = 1
    AqlLevel = 150
CONSTRAINT QcOnly
SYMMETRY Symmetry
INVARIANTS
    LotTypeOK
    NoVerdictWithoutReview
PROPERTIES
    LotLifecycleSpec
