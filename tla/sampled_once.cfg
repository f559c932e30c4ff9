\* A record of two lots against task_service.py:224.
SPECIFICATION MCSpec
CONSTANTS
    r1 = r1
    a1 = a1
    Records = {r1}
    Agents = {a1}
    Indexers = {a1}
    QaAgents = {a1}
    NoOne = NoOne
    SkipChoices = {}
    DirectAssign = FALSE
    DirectFail = FALSE
    MaxTasks = 4
    MaxBatches = 3
    MaxVersions = 0
    MaxLots = 2
    AqlLevel = 150
CONSTRAINT QcOnly
SYMMETRY Symmetry
INVARIANTS
    SampledOnce
