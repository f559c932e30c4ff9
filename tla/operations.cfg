\* What surrounds the workflow: customers, accounts, staffing, AQL
\* rules, and the operators' scripts.
SPECIFICATION Spec
CONSTANTS
    Names = {"Acme Inc", "acme-inc"}
    Slug <- MCSlug
    q1 = q1
    q2 = q2
    OrgRequests = {q1, q2}
    SeedName = "Acme Inc"
    MaxProvFaults = 2
    cli = cli
    e1 = e1
    Service = Service
    CliEmail = cli
    Emails = {cli, e1}
    Realms = {"doc", "acme-inc"}
    c1 = c1
    c2 = c2
    Calls = {c1, c2}
    MaxRows = 2
    MaxDrifts = 1
    u1 = u1
    u2 = u2
    Users = {u1, u2}
    p1 = p1
    Projects = {p1}
    s1 = s1
    s2 = s2
    Shifts = {s1, s2}
    MaxJobs = 1
    BatchSizes = {8, 200}
    Defects = {0, 3, 20}
    PassesValues = {2, 3}
    LevelValues = {65, 400}
    MaxRun = 7
    Originals <- MCOriginals
    Identity <- MCIdentity
    Fileless = {2}
    Limit = 3
    MaxRowKinds = 4
    MaxUpsets = 2
    d1 = d1
    Docs = {d1}
    MaxDocTasks = 3
    MaxScripts = 2
    OldRows = TRUE
INVARIANTS
    OperationsTypeOK
    OrgHasRealm
    RefusedForCause
    DeactivatedStaysOut
    MirrorAgrees
    WorkerHoldsRole
    LooserIsEarned
    LooserLevelAcceptsMore
    CopiedOnce
    RerunPicksUp
    WipeLeavesNothing
    RefusedForVerdicts
    ScriptsStrandNobody
CHECK_DEADLOCK FALSE
