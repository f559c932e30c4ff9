\* Uploads that time out and are sent again, by two runs of the uploader,
\* beside views, the backfill script and a wipe; or three workers starting up.
SPECIFICATION ServicesSpec
CONSTANTS
    q1 = q1
    q2 = q2
    Files = {"scan"}
    FileKind <- MCFileKind
    Slots = {q1, q2}
    MaxTries = 2
    MaxKeys = 3
    MaxImages = 1
    MaxFailures = 2
    w1 = w1
    w2 = w2
    w3 = w3
    Workers = {w1, w2, w3}
    NoWorker = NoWorker
    MaxFaults = 2
INVARIANTS
    ServicesTypeOK
    ReferencedObjectsExist
    SuccessIsStored
    OneUpdate
PROPERTIES
    UploaderEnds
    BackfillEnds
    StartupEnds
\* A wiped cabinet with every file done rests, and so do workers that are up.
CHECK_DEADLOCK FALSE
