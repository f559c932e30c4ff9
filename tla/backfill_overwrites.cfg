\* The backfill script beside an upload of the same file.
SPECIFICATION IngestSpec
CONSTANTS
    q1 = q1
    q2 = q2
    Files = {"scan"}
    FileKind <- MCFileKind
    Slots = {q1, q2}
    MaxTries = 2
    MaxKeys = 3
    MaxImages = 1
    MaxFailures = 2
PROPERTIES
    BackfillIsSafe
CHECK_DEADLOCK FALSE
