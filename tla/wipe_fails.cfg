\* The wipe of a project whose lots have been reviewed field by field.
SPECIFICATION PurgeSpec
CONSTANTS
    MaxRowKinds = 5
INVARIANTS
    WipeIsNeverRefused
CHECK_DEADLOCK FALSE
