SPECIFICATION JobSpec
CONSTANTS
    Release = {r1, r2}
    Legacy = legacy
    Absent = absent
    Partial = partial
    compose = compose
    template = template
    check = check
    File = {compose, template, check}
    Compose = compose
    Check = check
    Required = {compose, check}
    Order <- InstallOrder
    Removed <- PartOfFiles
    MaxTroubles = 1
SYMMETRY Symmetry
INVARIANTS
    JobTypeOK
    SnapshotNeverLost
    ReplacedReleaseRecoverable
    OneRelease
    SessionUndone
PROPERTIES
    StoreSpec
    InstallsUploaded
