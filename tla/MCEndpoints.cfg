SPECIFICATION Spec
CONSTANTS
    Starts <- MCStarts
    SupportedVersions <- MCSupportedVersions
    QueueSize = 1
CHECK_DEADLOCK FALSE
INVARIANTS
    LiveInTable
    DialsBestVersion
    NoSessionAfterServe
PROPERTY
    GoroutinesEnd
