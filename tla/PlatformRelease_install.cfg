SPECIFICATION Spec
CONSTANTS
    Missing = Missing
    Metadata <- MCMetadata
    MaxCommits = 2
    MaxBuilds = 2
    MaxRuns = 3
CHECK_DEADLOCK FALSE
INVARIANTS
    TypeOK
    PublishedReleaseIsComplete
    InstalledPlatformIsOneRelease
    FailedInstallIsAllOrNothing
PROPERTIES
    PublishedAssetsChangeOnlyDeliberately
