SPECIFICATION Spec
CONSTANTS
    Missing = Missing
    Metadata <- MCMetadata
    MaxCommits = 2
    MaxBuilds = 1
    MaxRuns = 2
CHECK_DEADLOCK FALSE
PROPERTIES
    RetryIsAccepted
