SPECIFICATION Spec
CONSTANTS
    None = None
    Slots = {s1}
    Binaries = {hello}
    SshMayFail = FALSE
    MaxScripts = 5
    MaxInterrupts = 1
INVARIANTS
    TypeOK
    EverySessionIsRecorded
    DisableEndsTheSession
PROPERTIES
    EveryScriptEnds
