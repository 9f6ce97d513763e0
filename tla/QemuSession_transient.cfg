SPECIFICATION Spec
CONSTANTS
    None = None
    Slots = {s1}
    Binaries = {hello}
    SshMayFail = TRUE
    MaxScripts = 5
    MaxInterrupts = 0
INVARIANTS
    DisableEndsTheSession
