SPECIFICATION Spec
CONSTANTS
    Null = Null
    Configurations = {c1, c2}
    Children = Children
    Modes = {"OFF", "ON"}
    Proofs <- MCProofs
    Holds <- MCHolds
    MaxVersion = 2
    MaxActions = 4
    EditsDuringProof = FALSE
CHECK_DEADLOCK FALSE
INVARIANTS
    TypeOK
    OneInstallation
    GateIsSound
PROPERTIES
    EveryConfigurationEnds
