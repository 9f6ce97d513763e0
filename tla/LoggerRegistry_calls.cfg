SPECIFICATION Spec
CONSTANTS
    c1 = c1
    c2 = c2
    d1 = d1
    d2 = d2
    Null = Null
    Threads = {t1, t2}
    Loggers = {l1, l2, l3}
    Inputs <- MCInputs
    CallsPerThread = 2
    UniqueIds <- MCUniqueIds
INVARIANTS
    TypeOK
    ListIsGuarded
    ListShape
    EveryBlockIsOwned
    ReferencesAreValid
    LookupNeverRefusesARegisteredContext
PROPERTIES
    PublishedIsImmutable
    ImplementsContextRegistry
