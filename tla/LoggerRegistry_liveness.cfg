SPECIFICATION Spec
CONSTANTS
    c1 = c1
    c2 = c2
    d1 = d1
    d2 = d2
    Null = Null
    Threads = {t1, t2, t3}
    Loggers = {l1, l2}
    Inputs <- MCInputsTwo
    CallsPerThread = 1
    UniqueIds <- MCUniqueIds
PROPERTIES
    EveryCallEnds
    ShutdownEnds
