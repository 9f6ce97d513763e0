SPECIFICATION HelloSpec
CONSTANTS
    Null = Null
    main = main
    Threads = {main}
    Loggers = {l1, l2, l3}
    context <- MCContext
    Inputs <- MCInputs
    CallsPerThread = 2
    UniqueIds = {"HELLO"}
INVARIANTS
    OnlyTheMutexTerminates
PROPERTIES
    HelloEnds
