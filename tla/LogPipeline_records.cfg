SPECIFICATION Spec
CONSTANTS
    Null = Null
    Capacity = 2
    Threads = {t1}
    Streams = {s1, s2}
    Loggers <- MCLoggers
    Levels = {4}
    Pieces <- MCPieces
    RecordCapacity = 48
    MinInteger <- MCMinInteger
    MaxInteger = 63
    MsPerSecond = 10
    MinSecond <- MCMinSecond
    MaxSecond = 2
    Clocks <- MCClocks
    Pid = 1
    MaxRecords = 2
    MaxInsertions = 3
INVARIANTS
    StreamHoldsExactlyItsRecord
    LinesAreExact
