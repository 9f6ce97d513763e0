SPECIFICATION Spec
CONSTANTS
    Null = Null
    Capacity = 1
    Threads = {t1, t2}
    Streams = {s1, s2}
    Loggers <- MCLoggerOne
    Levels = {4}
    Pieces <- MCPiecesTwo
    RecordCapacity = 47
    MinInteger <- MCMinInteger
    MaxInteger = 63
    MsPerSecond = 10
    MinSecond <- MCMinSecond
    MaxSecond = 2
    Clocks <- MCClocksTwo
    Pid = 1
    MaxRecords = 2
    MaxInsertions = 3
INVARIANTS
    TypeOK
    RecordsDoNotInterleave
PROPERTIES
    ImplementsRecordLog
