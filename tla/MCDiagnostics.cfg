SPECIFICATION FairDiagSpec
CONSTANTS
    t1 = t1
    t2 = t2
    Threads <- MCThreads
    QueueCap = 2
    MaxFileSize = 1
    MaxFiles = 2
    MaxRecords <- MCRecords
    MaxInits = 2
    MaxFaults = 2
PROPERTY InitReturns
PROPERTY QueueMoves
INVARIANT LogSound
INVARIANT ReportSound
PROPERTY ReportOnce
