SPECIFICATION Spec
CONSTANTS
    Keys = {k1, k2}
    MaxRank = 1
    Batches = {b1, b2}
    Contents <- OneFinding
    Streams = {}
    Complete = complete
    Kill = kill
    WorkerCounts <- OnlyNull
PROPERTY HighestSeverityKept
CHECK_DEADLOCK FALSE
