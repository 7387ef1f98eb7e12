SPECIFICATION FairSpec
CONSTANTS
    Keys = {k1, k2}
    MaxRank = 1
    Batches = {b1}
    Contents <- OneFinding
    Streams = {s1}
    Complete = complete
    Kill = kill
    WorkerCounts <- OnlyNull
PROPERTY SubscriberHearsTheEnd
CHECK_DEADLOCK FALSE
