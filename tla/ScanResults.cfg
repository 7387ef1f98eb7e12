SPECIFICATION Spec
CONSTANTS
    Keys = {k1, k2}
    MaxRank = 1
    Batches = {b1, b2}
    Contents <- OneOrTwoFindings
    Streams = {s1}
    Complete = complete
    Kill = kill
    WorkerCounts <- NullOrZero
SYMMETRY ResultsSymmetry
INVARIANTS TypeOK ReportsAreStored ComputedCountsMatch AnsweredErrorsKept
CHECK_DEADLOCK FALSE
