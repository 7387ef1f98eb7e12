SPECIFICATION FairSpec
CONSTANTS
    Workers = {w1, w2}
    Cancels = {x1}
    MaxReports = 1
    MaxStalls = 1
    MaxFaults = 1
INVARIANTS TypeOK SingleWinner
PROPERTIES CancelSticks ClaimedJobsEnd
CHECK_DEADLOCK FALSE
