SPECIFICATION Spec
CONSTANTS
    Hosts = {h1}
    Adds = {a1, a2}
    Verifies = {v1, v2}
    Removes = {m1}
    Scans = {s1, s2}
    Admin = {s2}
    MaxTargets = 1
    Concurrency = 1
    MonthlyScans = 1
SYMMETRY RequestSymmetry
INVARIANTS TypeOK ScannedHostsWereProved JobsKeepTheirTarget
CHECK_DEADLOCK FALSE
