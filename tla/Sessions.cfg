SPECIFICATION Spec
CONSTANTS
    Logins = {l1, l2}
    Refreshes = {r1, r2, r3}
    Logouts = {o1}
    Resets = {s1}
    Links = {k1}
    Grace = 0
    Ttl = 1
    MaxCalls = 5
    MaxTime = 2
SYMMETRY CallSymmetry
INVARIANTS TypeOK ReuseEndsFamily ResetEndsSessions ForksComeFromOneToken DuplicatesKeepSession
CHECK_DEADLOCK FALSE
