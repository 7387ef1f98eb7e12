SPECIFICATION FairSpec
CONSTANTS
    c1 = c1
    c2 = c2
    c3 = c3
    Users = {u1}
    Calls = {c1, c2, c3}
    KindsOf <- CallKinds
    Plans = {"starter", "business"}
    Caps <- StarterBusinessCaps
    Offered <- StarterBusinessOffers
    Asset <- CallAssets
    Enforced = {c1, c2}
    MaxPeriod = 1
    PeriodsPerYear = 2
INVARIANTS TypeOK CounterIsLedger CapsRespected RejectedOnlyWhenFull
PROPERTIES LedgerSpec EveryCallIsAnswered
CHECK_DEADLOCK FALSE
