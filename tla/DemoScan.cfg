SPECIFICATION DemoSpec
CONSTANTS
    Scans = {j1, j2, j3}
    Streams = {s1}
    Domains = {d1}
    Ips = {i1}
    SomePages = {}
    SomeHandshakes = {}
    SomeNets <- MCNets
    Slow = {"dkim_record"}
    RATE_LIMIT_MAX = 2
    RATE_LIMIT_WINDOW = 1
    CACHE_TTL = 1
    MaxTime = 2
    MaxRestarts = 1
INVARIANTS DemoTypeOK StreamsTellTheWhole CacheIsFaithful
PROPERTY ScansEnd
CHECK_DEADLOCK FALSE
