SPECIFICATION WorkerFairSpec
CONSTANTS
    None = None
    Sources = {s1}
    RunIds = {r1, r2}
    Digests = {d1}
    Blocked = {}
    MaxWrites = 1
    MaxTime = 0
    Tokens = {t1}
    Ids = {i1}
    Ttl = 1
    Maximum = 1
    Calls = {c1, c2, c3}
    Backlog = 2
PROPERTIES
    CallsAnswered
    LockReleased
