SPECIFICATION Spec
CONSTANTS
    None = None
    Sources = {1}
    RunIds = {r1, r2, r3}
    Digests = {d1, d2}
    Blocked = {}
    MaxWrites = 1
    MaxTime = 0
    Tokens = {t1}
    Ids = {i1}
    Ttl = 1
    Maximum = 1
    Calls = {c1, c2}
    Backlog = 2
    StaleSeconds = 1
    DelayWindow = 2
    Configs <- SyncConfigs
SYMMETRY Symmetry
INVARIANTS
    MutualExclusion
PROPERTIES
    HistoryIsTruthful
    PlanStaysCurrent
