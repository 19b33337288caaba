SPECIFICATION WorkerSystemSpec
CONSTANTS
    None = None
    Sources = {s1, s2}
    RunIds = {r1, r2}
    Digests = {d1, d2, d3}
    Blocked = {d3}
    MaxWrites = 2
    MaxTime = 1
    Tokens = {t1}
    Ids = {i1, i2}
    Ttl = 1
    Maximum = 1
    Calls = {c1, c2, c3}
    Backlog = 2
SYMMETRY Symmetry
INVARIANTS
    WorkerTypeOK
    SingleUse
    WritesAreReviewed
    AnswersAreHonest
