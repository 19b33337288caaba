SPECIFICATION SchedulerSystemSpec
CONSTANTS
    None = None
    Sources = {1}
    RunIds = {r1, r2, r3, r4}
    Digests = {d1}
    Blocked = {}
    MaxWrites = 0
    MaxTime = 6
    StaleSeconds = 2
    DelayWindow = 2
    Configs <- CadenceConfigs
SYMMETRY Symmetry
PROPERTIES
    NoOverlap
    StartsOnCadence
