SPECIFICATION SchedulerFairSpec
CONSTANTS
    None = None
    Sources = {1, 2}
    RunIds = {r1, r2, r3, r4}
    Digests = {d1}
    Blocked = {}
    MaxWrites = 2
    MaxTime = 0
    StaleSeconds = 1
    DelayWindow = 2
    Configs <- FastConfigs
INVARIANTS
    SchedulerTypeOK
    FailuresAreIsolated
    ExitStatusIsHonest
PROPERTIES
    TickReleasesLock
