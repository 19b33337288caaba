SPECIFICATION SchedulerSystemSpec
CONSTANTS
    None = None
    Sources = {1}
    RunIds = {r1}
    Digests = {d1, d2}
    Blocked = {d2}
    MaxWrites = 1
    MaxTime = 0
    StaleSeconds = 1
    DelayWindow = 2
    Configs <- FastConfigs
INVARIANT BlockedPlanNotWritten
