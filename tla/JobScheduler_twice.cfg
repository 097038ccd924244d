CONSTANTS
    r1 = r1
    r2 = r2
    s1 = s1
    Replica <- TwoReplicas
    Schedule <- OneSchedule
    Period = 2
    MaxTime = 3
    MaxCrashes = 0
SPECIFICATION SchedulerSpec
INVARIANT OncePerTick
CHECK_DEADLOCK FALSE
