\* Two deliverers and two notices; two files; two replicas and one schedule.
SPECIFICATION DeliveriesSpec
CONSTANTS
    r1 = r1
    r2 = r2
    s1 = s1
    Notice = {1, 2}
    Deliverer = {"a", "b"}
    NotifyBatch = 2
    NotifyAttempts = 2
    MaxNotifyFaults = 2
    File = {1, 2}
    PresignTTL = 1
    SweepMinAge = 1
    SweepBatch = 1
    MaxFileFaults = 2
    Replica <- TwoReplicas
    Schedule <- OneSchedule
    Period = 2
    MaxTime = 5
    MaxCrashes = 1
INVARIANTS
    CallsShown
    SweptOnlyAbandoned
    OncePerReplica
    PausedFiresOnce
PROPERTIES
    OutboxDrains
    OrphanSwept
    DueScheduleFires
CHECK_DEADLOCK FALSE
