CONSTANTS
    w1 = w1
    w2 = w2
    Worker <- TwoWorkers
    Job = {1, 2}
    BatchSize = 2
    MaxAttempts = {0}
    DefaultLimit = 2
    Delays = {0}
    CallTicks = 1
    TokenTicks = 0
    Minute = 2
    MaxAborts = 1
SPECIFICATION FairSpec
PROPERTIES
    EventuallySettled
    FailedJobRests
CHECK_DEADLOCK FALSE
