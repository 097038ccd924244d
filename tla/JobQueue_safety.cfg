CONSTANTS
    w1 = w1
    w2 = w2
    Worker <- TwoWorkers
    Job = {1, 2}
    BatchSize = 2
    MaxAttempts = {0, 1}
    DefaultLimit = 2
    Delays = {0, 1}
    CallTicks = 2
    TokenTicks = 0
    Minute = 1
    MaxAborts = 2
SPECIFICATION Spec
INVARIANTS
    TypeOK
    OneRecordingCaller
    SeenIsCurrent
    DoneWasAccepted
    AttemptsHonest
    CallsAccounted
PROPERTIES
    KeepsTheLedger
CHECK_DEADLOCK FALSE
