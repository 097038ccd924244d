\* Two requests in any order, in sequence or at once.
SPECIFICATION FairSpec
CONSTANTS
    Request = {1, 2}
    MaxReconnect = 2
    MaxStarts = 3
    MaxStreams = 2
INVARIANTS
    StreamsHeld
    DiesOnlyInHaste
    EnabledRuns
PROPERTY StopIsHeard
CHECK_DEADLOCK FALSE
