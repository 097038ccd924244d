\* Up to two segments, every kind of setting, two faults.
SPECIFICATION FairSpec
CONSTANTS
    Segment = {1, 2}
    Settings <- EverySetting
    Capacity = 1
    MaxRuns = 2
    MaxFaults = 2
INVARIANTS
    Reachable
PROPERTIES
    RetentionWorks
    SegmentsRecorded
CHECK_DEADLOCK FALSE
