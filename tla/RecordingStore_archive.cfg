\* Recordings kept locally and archived to WebDAV.
SPECIFICATION Spec
CONSTANTS
    Segment = {1, 2}
    Settings <- ArchiveSetting
    Capacity = 2
    MaxRuns = 1
    MaxFaults = 0
PROPERTY RetentionHonoured
CHECK_DEADLOCK FALSE
