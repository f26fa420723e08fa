\* The wall clock is set back over the begin of an hour.
SPECIFICATION Spec
CONSTANTS
    NumStreams = 1
    Capacity = 2
    ClockFaults = {"back"}
    MaxRecords = 2
    MaxHour = 1
    MaxRuns = 1
    NoFile = NoFile
    Shutdown = Shutdown
PROPERTY FinalizedIsImmutable
CHECK_DEADLOCK FALSE
