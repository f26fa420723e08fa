\* Crashes of the process and of the machine, at any step, with recovery.
SPECIFICATION FairSpec
CONSTANTS
    NumStreams = 2
    Capacity = 2
    ClockFaults = {}
    MaxRecords = 2
    MaxHour = 1
    MaxRuns = 3
    NoFile = NoFile
    Shutdown = Shutdown
INVARIANTS TypeOK FinalFilesAreSound FilesKeepTheOrder OnlyTheRunIsOpen
PROPERTIES OnlyFailuresLose FlushedSurvives FinalizedIsImmutable MeetsDurableLog
    AcceptedReachesFile ShutdownEnds
CHECK_DEADLOCK FALSE
