\* One ScheduledScan, its Scans and their ScanType: fairness, all properties.
CONSTANTS
    Configs <- Schedules
    Day = 4
    MaxTime = 2
    Quiet = TRUE
SPECIFICATION FairSpec
INVARIANTS TypeOK NoWakeUpIsLost
PROPERTIES ForbidNeverOverlaps HistoryKept SummaryNeverGoesBack ScheduleCatchesUp HistoryTrimmed ScanTypeChangeIsScanned ReplacedByAnother
\* The clock stops at MaxTime.
CHECK_DEADLOCK FALSE
