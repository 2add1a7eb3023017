\* The Scan has a TTL; one edit (a suspension that is never lifted, or a deletion), one crash of
\* the operator and one failed call or pod, at any point.
CONSTANTS
    HookNames <- NoHookNames
    HookLists <- NoHooks
    InitialFinalizers = {{}}
    MaxJobs = 1
    MaxEdits = 1
    HasTTL = TRUE
    JobTTL = FALSE
    Deadline = FALSE
    Resyncs = FALSE
    JobsVisible = TRUE
    MaxCrashes = 1
    MaxFaults = 1
    WindowQuiet = TRUE
SPECIFICATION FairSpec
PROPERTIES EveryScanFinishes FinishedScanIsRemoved
CHECK_DEADLOCK FALSE
