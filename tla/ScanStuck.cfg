\* One edit, also between the creation of a Job and its record in the status.
CONSTANTS
    HookNames <- NoHookNames
    HookLists <- NoHooks
    InitialFinalizers = {{}}
    MaxJobs = 1
    MaxEdits = 1
    HasTTL = FALSE
    JobTTL = FALSE
    Deadline = FALSE
    Resyncs = FALSE
    JobsVisible = TRUE
    MaxCrashes = 0
    MaxFaults = 0
    WindowQuiet = FALSE
SPECIFICATION FairSpec
PROPERTIES EveryScanFinishes
CHECK_DEADLOCK FALSE
