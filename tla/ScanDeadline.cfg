\* The scanner Job has an activeDeadlineSeconds.
CONSTANTS
    HookNames <- NoHookNames
    HookLists <- NoHooks
    InitialFinalizers = {{}}
    MaxJobs = 1
    MaxEdits = 0
    HasTTL = FALSE
    JobTTL = FALSE
    Deadline = TRUE
    Resyncs = FALSE
    JobsVisible = TRUE
    MaxCrashes = 0
    MaxFaults = 0
    WindowQuiet = TRUE
SPECIFICATION FairSpec
PROPERTIES EveryScanFinishes
CHECK_DEADLOCK FALSE
