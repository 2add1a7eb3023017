\* One deletion, at any point.
CONSTANTS
    HookNames <- NoHookNames
    HookLists <- NoHooks
    InitialFinalizers = {{}}
    MaxJobs = 1
    MaxEdits = 1
    HasTTL = FALSE
    JobTTL = FALSE
    Deadline = FALSE
    Resyncs = FALSE
    JobsVisible = TRUE
    MaxCrashes = 0
    MaxFaults = 0
    WindowQuiet = FALSE
SPECIFICATION Spec
INVARIANTS FilesGoneWithScan
CHECK_DEADLOCK FALSE
