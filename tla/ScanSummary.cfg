\* One hook that may change the findings; one pod that fails and is retried.
CONSTANTS
    HookNames <- OneHookName
    HookLists <- OneHook
    InitialFinalizers = {{}}
    MaxJobs = 1
    MaxEdits = 0
    HasTTL = FALSE
    JobTTL = FALSE
    Deadline = FALSE
    Resyncs = FALSE
    JobsVisible = TRUE
    MaxCrashes = 0
    MaxFaults = 1
    WindowQuiet = FALSE
SPECIFICATION Spec
INVARIANTS DoneIsConsistent
CHECK_DEADLOCK FALSE
