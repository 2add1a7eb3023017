\* Three hooks in two lists of mixed types and priorities, one crash, one failed call or pod, and
\* scanners that may run into their deadline.
CONSTANTS
    HookNames <- ThreeHookNames
    HookLists <- ThreeHooks
    InitialFinalizers = {{}}
    MaxJobs = 1
    MaxEdits = 0
    HasTTL = FALSE
    JobTTL = FALSE
    Deadline = TRUE
    Resyncs = FALSE
    JobsVisible = TRUE
    MaxCrashes = 1
    MaxFaults = 1
    WindowQuiet = FALSE
SPECIFICATION Spec
INVARIANTS HookJobsInOrder SummaryNeverAhead
PROPERTIES FollowsLifecycle
CHECK_DEADLOCK FALSE
