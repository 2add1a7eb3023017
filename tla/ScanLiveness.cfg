\* Two edits (a suspension and its end, or a deletion in between), outside the window of
\* WindowQuiet.
CONSTANTS
    HookNames <- OneHookName
    HookLists <- OneHook
    InitialFinalizers = {{}}
    MaxJobs = 1
    MaxEdits = 2
    HasTTL = FALSE
    JobTTL = FALSE
    Deadline = FALSE
    Resyncs = FALSE
    JobsVisible = TRUE
    MaxCrashes = 0
    MaxFaults = 0
    WindowQuiet = TRUE
SPECIFICATION FairSpec
PROPERTIES EveryScanFinishes DeletionCompletes
CHECK_DEADLOCK FALSE
