\* One hook; one edit or deletion, one crash of the operator and one failed call or pod, at any
\* point; the Scan ends because it is removed, so it may stop without a deadlock.
CONSTANTS
    HookNames <- OneHookName
    HookLists <- OneHook
    InitialFinalizers = {{}}
    MaxJobs = 2
    MaxEdits = 1
    HasTTL = TRUE
    JobTTL = FALSE
    Deadline = FALSE
    Resyncs = TRUE
    JobsVisible = TRUE
    MaxCrashes = 1
    MaxFaults = 1
    WindowQuiet = FALSE
SPECIFICATION Spec
INVARIANTS OneJobOfEachKind StateMatchesFiles
PROPERTIES DoneScanIsCleanedUp
CHECK_DEADLOCK FALSE
