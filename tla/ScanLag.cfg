\* The caches of the operator may lag behind the API server arbitrarily.  A Scan created by
\* an earlier release, with the legacy finalizer; one failed call or pod.
CONSTANTS
    HookNames <- OneHookName
    HookLists <- OneHook
    InitialFinalizers = {{"legacy"}}
    MaxJobs = 1
    MaxEdits = 0
    HasTTL = FALSE
    JobTTL = FALSE
    Deadline = FALSE
    Resyncs = FALSE
    JobsVisible = FALSE
    MaxCrashes = 0
    MaxFaults = 1
    WindowQuiet = FALSE
SPECIFICATION Spec
INVARIANTS TypeOK ScannerNeedsFinalizer
PROPERTIES FindingsOnlyFromJobs
CHECK_DEADLOCK FALSE
