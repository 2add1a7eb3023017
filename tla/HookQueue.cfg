\* Lists of up to three hooks: the least in which two ReadAndWrite hooks and a ReadOnly
\* hook, or hooks of two priority classes of which one has two hooks, meet.
CONSTANTS
    MaxHooks = 3
    Priorities = {0, 1}
    MaxEdits = 1
    MaxLost = 1
SPECIFICATION FairSpec
INVARIANTS EveryHookOnce GroupsFollowPriority NoHookOvertakes NoHookRunsAgain DoneMeansSucceeded
PROPERTIES HooksFinish
\* The hooks finish.
CHECK_DEADLOCK FALSE
