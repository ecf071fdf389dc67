SPECIFICATION Spec
CONSTANTS
    BeatAfter = 0
    DropAfter = 1
    MaxInit = 2
    MaxJobs = 0
CHECK_DEADLOCK FALSE
INVARIANT FailsOnlyIfSilent
