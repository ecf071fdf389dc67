SPECIFICATION FairSpec
CONSTANTS
    BeatAfter = 0
    DropAfter = 1
    MaxInit = 2
    MaxJobs = 0
CHECK_DEADLOCK FALSE
INVARIANTS TypeOK OneCaller TokensBounded FirstInitIsTrue
PROPERTIES TriedBeforeDropped UsbCallsReturn
