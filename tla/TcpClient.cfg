SPECIFICATION FairSpec
CONSTANT MaxJobs = 1
INVARIANTS TypeOK ConnectingHasOutcome ConnectedIsRead OneReader
PROPERTY BrokenIsGivenUp
