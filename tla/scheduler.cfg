SPECIFICATION FairSpec
CONSTANTS
    Configs <- AllPools
    MaxWorkers = 3
    MaxJobs = 3
INVARIANT JobConserved
INVARIANT IdleMeansDone
INVARIANT SpawnedWithinRange
PROPERTY EveryJobRuns
PROPERTY TeardownEnds
CHECK_DEADLOCK FALSE
