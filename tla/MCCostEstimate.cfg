CONSTANTS
    Key = {1, 2}
    LastDay = 3
    Missing <- MCMissing
    MaxWorkers = 2
    MaxAttempts = 2
SPECIFICATION FairSpec
INVARIANTS
    TypeOK
    EveryDayOnce
    OneRangePerGap
    RetriesBounded
PROPERTIES
    EstimateEnds
