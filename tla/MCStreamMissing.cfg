\* 15 and 5 mills round up to 2 and 1 cents: with them the buckets' cents can
\* exceed a cap the rounded total meets (15 + 5 = 2.0 cents), so the cap binds.
CONSTANTS
    k1 = k1
    k2 = k2
    Key = {k1, k2}
    Work <- MCWork
    MaxWorkers = 2
    BucketCap = 100
    AllowBurst = FALSE
    ExpectedWeekdays <- MCWeekdays
    SuspiciousWeekdays = 3
    Caps = {2, 4}
    Mills = {5, 15}
SPECIFICATION FairSpec
INVARIANTS
    TypeOK
    InFlightWithinCap
    SpendWithinCap
    TotalsMatchFutures
    AllocationConserves
    AbortOnlyByRounding
    AccountingExact
    NoSilentEmptyBucket
    OrphansExplained
PROPERTIES
    DownloadEnds
