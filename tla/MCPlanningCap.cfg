\* The smallest plan whose cents round up past the cap: a bucket of three
\* partitions estimated at 1.5 cents, one of one partition at 0.5 cents, cap 2.
CONSTANTS
    k1 = k1
    k2 = k2
    Key = {k1, k2}
    Work <- MCWork
    MaxWorkers = 2
    BucketCap = 100
    AllowBurst = FALSE
    ExpectedWeekdays <- MCWeekdays
    SuspiciousWeekdays = 3
    Caps = {2}
    Mills = {5, 15}
SPECIFICATION Spec
INVARIANT ThrottlingOnlyWaits
