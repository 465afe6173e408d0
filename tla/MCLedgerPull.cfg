SPECIFICATION Spec
CONSTANTS
    Key = {"es"}
    LastDay = 1
    FirstDay <- MCFirstDay
    Weekdays = {0, 1}
    SuspiciousWeekdays = 2
    HighVolume = {}
    Mills = {4, 15}
    RotateOver = 3
    Job = {"daily"}
    Invocations <- MCDaily
    Archives <- MCArchives
    Buckets <- MCBuckets
    MaxRuns = 4
PROPERTY AppendOnly
CHECK_DEADLOCK FALSE
