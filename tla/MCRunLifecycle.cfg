SPECIFICATION Spec
CONSTANTS
    Key = {"es", "nq"}
    LastDay = 1
    FirstDay <- MCFirstDay
    Weekdays = {0, 1}
    SuspiciousWeekdays = 2
    HighVolume = {"nq"}
    Mills = {4, 15}
    RotateOver = 1
    Job = {"all", "checked", "after", "audit", "free", "preview", "zero", "uncapped"}
    Invocations <- MCInvocations
    Archives <- MCArchives
    Buckets <- MCBuckets
    MaxRuns = 3
INVARIANTS TypeOK ZeroMeansCovered LedgerTells ManifestAgrees
PROPERTIES SpendsOnlyAsked HolesStay RunsKeepRecords
CHECK_DEADLOCK FALSE
