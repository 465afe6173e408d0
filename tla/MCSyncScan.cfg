\* One machine pushes with --delete; a scan may miss files it cannot read.
CONSTANTS
    r1 = r1
    r2 = r2
    m1 = m1
    m2 = m2
    p1 = p1
    old = old
    large = large
    Run = {r1, r2}
    Machine = {m1}
    Part = {p1}
    Content = {old, large}
    Size <- MCSize
    Archives <- MCArchives
    Buckets <- MCBuckets
    Configs <- MCPushMirror
    MaxWorkers = 2
    Unreadable = TRUE
SPECIFICATION Spec
PROPERTY DeletesOnlyExtraneous
