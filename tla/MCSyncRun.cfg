\* Every file of the archives can be read.
CONSTANTS
    r1 = r1
    r2 = r2
    m1 = m1
    m2 = m2
    p1 = p1
    old = old
    large = large
    Run = {r1, r2}
    Machine = {m1, m2}
    Part = {p1}
    Content = {old, large}
    Size <- MCSize
    Archives <- MCArchives
    Buckets <- MCBuckets
    Configs <- MCConfigs
    MaxWorkers = 2
    Unreadable = FALSE
SPECIFICATION Spec
INVARIANTS
    TypeOK
    PairsKept
PROPERTIES
    MirrorImplemented
    VerifiedPull
    ManifestCurrent
SYMMETRY MCSymmetry
