\* Workers may outlive their run's lock, so both runs may write at once.
CONSTANTS
    r1 = r1
    r2 = r2
    Run = {r1, r2}
    Options <- MCExtremes
    MaxAttempts = 2
    WorkersOutlive = TRUE
    MaxCrashes = 0
SPECIFICATION Spec
SYMMETRY MCSymmetry
INVARIANT FailuresClean
