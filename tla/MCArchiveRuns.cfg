\* One process at a time is killed or one power loss strikes, at any step.
CONSTANTS
    r1 = r1
    r2 = r2
    Run = {r1, r2}
    Options <- MCOptions
    MaxAttempts = 2
    WorkersOutlive = FALSE
    MaxCrashes = 1
SPECIFICATION Spec
SYMMETRY MCSymmetry
INVARIANTS
    TypeOK
    WritersExclusive
    DestSound
    OpenNeverCollides
    SidecarTruthful
    ReportedHolds
PROPERTIES
    WrittenOnce
