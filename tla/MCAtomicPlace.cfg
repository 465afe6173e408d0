\* The default options, nobody killed, one run's sibling worker fails fatally.
CONSTANTS
    r1 = r1
    r2 = r2
    Run = {r1, r2}
    Options <- MCDefault
    MaxAttempts = 1
    WorkersOutlive = TRUE
    MaxCrashes = 0
SPECIFICATION Spec
INVARIANT AtomicallyPlaced
