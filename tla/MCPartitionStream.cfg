\* A cut-off of two units of bytes, a stream that breaks off after two.
CONSTANTS
    p1 = p1
    p2 = p2
    Partition = {p1, p2}
    Instrument = {0, 1, 2}
    Timestamp = {0, 1, 2, 3}
    StartNs = 1
    EndNs = 3
    ChunkLength = 2
    MinDeepCap = 2
    Options <- MCOptions
    Streams <- MCStreams
    Error <- MCError
    Allotted <- MCAllotted
    MaxAttempts = 3
    Cutoff = 2
    MaxBytes = 2
SPECIFICATION FairSpec
INVARIANTS
    TypeOK
    RestartsSmall
    AttemptsReported
PROPERTIES
    StrictExact
    CallsEnd
