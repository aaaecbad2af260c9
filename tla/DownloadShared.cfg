SPECIFICATION Spec
CONSTANTS
    Builds = {b1, b2}
    Files <- OneFile
    Plan <- OnePlan
    FromCVS <- NoFiles
    ActiveOnly <- NoFiles
    Options <- AllOptions
    SameFS = FALSE
    Cleanable <- NoFiles
    MaxFaults = 0
INVARIANTS
    Settled
PROPERTIES
    NeverLost
