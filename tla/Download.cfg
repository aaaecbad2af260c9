SPECIFICATION FairSpec
CONSTANTS
    Builds = {b1}
    Files <- BothFiles
    Plan <- BothPlan
    FromCVS <- CVSFile
    ActiveOnly <- NoFiles
    Options <- EveryOption
    SameFS = TRUE
    Cleanable <- OneFile
    MaxFaults = 2
INVARIANTS
    LocalWhole
PROPERTIES
    Retrieved
    NeverLost
    Recovers
