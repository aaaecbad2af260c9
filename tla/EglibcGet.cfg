SPECIFICATION FairSpec
CONSTANTS
    NFiles = 4
    Saves = TRUE
    MaxFaults = 2
INVARIANTS
    Retrieved
PROPERTIES
    Recovers
