SPECIFICATION FairSpec
CONSTANTS
    NSteps = 3
    Dirs <- MCDirs
    BuildDirs <- MCBuildDirs
    PrefixDirs <- MCPrefixDirs
    SaveOrder <- MCSaveOrder
    Writes <- MCWrites
    Needs <- MCNeeds
    Configs <- ManyConfigs
    MaxRuns = 2
INVARIANTS
    TypeOK
    ExactStart
    OnlyUnsavedMissing
    RunsAsAsked
PROPERTIES
    EndsAsAsked
    LoadSucceeds
    KeepsCheckpoints
    ReachesGoal
CHECK_DEADLOCK FALSE
