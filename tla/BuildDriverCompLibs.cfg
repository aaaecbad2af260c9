SPECIFICATION Spec
CONSTANTS
    NSteps = 3
    Dirs <- MCDirs
    BuildDirs <- MCBuildDirs
    PrefixDirs <- MCPrefixDirs
    SaveOrder <- MCSaveOrder
    Writes <- MCWrites
    Needs <- MCNeeds
    Configs <- OneConfig
    MaxRuns = 2
INVARIANTS
    RestartInputs
CHECK_DEADLOCK FALSE
