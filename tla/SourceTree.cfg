SPECIFICATION FairSpec
CONSTANTS
    Units <- AllUnits
    Places <- AllPlaces
    Inside <- AllInside
    Cwd <- AllCwd
    Unpacks <- AllUnpacks
    Dir <- AllDir
    PatchCwd <- AllPatchCwd
    EName <- AllENames
    PName <- AllPNames
    NPatches <- AllPatches
    Plans <- AllPlans
    MaxFaults = 2
    MayForce = TRUE
INVARIANTS
    TypeOK
    ExactSources
PROPERTIES
    CompletedKept
    Recovers
