SPECIFICATION Spec
CONSTANTS
    Units <- TzUnits
    Places <- TzPlaces
    Inside <- TzInside
    Cwd <- TzCwd
    Unpacks <- TzDir
    Dir <- TzDir
    PatchCwd <- TzDir
    EName <- TzNames
    PName <- TzNames
    NPatches <- TzPatches
    Plans <- TzPlans
    MaxFaults = 1
    MayForce = FALSE
INVARIANTS
    ExactSources
