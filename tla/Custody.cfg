SPECIFICATION Spec
CONSTANTS
    k1 = k1
    k2 = k2
    k3 = k3
    e1 = e1
    NoKey = NoKey
    Keys = {k1, k2, k3, e1}
    EnvKeys = {e1}
    MaxRetired = 2
    Folders <- AllFolders
    Bundles <- OneBundle
    MaxStarts = 3
    MaxMoves = 1
CONSTRAINT Undisturbed
INVARIANTS TypeOK KeysKept KeysFound AppOpens
PROPERTIES RefusedOnlyWithoutTheKey
