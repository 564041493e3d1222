SPECIFICATION Spec
CONSTANTS
    k1 = k1
    k2 = k2
    k3 = k3
    e1 = e1
    NoKey = NoKey
    Keys = {k1, k2, k3, e1}
    EnvKeys = {e1}
    MaxRetired = 2
    Folders <- NewFolder
    Bundles <- NoBundles
    MaxStarts = 2
    MaxMoves = 0
PROPERTIES SealsUnderKeptKeys
