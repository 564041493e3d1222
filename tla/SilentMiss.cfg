SPECIFICATION VecSpec

CONSTANTS
    Keys <- PartitionKeys
    Ids = {5, 6}
    Sizes = {1}
    Damaged <- NoneDamaged
    Limit = 2
    MaxTotal = 2
    MaxBuilding = 1

INVARIANT NeverSilent

CHECK_DEADLOCK FALSE
