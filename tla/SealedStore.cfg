SPECIFICATION FairSpec
CONSTANTS
    k1 = k1
    k2 = k2
    lost = lost
    NoKey = NoKey
    LostKey = lost
    Keys = {k1, k2, lost}
    Rings <- RotatedRings
    Openers = {"board", "satellite", "core"}
    word = word
    lookalike = lookalike
    Unknown = Unknown
    Texts = {word, lookalike}
    Lookalikes = {lookalike}
    NItems = 2
    NRows = 2
    BatchSize = 1
    EmptyPlaces <- OneEmpty
    LostPlaces <- FirstLost
    MaxChunks = 1
    MaxStarts = 2
    MaxWrites = 1
    MaxDay = 1
INVARIANTS TypeOK NothingLost SealedMeansSealed OkIsClean
PROPERTIES ResetMovesTheKeyLast OpensEventually
