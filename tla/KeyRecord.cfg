SPECIFICATION Spec
CONSTANTS
    k1 = k1
    k2 = k2
    lost = lost
    NoKey = NoKey
    LostKey = lost
    Keys = {k1, k2, lost}
    Rings <- RotatedRings
    Openers = {"board"}
    word = word
    lookalike = lookalike
    Unknown = Unknown
    Texts = {word, lookalike}
    Lookalikes = {lookalike}
    NItems = 1
    NRows = 2
    BatchSize = 1
    EmptyPlaces <- None
    LostPlaces <- None
    MaxChunks = 1
    MaxStarts = 2
    MaxWrites = 1
    MaxDay = 1
PROPERTY RecordMovesWhenAllOpen
