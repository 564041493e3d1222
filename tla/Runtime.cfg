SPECIFICATION RuntimeSpec

CONSTANTS
    \* BoardSettings
    MainBoard = b1
    NewBoards = {b2}
    MainSlug = s1
    Slugs = {s1, s2}
    Codes <- CodeList
    OtherCode = "gone"
    Posts = {p1, p2}
    Callers = {c1, c2}
    Page = 1
    Unnamed = Unnamed
    MaxCallers = 3
    MaxFalls = 1
    \* VoterTokens
    Sidecars = {t1, t2}
    SigningKeys = {g1, g2, g3}
    ForeignKey = foreign
    NoKey = NoKey
    Nonces = {n1, n2, n3}
    Visitors = {v1, v2}
    NoToken = NoToken
    MaxRuns = 3
    \* AutomationRuns
    Requested = {q1}
    Missing = {q2}
    Runs = {a1, a2}
    Outcomes = {"done", "failed"}
    Words = {w1}
    Null = Null
    Starters = {d1, d2}
    MaxReports = 2
    \* SealedFile, SealedLog
    ChunkSize = 2
    TagLen = 2
    NoFile = NoFile
    k1 = k1
    k2 = k2
    Records <- RecordSet
    Plain <- PlainBytes
    MaxRecords = 3
    MaxStops = 2
    \* VectorIndex
    Keys <- PartitionKeys
    Ids = {5, 6}
    Sizes = {1}
    Damaged <- DamagedRows
    Limit = 1
    MaxTotal = 2
    MaxBuilding = 1
    \* TopK
    Scores = {0, 1, 2}
    MaxK = 3
    MaxOffered = 5
    \* Handoff
    RunIds = {r1, r2, r3}
    Ports = {o1, o2}
    NoHandoff = NoHandoff
    MaxSlow = 1
    \* PeerProof
    Origins = {u1}
    Bearers = {x1, x2}
    Nothing = Nothing
    Senders = {e1, e2}
    Ttl = 1
    Patience = 1
    MaxTime = 2
    MaxSends = 2
    \* StandaloneRoot
    Processes = {y1, y2}
    Masters = {m1, m2}
    Roots = {j1, j2}
    NoMaster = NoMaster
    NoSecret = NoSecret
    Torn = Torn
    SameEnvironment = TRUE
    MaxBoots = 4
    \* CompactionQueue
    BigStores = {z1, z2}
    NoStore = NoStore
    Worker = Worker
    Maintainers = {n9}
    MaxDeferred = 4
    MaxUnspawned = 1

INVARIANTS
    RuntimeTypeOK
    BoardsFollow
    BoardsWhole
    CookiesLast
    SyncedKept
    PublishedWhole
    WithinBudget
    MissesCounted
    KeepsTheBest
    UpIsPublished
    SentWhereProven
    OneKeyForever
    NoJobStranded

PROPERTIES
    AnswersHonest
    ServedWhileUp

CHECK_DEADLOCK FALSE
