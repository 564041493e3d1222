SPECIFICATION Spec
CONSTANTS
    r1 = r1
    t1 = t1
    t2 = t2
    Requests = {r1, r2, r3}
    Opening = {r1, r2, r3}
    Voters = {v1, v2}
    Comments = {c1, c2}
    Releases = {}
    Handlers = {h1, h2}
    NoRequest = NoRequest
    Unset = Unset
    Texts <- MCTexts
    Patches <- VisibilityPatches
    SeedVotes = 1
    Calls = {"vote", "comment", "review", "merge", "patch", "policy"}
    MaxCalls = 4
    MaxCrashes = 1
SYMMETRY IdSymmetry
INVARIANTS DemandIsBacked BackersKept CommentCountKept
