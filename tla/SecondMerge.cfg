SPECIFICATION Spec
CONSTANTS
    r1 = r1
    t1 = t1
    t2 = t2
    Requests = {r1, r2, r3}
    Opening = {r1, r2, r3}
    Voters = {}
    Comments = {}
    Releases = {}
    Handlers = {h1, h2}
    NoRequest = NoRequest
    Unset = Unset
    Texts <- MCTexts
    Patches <- NoPatches
    Calls = {"merge"}
    SeedVotes = 0
    MaxCalls = 2
    MaxCrashes = 0
PROPERTY SecondMergeIsConflict
