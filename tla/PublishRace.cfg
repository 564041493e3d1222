SPECIFICATION Spec
CONSTANTS
    r1 = r1
    t1 = t1
    t2 = t2
    Requests = {r1}
    Opening = {r1}
    Voters = {}
    Comments = {}
    Releases = {l1}
    Handlers = {h1, h2}
    NoRequest = NoRequest
    Unset = Unset
    Texts <- MCTexts
    Patches <- StatusPatches
    Calls = {"draft", "publish", "patch"}
    SeedVotes = 0
    MaxCalls = 4
    MaxCrashes = 0
PROPERTY OnlyShippedPublished
