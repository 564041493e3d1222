SPECIFICATION Spec
CONSTANTS
    r1 = r1
    t1 = t1
    t2 = t2
    Requests = {r1, r2, r3}
    Opening = {r1, r2}
    Voters = {v1, v2}
    Comments = {c1}
    Releases = {l1}
    Handlers = {h1, h2}
    NoRequest = NoRequest
    Unset = Unset
    Texts <- MCTexts
    Patches <- AdminPatches
    Calls = {"guest", "vote", "comment", "review", "patch", "triage", "merge", "policy", "draft", "publish"}
    SeedVotes = 0
    MaxCalls = 3
    MaxCrashes = 1
SYMMETRY IdSymmetry
PROPERTIES NoSilentChange HiddenStaysHidden ImplementsLedger
INVARIANTS BoardTypeOK ReleaseNeverEmpty
