---- MODULE BoardTables ----
(***************************************************************************)
(* The tables of feedback-board.db that the public and admin calls share,  *)
(* and the calls in flight.  One `Mutex<Connection>` guards the database,  *)
(* so what a handler does between lock and unlock is one step; between two *)
(* lock sections any other handler may run.  A call in flight is a record  *)
(* holding its place and the local variables it will still use.            *)
(***************************************************************************)
EXTENDS RequestRow, Integers, FiniteSets

CONSTANTS
    Voters,      \* voter identities the sidecar may still issue
    Comments,    \* comment ids
    Releases,    \* release ids
    Handlers,    \* API calls that may be in flight at once
    Calls,       \* kinds of call the clients make
    Patches,     \* patches the administrators send
    Opening,     \* requests on the board when the sidecar opens it
    SeedVotes,   \* their vote_count: a sample's count has no voter rows
    MaxCalls,    \* bound: calls the clients make in all
    MaxCrashes   \* bound: times the sidecar is killed

ASSUME VotersAssumption == IsFiniteSet(Voters)
ASSUME CommentsAssumption == IsFiniteSet(Comments)
ASSUME PatchesAssumption == Patches \subseteq Patch
ASSUME OpeningAssumption == Opening \subseteq Requests
ASSUME SeedVotesAssumption == SeedVotes \in Nat
ASSUME BoundsAssumption == MaxCalls \in Nat /\ MaxCrashes \in Nat

VARIABLES
    created,          \* request ids that have a row
    row,              \* request: the columns administrators edit
    revision,         \* request.revision
    vote_count,       \* request.vote_count
    comment_count,    \* request.comment_count
    request_vote,     \* request_vote: the voters of each request
    comment,          \* comment: owner and moderation state
    release,          \* release.status, "none" before the insert
    release_request,  \* release_request: <<release, request>> pairs
    board,            \* board.allow_guest_posts, .moderate_public_writes
    identities,       \* voter identities issued so far
    cookies,          \* identities whose cookie reached its visitor
    call,             \* the API calls in flight
    spent,            \* calls made so far
    crashes,          \* times the sidecar was killed
    mergedInto,       \* history: the survivor of a request's last merge
    buried,           \* history: voters a merge brought to a request already
                      \* merged away, which stay there
    uncounted         \* history: requests a merge moved comments away from,
                      \* their comment_count left as it was

mergeVars   == <<mergedInto, buried, uncounted>>
requestVars == <<created, row, revision, mergeVars>>
voteVars    == <<vote_count, request_vote>>
commentVars == <<comment, comment_count>>
releaseVars == <<release, release_request>>
voterVars   == <<identities, cookies>>
tables      == <<requestVars, voteVars, commentVars, releaseVars, voterVars,
                 board>>
vars        == <<tables, call, spent, crashes>>

----------------------------------------------------------------------------
(* The calls in flight: `at` names the next lock section.                  *)

Idle == [at |-> "idle"]

CallState ==
         [at : {"idle"}]
    \cup [at : {"guest_insert"}, moderate : BOOLEAN]
    \cup [at : {"vote_issue"}, req : Requests]
    \cup [at : {"vote_commit"}, req : Requests, voter : Voters,
          fresh : BOOLEAN]
    \cup [at : {"comment_check", "comment_insert"}, req : Requests,
          moderate : BOOLEAN]
    \cup [at : {"patch_read"}, req : Requests, expected : Nat, patch : Patch]
    \cup [at : {"patch_write"}, req : Requests, expected : Nat,
          patch : Patch, next : Row]
    \cup [at : {"merge_check"}, survivor : Requests, duplicate : Requests,
          survivor_votes : Nat]
    \cup [at : {"merge_commit"}, survivor : Requests, duplicate : Requests,
          survivor_votes : Nat, duplicate_votes : Nat]
    \cup [at : {"draft_check"}, ids : SUBSET Requests,
          todo : SUBSET Requests]
    \cup [at : {"publish_check"}, release : Releases,
          todo : SUBSET Requests]

BoardTypeOK ==
    /\ created \subseteq Requests
    /\ row \in [Requests -> Row]
    /\ revision \in [Requests -> Nat]
    /\ vote_count \in [Requests -> Nat]
    /\ comment_count \in [Requests -> Nat]
    /\ request_vote \in [Requests -> SUBSET Voters]
    /\ comment \in [Comments ->
                        [request : Requests \cup {NoRequest},
                         state : {"none", "pending", "approved", "rejected"}]]
    /\ release \in [Releases -> {"none", "draft", "published"}]
    /\ release_request \subseteq Releases \X Requests
    /\ board \in [allow_guest_posts : BOOLEAN,
                  moderate_public_writes : BOOLEAN]
    /\ identities \subseteq Voters
    /\ cookies \subseteq Voters
    /\ call \in [Handlers -> CallState]
    /\ spent \in Nat
    /\ crashes \in Nat
    /\ mergedInto \in [Requests -> Requests \cup {NoRequest}]
    /\ buried \in [Requests -> SUBSET Voters]
    /\ uncounted \subseteq Requests

Init ==
    /\ created = Opening
    /\ row = [r \in Requests |-> InsertedRow(r \notin Opening)]
    /\ revision = [r \in Requests |-> 0]
    /\ vote_count = [r \in Requests |-> IF r \in Opening THEN SeedVotes ELSE 0]
    /\ comment_count = [r \in Requests |-> 0]
    /\ request_vote = [r \in Requests |-> {}]
    /\ comment = [c \in Comments |-> [request |-> NoRequest, state |-> "none"]]
    /\ release = [l \in Releases |-> "none"]
    /\ release_request = {}
    /\ board = [allow_guest_posts |-> TRUE, moderate_public_writes |-> FALSE]
    /\ identities = {}
    /\ cookies = {}
    /\ call = [h \in Handlers |-> Idle]
    /\ spent = 0
    /\ crashes = 0
    /\ mergedInto = [r \in Requests |-> NoRequest]
    /\ buried = [r \in Requests |-> {}]
    /\ uncounted = {}

----------------------------------------------------------------------------
(* What the handlers share.                                                *)

\* A client makes a call of this kind and a worker takes it up.
Begins(h, kind) ==
    /\ kind \in Calls
    /\ call[h].at = "idle"
    /\ spent < MaxCalls
    /\ spent' = spent + 1
    /\ UNCHANGED crashes

\* The worker goes on to the next lock section of its call.
Goes(h, state) == call' = [call EXCEPT ![h] = state]

\* The call returns, with a result or an error.
Returns(h) == Goes(h, Idle)

Continues(h, at) ==
    /\ call[h].at = at
    /\ UNCHANGED <<spent, crashes>>

\* Bound: ids run out only when no call in flight still needs one.
IdLeftFor(at, unused) ==
    Cardinality({h \in Handlers : call[h].at \in at}) < Cardinality(unused)

ApprovedOf(table, r) ==
    {c \in Comments : table[c].request = r /\ table[c].state = "approved"}

Linked(l) == {r \in Requests : <<l, r>> \in release_request}
====
