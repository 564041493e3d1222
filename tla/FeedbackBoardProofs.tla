---- MODULE FeedbackBoardProofs ----
(***************************************************************************)
(* What the board promises, for every set of requests, voters, handlers and*)
(* patches.  First the invariant of the calls in flight, IInv, and what its*)
(* revisions and vote counts owe to it; then what merges keep, what comment*)
(* counts and releases follow, and that the board implements RequestLedger.*)
(***************************************************************************)
EXTENDS FeedbackBoard, FiniteSetTheorems, TLAPS

----------------------------------------------------------------------------
(* Rows and patches                                                        *)

LEMMA InsertedRowType ==
    ASSUME NEW moderated \in BOOLEAN
    PROVE  InsertedRow(moderated) \in Row
<1>1. (CHOOSE t \in Texts : TRUE) \in Texts
    BY TextsAssumption
<1> QED BY <1>1 DEF InsertedRow, Row, Statuses, ModerationStates

LEMMA PatchedType ==
    ASSUME NEW old \in Row, NEW patch \in Patch
    PROVE  Patched(old, patch) \in Row
BY DEF Patched, Chosen, Row, Patch

LEMMA ClosedType ==
    ASSUME NEW old \in Row, NEW survivor \in Requests
    PROVE  Closed(old, survivor) \in Row
BY DEF Closed, Row, ModerationStates

LEMMA TriagePatchType ==
    ASSUME NEW r \in Requests \cup {NoRequest, Unset}
    PROVE  TriagePatch(r) \in Patch
<1>1. (CHOOSE t \in Texts : TRUE) \in Texts
    BY TextsAssumption
<1> QED BY <1>1 DEF TriagePatch, EmptyPatch, Patch

----------------------------------------------------------------------------
(* Calls in flight                                                         *)

LEMMA CallFields ==
    ASSUME NEW st \in CallState
    PROVE  /\ st.at = "guest_insert" => st.moderate \in BOOLEAN
           /\ st.at = "vote_issue" => st.req \in Requests
           /\ st.at = "vote_commit" =>
                 st.req \in Requests /\ st.voter \in Voters
           /\ st.at \in {"comment_check", "comment_insert"} =>
                 st.req \in Requests /\ st.moderate \in BOOLEAN
           /\ st.at = "patch_read" =>
                 /\ st.req \in Requests /\ st.expected \in Nat
                 /\ st.patch \in Patch
           /\ st.at = "patch_write" =>
                 /\ st.req \in Requests /\ st.expected \in Nat
                 /\ st.patch \in Patch /\ st.next \in Row
           /\ st.at \in {"merge_check", "merge_commit"} =>
                 /\ st.survivor \in Requests /\ st.duplicate \in Requests
                 /\ st.survivor_votes \in Nat
           /\ st.at = "merge_commit" => st.duplicate_votes \in Nat
           /\ st.at = "draft_check" =>
                 /\ st.ids \subseteq Requests /\ st.todo \subseteq Requests
           /\ st.at = "publish_check" =>
                 st.release \in Releases /\ st.todo \subseteq Requests
BY DEF CallState

LEMMA GoesType ==
    ASSUME BoardTypeOK, NEW h \in Handlers, NEW st \in CallState, Goes(h, st)
    PROVE  call' \in [Handlers -> CallState]
BY DEF BoardTypeOK, Goes

LEMMA ReturnsType ==
    ASSUME BoardTypeOK, NEW h \in Handlers, Returns(h)
    PROVE  call' \in [Handlers -> CallState]
<1>1. Idle \in CallState
    BY DEF Idle, CallState
<1> QED BY <1>1, GoesType DEF Returns

----------------------------------------------------------------------------
(* Type correctness                                                        *)

LEMMA VotersFinite ==
    ASSUME NEW S \in SUBSET Voters
    PROVE  IsFiniteSet(S) /\ Cardinality(S) \in Nat
BY VotersAssumption, FS_Subset, FS_CardinalityType

LEMMA ApprovedFinite ==
    ASSUME NEW table, NEW r
    PROVE  /\ IsFiniteSet(ApprovedOf(table, r))
           /\ Cardinality(ApprovedOf(table, r)) \in Nat
<1>1. ApprovedOf(table, r) \subseteq Comments
    BY DEF ApprovedOf
<1> QED BY <1>1, CommentsAssumption, FS_Subset, FS_CardinalityType

LEMMA UnbackedType ==
    ASSUME NEW votes \in Nat, NEW rows \in Nat
    PROVE  Unbacked(votes, rows) \in Nat
BY DEF Unbacked

LEMMA InitType == Init => BoardTypeOK
<1> SUFFICES ASSUME Init PROVE BoardTypeOK
    OBVIOUS
<1>1. \A r \in Requests : InsertedRow(r \notin Opening) \in Row
    BY InsertedRowType
<1>2. Idle \in CallState
    BY DEF Idle, CallState
<1> QED BY <1>1, <1>2, OpeningAssumption, SeedVotesAssumption
        DEF Init, BoardTypeOK

\* A step that leaves the tables alone only has to keep the calls typed.
LEMMA TablesKept ==
    ASSUME BoardTypeOK, UNCHANGED tables,
           call' \in [Handlers -> CallState], spent' \in Nat, crashes' \in Nat
    PROVE  BoardTypeOK'
BY DEF BoardTypeOK, tables, requestVars, mergeVars, voteVars, commentVars, releaseVars,
       voterVars

LEMMA PublicType ==
    ASSUME BoardTypeOK, NEW h \in Handlers, PublicArrives(h) \/ PublicProceeds(h)
    PROVE  BoardTypeOK'
<1> USE DEF requestVars, mergeVars, voteVars, commentVars, releaseVars, voterVars
<1>0. /\ call[h] \in CallState /\ spent \in Nat /\ crashes \in Nat
    BY DEF BoardTypeOK
<1>1. CASE GuestBegin(h)
    <2>1. call' \in [Handlers -> CallState]
        <3>1. [at |-> "guest_insert",
               moderate |-> board.moderate_public_writes] \in CallState
            BY DEF BoardTypeOK, CallState
        <3> QED BY <1>1, <3>1, GoesType, ReturnsType DEF GuestBegin
    <2> QED BY <1>0, <1>1, <2>1, TablesKept DEF GuestBegin, Begins
<1>2. CASE GuestInsert(h)
    <2>1. InsertedRow(call[h].moderate) \in Row
        BY <1>0, <1>2, CallFields, InsertedRowType DEF GuestInsert, Continues
    <2>2. call' \in [Handlers -> CallState]
        BY <1>2, ReturnsType DEF GuestInsert
    <2> QED BY <1>2, <2>1, <2>2 DEF GuestInsert, Continues, BoardTypeOK
<1>3. CASE VoteBegin(h)
    <2>1. call' \in [Handlers -> CallState]
        <3>1. ASSUME NEW r \in Requests
              PROVE  [at |-> "vote_issue", req |-> r] \in CallState
            BY DEF CallState
        <3>2. ASSUME NEW r \in Requests, NEW v \in cookies
              PROVE  [at |-> "vote_commit", req |-> r, voter |-> v,
                      fresh |-> FALSE] \in CallState
            BY DEF CallState, BoardTypeOK
        <3> QED BY <1>3, <3>1, <3>2, GoesType, ReturnsType DEF VoteBegin
    <2> QED BY <1>0, <1>3, <2>1, TablesKept DEF VoteBegin, Begins
<1>4. CASE VoteIssue(h)
    <2>1. call' \in [Handlers -> CallState]
        <3>1. call[h].req \in Requests
            BY <1>0, <1>4, CallFields DEF VoteIssue, Continues
        <3>2. ASSUME NEW v \in Voters
              PROVE  [at |-> "vote_commit", req |-> call[h].req, voter |-> v,
                      fresh |-> TRUE] \in CallState
            BY <3>1 DEF CallState
        <3> QED BY <1>4, <3>2, GoesType, ReturnsType DEF VoteIssue
    <2>2. identities' \subseteq Voters /\ identities \subseteq identities'
        BY <1>4 DEF VoteIssue, BoardTypeOK
    <2> QED BY <1>4, <2>1, <2>2 DEF VoteIssue, Continues, BoardTypeOK
<1>5. CASE VoteCommit(h)
    <2>1. call' \in [Handlers -> CallState]
        BY <1>5, ReturnsType DEF VoteCommit
    <2>2. call[h].req \in Requests /\ call[h].voter \in Voters
        BY <1>0, <1>5, CallFields DEF VoteCommit, Continues
    <2> DEFINE backers == request_vote[call[h].req] \cup {call[h].voter}
    <2>3. backers \in SUBSET Voters /\ Cardinality(backers) \in Nat
        <3>1. backers \in SUBSET Voters
            BY <2>2 DEF BoardTypeOK
        <3> QED BY <3>1, VotersFinite
    <2> HIDE DEF backers
    <2>4. /\ request_vote' \in [Requests -> SUBSET Voters]
          /\ vote_count' \in [Requests -> Nat]
        BY <1>5, <2>2, <2>3 DEF VoteCommit, BoardTypeOK, backers
    <2>5. cookies' \subseteq Voters
        BY <1>5, <2>2 DEF VoteCommit, BoardTypeOK
    <2> QED BY <1>5, <2>1, <2>4, <2>5 DEF VoteCommit, Continues, BoardTypeOK
<1>6. CASE CommentBegin(h)
    <2>1. call' \in [Handlers -> CallState]
        <3>1. ASSUME NEW r \in Requests
              PROVE  [at |-> "comment_check", req |-> r,
                      moderate |-> board.moderate_public_writes] \in CallState
            BY DEF CallState, BoardTypeOK
        <3> QED BY <1>6, <3>1, GoesType DEF CommentBegin
    <2> QED BY <1>0, <1>6, <2>1, TablesKept DEF CommentBegin, Begins
<1>7. CASE CommentCheck(h)
    <2>1. call' \in [Handlers -> CallState]
        <3>1. [call[h] EXCEPT !.at = "comment_insert"] \in CallState
            BY <1>0, <1>7 DEF CommentCheck, Continues, CallState
        <3> QED BY <1>7, <3>1, GoesType, ReturnsType DEF CommentCheck
    <2> QED BY <1>0, <1>7, <2>1, TablesKept DEF CommentCheck, Continues
<1>8. CASE CommentInsert(h)
    <2>1. call' \in [Handlers -> CallState]
        BY <1>8, ReturnsType DEF CommentInsert
    <2>2. call[h].req \in Requests /\ call[h].moderate \in BOOLEAN
        BY <1>0, <1>8, CallFields DEF CommentInsert, Continues
    <2>3. comment_count' \in [Requests -> Nat]
        BY <1>8, <2>2 DEF CommentInsert, CountedOnInsert, BoardTypeOK
    <2> QED BY <1>8, <2>1, <2>2, <2>3
            DEF CommentInsert, Continues, Written, BoardTypeOK
<1> QED BY <1>1, <1>2, <1>3, <1>4, <1>5, <1>6, <1>7, <1>8
        DEF PublicArrives, PublicProceeds

LEMMA MovedCommentsType ==
    ASSUME BoardTypeOK, NEW s \in Requests, NEW d \in Requests
    PROVE  MovedComments(s, d) \in
               [Comments ->
                   [request : Requests \cup {NoRequest},
                    state : {"none", "pending", "approved", "rejected"}]]
BY DEF MovedComments, BoardTypeOK

LEMMA AdminType ==
    ASSUME BoardTypeOK, NEW h \in Handlers, AdminArrives(h) \/ AdminProceeds(h)
    PROVE  BoardTypeOK'
<1> USE DEF requestVars, mergeVars, voteVars, commentVars, releaseVars, voterVars
<1>0. /\ call[h] \in CallState /\ spent \in Nat /\ crashes \in Nat
    BY DEF BoardTypeOK
<1>1. CASE Review(h)
    <2>1. ASSUME NEW c \in Comments, NEW r \in Requests,
                 NEW verdict \in {"approved", "rejected"},
                 Reviewed(r, c, verdict)
          PROVE  /\ comment' \in
                        [Comments ->
                            [request : Requests \cup {NoRequest},
                             state : {"none", "pending", "approved",
                                      "rejected"}]]
                 /\ comment_count' \in [Requests -> Nat]
                 /\ revision' \in [Requests -> Nat]
        <3>1. \A n \in Nat : n + (IF verdict = "approved" THEN 1 ELSE 0) \in Nat
            OBVIOUS
        <3> QED BY <2>1, <3>1 DEF Reviewed, BoardTypeOK
    <2>2. CASE UNCHANGED <<commentVars, revision>>
        BY <1>1, <2>2 DEF Review, Begins, BoardTypeOK
    <2>3. ASSUME NEW c \in Comments, NEW r \in Requests,
                 NEW verdict \in {"approved", "rejected"},
                 Reviewed(r, c, verdict)
          PROVE  BoardTypeOK'
        BY <1>1, <2>1, <2>3 DEF Review, Begins, BoardTypeOK
    <2> QED BY <1>1, <2>2, <2>3 DEF Review
<1>2. CASE PatchBegin(h)
    <2>1. ASSUME NEW r \in Requests, NEW p \in Patch, NEW seen \in Nat
          PROVE  [at |-> "patch_read", req |-> r, expected |-> seen,
                  patch |-> p] \in CallState
        BY DEF CallState
    <2>2. \A r \in Requests : \A seen \in {revision[r], revision[r] - 1} :
             seen >= 0 => seen \in Nat
        BY DEF BoardTypeOK
    <2>3. \A r \in Requests : revision[r] \in Nat
        BY DEF BoardTypeOK
    <2>4. call' \in [Handlers -> CallState]
        BY <1>2, <2>1, <2>2, <2>3, PatchesAssumption, TriagePatchType,
           GoesType, ReturnsType DEF PatchBegin
    <2>5. spent' \in Nat /\ crashes' \in Nat
        BY <1>0, <1>2 DEF PatchBegin, Begins
    <2> QED BY <1>2, <2>4, <2>5, TablesKept DEF PatchBegin
<1>3. CASE PatchRead(h)
    <2>1. /\ call[h].req \in Requests /\ call[h].expected \in Nat
          /\ call[h].patch \in Patch
        BY <1>0, <1>3, CallFields DEF PatchRead, Continues
    <2>2. Patched(row[call[h].req], call[h].patch) \in Row
        BY <2>1, PatchedType DEF BoardTypeOK
    <2>3. [at |-> "patch_write", req |-> call[h].req,
           expected |-> call[h].expected, patch |-> call[h].patch,
           next |-> Patched(row[call[h].req], call[h].patch)] \in CallState
        BY <2>1, <2>2 DEF CallState
    <2>4. call' \in [Handlers -> CallState]
        BY <1>3, <2>3, GoesType, ReturnsType DEF PatchRead
    <2> QED BY <1>0, <1>3, <2>4, TablesKept DEF PatchRead, Continues
<1>4. CASE PatchWrite(h)
    <2>1. /\ call[h].req \in Requests /\ call[h].expected \in Nat
          /\ call[h].next \in Row
        BY <1>0, <1>4, CallFields DEF PatchWrite, Continues
    <2>2. call' \in [Handlers -> CallState]
        BY <1>4, ReturnsType DEF PatchWrite
    <2> QED BY <1>4, <2>1, <2>2 DEF PatchWrite, Continues, BoardTypeOK
<1>5. CASE MergeBegin(h)
    <2>1. ASSUME NEW s \in Requests, NEW d \in Requests
          PROVE  [at |-> "merge_check", survivor |-> s, duplicate |-> d,
                  survivor_votes |-> vote_count[s]] \in CallState
        BY DEF CallState, BoardTypeOK
    <2>2. call' \in [Handlers -> CallState]
        BY <1>5, <2>1, GoesType, ReturnsType DEF MergeBegin
    <2> QED BY <1>0, <1>5, <2>2, TablesKept DEF MergeBegin, Begins
<1>6. CASE MergeCheck(h)
    <2>1. /\ call[h].survivor \in Requests /\ call[h].duplicate \in Requests
          /\ call[h].survivor_votes \in Nat
        BY <1>0, <1>6, CallFields DEF MergeCheck, Continues
    <2>2. [at |-> "merge_commit", survivor |-> call[h].survivor,
           duplicate |-> call[h].duplicate,
           survivor_votes |-> call[h].survivor_votes,
           duplicate_votes |-> vote_count[call[h].duplicate]] \in CallState
        BY <2>1 DEF CallState, BoardTypeOK
    <2>3. call' \in [Handlers -> CallState]
        BY <1>6, <2>2, GoesType, ReturnsType DEF MergeCheck
    <2> QED BY <1>0, <1>6, <2>3, TablesKept DEF MergeCheck, Continues
<1>7. CASE MergeCommit(h)
    <2> DEFINE s == call[h].survivor
               d == call[h].duplicate
               sv == call[h].survivor_votes
               dv == call[h].duplicate_votes
    <2>1. s \in Requests /\ d \in Requests /\ sv \in Nat /\ dv \in Nat
        BY <1>0, <1>7, CallFields DEF MergeCommit, Continues
    <2>2. call' \in [Handlers -> CallState]
        BY <1>7, ReturnsType DEF MergeCommit
    <2>3. CASE LinkedTogether(s, d)
        BY <1>7, <2>2, <2>3 DEF MergeCommit, Continues, BoardTypeOK
    <2>4. CASE ~LinkedTogether(s, d)
        <3>1. MergeRows(s, d, sv, dv)
            BY <1>7, <2>4 DEF MergeCommit
        <3>2. /\ MergedBackers(s, d) \in SUBSET Voters
              /\ request_vote[s] \in SUBSET Voters
              /\ request_vote[d] \in SUBSET Voters
            BY <2>1 DEF MergedBackers, BoardTypeOK
        <3> DEFINE votes == Cardinality(MergedBackers(s, d))
                            + (Unbacked(sv, Cardinality(request_vote[s]))
                               + Unbacked(dv, Cardinality(request_vote[d])))
        <3>3. votes \in Nat
            BY <2>1, <3>2, VotersFinite, UnbackedType
        <3>4. vote_count' \in [Requests -> Nat]
            <4> HIDE DEF votes
            <4>1. vote_count' = [vote_count EXCEPT ![s] = votes]
                BY <3>1 DEF MergeRows, votes
            <4> QED BY <3>3, <4>1 DEF BoardTypeOK
        <3>5. request_vote' \in [Requests -> SUBSET Voters]
            BY <3>1, <3>2 DEF MergeRows, BoardTypeOK
        <3>6. comment_count' \in [Requests -> Nat]
            BY <3>1, ApprovedFinite DEF MergeRows, BoardTypeOK
        <3>7. comment' \in
                 [Comments ->
                     [request : Requests \cup {NoRequest},
                      state : {"none", "pending", "approved", "rejected"}]]
            BY <2>1, <3>1, MovedCommentsType DEF MergeRows
        <3>8. release_request' \subseteq Releases \X Requests
            BY <2>1, <3>1 DEF MergeRows, MovedLinks, BoardTypeOK
        <3>9. row' \in [Requests -> Row]
            BY <2>1, <3>1, ClosedType DEF MergeRows, BoardTypeOK
        <3>10. /\ revision' \in [Requests -> Nat]
               /\ mergedInto' \in [Requests -> Requests \cup {NoRequest}]
            BY <2>1, <3>1 DEF MergeRows, BoardTypeOK
        <3>11. /\ buried' \in [Requests -> SUBSET Voters]
               /\ uncounted' \subseteq Requests
            BY <2>1, <3>1, <3>2 DEF MergeRows, BoardTypeOK
        <3> QED BY <1>7, <2>2, <3>4, <3>5, <3>6, <3>7, <3>8, <3>9, <3>10, <3>11
                DEF MergeCommit, Continues, BoardTypeOK
    <2> QED BY <2>3, <2>4
<1>8. CASE SetPolicy(h)
    BY <1>8 DEF SetPolicy, Begins, BoardTypeOK
<1> QED BY <1>1, <1>2, <1>3, <1>4, <1>5, <1>6, <1>7, <1>8
        DEF AdminArrives, AdminProceeds

LEMMA DraftRowsType ==
    ASSUME BoardTypeOK, NEW l \in Releases, NEW ids \in SUBSET Requests,
           DraftRows(l, ids)
    PROVE  /\ release' \in [Releases -> {"none", "draft", "published"}]
           /\ release_request' \subseteq Releases \X Requests
BY DEF DraftRows, BoardTypeOK

LEMMA ChangelogType ==
    ASSUME BoardTypeOK, NEW h \in Handlers,
           ChangelogArrives(h) \/ ChangelogProceeds(h)
    PROVE  BoardTypeOK'
<1> USE DEF requestVars, mergeVars, voteVars, commentVars, releaseVars, voterVars
<1>0. /\ call[h] \in CallState /\ spent \in Nat /\ crashes \in Nat
    BY DEF BoardTypeOK
<1>1. CASE DraftBegin(h)
    <2>1. ASSUME NEW ids \in SUBSET Requests
          PROVE  [at |-> "draft_check", ids |-> ids, todo |-> ids] \in CallState
        BY DEF CallState
    <2>2. call' \in [Handlers -> CallState]
        BY <1>1, <2>1, GoesType, ReturnsType DEF DraftBegin
    <2> QED BY <1>0, <1>1, <2>2, TablesKept DEF DraftBegin, Begins
<1>2. CASE DraftCheck(h)
    <2>1. ASSUME NEW r PROVE [call[h] EXCEPT !.todo = @ \ {r}] \in CallState
        BY <1>0, <1>2 DEF DraftCheck, Continues, CallState
    <2>2. call' \in [Handlers -> CallState]
        BY <1>2, <2>1, GoesType, ReturnsType DEF DraftCheck
    <2> QED BY <1>0, <1>2, <2>2, TablesKept DEF DraftCheck, Continues
<1>3. CASE DraftInsert(h)
    <2>1. call' \in [Handlers -> CallState]
        BY <1>3, ReturnsType DEF DraftInsert
    <2>2. call[h].ids \subseteq Requests
        BY <1>0, <1>3, CallFields DEF DraftInsert, Continues
    <2>3. /\ release' \in [Releases -> {"none", "draft", "published"}]
          /\ release_request' \subseteq Releases \X Requests
        BY <1>3, <2>2, DraftRowsType DEF DraftInsert
    <2> QED BY <1>3, <2>1, <2>3 DEF DraftInsert, Continues, BoardTypeOK
<1>4. CASE PublishBegin(h)
    <2>1. ASSUME NEW l \in Releases
          PROVE  [at |-> "publish_check", release |-> l, todo |-> Linked(l)]
                     \in CallState
        BY DEF CallState, Linked
    <2>2. call' \in [Handlers -> CallState]
        BY <1>4, <2>1, GoesType, ReturnsType DEF PublishBegin
    <2> QED BY <1>0, <1>4, <2>2, TablesKept DEF PublishBegin, Begins
<1>5. CASE PublishCheck(h)
    <2>1. ASSUME NEW r PROVE [call[h] EXCEPT !.todo = @ \ {r}] \in CallState
        BY <1>0, <1>5 DEF PublishCheck, Continues, CallState
    <2>2. call' \in [Handlers -> CallState]
        BY <1>5, <2>1, GoesType, ReturnsType DEF PublishCheck
    <2> QED BY <1>0, <1>5, <2>2, TablesKept DEF PublishCheck, Continues
<1>6. CASE PublishWrite(h)
    <2>1. call' \in [Handlers -> CallState]
        BY <1>6, ReturnsType DEF PublishWrite
    <2>2. call[h].release \in Releases
        BY <1>0, <1>6, CallFields DEF PublishWrite, Continues
    <2> QED BY <1>6, <2>1, <2>2 DEF PublishWrite, Continues, BoardTypeOK
<1> QED BY <1>1, <1>2, <1>3, <1>4, <1>5, <1>6
        DEF ChangelogArrives, ChangelogProceeds

LEMMA CrashType == BoardTypeOK /\ Crash => BoardTypeOK'
<1> SUFFICES ASSUME BoardTypeOK, Crash PROVE BoardTypeOK'
    OBVIOUS
<1> USE DEF requestVars, mergeVars, voteVars, commentVars, releaseVars, voterVars
<1>1. call' \in [Handlers -> CallState]
    BY DEF Crash, Idle, CallState
<1> DEFINE Typed ==
        /\ comment' \in
               [Comments ->
                   [request : Requests \cup {NoRequest},
                    state : {"none", "pending", "approved", "rejected"}]]
        /\ comment_count' \in [Requests -> Nat]
        /\ release' \in [Releases -> {"none", "draft", "published"}]
        /\ release_request' \subseteq Releases \X Requests
<1>2. Typed
    <2>1. CASE UNCHANGED <<commentVars, releaseVars>>
        BY <2>1 DEF BoardTypeOK
    <2>2. ASSUME NEW h \in Handlers, call[h].at = "comment_insert",
                 TornComment(h)
          PROVE  Typed
        BY <2>2, CallFields DEF TornComment, Written, BoardTypeOK
    <2>3. ASSUME NEW h \in Handlers, call[h].at = "draft_check", TornDraft(h)
          PROVE  Typed
        <3>1. call[h].ids \subseteq Requests
            BY <2>3, CallFields DEF BoardTypeOK
        <3> QED BY <2>3, <3>1, DraftRowsType DEF TornDraft, BoardTypeOK
    <2> HIDE DEF Typed
    <2> QED BY <2>1, <2>2, <2>3 DEF Crash
<1> QED BY <1>1, <1>2 DEF Crash, BoardTypeOK

LEMMA NextType == BoardTypeOK /\ [Next]_vars => BoardTypeOK'
<1>1. BoardTypeOK /\ UNCHANGED vars => BoardTypeOK'
    BY DEF BoardTypeOK, vars, tables, requestVars, mergeVars, voteVars, commentVars,
           releaseVars, voterVars
<1> QED BY <1>1, PublicType, AdminType, ChangelogType, CrashType
        DEF Next, Arrives, Proceeds, Quiescent

\* Every table and every call in flight keeps its type, whichever handlers
\* interleave and wherever the process is killed.
THEOREM TypeCorrect == Spec => []BoardTypeOK
<1> QED BY InitType, NextType, PTL DEF Spec

----------------------------------------------------------------------------
(* The inductive invariant: what a call in flight read is still good       *)

\* The patch is one somebody sent, its row exists, and if the revision has not
\* moved since the read, neither has the row the next values came from.
PatchOK(h) ==
    /\ call[h].at = "patch_read" => call[h].patch \in SentPatches
    /\ call[h].at = "patch_write" =>
          LET r == call[h].req IN
          /\ call[h].patch \in SentPatches
          /\ r \in created
          /\ call[h].expected <= revision[r]
          /\ call[h].expected = revision[r] =>
                call[h].next = Patched(row[r], call[h].patch)

\* A vote was let in by a look at a row.
VoteOK(h) ==
    call[h].at \in {"vote_issue", "vote_commit"} => call[h].req \in created

\* Without seeded counts, the counts a merge has read are rows it will find.
MergeOK(h) ==
    /\ call[h].at \in {"merge_check", "merge_commit"} =>
          /\ call[h].survivor \in created
          /\ call[h].survivor # call[h].duplicate
          /\ SeedVotes = 0 =>
                call[h].survivor_votes
                    <= Cardinality(request_vote[call[h].survivor])
    /\ call[h].at = "merge_commit" =>
          /\ call[h].duplicate \in created
          /\ SeedVotes = 0 =>
                call[h].duplicate_votes
                    <= Cardinality(request_vote[call[h].duplicate])

CallOK(h) == PatchOK(h) /\ VoteOK(h) /\ MergeOK(h)

IInv == BoardTypeOK /\ DemandIsBacked /\ \A h \in Handlers : CallOK(h)

LEMMA InitIInv == Init => IInv
<1> SUFFICES ASSUME Init PROVE IInv
    OBVIOUS
<1>1. DemandIsBacked
    <2>1. Cardinality({}) = 0
        BY FS_EmptySet
    <2>2. \A r \in Requests : /\ request_vote[r] = {}
                              /\ vote_count[r] \in {SeedVotes, 0}
        BY DEF Init
    <2>3. ASSUME NEW r \in Requests
          PROVE  /\ vote_count[r] >= Cardinality(request_vote[r])
                 /\ SeedVotes = 0 =>
                       vote_count[r] = Cardinality(request_vote[r])
        <3>1. Cardinality(request_vote[r]) = 0
            BY <2>1, <2>2
        <3>2. vote_count[r] = SeedVotes \/ vote_count[r] = 0
            BY <2>2
        <3> QED BY <3>1, <3>2, SeedVotesAssumption
    <2> QED BY <2>3 DEF DemandIsBacked
<1>2. \A h \in Handlers : CallOK(h)
    BY DEF Init, Idle, CallOK, PatchOK, VoteOK, MergeOK
<1> QED BY <1>1, <1>2, InitType DEF IInv

----------------------------------------------------------------------------
(* What every step does to requests and votes                              *)

Frame == UNCHANGED <<created, row, revision, request_vote, vote_count>>

\* Requests are never deleted, revisions never go back, voter rows are never
\* lost, and a row changes only together with its revision.
Advances ==
    /\ created \subseteq created'
    /\ \A r \in Requests : /\ revision[r] <= revision'[r]
                            /\ request_vote[r] \subseteq request_vote'[r]
    /\ \A r \in created : row'[r] # row[r] => revision'[r] > revision[r]

LEMMA FrameAdvances ==
    ASSUME BoardTypeOK, Frame PROVE Advances
BY DEF BoardTypeOK, Frame, Advances

LEMMA QuietSteps ==
    ASSUME NEW h \in Handlers,
           \/ GuestBegin(h) \/ VoteBegin(h) \/ VoteIssue(h) \/ CommentBegin(h)
           \/ CommentCheck(h) \/ CommentInsert(h) \/ PatchBegin(h)
           \/ PatchRead(h) \/ MergeBegin(h) \/ MergeCheck(h) \/ SetPolicy(h)
           \/ ChangelogArrives(h) \/ ChangelogProceeds(h)
    PROVE  Frame
<1> USE DEF Frame, tables, requestVars, mergeVars, voteVars
<1>1. CASE GuestBegin(h) \/ VoteBegin(h) \/ VoteIssue(h) \/ CommentBegin(h)
    BY <1>1 DEF GuestBegin, VoteBegin, VoteIssue, CommentBegin
<1>2. CASE CommentCheck(h) \/ CommentInsert(h) \/ PatchBegin(h)
    BY <1>2 DEF CommentCheck, CommentInsert, PatchBegin
<1>3. CASE PatchRead(h) \/ MergeBegin(h) \/ MergeCheck(h) \/ SetPolicy(h)
    BY <1>3 DEF PatchRead, MergeBegin, MergeCheck, SetPolicy
<1>4. CASE ChangelogArrives(h)
    BY <1>4 DEF ChangelogArrives, DraftBegin, PublishBegin
<1>5. CASE ChangelogProceeds(h)
    BY <1>5 DEF ChangelogProceeds, DraftCheck, DraftInsert, PublishCheck,
                PublishWrite
<1> QED BY <1>1, <1>2, <1>3, <1>4, <1>5

\* What a merge that was not rolled back leaves in the votes.
LEMMA MergeVotes ==
    ASSUME IInv, NEW h \in Handlers, MergeCommit(h),
           ~LinkedTogether(call[h].survivor, call[h].duplicate)
    PROVE  LET s == call[h].survivor
               d == call[h].duplicate
               backers == request_vote[s] \cup request_vote[d]
           IN  /\ s \in Requests /\ d \in Requests /\ s # d
               /\ s \in created /\ d \in created
               /\ request_vote' = [request_vote EXCEPT ![s] = backers]
               /\ row' = [row EXCEPT ![d] = Closed(@, s)]
               /\ revision' = [revision EXCEPT ![s] = @ + 1, ![d] = @ + 1]
               /\ Cardinality(backers) \in Nat
               /\ \E unbacked \in Nat :
                     /\ vote_count' =
                           [vote_count EXCEPT ![s] =
                               Cardinality(backers) + unbacked]
                     /\ SeedVotes = 0 => unbacked = 0
<1> DEFINE s == call[h].survivor
           d == call[h].duplicate
           sv == call[h].survivor_votes
           dv == call[h].duplicate_votes
           backers == request_vote[s] \cup request_vote[d]
           us == Unbacked(sv, Cardinality(request_vote[s]))
           ud == Unbacked(dv, Cardinality(request_vote[d]))
<1>0. BoardTypeOK /\ CallOK(h) /\ call[h] \in CallState
    BY DEF IInv, BoardTypeOK
<1>1. s \in Requests /\ d \in Requests /\ sv \in Nat /\ dv \in Nat
    BY <1>0, CallFields DEF MergeCommit, Continues
<1>2. /\ s \in created /\ d \in created /\ s # d
      /\ SeedVotes = 0 => /\ sv <= Cardinality(request_vote[s])
                          /\ dv <= Cardinality(request_vote[d])
    BY <1>0 DEF MergeCommit, Continues, CallOK, MergeOK
<1>3. MergeRows(s, d, sv, dv)
    BY DEF MergeCommit
<1>4. /\ Cardinality(backers) \in Nat
      /\ Cardinality(request_vote[s]) \in Nat
      /\ Cardinality(request_vote[d]) \in Nat
    <2>1. /\ backers \in SUBSET Voters
          /\ request_vote[s] \in SUBSET Voters
          /\ request_vote[d] \in SUBSET Voters
        BY <1>0, <1>1 DEF BoardTypeOK
    <2> QED BY <2>1, VotersFinite
<1>5. us \in Nat /\ ud \in Nat
    BY <1>1, <1>4, UnbackedType
<1>6. SeedVotes = 0 => us = 0 /\ ud = 0
    BY <1>1, <1>2, <1>4 DEF Unbacked
<1>7. /\ request_vote' = [request_vote EXCEPT ![s] = backers]
      /\ vote_count' =
            [vote_count EXCEPT ![s] = Cardinality(backers) + (us + ud)]
      /\ row' = [row EXCEPT ![d] = Closed(@, s)]
      /\ revision' = [revision EXCEPT ![s] = @ + 1, ![d] = @ + 1]
    BY <1>3 DEF MergeRows, MergedBackers
<1> HIDE DEF s, d, us, ud, backers
<1>8. us + ud \in Nat /\ (SeedVotes = 0 => us + ud = 0)
    BY <1>5, <1>6
<1> QED BY <1>1, <1>2, <1>4, <1>7, <1>8 DEF s, d, backers

\* The steps that write requests or votes.
LEMMA WritesAdvance ==
    ASSUME IInv, NEW h \in Handlers,
           \/ GuestInsert(h) \/ VoteCommit(h) \/ Review(h)
           \/ PatchWrite(h) \/ MergeCommit(h)
    PROVE  Advances
<1> USE DEF requestVars, mergeVars, voteVars
<1>0. BoardTypeOK /\ call[h] \in CallState
    BY DEF IInv, BoardTypeOK
<1>1. CASE GuestInsert(h)
    BY <1>0, <1>1 DEF GuestInsert, Advances, BoardTypeOK
<1>2. CASE VoteCommit(h)
    <2> DEFINE r == call[h].req
               backers == request_vote[r] \cup {call[h].voter}
    <2>1. r \in Requests
        BY <1>0, <1>2, CallFields DEF VoteCommit, Continues
    <2>2. \/ request_vote' = request_vote
          \/ request_vote' = [request_vote EXCEPT ![r] = backers]
        BY <1>2 DEF VoteCommit
    <2> QED BY <1>0, <1>2, <2>1, <2>2 DEF VoteCommit, Advances, BoardTypeOK
<1>3. CASE Review(h)
    <2>1. \/ revision' = revision
          \/ \E r \in Requests : revision' = [revision EXCEPT ![r] = @ + 1]
        BY <1>3 DEF Review, Reviewed
    <2> QED BY <1>0, <1>3, <2>1 DEF Review, Advances, BoardTypeOK
<1>4. CASE PatchWrite(h)
    <2> DEFINE r == call[h].req
    <2>1. r \in Requests /\ call[h].expected \in Nat
        BY <1>0, <1>4, CallFields DEF PatchWrite, Continues
    <2>2. \/ UNCHANGED <<row, revision>>
          \/ /\ row' = [row EXCEPT ![r] = call[h].next]
             /\ revision' = [revision EXCEPT ![r] = call[h].expected + 1]
             /\ revision[r] = call[h].expected
        BY <1>4 DEF PatchWrite, RevisionMatches
    <2> QED BY <1>0, <1>4, <2>1, <2>2 DEF PatchWrite, Advances, BoardTypeOK
<1>5. CASE MergeCommit(h)
    <2> DEFINE s == call[h].survivor
               d == call[h].duplicate
               backers == request_vote[s] \cup request_vote[d]
    <2>1. CASE LinkedTogether(s, d)
        <3>1. Frame
            BY <1>5, <2>1 DEF MergeCommit, Frame
        <3> QED BY <1>0, <3>1, FrameAdvances
    <2>2. CASE ~LinkedTogether(s, d)
        <3>1. /\ s \in Requests /\ d \in Requests /\ s # d
              /\ request_vote' = [request_vote EXCEPT ![s] = backers]
              /\ row' = [row EXCEPT ![d] = Closed(@, s)]
              /\ revision' = [revision EXCEPT ![s] = @ + 1, ![d] = @ + 1]
            BY <1>5, <2>2, MergeVotes
        <3>2. created' = created
            BY <1>5 DEF MergeCommit
        <3> HIDE DEF s, d
        <3> QED BY <1>0, <3>1, <3>2 DEF Advances, BoardTypeOK
    <2> QED BY <2>1, <2>2
<1> QED BY <1>1, <1>2, <1>3, <1>4, <1>5

\* A call whose state a step leaves alone is still good after it.
LEMMA OthersKept ==
    ASSUME BoardTypeOK, BoardTypeOK', Advances, NEW h \in Handlers, CallOK(h),
           call'[h] = call[h]
    PROVE  CallOK(h)'
<1>0. call[h] \in CallState
    BY DEF BoardTypeOK
<1>1. PatchOK(h)'
    <2> SUFFICES ASSUME call[h].at = "patch_write" PROVE PatchOK(h)'
        BY DEF CallOK, PatchOK
    <2> DEFINE r == call[h].req
    <2>1. /\ r \in Requests /\ r \in created /\ call[h].expected \in Nat
          /\ call[h].expected <= revision[r]
          /\ call[h].patch \in SentPatches
          /\ call[h].expected = revision[r] =>
                call[h].next = Patched(row[r], call[h].patch)
        BY <1>0, CallFields DEF CallOK, PatchOK
    <2>2. /\ revision[r] \in Nat /\ revision'[r] \in Nat
          /\ revision[r] <= revision'[r]
          /\ row'[r] # row[r] => revision'[r] > revision[r]
        BY <2>1 DEF BoardTypeOK, Advances
    <2>3. /\ call[h].expected <= revision'[r]
          /\ call[h].expected = revision'[r] => row'[r] = row[r]
        BY <2>1, <2>2
    <2>4. call[h].expected = revision'[r] => call[h].expected = revision[r]
        BY <2>1, <2>2
    <2> QED BY <2>1, <2>3, <2>4 DEF PatchOK, Advances
<1>2. VoteOK(h)'
    BY DEF CallOK, VoteOK, Advances
<1>3. \A r \in Requests :
         /\ Cardinality(request_vote[r]) \in Nat
         /\ Cardinality(request_vote'[r]) \in Nat
         /\ Cardinality(request_vote[r]) <= Cardinality(request_vote'[r])
    <2> TAKE r \in Requests
    <2>1. /\ request_vote[r] \in SUBSET Voters
          /\ request_vote'[r] \in SUBSET Voters
          /\ request_vote[r] \subseteq request_vote'[r]
        BY DEF BoardTypeOK, Advances
    <2> QED BY <2>1, VotersFinite, FS_Subset
<1>4. MergeOK(h)'
    BY <1>0, <1>3, CallFields DEF CallOK, MergeOK, Advances
<1> QED BY <1>1, <1>2, <1>4 DEF CallOK

\* A step of h that takes its call to a state that is good keeps every call
\* good.
LEMMA GoesOn ==
    ASSUME BoardTypeOK, BoardTypeOK', Advances, \A k \in Handlers : CallOK(k),
           NEW h \in Handlers, NEW st, Goes(h, st), CallOK(h)'
    PROVE  \A k \in Handlers : CallOK(k)'
<1> SUFFICES ASSUME NEW k \in Handlers, k # h PROVE CallOK(k)'
    OBVIOUS
<1>1. call'[k] = call[k]
    BY DEF Goes, BoardTypeOK
<1> QED BY <1>1, OthersKept

LEMMA IdleOK ==
    ASSUME NEW h \in Handlers, call'[h] = Idle PROVE CallOK(h)'
BY DEF Idle, CallOK, PatchOK, VoteOK, MergeOK

----------------------------------------------------------------------------
(* The steps of the public calls                                           *)

\* A step that touches neither requests nor votes keeps the invariant if the
\* call it moves stays good.
LEMMA QuietKeeps ==
    ASSUME IInv, BoardTypeOK', Frame,
           NEW h \in Handlers, NEW st, Goes(h, st), CallOK(h)'
    PROVE  IInv'
<1>1. Advances
    BY FrameAdvances DEF IInv
<1>2. DemandIsBacked'
    BY DEF IInv, DemandIsBacked, Frame
<1> QED BY <1>1, <1>2, GoesOn DEF IInv

\* The same for a step that returns.
LEMMA ReturnKeeps ==
    ASSUME IInv, BoardTypeOK', Advances, DemandIsBacked',
           NEW h \in Handlers, Returns(h)
    PROVE  IInv'
<1>1. call'[h] = Idle
    BY DEF Returns, Goes, IInv, BoardTypeOK
<1>2. CallOK(h)'
    BY <1>1, IdleOK
<1> QED BY <1>2, GoesOn DEF Returns, IInv

LEMMA QuietReturn ==
    ASSUME IInv, BoardTypeOK', Frame, NEW h \in Handlers, Returns(h)
    PROVE  IInv'
<1>1. Advances
    BY FrameAdvances DEF IInv
<1>2. DemandIsBacked'
    BY DEF IInv, DemandIsBacked, Frame
<1> QED BY <1>1, <1>2, ReturnKeeps

\* A state at a place the invariant says nothing about.
LEMMA FreeOK ==
    ASSUME BoardTypeOK, NEW h \in Handlers, NEW st, Goes(h, st),
           st.at \notin {"vote_issue", "vote_commit", "patch_read",
                        "patch_write", "merge_check", "merge_commit"}
    PROVE  CallOK(h)'
<1>1. call'[h] = st
    BY DEF Goes, BoardTypeOK
<1> QED BY <1>1 DEF CallOK, PatchOK, VoteOK, MergeOK

LEMMA VoteStateOK ==
    ASSUME BoardTypeOK, NEW h \in Handlers, NEW st, Goes(h, st),
           st.at \in {"vote_issue", "vote_commit"}, st.req \in created,
           created' = created
    PROVE  CallOK(h)'
<1>1. call'[h] = st
    BY DEF Goes, BoardTypeOK
<1> QED BY <1>1 DEF CallOK, PatchOK, VoteOK, MergeOK

LEMMA PublicInv ==
    ASSUME IInv, BoardTypeOK', NEW h \in Handlers,
           PublicArrives(h) \/ PublicProceeds(h)
    PROVE  IInv'
<1> USE DEF requestVars, mergeVars, voteVars
<1>0. BoardTypeOK /\ CallOK(h)
    BY DEF IInv
<1>1. CASE GuestBegin(h)
    <2>1. Frame
        BY <1>1, QuietSteps
    <2>2. ASSUME NEW st, Goes(h, st), st.at = "guest_insert" PROVE IInv'
        BY <1>0, <2>1, <2>2, FreeOK, QuietKeeps
    <2> QED BY <1>1, <2>1, <2>2, QuietReturn DEF GuestBegin
<1>2. CASE GuestInsert(h)
    <2>1. DemandIsBacked'
        BY <1>2 DEF GuestInsert, IInv, DemandIsBacked
    <2>2. Advances
        BY <1>2, WritesAdvance
    <2> QED BY <1>2, <2>1, <2>2, ReturnKeeps DEF GuestInsert
<1>3. CASE VoteBegin(h)
    <2>1. Frame /\ created' = created
        BY <1>3, QuietSteps DEF Frame
    <2>2. ASSUME NEW r \in created, NEW st, Goes(h, st),
                 st.at \in {"vote_issue", "vote_commit"}, st.req = r
          PROVE  IInv'
        <3>1. CallOK(h)'
            BY <1>0, <2>1, <2>2, VoteStateOK
        <3> QED BY <2>1, <2>2, <3>1, QuietKeeps
    <2>3. ASSUME NEW r \in Requests, Shown(r),
                 Goes(h, [at |-> "vote_issue", req |-> r])
          PROVE  IInv'
        BY <2>2, <2>3 DEF Shown
    <2>4. ASSUME NEW r \in Requests, Shown(r), NEW v \in cookies,
                 Goes(h, [at |-> "vote_commit", req |-> r, voter |-> v,
                          fresh |-> FALSE])
          PROVE  IInv'
        BY <2>2, <2>4 DEF Shown
    <2> QED BY <1>3, <2>1, <2>3, <2>4, QuietReturn DEF VoteBegin
<1>4. CASE VoteIssue(h)
    <2>1. Frame /\ created' = created
        BY <1>4, QuietSteps DEF Frame
    <2>2. call[h].req \in created
        BY <1>0, <1>4 DEF VoteIssue, Continues, CallOK, VoteOK
    <2>3. ASSUME NEW v \in Voters,
                 Goes(h, [at |-> "vote_commit", req |-> call[h].req,
                          voter |-> v, fresh |-> TRUE])
          PROVE  IInv'
        <3>1. CallOK(h)'
            BY <1>0, <2>1, <2>2, <2>3, VoteStateOK
        <3> QED BY <2>1, <2>3, <3>1, QuietKeeps
    <2> QED BY <1>4, <2>1, <2>3, QuietReturn DEF VoteIssue
<1>5. CASE VoteCommit(h)
    <2> DEFINE r == call[h].req
               backers == request_vote[r] \cup {call[h].voter}
    <2>1. r \in Requests /\ call[h].voter \in Voters
        BY <1>0, <1>5, CallFields DEF VoteCommit, Continues, BoardTypeOK
    <2>2. Cardinality(backers) \in Nat
        <3>1. backers \in SUBSET Voters
            BY <1>0, <2>1 DEF BoardTypeOK
        <3> QED BY <3>1, VotersFinite
    <2> HIDE DEF backers
    <2>3. \/ UNCHANGED <<request_vote, vote_count>>
          \/ /\ request_vote' = [request_vote EXCEPT ![r] = backers]
             /\ vote_count' = [vote_count EXCEPT ![r] = Cardinality(backers)]
        BY <1>5 DEF VoteCommit, backers
    <2>4. DemandIsBacked'
        BY <1>0, <2>1, <2>2, <2>3 DEF IInv, DemandIsBacked, BoardTypeOK
    <2>5. Advances
        BY <1>5, WritesAdvance
    <2> QED BY <1>5, <2>4, <2>5, ReturnKeeps DEF VoteCommit
<1>6. CASE CommentBegin(h)
    <2>1. Frame
        BY <1>6, QuietSteps
    <2>2. ASSUME NEW st, Goes(h, st), st.at = "comment_check" PROVE IInv'
        BY <1>0, <2>1, <2>2, FreeOK, QuietKeeps
    <2> QED BY <1>6, <2>2 DEF CommentBegin
<1>7. CASE CommentCheck(h)
    <2>1. Frame
        BY <1>7, QuietSteps
    <2>2. [call[h] EXCEPT !.at = "comment_insert"].at = "comment_insert"
        BY <1>0, <1>7 DEF CommentCheck, Continues, BoardTypeOK, CallState
    <2>3. ASSUME NEW st, Goes(h, st), st.at = "comment_insert" PROVE IInv'
        BY <1>0, <2>1, <2>3, FreeOK, QuietKeeps
    <2> QED BY <1>7, <2>1, <2>2, <2>3, QuietReturn DEF CommentCheck
<1>8. CASE CommentInsert(h)
    <2>1. Frame
        BY <1>8, QuietSteps
    <2> QED BY <1>8, <2>1, QuietReturn DEF CommentInsert
<1> QED BY <1>1, <1>2, <1>3, <1>4, <1>5, <1>6, <1>7, <1>8
        DEF PublicArrives, PublicProceeds

----------------------------------------------------------------------------
(* The steps of the admin and changelog calls, and kills                   *)

LEMMA PatchStepKeeps ==
    ASSUME IInv, BoardTypeOK', NEW h \in Handlers,
           PatchBegin(h) \/ PatchRead(h) \/ PatchWrite(h)
    PROVE  IInv'
<1> USE DEF requestVars, mergeVars, voteVars
<1>0. BoardTypeOK /\ CallOK(h) /\ call[h] \in CallState
    BY DEF IInv, BoardTypeOK
<1>1. CASE PatchBegin(h)
    <2>1. Frame
        BY <1>1, QuietSteps
    <2>2. ASSUME NEW r \in Requests, NEW n, NEW p \in SentPatches,
                 Goes(h, [at |-> "patch_read", req |-> r, expected |-> n,
                          patch |-> p])
          PROVE  IInv'
        <3>1. call'[h] = [at |-> "patch_read", req |-> r, expected |-> n,
                          patch |-> p]
            BY <1>0, <2>2 DEF Goes, BoardTypeOK
        <3>2. CallOK(h)'
            BY <3>1 DEF CallOK, PatchOK, VoteOK, MergeOK, SentPatches
        <3> QED BY <2>1, <2>2, <3>2, QuietKeeps
    <2>3. /\ \A p \in Patches : p \in SentPatches
          /\ \A s \in Requests \cup {NoRequest, Unset} :
                TriagePatch(s) \in SentPatches
        BY DEF SentPatches
    <2> QED BY <1>1, <2>1, <2>2, <2>3, QuietReturn DEF PatchBegin
<1>2. CASE PatchRead(h)
    <2>1. Frame
        BY <1>2, QuietSteps
    <2> DEFINE r == call[h].req
               st == [at |-> "patch_write", req |-> r,
                      expected |-> call[h].expected, patch |-> call[h].patch,
                      next |-> Patched(row[r], call[h].patch)]
    <2>2. ASSUME Goes(h, st), r \in created, revision[r] = call[h].expected
          PROVE  IInv'
        <3>1. call'[h] = st
            BY <1>0, <2>2 DEF Goes, BoardTypeOK
        <3>2. /\ call[h].patch \in SentPatches /\ call[h].expected \in Nat
              /\ r \in Requests
            BY <1>0, <1>2, CallFields DEF PatchRead, Continues, CallOK, PatchOK
        <3>3. PatchOK(h)'
            BY <2>1, <2>2, <3>1, <3>2 DEF PatchOK, Frame, SentPatches
        <3>4. CallOK(h)'
            BY <3>1, <3>3 DEF CallOK, VoteOK, MergeOK
        <3> HIDE DEF st
        <3> QED BY <2>1, <2>2, <3>4, QuietKeeps
    <2> QED BY <1>2, <2>1, <2>2, QuietReturn DEF PatchRead
<1>3. CASE PatchWrite(h)
    <2>1. DemandIsBacked'
        BY <1>3 DEF PatchWrite, IInv, DemandIsBacked
    <2>2. Advances
        BY <1>3, WritesAdvance
    <2> QED BY <1>3, <2>1, <2>2, ReturnKeeps DEF PatchWrite
<1> QED BY <1>1, <1>2, <1>3

LEMMA MergeReadsKeep ==
    ASSUME IInv, BoardTypeOK', NEW h \in Handlers,
           MergeBegin(h) \/ MergeCheck(h)
    PROVE  IInv'
<1>0. BoardTypeOK /\ CallOK(h) /\ call[h] \in CallState /\ DemandIsBacked
    BY DEF IInv, BoardTypeOK
<1>1. Frame
    BY QuietSteps
<1>2. \A r \in Requests : Cardinality(request_vote[r]) \in Nat
    BY <1>0, VotersFinite DEF BoardTypeOK
<1>3. \A r \in Requests :
         SeedVotes = 0 => vote_count[r] <= Cardinality(request_vote[r])
    BY <1>0, <1>2 DEF DemandIsBacked
<1>4. CASE MergeBegin(h)
    <2>1. ASSUME NEW s \in Requests, NEW d \in Requests, s # d, s \in created,
                 Goes(h, [at |-> "merge_check", survivor |-> s,
                          duplicate |-> d, survivor_votes |-> vote_count[s]])
          PROVE  IInv'
        <3>1. call'[h] = [at |-> "merge_check", survivor |-> s,
                          duplicate |-> d, survivor_votes |-> vote_count[s]]
            BY <1>0, <2>1 DEF Goes, BoardTypeOK
        <3>2. CallOK(h)'
            BY <1>1, <1>3, <2>1, <3>1
               DEF CallOK, PatchOK, VoteOK, MergeOK, Frame
        <3> QED BY <1>1, <2>1, <3>2, QuietKeeps
    <2> QED BY <1>1, <1>4, <2>1, QuietReturn DEF MergeBegin
<1>5. CASE MergeCheck(h)
    <2> DEFINE d == call[h].duplicate
               st == [at |-> "merge_commit", survivor |-> call[h].survivor,
                      duplicate |-> d,
                      survivor_votes |-> call[h].survivor_votes,
                      duplicate_votes |-> vote_count[d]]
    <2>1. ASSUME Goes(h, st), d \in created PROVE IInv'
        <3>1. call'[h] = st
            BY <1>0, <2>1 DEF Goes, BoardTypeOK
        <3>2. d \in Requests
            BY <1>0, <1>5, CallFields DEF MergeCheck, Continues
        <3>3. MergeOK(h)'
            BY <1>0, <1>1, <1>3, <1>5, <2>1, <3>1, <3>2
               DEF MergeCheck, Continues, CallOK, MergeOK, Frame
        <3>4. CallOK(h)'
            BY <3>1, <3>3 DEF CallOK, PatchOK, VoteOK
        <3> HIDE DEF st
        <3> QED BY <1>1, <2>1, <3>4, QuietKeeps
    <2> QED BY <1>1, <1>5, <2>1, QuietReturn DEF MergeCheck
<1> QED BY <1>4, <1>5

LEMMA MergeCommitKeeps ==
    ASSUME IInv, BoardTypeOK', NEW h \in Handlers, MergeCommit(h)
    PROVE  IInv'
<1> DEFINE s == call[h].survivor
           d == call[h].duplicate
           backers == request_vote[s] \cup request_vote[d]
<1>0. BoardTypeOK
    BY DEF IInv
<1>1. Advances
    BY WritesAdvance
<1>2. DemandIsBacked'
    <2>1. CASE LinkedTogether(s, d)
        BY <2>1 DEF MergeCommit, voteVars, IInv, DemandIsBacked
    <2>2. CASE ~LinkedTogether(s, d)
        <3>1. /\ s \in Requests
              /\ request_vote' = [request_vote EXCEPT ![s] = backers]
              /\ Cardinality(backers) \in Nat
              /\ \E unbacked \in Nat :
                    /\ vote_count' =
                          [vote_count EXCEPT ![s] =
                              Cardinality(backers) + unbacked]
                    /\ SeedVotes = 0 => unbacked = 0
            BY <2>2, MergeVotes
        <3> HIDE DEF s, backers
        <3> QED BY <1>0, <3>1 DEF IInv, DemandIsBacked, BoardTypeOK
    <2> QED BY <2>1, <2>2
<1> QED BY <1>1, <1>2, ReturnKeeps DEF MergeCommit

\* A step that starts and ends a call at once.
LEMMA StaysKeeps ==
    ASSUME IInv, BoardTypeOK', Advances, DemandIsBacked', call' = call
    PROVE  IInv'
BY OthersKept DEF IInv

LEMMA AdminInv ==
    ASSUME IInv, BoardTypeOK', NEW h \in Handlers,
           AdminArrives(h) \/ AdminProceeds(h)
    PROVE  IInv'
<1>0. BoardTypeOK
    BY DEF IInv
<1>1. CASE Review(h)
    <2>1. DemandIsBacked'
        BY <1>1 DEF Review, IInv, DemandIsBacked, voteVars
    <2>2. Advances
        BY <1>1, WritesAdvance
    <2> QED BY <1>1, <2>1, <2>2, StaysKeeps DEF Review
<1>2. CASE SetPolicy(h)
    <2>1. Frame
        BY <1>2, QuietSteps
    <2>2. DemandIsBacked'
        BY <2>1 DEF Frame, IInv, DemandIsBacked
    <2> QED BY <1>0, <1>2, <2>1, <2>2, FrameAdvances, StaysKeeps DEF SetPolicy
<1> QED BY <1>1, <1>2, PatchStepKeeps, MergeReadsKeep, MergeCommitKeeps
        DEF AdminArrives, AdminProceeds

LEMMA ChangelogInv ==
    ASSUME IInv, BoardTypeOK', NEW h \in Handlers,
           ChangelogArrives(h) \/ ChangelogProceeds(h)
    PROVE  IInv'
<1>0. BoardTypeOK /\ call[h] \in CallState
    BY DEF IInv, BoardTypeOK
<1>1. Frame
    BY QuietSteps
<1>2. ASSUME NEW st, Goes(h, st), st.at \in {"draft_check", "publish_check"}
      PROVE  IInv'
    BY <1>0, <1>1, <1>2, FreeOK, QuietKeeps
<1>3. \A r, place : call[h].at = place =>
         [call[h] EXCEPT !.todo = @ \ {r}].at = place
    BY <1>0 DEF CallState
<1>4. CASE DraftBegin(h) \/ PublishBegin(h)
    BY <1>1, <1>2, <1>4, QuietReturn DEF DraftBegin, PublishBegin
<1>5. CASE DraftCheck(h) \/ PublishCheck(h)
    BY <1>1, <1>2, <1>3, <1>5, QuietReturn
       DEF DraftCheck, PublishCheck, Continues
<1>6. CASE DraftInsert(h) \/ PublishWrite(h)
    BY <1>1, <1>6, QuietReturn DEF DraftInsert, PublishWrite
<1> QED BY <1>4, <1>5, <1>6 DEF ChangelogArrives, ChangelogProceeds

LEMMA CrashInv == IInv /\ BoardTypeOK' /\ Crash => IInv'
<1> SUFFICES ASSUME IInv, BoardTypeOK', Crash PROVE IInv'
    OBVIOUS
<1>1. DemandIsBacked'
    BY DEF Crash, IInv, DemandIsBacked, voteVars
<1>2. \A h \in Handlers : call'[h] = Idle
    BY DEF Crash
<1> QED BY <1>1, <1>2, IdleOK DEF IInv

LEMMA NextIInv == IInv /\ [Next]_vars => IInv'
<1> SUFFICES ASSUME IInv, [Next]_vars PROVE IInv'
    OBVIOUS
<1>1. BoardTypeOK'
    BY NextType DEF IInv
<1>2. CASE UNCHANGED vars
    <2>1. Frame /\ call' = call
        BY <1>2 DEF vars, tables, requestVars, mergeVars, voteVars, Frame
    <2>2. DemandIsBacked'
        BY <2>1 DEF Frame, IInv, DemandIsBacked
    <2> QED BY <1>1, <2>1, <2>2, FrameAdvances, StaysKeeps DEF IInv
<1> QED BY <1>1, <1>2, PublicInv, AdminInv, ChangelogInv, CrashInv
        DEF Next, Arrives, Proceeds, Quiescent

LEMMA IInvHolds == Spec => []IInv
<1> QED BY InitIInv, NextIInv, PTL DEF Spec

\* No request ever shows fewer votes than it has voters, and with no seeded
\* counts it shows exactly that many, however votes and merges interleave.
THEOREM DemandAlwaysBacked == Spec => []DemandIsBacked
<1>1. IInv => DemandIsBacked
    BY DEF IInv
<1> QED BY <1>1, IInvHolds, PTL

----------------------------------------------------------------------------
(* Revisions and visibility                                                *)

LEMMA StepAdvances == IInv /\ [Next]_vars => Advances
<1> SUFFICES ASSUME IInv, [Next]_vars PROVE Advances
    OBVIOUS
<1>0. BoardTypeOK
    BY DEF IInv
<1>1. CASE UNCHANGED vars \/ Crash
    <2>1. Frame
        BY <1>1 DEF vars, tables, requestVars, mergeVars, voteVars, Crash, Frame
    <2> QED BY <1>0, <2>1, FrameAdvances
<1>2. ASSUME NEW h \in Handlers, Arrives(h) \/ Proceeds(h) PROVE Advances
    <2>1. Frame => Advances
        BY <1>0, FrameAdvances
    <2> QED BY <1>2, <2>1, QuietSteps, WritesAdvance
            DEF Arrives, Proceeds, PublicArrives, PublicProceeds, AdminArrives,
                AdminProceeds
<1> QED BY <1>1, <1>2 DEF Next, Quiescent

\* A request's columns never change without its revision moving on, so the
\* revision check of patch_request protects every client.
THEOREM NoChangeIsSilent == Spec => NoSilentChange
<1>1. IInv /\ [Next]_vars =>
        [\A r \in created : row'[r] # row[r] => revision'[r] > revision[r]]_vars
    BY StepAdvances DEF Advances
<1> QED BY <1>1, IInvHolds, PTL DEF Spec, NoSilentChange

\* A patch makes a row public only by naming what was hiding it.
LEMMA PatchedPublic ==
    ASSUME NEW old \in Row, NEW patch \in Patch, ~Public(old),
           Public(Patched(old, patch))
    PROVE  /\ old.visible \/ patch.visible = TRUE
           /\ old.moderation = "approved" \/ patch.moderation = "approved"
<1>1. /\ Patched(old, patch).visible = Chosen(patch.visible, old.visible)
      /\ Patched(old, patch).moderation =
            Chosen(patch.moderation, old.moderation)
    BY DEF Patched
<1>2. /\ Chosen(patch.visible, old.visible)
      /\ Chosen(patch.moderation, old.moderation) = "approved"
    BY <1>1 DEF Public
<1>3. patch.visible \in BOOLEAN \cup {Unset} /\ old.visible \in BOOLEAN
    BY DEF Row, Patch
<1>4. CASE patch.visible = Unset
    BY <1>2, <1>4 DEF Chosen
<1>5. CASE patch.visible # Unset
    BY <1>2, <1>3, <1>5 DEF Chosen
<1> QED BY <1>2, <1>4, <1>5 DEF Chosen

\* Only a patch that asks for it brings a hidden or merged request back on the
\* public board.
THEOREM HiddenRequestsStayHidden == Spec => HiddenStaysHidden
<1> DEFINE Asked(r) ==
        \E h \in Handlers :
           /\ call[h].at = "patch_write"
           /\ call[h].req = r
           /\ row[r].visible \/ call[h].patch.visible = TRUE
           /\ \/ row[r].moderation = "approved"
              \/ call[h].patch.moderation = "approved"
<1>1. ASSUME IInv, [Next]_vars, NEW r \in created, ~Public(row[r]),
             Public(row'[r])
      PROVE  Asked(r)
    <2>0. BoardTypeOK /\ row'[r] # row[r] /\ r \in Requests
        BY <1>1 DEF IInv, BoardTypeOK
    <2>1. CASE UNCHANGED vars \/ Crash
        BY <2>0, <2>1 DEF vars, tables, requestVars, mergeVars, Crash
    <2>2. ASSUME NEW h \in Handlers, Arrives(h) \/ Proceeds(h)
          PROVE  Asked(r)
        <3>0. CallOK(h) /\ call[h] \in CallState
            BY <1>1 DEF IInv, BoardTypeOK
        <3>1. \/ GuestInsert(h) \/ VoteCommit(h) \/ Review(h)
              \/ PatchWrite(h) \/ MergeCommit(h)
            BY <2>0, <2>2, QuietSteps
               DEF Frame, Arrives, Proceeds, PublicArrives, PublicProceeds,
                   AdminArrives, AdminProceeds
        <3>2. CASE GuestInsert(h) \/ VoteCommit(h) \/ Review(h)
            BY <2>0, <3>2 DEF GuestInsert, VoteCommit, Review, requestVars, mergeVars,
                              BoardTypeOK
        <3>3. CASE MergeCommit(h)
            <4>1. CASE LinkedTogether(call[h].survivor, call[h].duplicate)
                BY <2>0, <3>3, <4>1 DEF MergeCommit
            <4>2. CASE ~LinkedTogether(call[h].survivor, call[h].duplicate)
                <5>1. row' = [row EXCEPT ![call[h].duplicate] =
                                 Closed(@, call[h].survivor)]
                    BY <1>1, <3>3, <4>2, MergeVotes
                <5>2. ~Public(Closed(row[r], call[h].survivor))
                    BY <2>0 DEF Public, Closed, BoardTypeOK, Row
                <5> QED BY <1>1, <2>0, <5>1, <5>2 DEF BoardTypeOK
            <4> QED BY <4>1, <4>2
        <3>4. CASE PatchWrite(h)
            <4>1. /\ call[h].at = "patch_write" /\ call[h].req = r
                  /\ row'[r] = call[h].next
                  /\ call[h].expected = revision[r]
                BY <2>0, <3>4
                   DEF PatchWrite, Continues, RevisionMatches, BoardTypeOK
            <4>2. row'[r] = Patched(row[r], call[h].patch)
                BY <3>0, <4>1 DEF CallOK, PatchOK
            <4>3. call[h].patch \in Patch /\ row[r] \in Row
                BY <2>0, <3>0, <4>1, CallFields DEF BoardTypeOK
            <4> QED BY <1>1, <4>1, <4>2, <4>3, PatchedPublic
        <3> QED BY <3>1, <3>2, <3>3, <3>4
    <2> QED BY <1>1, <2>1, <2>2 DEF Next, Quiescent
<1>2. IInv /\ [Next]_vars =>
        [\A r \in created : ~Public(row[r]) /\ Public(row'[r]) =>
            Asked(r)]_vars
    BY <1>1
<1> QED BY <1>2, IInvHolds, PTL DEF Spec, HiddenStaysHidden

----------------------------------------------------------------------------
(* Backers of a merged request                                             *)

\* "merged" is what a merge writes: no client sends it.  (The column is free
\* text, so a client that reopened a duplicate and then called it merged again
\* would hide the votes cast in between.)
NobodySendsMerged == \A p \in Patches : p.moderation # "merged"

BackersInv == NobodySendsMerged /\ IInv /\ BackersKept

\* A patch leaves a request merged only if it was.
LEMMA PatchDoesNotMerge ==
    ASSUME NobodySendsMerged, IInv, NEW h \in Handlers, PatchWrite(h),
           NEW r \in Requests, row'[r].moderation = "merged"
    PROVE  row[r].moderation = "merged"
<1> DEFINE q == call[h].req
           p == call[h].patch
<1>0. BoardTypeOK /\ CallOK(h) /\ call[h] \in CallState
    BY DEF IInv, BoardTypeOK
<1>1. q \in Requests /\ call[h].expected \in Nat
    BY <1>0, CallFields DEF PatchWrite, Continues
<1>2. CASE row' = row
    BY <1>2
<1>3. CASE row' # row
    <2>1. row' = [row EXCEPT ![q] = call[h].next] /\ revision[q] = call[h].expected
        BY <1>3 DEF PatchWrite, RevisionMatches
    <2>2. call[h].next = Patched(row[q], p) /\ p \in SentPatches
        BY <1>0, <2>1 DEF PatchWrite, Continues, CallOK, PatchOK
    <2>3. p.moderation = Unset \/ p.moderation # "merged"
        BY <2>2 DEF SentPatches, NobodySendsMerged, TriagePatch, EmptyPatch
    <2>4. call[h].next.moderation = "merged" => row[q].moderation = "merged"
        BY <2>2, <2>3 DEF Patched, Chosen
    <2> QED BY <1>0, <1>1, <2>1, <2>4 DEF BoardTypeOK
<1> QED BY <1>2, <1>3

LEMMA BackersSteps ==
    ASSUME BackersInv, IInv', NEW h \in Handlers,
           PublicArrives(h) \/ PublicProceeds(h) \/ AdminArrives(h)
           \/ AdminProceeds(h) \/ ChangelogArrives(h) \/ ChangelogProceeds(h)
    PROVE  BackersKept'
<1>0. BoardTypeOK /\ BackersKept /\ call[h] \in CallState
    BY DEF BackersInv, IInv, BoardTypeOK
<1> USE DEF requestVars, mergeVars, voteVars
<1>1. CASE UNCHANGED <<row, mergedInto, buried, request_vote>>
    BY <1>0, <1>1 DEF BackersKept
<1>2. CASE GuestInsert(h)
    <2>1. PICK r \in Requests :
             row' = [row EXCEPT ![r] = InsertedRow(call[h].moderate)]
        BY <1>2 DEF GuestInsert
    <2>2. InsertedRow(call[h].moderate).moderation # "merged"
        BY DEF InsertedRow
    <2> QED BY <1>0, <1>2, <2>1, <2>2 DEF GuestInsert, BackersKept, BoardTypeOK
<1>3. CASE VoteCommit(h)
    <2> DEFINE r == call[h].req
    <2>1. r \in Requests /\ UNCHANGED <<row, mergedInto, buried>>
        BY <1>0, <1>3, CallFields DEF VoteCommit, Continues
    <2>2. CASE Public(row[r])
        <3>1. request_vote' =
                 [request_vote EXCEPT ![r] = request_vote[r] \cup {call[h].voter}]
            BY <1>3, <2>2 DEF VoteCommit, StillCounts
        <3>2. row[r].moderation # "merged"
            BY <2>2 DEF Public
        <3> QED BY <1>0, <2>1, <3>1, <3>2 DEF BackersKept, BoardTypeOK
    <2>3. CASE ~Public(row[r])
        BY <1>1, <1>3, <2>1, <2>3 DEF VoteCommit, StillCounts
    <2> QED BY <2>2, <2>3
<1>4. CASE PatchWrite(h)
    <2>1. UNCHANGED <<mergedInto, buried, request_vote>>
        BY <1>4 DEF PatchWrite
    <2>2. \A r \in Requests :
             row'[r].moderation = "merged" => row[r].moderation = "merged"
        BY <1>4, PatchDoesNotMerge DEF BackersInv
    <2> QED BY <1>0, <2>1, <2>2 DEF BackersKept
<1>5. CASE MergeCommit(h)
    <2> DEFINE s == call[h].survivor
               d == call[h].duplicate
    <2>1. CASE LinkedTogether(s, d)
        BY <1>1, <1>5, <2>1 DEF MergeCommit
    <2>2. CASE ~LinkedTogether(s, d)
        <3>1. /\ s \in Requests /\ d \in Requests /\ s # d
              /\ request_vote' =
                    [request_vote EXCEPT ![s] = request_vote[s] \cup request_vote[d]]
              /\ row' = [row EXCEPT ![d] = Closed(@, s)]
            BY <1>5, <2>2, MergeVotes DEF BackersInv
        <3>2. /\ mergedInto' = [mergedInto EXCEPT ![d] = s]
              /\ buried' = [buried EXCEPT
                               ![s] = IF row[s].moderation = "merged"
                                      THEN @ \cup request_vote[d] ELSE @,
                               ![d] = {}]
            BY <1>5, <2>2 DEF MergeCommit, MergeRows
        <3> HIDE DEF s, d
        <3> SUFFICES ASSUME NEW e \in Requests, NEW t \in Requests,
                            mergedInto'[e] = t, row'[e].moderation = "merged"
                     PROVE  request_vote'[e] \subseteq request_vote'[t] \cup buried'[e]
            BY DEF BackersKept
        <3>3. /\ request_vote' \in [Requests -> SUBSET Voters]
              /\ \A q \in Requests : request_vote[q] \subseteq request_vote'[q]
            BY <1>0, <3>1 DEF BoardTypeOK
        <3>4. CASE e = d
            BY <1>0, <3>1, <3>2, <3>4 DEF BoardTypeOK
        <3>5. CASE e # d
            <4>1. /\ mergedInto[e] = t /\ row[e].moderation = "merged"
                  /\ request_vote[e] \subseteq request_vote[t] \cup buried[e]
                BY <1>0, <3>1, <3>2, <3>5 DEF BackersKept, BoardTypeOK
            <4>2. CASE e = s
                BY <1>0, <3>1, <3>2, <3>3, <4>1, <4>2 DEF BoardTypeOK
            <4>3. CASE e # s
                BY <1>0, <3>1, <3>2, <3>3, <3>5, <4>1, <4>3 DEF BoardTypeOK
            <4> QED BY <4>2, <4>3
        <3> QED BY <3>4, <3>5
    <2> QED BY <2>1, <2>2
<1>6. CASE \/ GuestBegin(h) \/ VoteBegin(h) \/ VoteIssue(h) \/ CommentBegin(h)
           \/ CommentCheck(h) \/ CommentInsert(h)
    BY <1>1, <1>6 DEF GuestBegin, VoteBegin, VoteIssue, CommentBegin, CommentCheck,
                      CommentInsert, tables
<1>7. CASE Review(h) \/ PatchBegin(h) \/ PatchRead(h) \/ MergeBegin(h) \/ MergeCheck(h)
           \/ SetPolicy(h)
    BY <1>1, <1>7 DEF Review, PatchBegin, PatchRead, MergeBegin, MergeCheck, SetPolicy, tables
<1>8. CASE ChangelogArrives(h) \/ ChangelogProceeds(h)
    BY <1>1, <1>8 DEF ChangelogArrives, ChangelogProceeds, DraftBegin, DraftCheck, DraftInsert,
                      PublishBegin, PublishCheck, PublishWrite, tables
<1> QED BY <1>2, <1>3, <1>4, <1>5, <1>6, <1>7, <1>8
        DEF PublicArrives, PublicProceeds, AdminArrives, AdminProceeds

LEMMA BackersNext == BackersInv /\ [Next]_vars => BackersInv'
<1> SUFFICES ASSUME BackersInv, [Next]_vars PROVE BackersInv'
    OBVIOUS
<1>1. IInv'
    BY NextIInv DEF BackersInv
<1>2. CASE UNCHANGED <<row, mergedInto, buried, request_vote>>
    BY <1>1, <1>2 DEF BackersInv, BackersKept, NobodySendsMerged
<1>3. ASSUME NEW h \in Handlers, Arrives(h) \/ Proceeds(h)
      PROVE  BackersInv'
    <2>1. BackersKept'
        BY <1>1, <1>3, BackersSteps DEF Arrives, Proceeds
    <2> QED BY <1>1, <2>1 DEF BackersInv, NobodySendsMerged
<1>4. CASE Crash
    BY <1>2, <1>4 DEF Crash, requestVars, mergeVars, voteVars
<1>5. CASE UNCHANGED vars
    BY <1>2, <1>5 DEF vars, tables, requestVars, mergeVars, voteVars
<1> QED BY <1>3, <1>4, <1>5 DEF Next, Quiescent

\* A merge takes every backer of the duplicate to its survivor, also one whose vote was in
\* flight, and the only ones that come to the closed duplicate afterwards are those another
\* merge buries there by naming it as a survivor; for every set of requests and voters, as long
\* as no client writes "merged" itself.
THEOREM BackersAlwaysKept == NobodySendsMerged /\ Spec => []BackersKept
<1>1. NobodySendsMerged /\ Init => BackersInv
    <2>1. Init => \A d \in Requests : mergedInto[d] = NoRequest
        BY DEF Init
    <2>2. Init => BackersKept
        BY <2>1, NoRequestAssumption DEF BackersKept
    <2> QED BY <2>2, InitIInv DEF BackersInv
<1>2. BackersInv /\ [Next]_vars => BackersInv'
    BY BackersNext
<1>3. BackersInv => BackersKept
    BY DEF BackersInv
<1> QED BY <1>1, <1>2, <1>3, PTL DEF Spec

----------------------------------------------------------------------------
(* Comment counts                                                          *)

\* A comment that is not on the request is added to it, or is on it already.
LEMMA OneMore ==
    ASSUME NEW S, IsFiniteSet(S), NEW c, c \notin S
    PROVE  Cardinality(S \cup {c}) = Cardinality(S) + 1
BY FS_AddElement

LEMMA CommentInsertKeeps ==
    ASSUME BoardTypeOK, CommentCountKept, NEW c \in Comments, NEW r \in Requests,
           NEW m \in BOOLEAN, comment[c].state = "none", Written(c, r, m),
           UNCHANGED <<uncounted, crashes>>,
           comment_count' = [comment_count EXCEPT ![r] = @ + CountedOnInsert(m)]
    PROVE  CommentCountKept'
<1>1. \A q \in Requests : q # r => ApprovedOf(comment', q) = ApprovedOf(comment, q)
    BY DEF Written, ApprovedOf, BoardTypeOK
<1>2. c \notin ApprovedOf(comment, r)
    BY DEF ApprovedOf
<1>3. ApprovedOf(comment', r) = ApprovedOf(comment, r) \cup (IF m THEN {} ELSE {c})
    BY DEF Written, ApprovedOf, BoardTypeOK
<1>4. Cardinality(ApprovedOf(comment', r)) =
         Cardinality(ApprovedOf(comment, r)) + CountedOnInsert(m)
    <2> DEFINE S == ApprovedOf(comment, r)
    <2>1. IsFiniteSet(S) /\ Cardinality(S) \in Nat
        BY ApprovedFinite
    <2> HIDE DEF S
    <2>2. CASE m
        BY <1>3, <2>1, <2>2 DEF CountedOnInsert, S
    <2>3. CASE ~m
        <3>1. Cardinality(S \cup {c}) = Cardinality(S) + 1
            BY <1>2, <2>1, OneMore DEF S
        <3> QED BY <1>3, <2>3, <3>1 DEF CountedOnInsert, S
    <2> QED BY <2>2, <2>3
<1>5. \A q \in Requests :
         /\ Cardinality(ApprovedOf(comment, q)) \in Nat
         /\ comment_count[q] \in Nat
    BY ApprovedFinite DEF BoardTypeOK
<1>6. CountedOnInsert(m) \in Nat
    BY DEF CountedOnInsert
<1> SUFFICES ASSUME NEW q \in Requests \ uncounted'
             PROVE  /\ comment_count'[q] <= Cardinality(ApprovedOf(comment', q))
                    /\ crashes' = 0 =>
                          comment_count'[q] = Cardinality(ApprovedOf(comment', q))
    BY DEF CommentCountKept
<1>7. CASE q = r
    BY <1>4, <1>5, <1>6, <1>7 DEF CommentCountKept, BoardTypeOK
<1>8. CASE q # r
    BY <1>1, <1>8 DEF CommentCountKept, BoardTypeOK
<1> QED BY <1>7, <1>8

LEMMA ReviewKeeps ==
    ASSUME BoardTypeOK, CommentCountKept, NEW h \in Handlers, Review(h)
    PROVE  CommentCountKept'
<1>1. UNCHANGED <<uncounted, crashes>>
    BY DEF Review, Begins, mergeVars
<1>2. CASE UNCHANGED commentVars
    BY <1>1, <1>2 DEF commentVars, CommentCountKept
<1>3. ASSUME NEW c \in Comments, NEW r \in Requests, NEW verdict \in {"approved", "rejected"},
             comment[c] = [request |-> r, state |-> "pending"], Reviewed(r, c, verdict)
      PROVE  CommentCountKept'
    <2> DEFINE more == IF verdict = "approved" THEN 1 ELSE 0
               S == ApprovedOf(comment, r)
    <2>1. /\ comment' = [comment EXCEPT ![c].state = verdict]
          /\ comment_count' = [comment_count EXCEPT ![r] = @ + more]
        BY <1>3 DEF Reviewed
    <2>2. \A q \in Requests : q # r => ApprovedOf(comment', q) = ApprovedOf(comment, q)
        BY <1>3, <2>1 DEF ApprovedOf, BoardTypeOK
    <2>3. c \notin S
        BY <1>3 DEF ApprovedOf
    <2>4. ApprovedOf(comment', r) = S \cup (IF verdict = "approved" THEN {c} ELSE {})
        BY <1>3, <2>1 DEF ApprovedOf, BoardTypeOK
    <2>5. IsFiniteSet(S) /\ Cardinality(S) \in Nat /\ more \in Nat
        BY ApprovedFinite
    <2>6. Cardinality(ApprovedOf(comment', r)) = Cardinality(S) + more
        <3> HIDE DEF S
        <3>1. CASE verdict = "approved"
            BY <2>3, <2>4, <2>5, <3>1, OneMore
        <3>2. CASE verdict # "approved"
            BY <2>4, <2>5, <3>2
        <3> QED BY <3>1, <3>2
    <2>7. comment_count \in [Requests -> Nat]
        BY DEF BoardTypeOK
    <2> SUFFICES ASSUME NEW q \in Requests \ uncounted'
                 PROVE  /\ comment_count'[q] <= Cardinality(ApprovedOf(comment', q))
                        /\ crashes' = 0 =>
                              comment_count'[q] = Cardinality(ApprovedOf(comment', q))
        BY DEF CommentCountKept
    <2>8. CASE q = r
        <3>1. /\ comment_count[r] <= Cardinality(S)
              /\ crashes' = 0 => comment_count[r] = Cardinality(S)
            BY <1>1, <2>8 DEF CommentCountKept
        <3>2. comment_count'[r] = comment_count[r] + more
            BY <2>1, <2>7
        <3> HIDE DEF S, more
        <3> QED BY <2>5, <2>6, <2>7, <2>8, <3>1, <3>2
    <2>9. CASE q # r
        BY <1>1, <2>1, <2>2, <2>7, <2>9 DEF CommentCountKept
    <2> QED BY <2>8, <2>9
<1> QED BY <1>2, <1>3 DEF Review, commentVars

\* The survivor is counted afresh, the duplicate is merged away, and no other request has
\* comments that move.
LEMMA MergeCountKeeps ==
    ASSUME IInv, CommentCountKept, NEW h \in Handlers, MergeCommit(h)
    PROVE  CommentCountKept'
<1> DEFINE s == call[h].survivor
           d == call[h].duplicate
<1>0. BoardTypeOK /\ crashes' = crashes
    BY DEF IInv, MergeCommit, Continues
<1>1. CASE LinkedTogether(s, d)
    BY <1>0, <1>1 DEF MergeCommit, commentVars, mergeVars, CommentCountKept
<1>2. CASE ~LinkedTogether(s, d)
    <2>1. s \in Requests /\ d \in Requests /\ s # d
        BY <1>2, MergeVotes
    <2>2. /\ comment' = MovedComments(s, d)
          /\ comment_count' =
                [comment_count EXCEPT ![s] = Cardinality(ApprovedOf(comment', s))]
          /\ uncounted' = (uncounted \cup {d}) \ {s}
        BY <1>2 DEF MergeCommit, MergeRows
    <2> HIDE DEF s, d
    <2>3. \A q \in Requests \ {s, d} : ApprovedOf(comment', q) = ApprovedOf(comment, q)
        BY <1>0, <2>1, <2>2 DEF MovedComments, ApprovedOf, BoardTypeOK
    <2> SUFFICES ASSUME NEW q \in Requests \ uncounted'
                 PROVE  /\ comment_count'[q] <= Cardinality(ApprovedOf(comment', q))
                        /\ crashes' = 0 =>
                              comment_count'[q] = Cardinality(ApprovedOf(comment', q))
        BY DEF CommentCountKept
    <2>4. CASE q = s
        <3>1. comment_count'[s] = Cardinality(ApprovedOf(comment', s))
            BY <1>0, <2>1, <2>2 DEF BoardTypeOK
        <3>2. Cardinality(ApprovedOf(comment', s)) \in Nat
            BY ApprovedFinite
        <3> QED BY <2>4, <3>1, <3>2
    <2>5. q # d
        BY <2>1, <2>2
    <2>6. CASE q # s
        <3>1. comment_count'[q] = comment_count[q] /\ q \notin uncounted
            BY <1>0, <2>1, <2>2, <2>5, <2>6 DEF BoardTypeOK
        <3> QED BY <1>0, <2>3, <2>5, <2>6, <3>1 DEF CommentCountKept
    <2> QED BY <2>4, <2>6
<1> QED BY <1>1, <1>2

\* A kill can only leave a comment uncounted.
LEMMA CrashCountKeeps ==
    ASSUME BoardTypeOK, CommentCountKept, Crash
    PROVE  CommentCountKept'
<1>1. crashes' # 0 /\ uncounted' = uncounted
    BY DEF Crash, BoardTypeOK, requestVars, mergeVars
<1>2. CASE UNCHANGED commentVars
    BY <1>1, <1>2 DEF commentVars, CommentCountKept
<1>3. ASSUME NEW h \in Handlers, TornComment(h), call[h].at = "comment_insert"
      PROVE  CommentCountKept'
    <2>1. call[h].req \in Requests
        BY <1>3, CallFields DEF BoardTypeOK
    <2>2. PICK c \in Comments : comment[c].state = "none" /\ Written(c, call[h].req, FALSE)
        BY <1>3 DEF TornComment
    <2>3. comment_count' = comment_count
        BY <1>3 DEF TornComment
    <2>4. \A q \in Requests : ApprovedOf(comment, q) \subseteq ApprovedOf(comment', q)
        BY <2>1, <2>2 DEF Written, ApprovedOf, BoardTypeOK
    <2>5. \A q \in Requests :
             /\ Cardinality(ApprovedOf(comment, q)) \in Nat
             /\ Cardinality(ApprovedOf(comment', q)) \in Nat
             /\ Cardinality(ApprovedOf(comment, q)) <= Cardinality(ApprovedOf(comment', q))
        BY <2>4, ApprovedFinite, FS_Subset
    <2> QED BY <1>1, <2>3, <2>5 DEF CommentCountKept, BoardTypeOK
<1> QED BY <1>2, <1>3 DEF Crash, TornDraft

CountInv == IInv /\ CommentCountKept

LEMMA CountNext == CountInv /\ [Next]_vars => CountInv'
<1> SUFFICES ASSUME CountInv, [Next]_vars PROVE CountInv'
    OBVIOUS
<1>1. IInv' /\ BoardTypeOK
    BY NextIInv DEF CountInv, IInv
<1>2. CASE UNCHANGED <<comment, comment_count, uncounted, crashes>>
    BY <1>1, <1>2 DEF CountInv, CommentCountKept
<1>3. ASSUME NEW h \in Handlers, CommentInsert(h)
      PROVE  CountInv'
    <2>1. call[h].req \in Requests /\ call[h].moderate \in BOOLEAN
        BY <1>1, <1>3, CallFields DEF CommentInsert, Continues, BoardTypeOK
    <2> QED BY <1>1, <1>3, <2>1, CommentInsertKeeps
            DEF CommentInsert, Continues, CountInv, requestVars, mergeVars
<1>4. ASSUME NEW h \in Handlers, Review(h) \/ MergeCommit(h)
      PROVE  CountInv'
    BY <1>1, <1>4, ReviewKeeps, MergeCountKeeps DEF CountInv
<1>5. CASE Crash
    BY <1>1, <1>5, CrashCountKeeps DEF CountInv
<1>6. ASSUME NEW h \in Handlers,
             \/ GuestBegin(h) \/ GuestInsert(h) \/ VoteBegin(h) \/ VoteIssue(h)
             \/ VoteCommit(h) \/ CommentBegin(h) \/ CommentCheck(h)
      PROVE  CountInv'
    BY <1>2, <1>6 DEF GuestBegin, GuestInsert, VoteBegin, VoteIssue, VoteCommit, CommentBegin,
                      CommentCheck, Begins, Continues, tables, requestVars, mergeVars, commentVars
<1>7. ASSUME NEW h \in Handlers,
             \/ PatchBegin(h) \/ PatchRead(h) \/ PatchWrite(h) \/ MergeBegin(h)
             \/ MergeCheck(h) \/ SetPolicy(h)
      PROVE  CountInv'
    BY <1>2, <1>7 DEF PatchBegin, PatchRead, PatchWrite, MergeBegin, MergeCheck, SetPolicy,
                      Begins, Continues, tables, requestVars, mergeVars, commentVars
<1>8. ASSUME NEW h \in Handlers, ChangelogArrives(h) \/ ChangelogProceeds(h)
      PROVE  CountInv'
    BY <1>2, <1>8 DEF ChangelogArrives, ChangelogProceeds, DraftBegin, DraftCheck, DraftInsert,
                      PublishBegin, PublishCheck, PublishWrite, Begins, Continues, tables,
                      requestVars, mergeVars, commentVars
<1>9. CASE UNCHANGED vars
    BY <1>2, <1>9 DEF vars, tables, requestVars, mergeVars, commentVars
<1> QED BY <1>3, <1>4, <1>5, <1>6, <1>7, <1>8, <1>9
        DEF Next, Arrives, Proceeds, PublicArrives, PublicProceeds, AdminArrives,
            AdminProceeds, Quiescent

\* The count shown of a request is the number of its approved comments, whatever comments,
\* reviews and merges interleave, unless a merge took its comments and none has counted them
\* since; a kill only leaves it too low.
THEOREM CommentsCounted == Spec => []CommentCountKept
<1>1. Init => CountInv
    <2>1. ASSUME Init PROVE CommentCountKept
        <3>1. \A r \in Requests : ApprovedOf(comment, r) = {}
            BY <2>1 DEF Init, ApprovedOf
        <3>2. \A r \in Requests : comment_count[r] = 0
            BY <2>1 DEF Init
        <3>3. \A r \in Requests : Cardinality(ApprovedOf(comment, r)) = 0
            BY <3>1, FS_EmptySet
        <3> SUFFICES ASSUME NEW r \in Requests \ uncounted
                     PROVE  /\ comment_count[r] <= Cardinality(ApprovedOf(comment, r))
                            /\ crashes = 0 => comment_count[r] = Cardinality(ApprovedOf(comment, r))
            BY DEF CommentCountKept
        <3>4. comment_count[r] = 0 /\ Cardinality(ApprovedOf(comment, r)) = 0
            BY <3>2, <3>3
        <3> QED BY <3>4
    <2> QED BY <2>1, InitIInv DEF CountInv
<1>2. CountInv /\ [Next]_vars => CountInv'
    BY CountNext
<1>3. CountInv => CommentCountKept
    BY DEF CountInv
<1> QED BY <1>1, <1>2, <1>3, PTL DEF Spec

----------------------------------------------------------------------------
(* Releases                                                                *)

\* A release that is being published was there when the publication began.
PublishOK ==
    \A h \in Handlers :
        call[h].at = "publish_check" => release[call[h].release] # "none"

ReleaseInv == BoardTypeOK /\ PublishOK /\ ReleaseNeverEmpty

\* A call that goes anywhere but to the publication's checks, or to those of a release that
\* is there.
LEMMA PublishKept ==
    ASSUME BoardTypeOK, PublishOK, NEW h \in Handlers, NEW st, Goes(h, st),
           st.at = "publish_check" => release'[st.release] # "none",
           \A l \in Releases : release[l] # "none" => release'[l] # "none"
    PROVE  PublishOK'
<1>1. \A k \in Handlers : call'[k] = IF k = h THEN st ELSE call[k]
    BY DEF Goes, BoardTypeOK
<1>2. ASSUME NEW k \in Handlers, call[k].at = "publish_check"
      PROVE  call[k].release \in Releases
    BY <1>2, CallFields DEF BoardTypeOK
<1> QED BY <1>1, <1>2 DEF PublishOK

\* Every other call leaves the releases, or moves the links of a duplicate.
LEMMA OtherCallsKeep ==
    ASSUME ReleaseInv, NEW h \in Handlers,
           PublicArrives(h) \/ PublicProceeds(h) \/ AdminArrives(h) \/ AdminProceeds(h)
    PROVE  PublishOK' /\ ReleaseNeverEmpty'
<1>0. BoardTypeOK /\ call[h] \in CallState
    BY DEF ReleaseInv, BoardTypeOK
<1>1. crashes' = crashes /\ release' = release
    BY DEF PublicArrives, PublicProceeds, AdminArrives, AdminProceeds, GuestBegin, GuestInsert,
           VoteBegin, VoteIssue, VoteCommit, CommentBegin, CommentCheck, CommentInsert, Review,
           PatchBegin, PatchRead, PatchWrite, MergeBegin, MergeCheck, MergeCommit, SetPolicy,
           Begins, Continues, tables, releaseVars
<1>2. PublishOK'
    <2>1. ASSUME NEW st, Goes(h, st), st.at # "publish_check" PROVE PublishOK'
        BY <1>1, <2>1, PublishKept DEF ReleaseInv
    <2>2. Returns(h) => PublishOK'
        BY <2>1 DEF Returns, Idle
    <2>3. CASE call' = call
        BY <1>1, <2>3 DEF ReleaseInv, PublishOK
    <2>4. CASE GuestBegin(h) \/ GuestInsert(h)
        BY <2>1, <2>2, <2>4 DEF GuestBegin, GuestInsert
    <2>5. CASE VoteBegin(h) \/ VoteIssue(h) \/ VoteCommit(h)
        BY <2>1, <2>2, <2>5 DEF VoteBegin, VoteIssue, VoteCommit
    <2>6. CASE CommentBegin(h) \/ CommentCheck(h) \/ CommentInsert(h)
        <3>1. call[h].at = "comment_check" =>
                 [call[h] EXCEPT !.at = "comment_insert"].at = "comment_insert"
            BY <1>0 DEF CallState
        <3> QED BY <2>1, <2>2, <2>6, <3>1 DEF CommentBegin, CommentCheck, CommentInsert, Continues
    <2>7. CASE PatchBegin(h) \/ PatchRead(h) \/ PatchWrite(h)
        BY <2>1, <2>2, <2>7 DEF PatchBegin, PatchRead, PatchWrite
    <2>8. CASE MergeBegin(h) \/ MergeCheck(h) \/ MergeCommit(h)
        BY <2>1, <2>2, <2>8 DEF MergeBegin, MergeCheck, MergeCommit
    <2>9. CASE Review(h) \/ SetPolicy(h)
        BY <2>3, <2>9 DEF Review, SetPolicy
    <2> QED BY <2>4, <2>5, <2>6, <2>7, <2>8, <2>9
            DEF PublicArrives, PublicProceeds, AdminArrives, AdminProceeds
<1>3. ReleaseNeverEmpty'
    <2>1. CASE release_request' = release_request
        BY <1>1, <2>1 DEF ReleaseInv, ReleaseNeverEmpty, Linked
    <2>2. ASSUME MergeCommit(h), release_request' # release_request
          PROVE  ReleaseNeverEmpty'
        <3> DEFINE s == call[h].survivor
                   d == call[h].duplicate
        <3>1. s \in Requests /\ d \in Requests
            BY <1>0, <2>2, CallFields DEF MergeCommit, Continues
        <3>2. release_request' = MovedLinks(s, d)
            BY <2>2 DEF MergeCommit, MergeRows
        <3> HIDE DEF s, d
        <3>3. ASSUME NEW l \in Releases, NEW r \in Requests, <<l, r>> \in release_request
              PROVE  Linked(l)' # {}
            <4>1. CASE r = d
                <5>1. <<l, r>>[1] = l /\ <<l, r>>[2] = d
                    BY <4>1
                <5>2. <<l, s>> \in release_request'
                    BY <3>2, <3>3, <5>1 DEF MovedLinks
                <5> QED BY <3>1, <5>2 DEF Linked
            <4>2. CASE r # d
                <5>1. <<l, r>>[2] # d
                    BY <4>2
                <5>2. <<l, r>> \in release_request'
                    BY <3>2, <3>3, <5>1 DEF MovedLinks
                <5> QED BY <5>2 DEF Linked
            <4> QED BY <4>1, <4>2
        <3> QED BY <1>1, <3>3 DEF ReleaseInv, ReleaseNeverEmpty, Linked
    <2>3. release_request' = release_request \/ MergeCommit(h)
        BY DEF PublicArrives, PublicProceeds, AdminArrives, AdminProceeds, GuestBegin,
               GuestInsert, VoteBegin, VoteIssue, VoteCommit, CommentBegin, CommentCheck,
               CommentInsert, Review, PatchBegin, PatchRead, PatchWrite, MergeBegin, MergeCheck,
               SetPolicy, tables, releaseVars
    <2> QED BY <2>1, <2>2, <2>3
<1> QED BY <1>2, <1>3

LEMMA ChangelogKeeps ==
    ASSUME ReleaseInv, NEW h \in Handlers, ChangelogArrives(h) \/ ChangelogProceeds(h)
    PROVE  PublishOK' /\ ReleaseNeverEmpty'
<1>0. BoardTypeOK /\ call[h] \in CallState /\ crashes' = crashes
    BY DEF ReleaseInv, BoardTypeOK, ChangelogArrives, ChangelogProceeds, DraftBegin, DraftCheck,
           DraftInsert, PublishBegin, PublishCheck, PublishWrite, Begins, Continues
<1> DEFINE Grows == \A l \in Releases : release[l] # "none" => release'[l] # "none"
<1>1. ASSUME NEW st, Goes(h, st), Grows,
             st.at = "publish_check" => release'[st.release] # "none"
      PROVE  PublishOK'
    BY <1>1, PublishKept DEF ReleaseInv
<1>2. Returns(h) /\ Grows => PublishOK'
    BY <1>1 DEF Returns, Idle
<1>3. CASE UNCHANGED <<release, release_request>>
    <2>1. ReleaseNeverEmpty' /\ Grows
        BY <1>0, <1>3 DEF ReleaseInv, ReleaseNeverEmpty, Linked
    <2>2. CASE DraftBegin(h) \/ PublishBegin(h)
        BY <1>1, <1>2, <1>3, <2>1, <2>2 DEF DraftBegin, PublishBegin
    <2>3. CASE DraftCheck(h) \/ PublishCheck(h)
        <3>1. ASSUME NEW r, call[h].at \in {"draft_check", "publish_check"}
              PROVE  /\ [call[h] EXCEPT !.todo = @ \ {r}].at = call[h].at
                     /\ call[h].at = "publish_check" =>
                           [call[h] EXCEPT !.todo = @ \ {r}].release = call[h].release
            <4>1. CASE call[h].at = "draft_check"
                BY <1>0, <4>1 DEF CallState
            <4>2. CASE call[h].at = "publish_check"
                <5>1. call[h] \in [at : {"publish_check"}, release : Releases,
                                  todo : SUBSET Requests]
                    BY <1>0, <4>2 DEF CallState
                <5> QED BY <5>1
            <4> QED BY <3>1, <4>1, <4>2
        <3>2. call[h].at = "publish_check" => release'[call[h].release] # "none"
            BY <1>3 DEF ReleaseInv, PublishOK
        <3>3. ASSUME NEW r, Goes(h, [call[h] EXCEPT !.todo = @ \ {r}])
              PROVE  PublishOK'
            <4> DEFINE st == [call[h] EXCEPT !.todo = @ \ {r}]
            <4>1. call[h].at \in {"draft_check", "publish_check"}
                BY <2>3 DEF DraftCheck, PublishCheck, Continues
            <4>2. st.at = "publish_check" => release'[st.release] # "none"
                BY <3>1, <3>2, <4>1
            <4>3. Goes(h, st)
                BY <3>3
            <4> HIDE DEF st
            <4> QED BY <1>1, <2>1, <4>2, <4>3
        <3> QED BY <1>2, <2>1, <2>3, <3>3 DEF DraftCheck, PublishCheck
    <2>4. CASE DraftInsert(h) \/ PublishWrite(h)
        BY <1>2, <2>1, <2>4 DEF DraftInsert, PublishWrite
    <2> QED BY <2>1, <2>2, <2>3, <2>4 DEF ChangelogArrives, ChangelogProceeds
<1>4. CASE DraftInsert(h)
    <2>1. PICK l \in Releases, linked \in SUBSET call[h].ids :
             linked # {} /\ DraftRows(l, linked)
        BY <1>4 DEF DraftInsert
    <2>2. linked \subseteq Requests
        BY <1>0, <1>4, CallFields DEF DraftInsert, Continues
    <2>3. /\ release' = [release EXCEPT ![l] = "draft"]
          /\ release_request' = release_request \cup ({l} \X linked)
        BY <2>1 DEF DraftRows
    <2>4. Grows
        BY <1>0, <2>3 DEF BoardTypeOK
    <2>5. Linked(l)' # {}
        BY <2>1, <2>2, <2>3 DEF Linked
    <2>6. \A k \in Releases : Linked(k) \subseteq Linked(k)'
        BY <2>3 DEF Linked
    <2>7. \A k \in Releases : k # l => release'[k] = release[k]
        BY <1>0, <2>3 DEF BoardTypeOK
    <2>8. ReleaseNeverEmpty'
        BY <1>0, <2>5, <2>6, <2>7 DEF ReleaseInv, ReleaseNeverEmpty
    <2> QED BY <1>2, <1>4, <2>4, <2>8 DEF DraftInsert
<1>5. CASE PublishWrite(h)
    <2> DEFINE l == call[h].release
    <2>1. l \in Releases /\ release[l] # "none"
        BY <1>0, <1>5, CallFields DEF PublishWrite, Continues, ReleaseInv, PublishOK
    <2>2. release' = [release EXCEPT ![l] = "published"] /\ release_request' = release_request
        BY <1>5 DEF PublishWrite
    <2> HIDE DEF l
    <2>3. \A k \in Releases : release[k] # "none" <=> release'[k] # "none"
        BY <1>0, <2>1, <2>2 DEF BoardTypeOK
    <2>4. ReleaseNeverEmpty'
        BY <1>0, <2>2, <2>3 DEF ReleaseInv, ReleaseNeverEmpty, Linked
    <2> QED BY <1>2, <1>5, <2>3, <2>4 DEF PublishWrite
<1>6. \/ UNCHANGED <<release, release_request>> \/ DraftInsert(h) \/ PublishWrite(h)
    BY DEF ChangelogArrives, ChangelogProceeds, DraftBegin, DraftCheck, PublishBegin,
           PublishCheck, tables, releaseVars
<1> QED BY <1>3, <1>4, <1>5, <1>6

LEMMA ReleaseNext == ReleaseInv /\ [Next]_vars => ReleaseInv'
<1> SUFFICES ASSUME ReleaseInv, [Next]_vars PROVE ReleaseInv'
    OBVIOUS
<1>1. BoardTypeOK'
    BY NextType DEF ReleaseInv
<1>2. CASE Crash
    <2>1. crashes' # 0 /\ \A h \in Handlers : call'[h] = Idle
        BY <1>2 DEF Crash, ReleaseInv, BoardTypeOK
    <2> QED BY <1>1, <2>1 DEF ReleaseInv, ReleaseNeverEmpty, PublishOK, Idle
<1>3. CASE UNCHANGED vars
    BY <1>1, <1>3
       DEF vars, tables, releaseVars, ReleaseInv, ReleaseNeverEmpty, PublishOK, Linked
<1> QED BY <1>1, <1>2, <1>3, OtherCallsKeep, ChangelogKeeps
        DEF Next, Arrives, Proceeds, Quiescent, ReleaseInv

\* While the process is not killed every release lists a request, whatever drafts, merges
\* and publications interleave.
THEOREM ReleasesNeverEmpty == Spec => []ReleaseNeverEmpty
<1>1. Init => ReleaseInv
    <2>1. Init => PublishOK /\ ReleaseNeverEmpty
        BY DEF Init, Idle, PublishOK, ReleaseNeverEmpty
    <2> QED BY <2>1, InitType DEF ReleaseInv
<1>2. ReleaseInv /\ [Next]_vars => ReleaseInv'
    BY ReleaseNext
<1>3. ReleaseInv => ReleaseNeverEmpty
    BY DEF ReleaseInv
<1> QED BY <1>1, <1>2, <1>3, PTL DEF Spec

----------------------------------------------------------------------------
(* The request ledger: the step that commits a call is the ledger's step,  *)
(* all others stutter.                                                     *)

\* The ledger counts with the FiniteSets it extends itself.
LEMMA SameCardinality == \A S : Ledger!Cardinality(S) = Cardinality(S)
BY DEF Cardinality, Ledger!Cardinality, IsFiniteSet, Ledger!IsFiniteSet

LEMMA LedgerInitially == SeedVotes = 0 /\ Init => Ledger!LedgerInit
BY DEF Init, Ledger!LedgerInit, InsertedRow, Ledger!InsertedRow

LEMMA CreateStep ==
    ASSUME IInv, NEW h \in Handlers, GuestInsert(h)
    PROVE  Ledger!LedgerNext
<1>1. call[h].moderate \in BOOLEAN
    BY CallFields DEF GuestInsert, Continues, IInv, BoardTypeOK
<1>2. PICK r \in Requests \ created :
         /\ created' = created \cup {r}
         /\ row' = [row EXCEPT ![r] = InsertedRow(call[h].moderate)]
    BY DEF GuestInsert
<1>3. Ledger!Create(r)
    BY <1>1, <1>2 DEF GuestInsert, voteVars, Ledger!Create, InsertedRow,
                      Ledger!InsertedRow
<1> QED BY <1>3 DEF Ledger!LedgerNext

LEMMA BackStep ==
    ASSUME IInv, NEW h \in Handlers, VoteCommit(h)
    PROVE  [Ledger!LedgerNext]_Ledger!ledger
<1> DEFINE r == call[h].req
           v == call[h].voter
<1>1. r \in Requests /\ v \in Voters /\ r \in created
    BY CallFields
       DEF VoteCommit, Continues, IInv, BoardTypeOK, CallOK, VoteOK
<1>2. CASE StillCounts(r)
    <2>1. Ledger!Public(row[r])
        BY <1>2 DEF StillCounts, Public, Ledger!Public
    <2>2. /\ request_vote' =
                [request_vote EXCEPT ![r] = request_vote[r] \cup {v}]
          /\ vote_count' = [vote_count EXCEPT
                ![r] = Cardinality(request_vote[r] \cup {v})]
        BY <1>2 DEF VoteCommit
    <2>2a. Ledger!Gains(r, {v})
        <3> HIDE DEF r, v
        <3> QED BY <2>2, SameCardinality DEF Ledger!Gains
    <2>3. Ledger!Back(r, v)
        BY <1>1, <2>1, <2>2a DEF VoteCommit, requestVars, mergeVars, Ledger!Back
    <2> QED BY <1>1, <2>3 DEF Ledger!LedgerNext
<1>3. CASE ~StillCounts(r)
    BY <1>3 DEF VoteCommit, requestVars, mergeVars, voteVars, Ledger!ledger
<1> QED BY <1>2, <1>3

LEMMA TouchStep ==
    ASSUME IInv, NEW h \in Handlers, Review(h)
    PROVE  [Ledger!LedgerNext]_Ledger!ledger
<1>1. \/ revision' = revision
      \/ \E r \in Requests : revision' = [revision EXCEPT ![r] = @ + 1]
    BY DEF Review, Reviewed
<1>2. UNCHANGED <<created, row, request_vote, vote_count>>
    BY DEF Review, voteVars
<1>3. ASSUME NEW r \in Requests, revision' = [revision EXCEPT ![r] = @ + 1]
      PROVE  Ledger!LedgerNext
    <2>1. Ledger!Touch(r)
        BY <1>2, <1>3 DEF Ledger!Touch, Ledger!MovesOn
    <2> QED BY <2>1 DEF Ledger!LedgerNext
<1> QED BY <1>1, <1>2, <1>3 DEF Ledger!ledger

LEMMA EditStep ==
    ASSUME IInv, NEW h \in Handlers, PatchWrite(h)
    PROVE  [Ledger!LedgerNext]_Ledger!ledger
<1> DEFINE r == call[h].req
           patch == call[h].patch
<1>1. /\ r \in Requests /\ r \in created /\ patch \in SentPatches
      /\ call[h].expected = revision[r] => call[h].next = Patched(row[r], patch)
    BY CallFields
       DEF PatchWrite, Continues, IInv, BoardTypeOK, CallOK, PatchOK
<1>2. CASE RevisionMatches(r, call[h].expected) /\ RefersToARow(call[h].next)
    <2>1. /\ revision[r] = call[h].expected
          /\ row' = [row EXCEPT ![r] = Patched(row[r], patch)]
          /\ revision' = [revision EXCEPT ![r] = revision[r] + 1]
        BY <1>1, <1>2 DEF PatchWrite, RevisionMatches
    <2>2. Ledger!Edit(r, patch)
        BY <1>1, <2>1
           DEF PatchWrite, voteVars, Ledger!Edit, Ledger!MovesOn, Patched,
               Chosen, Ledger!Patched, Ledger!Chosen
    <2> QED BY <1>1, <2>2 DEF Ledger!LedgerNext
<1>3. CASE ~(RevisionMatches(r, call[h].expected)
             /\ RefersToARow(call[h].next))
    BY <1>3 DEF PatchWrite, voteVars, Ledger!ledger
<1> QED BY <1>2, <1>3

LEMMA MergeStep ==
    ASSUME SeedVotes = 0, IInv, NEW h \in Handlers, MergeCommit(h)
    PROVE  [Ledger!LedgerNext]_Ledger!ledger
<1> DEFINE s == call[h].survivor
           d == call[h].duplicate
           backers == request_vote[s] \cup request_vote[d]
<1>1. CASE LinkedTogether(s, d)
    BY <1>1 DEF MergeCommit, voteVars, Ledger!ledger
<1>2. CASE ~LinkedTogether(s, d)
    <2>1. /\ s \in Requests /\ d \in Requests /\ s # d
          /\ s \in created /\ d \in created
          /\ request_vote' = [request_vote EXCEPT ![s] = backers]
          /\ row' = [row EXCEPT ![d] = Closed(@, s)]
          /\ revision' = [revision EXCEPT ![s] = @ + 1, ![d] = @ + 1]
          /\ Cardinality(backers) \in Nat
          /\ \E unbacked \in Nat :
                /\ vote_count' =
                      [vote_count EXCEPT ![s] = Cardinality(backers) + unbacked]
                /\ SeedVotes = 0 => unbacked = 0
        BY <1>2, MergeVotes
    <2>2. vote_count' = [vote_count EXCEPT ![s] = Cardinality(backers)]
        <3>1. PICK unbacked \in Nat :
                /\ vote_count' =
                      [vote_count EXCEPT ![s] = Cardinality(backers) + unbacked]
                /\ SeedVotes = 0 => unbacked = 0
            BY <2>1
        <3>2. Cardinality(backers) + unbacked = Cardinality(backers)
            BY <2>1, <3>1
        <3> QED BY <3>1, <3>2, Zenon
    <2>3. Ledger!Gains(s, request_vote[d])
        <3>1. /\ request_vote' = [request_vote EXCEPT
                                    ![s] = request_vote[s] \cup request_vote[d]]
              /\ vote_count' = [vote_count EXCEPT
                   ![s] = Cardinality(request_vote[s] \cup request_vote[d])]
            BY <2>1, <2>2
        <3> HIDE DEF s, d
        <3> QED BY <3>1, SameCardinality DEF Ledger!Gains
    <2>4. UNCHANGED created
        BY DEF MergeCommit
    <2>5. Ledger!Merge(s, d)
        <3> HIDE DEF s, d
        <3> QED BY <2>1, <2>3, <2>4
                DEF Ledger!Merge, Closed, Ledger!Closed
    <2> QED BY <2>1, <2>5 DEF Ledger!LedgerNext
<1> QED BY <1>1, <1>2

LEMMA LedgerSteps ==
    ASSUME SeedVotes = 0, IInv, [Next]_vars
    PROVE  [Ledger!LedgerNext]_Ledger!ledger
<1>0. Frame => UNCHANGED Ledger!ledger
    BY DEF Frame, Ledger!ledger
<1>1. CASE UNCHANGED vars \/ Crash
    <2>1. Frame
        BY <1>1 DEF vars, tables, requestVars, mergeVars, voteVars, Crash, Frame
    <2> QED BY <1>0, <2>1
<1>2. ASSUME NEW h \in Handlers, Arrives(h) \/ Proceeds(h)
      PROVE  [Ledger!LedgerNext]_Ledger!ledger
    BY <1>0, <1>2, QuietSteps, CreateStep, BackStep, TouchStep, EditStep,
       MergeStep
       DEF Arrives, Proceeds, PublicArrives, PublicProceeds, AdminArrives,
           AdminProceeds
<1> QED BY <1>1, <1>2 DEF Next, Quiescent

\* On a board without seeded counts, every call takes effect at one step as if
\* it ran alone: patches lose no update, only public requests take votes, and
\* the demand shown is the number of distinct voters, merges included.
THEOREM BoardImplementsLedger ==
    ASSUME SeedVotes = 0
    PROVE  Spec => ImplementsLedger
<1>1. Init => Ledger!LedgerInit
    BY LedgerInitially
<1>2. IInv /\ [Next]_vars => [Ledger!LedgerNext]_Ledger!ledger
    BY LedgerSteps
<1> QED BY <1>1, <1>2, IInvHolds, PTL
        DEF Spec, ImplementsLedger, Ledger!LedgerSpec
====
