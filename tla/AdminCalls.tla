---- MODULE AdminCalls ----
(***************************************************************************)
(* The administrators' writes to requests (admin.rs): review a comment,    *)
(* patch, triage, merge, and the board's posting policy.                   *)
(***************************************************************************)
EXTENDS BoardTables

----------------------------------------------------------------------------
(* PUT /requests/:id/comments/:commentId, one transaction: a stale revision,*)
(* or a comment no longer pending on this request, changes nothing.        *)

Reviewed(r, c, verdict) ==
    /\ comment' = [comment EXCEPT ![c].state = verdict]
    /\ comment_count' =
          [comment_count EXCEPT ![r] = @ + IF verdict = "approved" THEN 1 ELSE 0]
    /\ revision' = [revision EXCEPT ![r] = @ + 1]

Review(h) ==
    /\ Begins(h, "review")
    /\ \E c \in Comments, verdict \in {"approved", "rejected"},
          r \in Requests, current \in BOOLEAN :
          IF /\ current
             /\ comment[c] = [request |-> r, state |-> "pending"]
          THEN Reviewed(r, c, verdict)
          ELSE UNCHANGED <<commentVars, revision>>
    /\ UNCHANGED <<created, row, mergeVars, voteVars, releaseVars, voterVars,
                   board, call>>

----------------------------------------------------------------------------
(* PUT /requests/:id, POST .../triage, POST .../brief: all three end in    *)
(* Store::patch_request, which reads the row, works out every column's     *)
(* next value outside the lock, and writes them all where the revision is  *)
(* still the expected one.                                                 *)

\* Triage sets its texts and duplicate_of, to the first suggestion or NULL;
\* linking a brief (r = Unset) leaves duplicate_of alone.
TriagePatch(r) ==
    [EmptyPatch EXCEPT !.duplicate_of = r, !.text = CHOOSE t \in Texts : TRUE]

\* A client patches the revision it last saw; triage and brief read the
\* revision themselves.  An older one is refused at PatchRead.
PatchBegin(h) ==
    /\ \E r \in Requests :
          \/ /\ Begins(h, "patch")
             /\ \E p \in Patches, seen \in {revision[r], revision[r] - 1} :
                   /\ seen >= 0
                   /\ Goes(h, [at |-> "patch_read", req |-> r,
                               expected |-> seen, patch |-> p])
          \/ /\ Begins(h, "triage")
             /\ IF r \in created
                THEN \E s \in Requests \cup {NoRequest, Unset} :
                        Goes(h, [at |-> "patch_read", req |-> r,
                                 expected |-> revision[r],
                                 patch |-> TriagePatch(s)])
                ELSE Returns(h)
    /\ UNCHANGED tables

PatchRead(h) ==
    /\ Continues(h, "patch_read")
    /\ LET r == call[h].req IN
       IF r \in created /\ revision[r] = call[h].expected
       THEN Goes(h, [at |-> "patch_write", req |-> r,
                     expected |-> call[h].expected,
                     patch |-> call[h].patch,
                     next |-> Patched(row[r], call[h].patch)])
       ELSE Returns(h)
    /\ UNCHANGED tables

\* Mutant: UPDATE ... WHERE id = ?1, without AND revision = ?22.
AnyRevision(r, expected) == TRUE

\* The WHERE clause of the update.
RevisionMatches(r, expected) == revision[r] = expected

\* duplicate_of TEXT REFERENCES request(id)
RefersToARow(next) == next.duplicate_of \in created \cup {NoRequest}

\* Zero rows updated is StaleRevision; an unknown duplicate fails the update.
PatchWrite(h) ==
    /\ Continues(h, "patch_write")
    /\ LET r == call[h].req IN
       IF RevisionMatches(r, call[h].expected) /\ RefersToARow(call[h].next)
       THEN /\ row' = [row EXCEPT ![r] = call[h].next]
            /\ revision' = [revision EXCEPT ![r] = call[h].expected + 1]
       ELSE UNCHANGED <<row, revision>>
    /\ Returns(h)
    /\ UNCHANGED <<created, mergeVars, voteVars, commentVars, releaseVars,
                   voterVars, board>>

----------------------------------------------------------------------------
(* POST /requests/:id/merge -> Store::merge_requests                       *)

\* Both rows are read, each in its own lock section, before the transaction.
MergeBegin(h) ==
    /\ Begins(h, "merge")
    /\ \E s, d \in Requests :
          IF s = d \/ s \notin created
          THEN Returns(h)
          ELSE Goes(h, [at |-> "merge_check", survivor |-> s, duplicate |-> d,
                        survivor_votes |-> vote_count[s]])
    /\ UNCHANGED tables

MergeCheck(h) ==
    /\ Continues(h, "merge_check")
    /\ LET d == call[h].duplicate IN
       IF d \in created /\ row[d].duplicate_of = NoRequest
       THEN Goes(h, [at |-> "merge_commit", survivor |-> call[h].survivor,
                     duplicate |-> d,
                     survivor_votes |-> call[h].survivor_votes,
                     duplicate_votes |-> vote_count[d]])
       ELSE Returns(h)
    /\ UNCHANGED tables

\* Mutant: unbacked votes without .max(0): a vote since the read counts less.
UnbackedUnclamped(votes, rows) == votes - rows

\* (vote_count - rows).max(0): the votes a request counts without voter rows.
Unbacked(votes, rows) == IF votes > rows THEN votes - rows ELSE 0

\* Mutant: the links of the duplicate are dropped, not moved.
DroppedLinks(s, d) == {link \in release_request : link[2] # d}

\* UPDATE release_request SET request_id = survivor WHERE request_id = duplicate
MovedLinks(s, d) ==
    {link \in release_request : link[2] # d}
        \cup {<<link[1], s>> : link \in {k \in release_request : k[2] = d}}

\* PRIMARY KEY(release_id, request_id): a release that links both requests
\* fails that update, and the transaction rolls back.
LinkedTogether(s, d) ==
    \E l \in Releases : <<l, s>> \in release_request
                        /\ <<l, d>> \in release_request

MovedComments(s, d) ==
    [c \in Comments |-> IF comment[c].request = d
                        THEN [comment[c] EXCEPT !.request = s]
                        ELSE comment[c]]

\* INSERT OR IGNORE ... SELECT: one voter of both requests is counted once.
MergedBackers(s, d) == request_vote[s] \cup request_vote[d]

MergeRows(s, d, survivor_votes, duplicate_votes) ==
    LET backers  == MergedBackers(s, d)
        unbacked == Unbacked(survivor_votes, Cardinality(request_vote[s]))
                    + Unbacked(duplicate_votes, Cardinality(request_vote[d]))
        moved    == MovedComments(s, d)
    IN  /\ request_vote' = [request_vote EXCEPT ![s] = backers]
        /\ vote_count' =
              [vote_count EXCEPT ![s] = Cardinality(backers) + unbacked]
        /\ comment' = moved
        /\ comment_count' =
              [comment_count EXCEPT ![s] = Cardinality(ApprovedOf(moved, s))]
        /\ release_request' = MovedLinks(s, d)
        /\ row' = [row EXCEPT ![d] = Closed(@, s)]
        /\ revision' = [revision EXCEPT ![s] = @ + 1, ![d] = @ + 1]
        /\ mergedInto' = [mergedInto EXCEPT ![d] = s]
        /\ buried' =
              [buried EXCEPT
                  ![s] = IF row[s].moderation = "merged"
                         THEN @ \cup request_vote[d] ELSE @,
                  ![d] = {}]
        /\ uncounted' = (uncounted \cup {d}) \ {s}

MergeCommit(h) ==
    /\ Continues(h, "merge_commit")
    /\ LET s == call[h].survivor
           d == call[h].duplicate
       IN  IF LinkedTogether(s, d)
           THEN UNCHANGED <<row, revision, mergeVars, voteVars, commentVars,
                            release_request>>
           ELSE MergeRows(s, d, call[h].survivor_votes,
                          call[h].duplicate_votes)
    /\ Returns(h)
    /\ UNCHANGED <<created, release, voterVars, board>>

----------------------------------------------------------------------------
(* PUT /boards/:id and PUT /workspace, as far as the calls above read them *)

SetPolicy(h) ==
    /\ Begins(h, "policy")
    /\ board' \in [allow_guest_posts : BOOLEAN,
                   moderate_public_writes : BOOLEAN]
    /\ UNCHANGED <<requestVars, voteVars, commentVars, releaseVars, voterVars,
                   call>>

----------------------------------------------------------------------------

AdminArrives(h) == Review(h) \/ PatchBegin(h) \/ MergeBegin(h) \/ SetPolicy(h)

AdminProceeds(h) ==
    \/ PatchRead(h)  \/ PatchWrite(h)
    \/ MergeCheck(h) \/ MergeCommit(h)
====
