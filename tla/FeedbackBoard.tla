---- MODULE FeedbackBoard ----
(***************************************************************************)
(* The board sidecar: visitors and administrators call it at once, worker  *)
(* threads take turns at the database lock, and the process may be killed  *)
(* between any two statements.                                             *)
(***************************************************************************)
EXTENDS PublicCalls, AdminCalls, ChangelogCalls

----------------------------------------------------------------------------
(* Kill and restart.  A transaction is all or nothing; the writes made     *)
(* outside one are committed statement by statement.                       *)

\* add_public_comment: the row is in, the count is not.
TornComment(h) ==
    /\ \E c \in Comments :
          comment[c].state = "none" /\ Written(c, call[h].req, FALSE)
    /\ UNCHANGED <<comment_count, releaseVars>>

\* create_release: the draft is in, with the links written so far.
TornDraft(h) ==
    /\ \E l \in Releases, linked \in SUBSET call[h].ids :
          release[l] = "none" /\ DraftRows(l, linked)
    /\ UNCHANGED commentVars

Crash ==
    /\ crashes < MaxCrashes
    /\ crashes' = crashes + 1
    /\ \/ UNCHANGED <<commentVars, releaseVars>>
       \/ \E h \in Handlers :
             /\ call[h].at = "comment_insert"
             /\ ~call[h].moderate
             /\ TornComment(h)
       \/ \E h \in Handlers :
             /\ call[h].at = "draft_check"
             /\ call[h].todo = {}
             /\ TornDraft(h)
    /\ call' = [h \in Handlers |-> Idle]
    /\ UNCHANGED <<requestVars, voteVars, voterVars, board, spent>>

----------------------------------------------------------------------------

Arrives(h) == PublicArrives(h) \/ AdminArrives(h) \/ ChangelogArrives(h)

Proceeds(h) == PublicProceeds(h) \/ AdminProceeds(h) \/ ChangelogProceeds(h)

AllReturned == \A h \in Handlers : call[h].at = "idle"

\* Every call the bound allows has been made and has returned.
Quiescent == spent = MaxCalls /\ AllReturned /\ UNCHANGED vars

Next ==
    \/ \E h \in Handlers : Arrives(h) \/ Proceeds(h)
    \/ Crash
    \/ Quiescent

Spec == Init /\ [][Next]_vars

----------------------------------------------------------------------------
(* Votes                                                                   *)

\* A request never shows fewer votes than it has voter rows, whatever votes
\* and merges interleave (merge_requests computes the unbacked votes from a
\* count read before its transaction); with no seeded counts it shows exactly
\* that many.
DemandIsBacked ==
    \A r \in Requests :
        /\ vote_count[r] >= Cardinality(request_vote[r])
        /\ SeedVotes = 0 => vote_count[r] = Cardinality(request_vote[r])

\* A merge takes every backer of the duplicate to its survivor, also one whose
\* vote was in flight while the merge ran, and none comes to the duplicate
\* afterwards, except by a later merge that names the closed duplicate as its
\* survivor (merge_requests does not look whether that is merged itself).
BackersKept ==
    \A d, s \in Requests :
        mergedInto[d] = s /\ row[d].moderation = "merged"
            => request_vote[d] \subseteq request_vote[s] \cup buried[d]

----------------------------------------------------------------------------
(* Comments                                                                *)

\* The comment count of a request is the number of approved comments on it,
\* unless a merge took its comments away and none has counted them since; a
\* kill can only leave it too low.
CommentCountKept ==
    \A r \in Requests \ uncounted :
        /\ comment_count[r] <= Cardinality(ApprovedOf(comment, r))
        /\ crashes = 0 =>
              comment_count[r] = Cardinality(ApprovedOf(comment, r))

----------------------------------------------------------------------------
(* Revisions                                                               *)

\* Whatever changes the columns of a request also moves its revision on, so a
\* client that patches what it last saw cannot undo the change unseen.
NoSilentChange ==
    [][\A r \in created : row'[r] # row[r] => revision'[r] > revision[r]]_vars

\* Only an administrator who asks for it brings a closed or hidden request
\* back on the board: a patch of other columns never does, though it writes
\* every column from an earlier read.
HiddenStaysHidden ==
    [][\A r \in created : ~Public(row[r]) /\ Public(row'[r]) =>
          \E h \in Handlers :
             /\ call[h].at = "patch_write"
             /\ call[h].req = r
             /\ row[r].visible \/ call[h].patch.visible = TRUE
             /\ \/ row[r].moderation = "approved"
                \/ call[h].patch.moderation = "approved"]_vars

----------------------------------------------------------------------------
(* Changelog                                                               *)

\* While the process is not killed, every release lists a request: drafts are
\* written with their links, and a merge moves links instead of dropping them.
ReleaseNeverEmpty ==
    crashes = 0 => \A l \in Releases : release[l] # "none" => Linked(l) # {}

----------------------------------------------------------------------------
(* The abstract ledger                                                     *)

\* Every patch a call may carry: a client's, triage's or a brief's.
SentPatches ==
    Patches \cup {TriagePatch(r) : r \in Requests \cup {NoRequest, Unset}}

Ledger == INSTANCE RequestLedger WITH
    Patches <- SentPatches,
    backers <- request_vote,
    demand  <- vote_count

\* With no seeded counts the board implements the ledger: patches are atomic
\* and lose no update, and the demand shown is the number of distinct voters.
ImplementsLedger == Ledger!LedgerSpec

----------------------------------------------------------------------------
(* What the repository says of the program, and races disprove             *)

\* tests/admin_api.rs: "The duplicate is closed: a second merge is a conflict,
\* not a double count."
SecondMergeIsConflict ==
    [][\A d \in Requests :
          row[d].moderation = "merged" /\ mergedInto[d] # NoRequest
              => mergedInto'[d] = mergedInto[d]]_vars

\* store.rs, publish_release: "only shipped requests can be published".
OnlyShippedPublished ==
    [][\A l \in Releases :
          release'[l] = "published" /\ release[l] # "published"
              => \A r \in Linked(l) : row[r].status = "shipped"]_vars
====
