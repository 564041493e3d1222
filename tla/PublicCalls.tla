---- MODULE PublicCalls ----
(***************************************************************************)
(* The public board's writes (public.rs): a visitor posts a request, votes,*)
(* comments.  Every call reads what it depends on in one lock section and  *)
(* writes in a later one.                                                  *)
(***************************************************************************)
EXTENDS BoardTables

----------------------------------------------------------------------------
(* POST /:boardSlug/requests -> Store::create_guest_request                *)

GuestBegin(h) ==
    /\ Begins(h, "guest")
    /\ IdLeftFor({"guest_insert"}, Requests \ created)
    /\ IF board.allow_guest_posts
       THEN Goes(h, [at |-> "guest_insert",
                     moderate |-> board.moderate_public_writes])
       ELSE Returns(h)
    /\ UNCHANGED tables

GuestInsert(h) ==
    /\ Continues(h, "guest_insert")
    /\ \E r \in Requests \ created :
          /\ created' = created \cup {r}
          /\ row' = [row EXCEPT ![r] = InsertedRow(call[h].moderate)]
    /\ Returns(h)
    /\ UNCHANGED <<revision, mergeVars, voteVars, commentVars, releaseVars,
                   voterVars, board>>

----------------------------------------------------------------------------
(* POST /:boardSlug/requests/:id/vote                                      *)

\* public_request: the row is there and public.
Shown(r) == r \in created /\ Public(row[r])

\* Mutant: the vote counts on the strength of the first look at the request.
CountsUnseen(r) == TRUE

\* Store::vote's own look at the row, inside its transaction.
StillCounts(r) == Public(row[r])

\* A first visit carries no cookie; a later one the cookie it was sent.
VoteBegin(h) ==
    /\ Begins(h, "vote")
    /\ \E r \in Requests :
          IF ~Shown(r) THEN Returns(h)
          ELSE \/ Goes(h, [at |-> "vote_issue", req |-> r])
               \/ \E v \in cookies :
                     Goes(h, [at |-> "vote_commit", req |-> r, voter |-> v,
                              fresh |-> FALSE])
    /\ UNCHANGED tables

\* Either an identity is claimed, or an issuance bound is spent (429): the
\* bounds are VoterIssuance's subject.
VoteIssue(h) ==
    /\ Continues(h, "vote_issue")
    /\ \/ \E v \in Voters \ identities :
             /\ identities' = identities \cup {v}
             /\ Goes(h, [at |-> "vote_commit", req |-> call[h].req,
                         voter |-> v, fresh |-> TRUE])
       \/ /\ Returns(h)
          /\ UNCHANGED identities
    /\ UNCHANGED <<requestVars, voteVars, commentVars, releaseVars, cookies,
                   board>>

\* vote_count becomes the number of voter rows, whatever it was before.  The
\* response with a new voter's cookie may be lost on its way.
VoteCommit(h) ==
    /\ Continues(h, "vote_commit")
    /\ LET r == call[h].req
           v == call[h].voter
           backers == request_vote[r] \cup {v}
       IN  IF StillCounts(r)
           THEN /\ request_vote' = [request_vote EXCEPT ![r] = backers]
                /\ vote_count' = [vote_count EXCEPT ![r] = Cardinality(backers)]
                /\ \/ call[h].fresh /\ cookies' = cookies \cup {v}
                   \/ UNCHANGED cookies
           ELSE UNCHANGED <<voteVars, cookies>>
    /\ Returns(h)
    /\ UNCHANGED <<requestVars, commentVars, releaseVars, identities, board>>

----------------------------------------------------------------------------
(* POST /:boardSlug/requests/:id/comments -> Store::add_public_comment     *)

CommentBegin(h) ==
    /\ Begins(h, "comment")
    /\ IdLeftFor({"comment_check", "comment_insert"},
                 {c \in Comments : comment[c].state = "none"})
    /\ \E r \in Requests :
          Goes(h, [at |-> "comment_check", req |-> r,
                   moderate |-> board.moderate_public_writes])
    /\ UNCHANGED tables

CommentCheck(h) ==
    /\ Continues(h, "comment_check")
    /\ IF Shown(call[h].req)
       THEN Goes(h, [call[h] EXCEPT !.at = "comment_insert"])
       ELSE Returns(h)
    /\ UNCHANGED tables

\* Mutant: a moderated comment is counted when it is written, and again when
\* it is approved.
CountedAtOnce(moderate) == 1

\* What an inserted comment adds to comment_count.
CountedOnInsert(moderate) == IF moderate THEN 0 ELSE 1

Written(c, r, moderate) ==
    comment' = [comment EXCEPT ![c] =
                   [request |-> r,
                    state |-> IF moderate THEN "pending" ELSE "approved"]]

\* The row goes to the request the call named, merged or hidden since or not.
CommentInsert(h) ==
    /\ Continues(h, "comment_insert")
    /\ LET r == call[h].req
           m == call[h].moderate
       IN  /\ \E c \in Comments : comment[c].state = "none" /\ Written(c, r, m)
           /\ comment_count' =
                 [comment_count EXCEPT ![r] = @ + CountedOnInsert(m)]
    /\ Returns(h)
    /\ UNCHANGED <<requestVars, voteVars, releaseVars, voterVars, board>>

----------------------------------------------------------------------------

PublicArrives(h) == GuestBegin(h) \/ VoteBegin(h) \/ CommentBegin(h)

PublicProceeds(h) ==
    \/ GuestInsert(h)
    \/ VoteIssue(h)    \/ VoteCommit(h)
    \/ CommentCheck(h) \/ CommentInsert(h)
====
