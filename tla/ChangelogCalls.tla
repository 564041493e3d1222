---- MODULE ChangelogCalls ----
(***************************************************************************)
(* The changelog's writes (admin.rs): draft a release of shipped requests, *)
(* publish it.  Each request is looked at in a lock section of its own, and *)
(* neither the draft's inserts nor the publication look again.             *)
(***************************************************************************)
EXTENDS BoardTables

Shipped(r) == r \in created /\ row[r].status = "shipped"

----------------------------------------------------------------------------
(* POST /changelog/drafts -> Store::create_release                         *)

DraftBegin(h) ==
    /\ Begins(h, "draft")
    /\ IdLeftFor({"draft_check"}, {l \in Releases : release[l] = "none"})
    /\ \E ids \in SUBSET Requests :
          IF ids = {} THEN Returns(h)
          ELSE Goes(h, [at |-> "draft_check", ids |-> ids, todo |-> ids])
    /\ UNCHANGED tables

DraftCheck(h) ==
    /\ Continues(h, "draft_check")
    /\ \E r \in call[h].todo :
          IF Shipped(r) THEN Goes(h, [call[h] EXCEPT !.todo = @ \ {r}])
          ELSE Returns(h)
    /\ UNCHANGED tables

\* The release row and the links written after it, as far as they got.
DraftRows(l, ids) ==
    /\ release' = [release EXCEPT ![l] = "draft"]
    /\ release_request' = release_request \cup ({l} \X ids)

\* An id listed twice fails its second insert; the rows before it stay.
DraftInsert(h) ==
    /\ Continues(h, "draft_check")
    /\ call[h].todo = {}
    /\ \E l \in Releases, linked \in SUBSET call[h].ids :
          /\ release[l] = "none"
          /\ linked # {}
          /\ DraftRows(l, linked)
    /\ Returns(h)
    /\ UNCHANGED <<requestVars, voteVars, commentVars, voterVars, board>>

----------------------------------------------------------------------------
(* POST /changelog/:id/publish -> Store::publish_release                   *)

PublishBegin(h) ==
    /\ Begins(h, "publish")
    /\ \E l \in Releases :
          IF release[l] = "none" THEN Returns(h)
          ELSE Goes(h, [at |-> "publish_check", release |-> l,
                        todo |-> Linked(l)])
    /\ UNCHANGED tables

PublishCheck(h) ==
    /\ Continues(h, "publish_check")
    /\ \E r \in call[h].todo :
          IF Shipped(r) THEN Goes(h, [call[h] EXCEPT !.todo = @ \ {r}])
          ELSE Returns(h)
    /\ UNCHANGED tables

PublishWrite(h) ==
    /\ Continues(h, "publish_check")
    /\ call[h].todo = {}
    /\ release' = [release EXCEPT ![call[h].release] = "published"]
    /\ Returns(h)
    /\ UNCHANGED <<requestVars, voteVars, commentVars, release_request,
                   voterVars, board>>

----------------------------------------------------------------------------

ChangelogArrives(h) == DraftBegin(h) \/ PublishBegin(h)

ChangelogProceeds(h) ==
    \/ DraftCheck(h)   \/ DraftInsert(h)
    \/ PublishCheck(h) \/ PublishWrite(h)
====
