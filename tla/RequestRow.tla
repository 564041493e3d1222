---- MODULE RequestRow ----
(***************************************************************************)
(* The columns of one row of the `request` table that an administrator     *)
(* edits (model.rs Request, RequestPatch), and what a patch or a merge     *)
(* makes of them.  Counters and the revision are kept apart: other calls   *)
(* write them on their own.                                                *)
(***************************************************************************)

CONSTANTS
    Requests,   \* request ids
    Texts,      \* contents of the free columns (title, tags, notes, ...)
    NoRequest,  \* duplicate_of = NULL
    Unset       \* a field the patch leaves out (Option::None)

ASSUME NoRequestAssumption == NoRequest \notin Requests
ASSUME TextsAssumption == Texts # {}
ASSUME UnsetAssumption == Unset \notin Requests \cup Texts \cup {NoRequest}

\* Every status other than "shipped" behaves alike: it is "open" here.
Statuses == {"open", "shipped"}

\* Only "approved" is public; "merged" is what a merge writes; any other text
\* the free column may hold behaves as "pending".
ModerationStates == {"pending", "approved", "merged"}

Row == [status       : Statuses,
        visible      : BOOLEAN,
        moderation   : ModerationStates,
        duplicate_of : Requests \cup {NoRequest},
        text         : Texts]

\* duplicate_of |-> NoRequest clears the column; only triage can send that.
Patch == [status       : Statuses \cup {Unset},
          visible      : BOOLEAN \cup {Unset},
          moderation   : ModerationStates \cup {Unset},
          duplicate_of : Requests \cup {NoRequest, Unset},
          text         : Texts \cup {Unset}]

EmptyPatch == [status |-> Unset, visible |-> Unset, moderation |-> Unset,
               duplicate_of |-> Unset, text |-> Unset]

----------------------------------------------------------------------------

\* A row as insert_request writes it.
InsertedRow(moderated) ==
    [status       |-> "open",
     visible      |-> ~moderated,
     moderation   |-> IF moderated THEN "pending" ELSE "approved",
     duplicate_of |-> NoRequest,
     text         |-> CHOOSE t \in Texts : TRUE]

\* The condition every public read and write of a request tests.
Public(row) == row.visible /\ row.moderation = "approved"

Chosen(new, old) == IF new = Unset THEN old ELSE new

\* patch_request's `next`: each column the patch names, the others as read.
Patched(row, patch) ==
    [status       |-> Chosen(patch.status, row.status),
     visible      |-> Chosen(patch.visible, row.visible),
     moderation   |-> Chosen(patch.moderation, row.moderation),
     duplicate_of |-> Chosen(patch.duplicate_of, row.duplicate_of),
     text         |-> Chosen(patch.text, row.text)]

\* The duplicate's row once merge_requests has closed it.
Closed(row, survivor) ==
    [row EXCEPT !.duplicate_of = survivor,
                !.visible = FALSE,
                !.moderation = "merged"]
====
