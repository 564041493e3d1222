---------------------------- MODULE BoardSettings ----------------------------
(***************************************************************************)
(* The workspace, its boards and their statuses: how administrators edit   *)
(* them while visitors post to and list the boards, and how a start brings *)
(* back what a kill left out (store.rs).  The database lock is let go      *)
(* between the reads and the writes of a call.  Columns that behave like   *)
(* allow_guest_posts (names, texts, automation defaults) are left out, and *)
(* so are the columns of a request no list asks for.                       *)
(***************************************************************************)
EXTENDS Naturals, SequencesExt, FiniteSetsExt, Functions

CONSTANTS
    MainBoard,    \* DEFAULT_BOARD_ID
    NewBoards,    \* ids create_board may mint
    MainSlug,     \* "feedback"
    Slugs,        \* slugs a board may be asked for
    Codes,        \* the statuses of a new board, in order; a request starts with the first
    OtherCode,    \* a status no board has
    Posts,        \* ids of requests
    Callers,      \* calls at once
    Page,         \* requests a list returns at most
    Unnamed,      \* a field a patch leaves out, an answer there is not
    MaxCallers,   \* bound: calls in all
    MaxFalls      \* bound: kills

ASSUME SettingsAssumption ==
    /\ MainSlug \in Slugs /\ Codes \in Seq(Range(Codes)) /\ Codes # <<>>
    /\ {Page, MaxCallers, MaxFalls} \subseteq Nat
    /\ Unnamed \notin [guest : BOOLEAN, moderate : BOOLEAN, revision : Nat]

VARIABLES
    workspace,  \* its row, or Unnamed
    boards,     \* the board rows
    statuses,   \* the board_status rows
    posts,      \* the request rows
    phase,      \* the sidecar: down, or up
    caller,     \* the calls in flight
    begun, falls,
    settled     \* history: boards neither made nor patched apart since the last sync

setVars == <<workspace, boards, statuses, posts, phase, caller, begun, falls, settled>>

Quiet == [at |-> "quiet"]
SettingPatch == [guest : BOOLEAN \cup {Unnamed}, moderate : BOOLEAN \cup {Unnamed}]

Named(new, old) == IF new = Unnamed THEN old ELSE new
Edited(row, patch) ==
    [row EXCEPT !.guest = Named(patch.guest, @), !.moderate = Named(patch.moderate, @),
                !.revision = @ + 1]

---------------------------------------------------------------------------
\* The shape of a call: it begins, goes from one lock section to the next, and returns.
Arrive(c) == phase = "up" /\ caller[c] = Quiet /\ begun < MaxCallers /\ begun' = begun + 1
Resume(c, at) == caller[c].at = at /\ UNCHANGED begun
Turn(c, state) == caller' = [caller EXCEPT ![c] = state]

\* The rows, as they are read.
WorkspaceRow == [guest : BOOLEAN, moderate : BOOLEAN, revision : 0..MaxCallers]
BoardRow == [slug : Slugs, guest : BOOLEAN, moderate : BOOLEAN, revision : 0..MaxCallers]
PostRow ==
    [board : DOMAIN boards, status : Range(Codes) \cup {OtherCode}, pending : BOOLEAN,
     revision : 0..MaxCallers]

BoardBySlug(slug) == {b \in DOMAIN boards : boards[b].slug = slug}

---------------------------------------------------------------------------
\* patch_workspace: one transaction.
\* Mutant: boards follow without moving their revision on.
FollowedQuietly(row, moderate) == [row EXCEPT !.moderate = moderate]
Followed(row, moderate) ==
    IF row.moderate = moderate THEN row
    ELSE [row EXCEPT !.moderate = moderate, !.revision = @ + 1]

PatchWorkspace(c) ==
    /\ Arrive(c)
    /\ \E patch \in SettingPatch, seen \in {workspace.revision, workspace.revision - 1} :
           IF seen # workspace.revision THEN UNCHANGED <<workspace, boards, settled>>
           ELSE /\ workspace' = Edited(workspace, patch)
                /\ IF patch.moderate = Unnamed THEN UNCHANGED <<boards, settled>>
                   ELSE /\ boards' = [b \in DOMAIN boards |-> Followed(boards[b], patch.moderate)]
                        /\ settled' = DOMAIN boards
    /\ UNCHANGED <<statuses, posts, phase, caller, falls>>

\* patch_board: the row is read, then every column written where the revision still holds.
PatchBoardBegin(c) ==
    /\ Arrive(c)
    /\ \E b \in DOMAIN boards, patch \in SettingPatch :
           Turn(c, [at |-> "board_write", board |-> b, row |-> boards[b], patch |-> patch])
    /\ UNCHANGED <<workspace, boards, statuses, posts, phase, falls, settled>>

\* UPDATE ... WHERE id = ?1 AND revision = ?9.
StillAt(b, revision) == boards[b].revision = revision

PatchBoardWrite(c) ==
    /\ Resume(c, "board_write")
    /\ LET call == caller[c] IN
       IF StillAt(call.board, call.row.revision)
       THEN /\ boards' = [boards EXCEPT ![call.board] = Edited(call.row, call.patch)]
            /\ settled' = IF call.patch.moderate = Unnamed THEN settled
                          ELSE settled \ {call.board}
       ELSE UNCHANGED <<boards, settled>>
    /\ Turn(c, Quiet)
    /\ UNCHANGED <<workspace, statuses, posts, phase, falls>>

---------------------------------------------------------------------------
\* create_board and ensure_default_workspace write row by row, with no transaction.
NewBoard(slug) == [slug |-> slug, guest |-> TRUE, moderate |-> FALSE, revision |-> 0]
WithBoard(b, slug) == [x \in DOMAIN boards \cup {b} |-> IF x = b THEN NewBoard(slug) ELSE boards[x]]
WithStatuses(b, codes) == [x \in DOMAIN statuses \cup {b} |-> IF x = b THEN codes ELSE statuses[x]]
FirstCodes(n) == Range(SubSeq(Codes, 1, n))

\* UNIQUE(workspace_id, slug) refuses a second board of the slug.
BoardRows(b, slug, n) ==
    /\ BoardBySlug(slug) = {}
    /\ boards' = WithBoard(b, slug) /\ statuses' = WithStatuses(b, FirstCodes(n))

CreateBoard(c) ==
    /\ Arrive(c)
    /\ \E b \in NewBoards \ DOMAIN boards, slug \in Slugs :
           \/ BoardRows(b, slug, Len(Codes))
           \/ BoardBySlug(slug) # {} /\ UNCHANGED <<boards, statuses>>
    /\ UNCHANGED <<workspace, posts, phase, caller, falls, settled>>

\* Mutant: the statuses are written only with the board.
RestoredOnce(n) == IF MainBoard \in DOMAIN boards THEN statuses[MainBoard] ELSE FirstCodes(n)
Restored(n) ==
    IF MainBoard \in DOMAIN boards THEN statuses[MainBoard] \cup FirstCodes(n) ELSE FirstCodes(n)

\* INSERT OR IGNORE: what is there stays.
DefaultRows(n) ==
    /\ IF MainBoard \in DOMAIN boards THEN UNCHANGED <<boards, settled>>
       ELSE boards' = WithBoard(MainBoard, MainSlug) /\ settled' = {MainBoard}
    /\ statuses' = WithStatuses(MainBoard, Restored(n))

Start ==
    /\ phase = "down" /\ phase' = "up"
    /\ workspace' = IF workspace = Unnamed
                    THEN [guest |-> TRUE, moderate |-> FALSE, revision |-> 0] ELSE workspace
    /\ DefaultRows(Len(Codes))
    /\ UNCHANGED <<posts, caller, begun, falls>>

---------------------------------------------------------------------------
\* POST /:boardSlug/requests: the handler and create_guest_request each read the board.
PostBegin(c) ==
    /\ Arrive(c)
    /\ \E slug \in Slugs : \E b \in BoardBySlug(slug) :
           Turn(c, [at |-> "post_check", slug |-> slug, board |-> b,
                    receipt |-> boards[b].moderate, revision |-> boards[b].revision])
    /\ UNCHANGED <<workspace, boards, statuses, posts, phase, falls, settled>>

PostCheck(c) ==
    /\ Resume(c, "post_check")
    /\ LET b == caller[c].board IN
       Turn(c, IF boards[b].guest
               THEN [at |-> "post_insert", call |-> caller[c], moderate |-> boards[b].moderate]
               ELSE Quiet)
    /\ UNCHANGED <<workspace, boards, statuses, posts, phase, falls, settled>>

\* Mutant: the workspace's switch decides, not the board's.
HeldByWorkspace(call) == workspace.moderate
Held(call) == call.moderate

PostInsert(c) ==
    /\ Resume(c, "post_insert")
    /\ \E p \in Posts \ DOMAIN posts :
           LET row == [board |-> caller[c].call.board, status |-> Head(Codes),
                       pending |-> Held(caller[c]), revision |-> 0]
           IN /\ posts' = [x \in DOMAIN posts \cup {p} |-> IF x = p THEN row ELSE posts[x]]
              /\ Turn(c, [at |-> "post_answer", call |-> caller[c].call, post |-> p,
                          moderate |-> caller[c].moderate])
    /\ UNCHANGED <<workspace, boards, statuses, phase, falls, settled>>

\* The request is stored, and the answer an error, when its board lacks its status, or it
\* was hidden since.
PostAnswer(c) ==
    /\ Resume(c, "post_answer")
    /\ LET p == posts[caller[c].post] IN
       Turn(c, IF p.status \in statuses[p.board] /\ (caller[c].moderate \/ ~p.pending)
               THEN [at |-> "posted", call |-> caller[c].call, post |-> caller[c].post] ELSE Quiet)
    /\ UNCHANGED <<workspace, boards, statuses, posts, phase, falls, settled>>

---------------------------------------------------------------------------
\* patch_request, of a request's status and whether it is public: its other columns are
\* AdminCalls'.
IsStatus(b, code) == code \in statuses[b]

PatchPostBegin(c) ==
    /\ Arrive(c)
    /\ \E p \in DOMAIN posts, code \in Range(Codes) \cup {OtherCode}, hidden \in BOOLEAN :
           IF IsStatus(posts[p].board, code)
           THEN Turn(c, [at |-> "status_write", post |-> p, code |-> code,
                         pending |-> hidden, revision |-> posts[p].revision])
           ELSE UNCHANGED caller
    /\ UNCHANGED <<workspace, boards, statuses, posts, phase, falls, settled>>

PatchPostWrite(c) ==
    /\ Resume(c, "status_write")
    /\ LET call == caller[c] IN
       IF posts[call.post].revision = call.revision
       THEN posts' = [posts EXCEPT ![call.post].status = call.code, ![call.post].pending = call.pending,
                                   ![call.post].revision = @ + 1]
       ELSE UNCHANGED posts
    /\ Turn(c, Quiet)
    /\ UNCHANGED <<workspace, boards, statuses, phase, falls, settled>>

---------------------------------------------------------------------------
\* GET /:boardSlug/requests and /:boardSlug/roadmap: the board, its statuses and the
\* requests, each under a lock of its own.  A roadmap has a column for each status of its
\* first read; a list drops the requests that have none of those of its second.
ListBegin(c) ==
    /\ Arrive(c)
    /\ \E slug \in Slugs : \E b \in BoardBySlug(slug) :
           Turn(c, [at |-> "list_statuses", board |-> b])
    /\ UNCHANGED <<workspace, boards, statuses, posts, phase, falls, settled>>

ListStatuses(c) ==
    /\ Resume(c, "list_statuses")
    /\ Turn(c, [at |-> "list_rows", board |-> caller[c].board, codes |-> statuses[caller[c].board]])
    /\ UNCHANGED <<workspace, boards, statuses, posts, phase, falls, settled>>

PublicPosts(b) == {p \in DOMAIN posts : posts[p].board = b /\ ~posts[p].pending}

\* A page of them, whatever they are sorted by; requests of no status fill it too.
Pages(b) ==
    LET n == Cardinality(PublicPosts(b)) IN kSubset(IF n < Page THEN n ELSE Page, PublicPosts(b))

ListRows(c) ==
    /\ Resume(c, "list_rows")
    /\ \E page \in Pages(caller[c].board) :
           Turn(c, [at |-> "listed", board |-> caller[c].board,
                    rows |-> {p \in page : posts[p].status \in caller[c].codes}])
    /\ UNCHANGED <<workspace, boards, statuses, posts, phase, falls, settled>>

Answered(c) ==
    /\ caller[c].at \in {"posted", "listed"}
    /\ Turn(c, Quiet)
    /\ UNCHANGED <<workspace, boards, statuses, posts, phase, begun, falls, settled>>

---------------------------------------------------------------------------
\* The sidecar is killed: while it serves, within a create_board, or within its start.
Fall ==
    /\ falls < MaxFalls /\ falls' = falls + 1
    /\ \/ UNCHANGED <<boards, statuses, settled>>
       \/ /\ phase = "up"
          /\ \E b \in NewBoards \ DOMAIN boards, slug \in Slugs, n \in 0..(Len(Codes) - 1) :
                 BoardRows(b, slug, n)
          /\ UNCHANGED settled
       \/ phase = "down" /\ \E n \in 0..(Len(Codes) - 1) : DefaultRows(n)
    /\ workspace' = IF workspace = Unnamed
                    THEN [guest |-> TRUE, moderate |-> FALSE, revision |-> 0] ELSE workspace
    /\ phase' = "down" /\ caller' = [c \in Callers |-> Quiet]
    /\ UNCHANGED <<posts, begun>>

SetInit ==
    /\ workspace = Unnamed
    /\ boards = [b \in {} |-> NewBoard(MainSlug)] /\ statuses = [b \in {} |-> {}]
    /\ posts = [p \in {} |-> Unnamed]
    /\ phase = "down" /\ caller = [c \in Callers |-> Quiet]
    /\ begun = 0 /\ falls = 0 /\ settled = {}

SetNext ==
    \/ Start \/ Fall
    \/ \E c \in Callers :
           \/ PatchWorkspace(c) \/ PatchBoardBegin(c) \/ PatchBoardWrite(c) \/ CreateBoard(c)
           \/ PostBegin(c) \/ PostCheck(c) \/ PostInsert(c) \/ PostAnswer(c)
           \/ PatchPostBegin(c) \/ PatchPostWrite(c)
           \/ ListBegin(c) \/ ListStatuses(c) \/ ListRows(c) \/ Answered(c)

SetSpec == SetInit /\ [][SetNext]_setVars

---------------------------------------------------------------------------
\* Every state the variables may be in.
SetTypeOK ==
    /\ workspace # Unnamed => workspace \in WorkspaceRow
    /\ boards \in [DOMAIN boards -> BoardRow]
    /\ DOMAIN statuses = DOMAIN boards
    /\ posts \in [DOMAIN posts -> PostRow]
    /\ settled \subseteq DOMAIN boards
    /\ \A c \in Callers : phase = "down" => caller[c] = Quiet

\* A board moderates as the workspace does, unless it was made, or its moderation patched,
\* after the workspace's was: no edit of something else, in flight when the workspace
\* changed, takes the board back.
BoardsFollow ==
    \A b \in settled : boards[b].moderate = workspace.moderate

\* The default board has every status whenever the sidecar serves, wherever earlier starts
\* were cut; another board does unless a kill came while boards were made.
BoardsWhole ==
    /\ phase = "up" => statuses[MainBoard] = Range(Codes)
    /\ falls = 0 => \A b \in DOMAIN boards : statuses[b] = Range(Codes)

\* Public answers agree with the store though each is put together from several reads: a
\* list of a board that has its statuses leaves out no public request unless its page is
\* full, and a receipt says that the new request awaits review exactly when it does, unless
\* the board or the request was edited while the call ran.
ListHonest(call, answer) ==
    statuses[call.board] = Range(Codes) =>
        answer.rows = PublicPosts(call.board) \/ Cardinality(answer.rows) = Page
ReceiptHonest(answer) ==
    \/ posts[answer.post].pending = answer.call.receipt
    \/ boards[answer.call.board].revision > answer.call.revision
    \/ posts[answer.post].revision > 0
AnswersHonest ==
    [][\A c \in Callers :
           /\ caller[c].at # "listed" /\ caller'[c].at = "listed" => ListHonest(caller[c], caller'[c])
           /\ caller[c].at # "posted" /\ caller'[c].at = "posted" => ReceiptHonest(caller'[c])]_setVars
==============================================================================
