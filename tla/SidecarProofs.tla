--------------------------- MODULE SidecarProofs ----------------------------
(***************************************************************************)
(* Five components of the sidecar, for any number of runs, calls, boards,  *)
(* ports, origins, tokens and senders.                                     *)
(* The voter cookie: the database's key is written once and read back by   *)
(* every run before it serves, so whoever signs, signs under that key,     *)
(* which no caller has.                                                    *)
(* The settings: a revision moves on with every change of a row, so what a *)
(* call read under one lock still holds under the next as long as the      *)
(* revision does.                                                          *)
(* The automation runs: a row is written whole by the report it shows.     *)
(* The handoff: a run that is about to remove the handoff file found its   *)
(* own token in it; whoever published since is noted as overtaken.         *)
(* The proof of the token: a proof is remembered after the probe that      *)
(* asked for it was sent, however late its answer is stamped.              *)
(***************************************************************************)
EXTENDS VoterTokens, BoardSettings, AutomationRuns, Handoff, PeerProof, FiniteSetTheorems, TLAPS

----------------------------------------------------------------------------
(* The voter cookie: the inductive invariant                               *)

AnyKey == SigningKeys \cup {NoKey}
Signed == [shape : {TRUE}, nonce : Nonces, key : SigningKeys, signed : Nonces]

TokenTyped ==
    /\ secret \in AnyKey
    /\ made \subseteq SigningKeys
    /\ sidecar \in [Sidecars ->
           [at : {"down", "insert", "select", "bind", "up"}, made : AnyKey, signing : AnyKey]]
    /\ cookie \in [Visitors -> Signed \cup {NoToken}]

\* A run has a key of its own until it has offered it, the database a key from then on, and
\* the run that key once it has read it back.
Keyed ==
    \A s \in Sidecars :
        /\ sidecar[s].at = "insert" => sidecar[s].made \in SigningKeys
        /\ sidecar[s].at \in {"select", "bind", "up"} => secret \in SigningKeys
        /\ sidecar[s].at \in {"bind", "up"} => sidecar[s].signing = secret

\* Every cookie was issued to the visitor who has it, under the database's key.
CookiesSigned ==
    \A v \in Visitors : cookie[v] # NoToken =>
        /\ cookie[v].key = secret
        /\ cookie[v].signed = cookie[v].nonce
        /\ <<cookie[v].nonce, v>> \in minted

TokenInv == TokenTyped /\ Keyed /\ CookiesSigned /\ voted \subseteq minted

----------------------------------------------------------------------------
(* What a caller can present                                               *)

\* A token that verifies on a run that serves is the visitor's own cookie.
LEMMA OnlyOwnVerifies ==
    ASSUME TokenInv, NEW s \in Sidecars, sidecar[s].at = "up",
           NEW v \in Visitors, NEW token \in Presented(v), VerifiesToken(s, token)
    PROVE  cookie[v] # NoToken /\ <<token.nonce, v>> \in minted
<1>1. sidecar[s].signing = secret /\ secret \in SigningKeys
    BY DEF TokenInv, Keyed
<1>2. token.shape /\ token.key \in SigningKeys /\ token.signed = token.nonce
    BY <1>1 DEF VerifiesToken
<1>3. token # Malformed
    BY <1>2 DEF Malformed
<1>4. token \notin {Token(n, ForeignKey, n) : n \in Nonces}
    BY <1>2, TokenAssumption DEF Token
<1>5. /\ cookie[v] # NoToken
      /\ token \in {Token(n, cookie[v].key, cookie[v].signed) : n \in Nonces}
    BY <1>3, <1>4 DEF Presented
<1>6. token.signed = cookie[v].signed
    BY <1>5 DEF Token
<1>7. token.nonce = cookie[v].nonce
    BY <1>2, <1>5, <1>6 DEF TokenInv, CookiesSigned
<1> QED BY <1>5, <1>7 DEF TokenInv, CookiesSigned

----------------------------------------------------------------------------
(* The invariant is inductive                                              *)

LEMMA TokenInitInv == TokenInit => TokenInv
<1> SUFFICES ASSUME TokenInit PROVE TokenInv
    OBVIOUS
<1> USE DEF TokenInit
<1>1. TokenTyped
    BY DEF TokenTyped, AnyKey, Down
<1>2. Keyed
    BY DEF Keyed, Down
<1>3. CookiesSigned
    BY DEF CookiesSigned
<1> QED BY <1>1, <1>2, <1>3 DEF TokenInv

\* A run starts and loads its key, binds, or is gone: no cookie changes, and the key in the
\* database only from none to one.
LEMMA RunStep ==
    ASSUME TokenInv, NEW s \in Sidecars,
           Launch(s) \/ InsertSecret(s) \/ SelectSecret(s) \/ Bind(s) \/ Exit(s)
    PROVE  TokenInv'
<1> USE DEF TokenInv, AnyKey, Down
<1>1. CASE Launch(s)
    <2>1. PICK key \in SigningKeys :
              sidecar' = [sidecar EXCEPT ![s] = [at |-> "insert", made |-> key, signing |-> NoKey]]
        BY <1>1 DEF Launch
    <2>2. made' \subseteq SigningKeys /\ UNCHANGED <<secret, minted, cookie, voted>>
        BY <1>1 DEF Launch, TokenTyped
    <2>3. TokenTyped'
        BY <2>1, <2>2 DEF TokenTyped
    <2>4. Keyed'
        BY <2>1, <2>2 DEF Keyed, TokenTyped
    <2> QED BY <2>2, <2>3, <2>4 DEF CookiesSigned
<1>2. CASE InsertSecret(s)
    <2>1. secret' \in SigningKeys /\ (secret # NoKey => secret' = secret)
        BY <1>2, TokenAssumption DEF InsertSecret, SecretKept, Keyed, TokenTyped
    <2>2. TokenTyped'
        BY <1>2, <2>1 DEF InsertSecret, TokenTyped
    <2>3. Keyed'
        BY <1>2, <2>1, TokenAssumption DEF InsertSecret, TokenTyped, Keyed
    <2>4. CookiesSigned'
        <3>1. \A v \in Visitors : cookie[v] # NoToken => secret # NoKey
            BY TokenAssumption DEF CookiesSigned, TokenTyped, Signed
        <3> QED BY <1>2, <2>1, <3>1 DEF InsertSecret, CookiesSigned
    <2> QED BY <1>2, <2>2, <2>3, <2>4 DEF InsertSecret
<1>3. CASE SelectSecret(s)
    <2>1. TokenTyped'
        BY <1>3 DEF SelectSecret, TokenTyped
    <2>2. Keyed'
        BY <1>3 DEF SelectSecret, TokenTyped, Keyed
    <2> QED BY <1>3, <2>1, <2>2 DEF SelectSecret, CookiesSigned
<1>4. CASE Bind(s)
    <2>1. \/ sidecar' = [sidecar EXCEPT ![s] = [sidecar[s] EXCEPT !.at = "up"]]
          \/ sidecar' = [sidecar EXCEPT ![s] = Down]
        BY <1>4 DEF Bind, TokenTyped
    <2>2. TokenTyped'
        BY <1>4, <2>1 DEF Bind, TokenTyped
    <2>3. Keyed'
        BY <1>4, <2>1 DEF Bind, TokenTyped, Keyed
    <2> QED BY <1>4, <2>2, <2>3 DEF Bind, CookiesSigned
<1>5. CASE Exit(s)
    <2>1. TokenTyped'
        BY <1>5 DEF Exit, TokenTyped
    <2>2. Keyed'
        BY <1>5 DEF Exit, TokenTyped, Keyed
    <2> QED BY <1>5, <2>1, <2>2 DEF Exit, CookiesSigned
<1> QED BY <1>1, <1>2, <1>3, <1>4, <1>5

\* A vote under a cookie that verifies is under the visitor's own identity; any other is
\* under a new one, whose cookie the run signs with the database's key.
LEMMA VoteStep ==
    ASSUME TokenInv, NEW s \in Sidecars, VisitorVotes(s)
    PROVE  TokenInv'
<1>1. PICK v \in Visitors : \E token \in Presented(v) :
          VoteWith(s, v, token) \/ VoteAfresh(s, v, token)
    BY DEF VisitorVotes
<1> PICK token \in Presented(v) : VoteWith(s, v, token) \/ VoteAfresh(s, v, token)
    BY <1>1
<1>2. sidecar[s].at = "up" /\ sidecar[s].signing = secret /\ secret \in SigningKeys
    BY DEF VisitorVotes, TokenInv, Keyed
<1>3. CASE VoteWith(s, v, token)
    <2>1. <<token.nonce, v>> \in minted
        BY <1>2, <1>3, OnlyOwnVerifies DEF VoteWith
    <2>2. voted' \subseteq minted'
        BY <1>3, <2>1 DEF VoteWith, CountVote, TokenInv
    <2> QED BY <1>3, <2>2 DEF VoteWith, TokenInv, TokenTyped, Keyed, CookiesSigned
<1>4. CASE VoteAfresh(s, v, token)
    <2>1. PICK n \in Nonces :
              /\ minted' = minted \cup {<<n, v>>}
              /\ voted' = voted \cup {<<n, v>>}
              /\ \/ cookie' = [cookie EXCEPT ![v] = Token(n, sidecar[s].signing, n)]
                 \/ cookie' = cookie
        BY <1>4 DEF VoteAfresh, CountVote
    <2>2. UNCHANGED <<secret, sidecar, made>>
        BY <1>4 DEF VoteAfresh
    <2>3. Token(n, secret, n) \in Signed
        BY <1>2 DEF Token, Signed
    <2>4. TokenTyped'
        BY <1>2, <2>1, <2>2, <2>3 DEF TokenInv, TokenTyped
    <2>5. CookiesSigned'
        BY <1>2, <2>1, <2>2 DEF TokenInv, TokenTyped, CookiesSigned, Token
    <2>6. voted' \subseteq minted' /\ Keyed'
        BY <2>1, <2>2 DEF TokenInv, Keyed
    <2> QED BY <2>4, <2>5, <2>6 DEF TokenInv
<1> QED BY <1>3, <1>4

LEMMA TokenNextInv == TokenInv /\ [TokenNext]_tokenVars => TokenInv'
<1> SUFFICES ASSUME TokenInv, [TokenNext]_tokenVars PROVE TokenInv'
    OBVIOUS
<1>1. CASE TokenNext
    BY <1>1, RunStep, VoteStep DEF TokenNext
<1>2. CASE UNCHANGED tokenVars
    BY <1>2 DEF tokenVars, TokenInv, TokenTyped, Keyed, CookiesSigned
<1> QED BY <1>1, <1>2

LEMMA InvCookiesLast == TokenInv => CookiesLast
    BY DEF TokenInv, TokenTyped, Signed, Keyed, CookiesSigned, CookiesLast, Serving, VerifiesToken

\* A visitor's cookie verifies on every run that serves, to the identity it was issued with,
\* and every vote is under an identity issued to the visitor who cast it, through any number
\* of restarts and overlapping starts of the sidecar.
THEOREM CookiesLastHolds == TokenSpec => []CookiesLast
<1>1. TokenInit => TokenInv
    BY TokenInitInv
<1>2. TokenInv /\ [TokenNext]_tokenVars => TokenInv'
    BY TokenNextInv
<1>3. TokenInv => CookiesLast
    BY InvCookiesLast
<1> QED BY <1>1, <1>2, <1>3, PTL DEF TokenSpec

\* Only one run has the port.
OneIsUp == \A s, t \in Sidecars : sidecar[s].at = "up" /\ sidecar[t].at = "up" => s = t

LEMMA OneStaysUp == TokenTyped /\ OneIsUp /\ [TokenNext]_tokenVars => OneIsUp'
<1> SUFFICES ASSUME TokenTyped, OneIsUp, [TokenNext]_tokenVars PROVE OneIsUp'
    OBVIOUS
<1>1. ASSUME NEW s \in Sidecars, Launch(s) \/ InsertSecret(s) \/ SelectSecret(s) \/ Exit(s)
      PROVE  OneIsUp'
    <2>1. \A t \in Sidecars : sidecar'[t].at = "up" => sidecar[t].at = "up"
        BY <1>1 DEF Launch, InsertSecret, SelectSecret, Exit, TokenTyped, Down
    <2> QED BY <2>1 DEF OneIsUp
<1>2. ASSUME NEW s \in Sidecars, Bind(s) PROVE OneIsUp'
    <2>1. CASE Serving = {}
        <3>1. \A t \in Sidecars : sidecar'[t].at = "up" => t = s
            BY <1>2, <2>1 DEF Bind, Serving, TokenTyped
        <3> QED BY <3>1 DEF OneIsUp
    <2>2. CASE Serving # {}
        <3>1. \A t \in Sidecars : sidecar'[t].at = "up" => sidecar[t].at = "up"
            BY <1>2, <2>2 DEF Bind, TokenTyped, Down
        <3> QED BY <3>1 DEF OneIsUp
    <2> QED BY <2>1, <2>2
<1>3. ASSUME NEW s \in Sidecars, VisitorVotes(s) PROVE OneIsUp'
    BY <1>3 DEF VisitorVotes, VoteWith, VoteAfresh, OneIsUp
<1>4. ASSUME UNCHANGED tokenVars PROVE OneIsUp'
    BY <1>4 DEF tokenVars, OneIsUp
<1> QED BY <1>1, <1>2, <1>3, <1>4 DEF TokenNext

\* Any number of runs of the sidecar may load the key at once, but one serves, and each
\* cookie names an identity issued to the visitor who has it.
THEOREM OneRunServes == TokenSpec => []TokenTypeOK
<1>1. TokenInit => OneIsUp
    BY DEF TokenInit, OneIsUp, Down
<1>2. ASSUME TokenInv, OneIsUp PROVE TokenTypeOK
    <2>1. Cardinality(Serving) <= 1
        <3>1. CASE Serving = {}
            BY <3>1, FS_EmptySet
        <3>2. CASE Serving # {}
            <4>1. PICK s : Serving = {s}
                BY <1>2, <3>2 DEF OneIsUp, Serving
            <4> QED BY <4>1, FS_Singleton
        <3> QED BY <3>1, <3>2
    <2>2. \A s \in Sidecars : sidecar[s].at \in {"down", "insert", "select", "bind", "up"}
        BY <1>2 DEF TokenInv, TokenTyped
    <2> QED BY <1>2, <2>1, <2>2 DEF TokenInv, TokenTyped, AnyKey, CookiesSigned, TokenTypeOK
<1>3. TokenInv => TokenTyped
    BY DEF TokenInv
<1> QED BY <1>1, <1>2, <1>3, TokenInitInv, TokenNextInv, OneStaysUp, PTL DEF TokenSpec

----------------------------------------------------------------------------
(* The automation runs                                                     *)

Answer == Words \cup {Null}
RunRow == [request : Requested, workflow : Answer, plan : Answer, report : reports \cup {Queued}]

RunInv ==
    /\ run \in [DOMAIN run -> RunRow]
    /\ starting \in [Starters -> {NotStarting} \cup [request : Requested, workflow : Answer]]
    /\ IsFiniteSet(reports) /\ Cardinality(reports) <= MaxReports

LEMMA RunInitInv == RunInit => RunInv
<1> SUFFICES ASSUME RunInit PROVE RunInv
    OBVIOUS
<1>1. IsFiniteSet(reports) /\ Cardinality(reports) = 0
    BY FS_EmptySet DEF RunInit
<1> QED BY <1>1, ReportsAssumption DEF RunInit, RunInv

LEMMA RunNextInv == RunInv /\ [RunNext]_runVars => RunInv'
<1> SUFFICES ASSUME RunInv, [RunNext]_runVars PROVE RunInv'
    OBVIOUS
<1> USE DEF RunInv
<1>1. ASSUME NEW t \in Starters, StartRun(t) PROVE RunInv'
    <2>1. /\ UNCHANGED <<run, reports>>
          /\ starting' \in [Starters -> {NotStarting} \cup [request : Requested, workflow : Answer]]
        BY <1>1 DEF StartRun, Answer
    <2> QED BY <2>1 DEF RunRow
<1>2. ASSUME NEW t \in Starters, InsertRun(t) PROVE RunInv'
    <2> DEFINE row == [request |-> starting[t].request, workflow |-> starting[t].workflow,
                       plan |-> Null, report |-> Queued]
    <2>1. PICK id \in Runs \ DOMAIN run :
              run' = [x \in DOMAIN run \cup {id} |-> IF x = id THEN row ELSE run[x]]
        BY <1>2 DEF InsertRun
    <2>2. starting[t] \in [request : Requested, workflow : Answer]
        BY <1>2 DEF InsertRun
    <2>3. row \in RunRow
        BY <2>2 DEF RunRow, Answer
    <2> HIDE DEF row
    <2>4. UNCHANGED reports /\ RunRow' = RunRow
        BY <1>2 DEF InsertRun, RunRow
    <2>5. starting' \in [Starters -> {NotStarting} \cup [request : Requested, workflow : Answer]]
        BY <1>2 DEF InsertRun
    <2>6. run' \in [DOMAIN run' -> RunRow]
        BY <2>1, <2>3
    <2> QED BY <2>4, <2>5, <2>6
<1>3. CASE ReportRun
    <2>1. PICK id \in DOMAIN run, w \in Answer, p \in Answer, summary \in Answer, error \in Answer,
               status \in Outcomes :
              LET new == [status |-> status, summary |-> summary, error |-> error] IN
              /\ run' = [run EXCEPT ![id] = [IdsKept(@, w, p) EXCEPT !.report = Replaced(@, new)]]
              /\ reports' = reports \cup {new}
        BY <1>3 DEF ReportRun, Answer
    <2> DEFINE new == [status |-> status, summary |-> summary, error |-> error]
               row == [IdsKept(run[id], w, p) EXCEPT !.report = new]
    <2>2. run' = [run EXCEPT ![id] = row] /\ reports' = reports \cup {new} /\ UNCHANGED starting
        BY <1>3, <2>1 DEF Replaced, ReportRun
    <2> HIDE DEF new
    <2>3. RunRow \subseteq RunRow'
        BY <2>2 DEF RunRow
    <2>4. row \in RunRow'
        <3>1. run[id] \in RunRow
            OBVIOUS
        <3>2. IdsKept(run[id], w, p) \in RunRow
            BY <3>1 DEF IdsKept, Coalesce, RunRow
        <3> QED BY <2>2, <3>2 DEF RunRow
    <2> HIDE DEF row
    <2>5. run' \in [DOMAIN run' -> RunRow']
        <3>1. run \in [DOMAIN run -> RunRow']
            BY <2>3
        <3> QED BY <2>2, <2>4, <3>1
    <2>6. IsFiniteSet(reports') /\ Cardinality(reports') <= MaxReports
        <3>1. Cardinality(reports) < MaxReports
            BY <1>3 DEF ReportRun
        <3>2. /\ IsFiniteSet(reports \cup {new}) /\ Cardinality(reports) \in Nat
              /\ \/ Cardinality(reports \cup {new}) = Cardinality(reports)
                 \/ Cardinality(reports \cup {new}) = Cardinality(reports) + 1
            BY FS_AddElement, FS_CardinalityType
        <3> QED BY <2>2, <3>1, <3>2, ReportsAssumption
    <2> QED BY <2>2, <2>5, <2>6
<1>4. CASE LoseStarts
    <2>1. /\ UNCHANGED <<run, reports>>
          /\ starting' \in [Starters -> {NotStarting} \cup [request : Requested, workflow : Answer]]
        BY <1>4 DEF LoseStarts
    <2> QED BY <2>1 DEF RunRow
<1>5. CASE UNCHANGED runVars
    BY <1>5 DEF runVars, RunRow
<1> QED BY <1>1, <1>2, <1>3, <1>4, <1>5 DEF RunNext

\* However starts and reports interleave, and starts are lost, a run is of a request of the
\* board, and its status, summary and error are those of one report (update_automation_run).
THEOREM RunsShowOneReport == RunSpec => []RunTypeOK
<1>1. RunInv => RunTypeOK
    <2> SUFFICES ASSUME RunInv PROVE RunTypeOK
        OBVIOUS
    <2>1. ASSUME NEW id \in DOMAIN run
          PROVE  /\ run[id].request \in Requested /\ run[id].report \in reports \cup {Queued}
                 /\ run[id].workflow \in Answer /\ run[id].plan \in Answer
        <3>1. run[id] \in RunRow
            BY DEF RunInv
        <3> QED BY <3>1 DEF RunRow
    <2> QED BY <2>1 DEF RunTypeOK, RunInv, Answer
<1> QED BY <1>1, RunInitInv, RunNextInv, PTL DEF RunSpec

----------------------------------------------------------------------------
(* The settings: the inductive invariant                                   *)

\* The rows as they are kept: a revision only ever goes up.
SettingRow == [guest : BOOLEAN, moderate : BOOLEAN, revision : Nat]
KeptBoard == [slug : Slugs, guest : BOOLEAN, moderate : BOOLEAN, revision : Nat]
KeptPost == [board : DOMAIN boards, status : Range(Codes), pending : BOOLEAN, revision : Nat]

SetTyped ==
    /\ workspace = Unnamed \/ workspace \in SettingRow
    /\ boards \in [DOMAIN boards -> KeptBoard]
    /\ DOMAIN statuses = DOMAIN boards /\ \A b \in DOMAIN boards : statuses[b] \subseteq Range(Codes)
    /\ posts \in [DOMAIN posts -> KeptPost] /\ IsFiniteSet(DOMAIN posts)
    /\ settled \subseteq DOMAIN boards
    /\ phase \in {"down", "up"} /\ falls \in Nat
    /\ DOMAIN caller = Callers

\* While nothing serves, no call runs; before the default board there is no other, and the
\* workspace is as it was made.
SetPhases ==
    /\ phase = "down" => \A c \in Callers : caller[c] = Quiet
    /\ phase = "up" => workspace \in SettingRow /\ MainBoard \in DOMAIN boards
    /\ settled # {} => workspace \in SettingRow
    /\ MainBoard \notin DOMAIN boards =>
           DOMAIN boards = {} /\ (workspace # Unnamed => ~workspace.moderate)

\* What a call remembers of a board, as long as the board keeps the revision it read.
ReceiptRead(call) ==
    /\ call.board \in DOMAIN boards /\ call.revision \in Nat
    /\ call.revision <= boards[call.board].revision
    /\ call.receipt \in BOOLEAN

Unmoved(call) == boards[call.board].revision = call.revision

\* What a call knows between its lock sections.
Informed(call) ==
    /\ call.at = "board_write" =>
           /\ call.board \in DOMAIN boards /\ call.row \in KeptBoard /\ call.patch \in SettingPatch
           /\ call.row.revision <= boards[call.board].revision
           /\ call.row.revision = boards[call.board].revision => call.row = boards[call.board]
    /\ call.at = "post_check" =>
           ReceiptRead(call) /\ (Unmoved(call) => call.receipt = boards[call.board].moderate)
    /\ call.at = "post_insert" =>
           /\ ReceiptRead(call.call) /\ call.moderate \in BOOLEAN
           /\ Unmoved(call.call) => call.moderate = call.call.receipt
    /\ call.at = "post_answer" =>
           /\ ReceiptRead(call.call) /\ call.post \in DOMAIN posts
           /\ Unmoved(call.call) /\ posts[call.post].revision = 0 =>
                  posts[call.post].pending = call.call.receipt
    /\ call.at = "status_write" =>
           call.post \in DOMAIN posts /\ call.code \in Range(Codes) /\ call.pending \in BOOLEAN
    /\ call.at = "list_statuses" => call.board \in DOMAIN boards
    /\ call.at = "list_rows" => call.board \in DOMAIN boards /\ call.codes = statuses[call.board]

SetInv ==
    /\ SetTyped /\ SetPhases
    /\ \A c \in Callers : Informed(caller[c])
    /\ BoardsFollow /\ BoardsWhole

----------------------------------------------------------------------------

AllInformed == \A c \in Callers : Informed(caller[c])

\* What any step does to a board, its statuses and a request: it leaves them as they are,
\* or moves their revision on.
BoardsMove ==
    \A b \in DOMAIN boards :
        /\ b \in DOMAIN boards' /\ statuses'[b] = statuses[b]
        /\ boards'[b] = boards[b] \/ boards'[b].revision > boards[b].revision
PostsMove ==
    \A p \in DOMAIN posts :
        p \in DOMAIN posts' /\ (posts'[p] = posts[p] \/ posts'[p].revision > posts[p].revision)

LEMMA RevisionsAreNumbers ==
    ASSUME SetTyped
    PROVE  /\ \A b \in DOMAIN boards : boards[b] \in KeptBoard /\ boards[b].revision \in Nat
           /\ \A p \in DOMAIN posts : posts[p] \in KeptPost /\ posts[p].revision \in Nat
BY DEF SetTyped, KeptBoard, KeptPost

LEMMA ReceiptStays ==
    ASSUME SetTyped, SetTyped', BoardsMove, NEW call, ReceiptRead(call)
    PROVE  /\ ReceiptRead(call)'
           /\ Unmoved(call)' => Unmoved(call) /\ boards'[call.board] = boards[call.board]
<1> DEFINE b == call.board
<1>1. b \in DOMAIN boards /\ call.revision \in Nat /\ call.revision <= boards[b].revision
      /\ call.receipt \in BOOLEAN
    BY DEF ReceiptRead
<1>2. b \in DOMAIN boards' /\ (boards'[b] = boards[b] \/ boards'[b].revision > boards[b].revision)
    BY <1>1 DEF BoardsMove
<1>3. boards[b].revision \in Nat /\ boards'[b].revision \in Nat
    BY <1>1, <1>2 DEF SetTyped, KeptBoard
<1> QED BY <1>1, <1>2, <1>3 DEF ReceiptRead, Unmoved

LEMMA StaysInformed ==
    ASSUME SetTyped, SetTyped', BoardsMove, PostsMove, NEW call, Informed(call)
    PROVE  Informed(call)'
<1>1. call.at = "board_write" =>
          /\ call.board \in DOMAIN boards' /\ call.row \in KeptBoard /\ call.patch \in SettingPatch
          /\ call.row.revision <= boards'[call.board].revision
          /\ call.row.revision = boards'[call.board].revision => call.row = boards'[call.board]
    <2> SUFFICES ASSUME call.at = "board_write"
                 PROVE  /\ call.board \in DOMAIN boards' /\ call.row \in KeptBoard
                        /\ call.patch \in SettingPatch
                        /\ call.row.revision <= boards'[call.board].revision
                        /\ call.row.revision = boards'[call.board].revision => call.row = boards'[call.board]
        OBVIOUS
    <2> DEFINE b == call.board
    <2>1. /\ b \in DOMAIN boards /\ call.row \in KeptBoard /\ call.patch \in SettingPatch
          /\ call.row.revision <= boards[b].revision
          /\ call.row.revision = boards[b].revision => call.row = boards[b]
        BY DEF Informed
    <2>2. b \in DOMAIN boards' /\ (boards'[b] = boards[b] \/ boards'[b].revision > boards[b].revision)
        BY <2>1 DEF BoardsMove
    <2>3. boards[b].revision \in Nat /\ boards'[b].revision \in Nat /\ call.row.revision \in Nat
        BY <2>1, <2>2 DEF SetTyped, KeptBoard
    <2> QED BY <2>1, <2>2, <2>3
<1>2. call.at = "post_check" =>
          ReceiptRead(call)' /\ (Unmoved(call)' => call.receipt = boards'[call.board].moderate)
    BY ReceiptStays DEF Informed
<1>3. call.at = "post_insert" =>
          /\ ReceiptRead(call.call)' /\ call.moderate \in BOOLEAN
          /\ Unmoved(call.call)' => call.moderate = call.call.receipt
    BY ReceiptStays DEF Informed
<1>4. call.at = "post_answer" =>
          /\ ReceiptRead(call.call)' /\ call.post \in DOMAIN posts'
          /\ Unmoved(call.call)' /\ posts'[call.post].revision = 0 =>
                 posts'[call.post].pending = call.call.receipt
    <2> SUFFICES ASSUME call.at = "post_answer"
                 PROVE  /\ ReceiptRead(call.call)' /\ call.post \in DOMAIN posts'
                        /\ Unmoved(call.call)' /\ posts'[call.post].revision = 0 =>
                               posts'[call.post].pending = call.call.receipt
        OBVIOUS
    <2>1. /\ ReceiptRead(call.call) /\ call.post \in DOMAIN posts
          /\ Unmoved(call.call) /\ posts[call.post].revision = 0 =>
                 posts[call.post].pending = call.call.receipt
        BY DEF Informed
    <2>2. ReceiptRead(call.call)' /\ (Unmoved(call.call)' => Unmoved(call.call))
        BY <2>1, ReceiptStays
    <2>3. /\ call.post \in DOMAIN posts' /\ posts[call.post].revision \in Nat
          /\ posts'[call.post].revision = 0 => posts'[call.post] = posts[call.post]
        BY <2>1, RevisionsAreNumbers DEF PostsMove
    <2> QED BY <2>1, <2>2, <2>3
<1>5. /\ call.at = "status_write" =>
             call.post \in DOMAIN posts' /\ call.code \in Range(Codes) /\ call.pending \in BOOLEAN
      /\ call.at = "list_statuses" => call.board \in DOMAIN boards'
      /\ call.at = "list_rows" => call.board \in DOMAIN boards' /\ call.codes = statuses'[call.board]
    BY DEF Informed, BoardsMove, PostsMove
<1> QED BY <1>1, <1>2, <1>3, <1>4, <1>5 DEF Informed

LEMMA OthersStayInformed ==
    ASSUME SetTyped, SetTyped', BoardsMove, PostsMove,
           NEW c \in Callers, Informed(caller[c]), caller'[c] = caller[c]
    PROVE  Informed(caller[c])'
<1>1. PICK call : call = caller[c]
    OBVIOUS
<1>2. Informed(call)
    BY <1>1
<1>3. Informed(call)'
    BY <1>2, StaysInformed
<1> QED BY <1>1, <1>3 DEF Informed, ReceiptRead, Unmoved

\* A step of one call that changes no board.
LEMMA CallKeeps ==
    ASSUME SetInv, phase = "up", NEW c \in Callers, NEW call, Turn(c, call),
           UNCHANGED <<workspace, boards, statuses, phase, falls, settled>>,
           posts' \in [DOMAIN posts' -> KeptPost], IsFiniteSet(DOMAIN posts'), PostsMove,
           Informed(call)'
    PROVE  SetInv'
<1>1. SetTyped'
    BY DEF SetInv, SetTyped, KeptPost, Turn
<1>2. SetPhases'
    BY DEF SetInv, SetPhases
<1>3. BoardsMove
    BY DEF BoardsMove
<1>4. caller'[c] = call /\ \A d \in Callers : d # c => caller'[d] = caller[d]
    BY DEF Turn, SetInv, SetTyped
<1>5. Informed(caller[c])'
    BY <1>4 DEF Informed, ReceiptRead, Unmoved
<1>6. \A d \in Callers : Informed(caller[d])'
    BY <1>1, <1>3, <1>4, <1>5, OthersStayInformed DEF SetInv
<1>7. BoardsFollow' /\ BoardsWhole'
    BY DEF SetInv, BoardsFollow, BoardsWhole
<1> QED BY <1>1, <1>2, <1>6, <1>7 DEF SetInv

LEMMA PostsStay ==
    ASSUME SetInv, UNCHANGED <<boards, posts>>
    PROVE  posts' \in [DOMAIN posts' -> KeptPost] /\ IsFiniteSet(DOMAIN posts') /\ PostsMove
BY DEF SetInv, SetTyped, KeptPost, PostsMove

\* A call that is not quiet runs while the sidecar is up.
LEMMA Running ==
    ASSUME SetInv, NEW c \in Callers, caller[c].at # "quiet"
    PROVE  phase = "up"
BY DEF SetInv, SetTyped, SetPhases, Quiet

LEMMA QuietIsInformed == Informed(Quiet)'
BY DEF Informed, Quiet

----------------------------------------------------------------------------
(* The calls                                                               *)

LEMMA CodesAre ==
    /\ Codes \in Seq(Range(Codes)) /\ Len(Codes) \in Nat \ {0}
    /\ Head(Codes) \in Range(Codes)
    /\ FirstCodes(Len(Codes)) = Range(Codes)
    /\ \A n \in 0..Len(Codes) : FirstCodes(n) \subseteq Range(Codes)
<1>1. /\ Codes \in Seq(Range(Codes)) /\ Len(Codes) \in Nat \ {0} /\ DOMAIN Codes = 1..Len(Codes)
    BY SettingsAssumption
<1>2. Head(Codes) = Codes[1] /\ 1 \in DOMAIN Codes
    BY <1>1
<1>3. Head(Codes) \in Range(Codes)
    BY <1>2 DEF Range
<1>4. ASSUME NEW n \in 0..Len(Codes)
      PROVE  DOMAIN SubSeq(Codes, 1, n) = 1..n /\ \A i \in 1..n : SubSeq(Codes, 1, n)[i] = Codes[i]
    BY <1>1
<1>5. \A n \in 0..Len(Codes) : FirstCodes(n) = {Codes[i] : i \in 1..n}
    BY <1>4 DEF FirstCodes, Range
<1>6. FirstCodes(Len(Codes)) = Range(Codes)
    BY <1>1, <1>5 DEF Range
<1>7. \A n \in 0..Len(Codes) : FirstCodes(n) \subseteq Range(Codes)
    BY <1>1, <1>5 DEF Range
<1> QED BY <1>1, <1>3, <1>6, <1>7

LEMMA PatchBoardBeginStep ==
    ASSUME SetInv, NEW c \in Callers, PatchBoardBegin(c)
    PROVE  SetInv'
<1>1. PICK b \in DOMAIN boards, patch \in SettingPatch :
          Turn(c, [at |-> "board_write", board |-> b, row |-> boards[b], patch |-> patch])
    BY DEF PatchBoardBegin
<1> DEFINE call == [at |-> "board_write", board |-> b, row |-> boards[b], patch |-> patch]
<1>2. /\ phase = "up" /\ UNCHANGED <<workspace, boards, statuses, posts, phase, falls, settled>>
    BY DEF PatchBoardBegin, Arrive
<1>3. boards[b] \in KeptBoard /\ boards[b].revision \in Nat
    BY RevisionsAreNumbers DEF SetInv
<1>4. Informed(call)'
    BY <1>2, <1>3 DEF Informed
<1> QED BY <1>1, <1>2, <1>4, PostsStay, CallKeeps

LEMMA PostBeginStep ==
    ASSUME SetInv, NEW c \in Callers, PostBegin(c)
    PROVE  SetInv'
<1>1. PICK slug \in Slugs, b \in DOMAIN boards :
          Turn(c, [at |-> "post_check", slug |-> slug, board |-> b,
                   receipt |-> boards[b].moderate, revision |-> boards[b].revision])
    BY DEF PostBegin, BoardBySlug
<1> DEFINE call == [at |-> "post_check", slug |-> slug, board |-> b,
                    receipt |-> boards[b].moderate, revision |-> boards[b].revision]
<1>2. /\ phase = "up" /\ UNCHANGED <<workspace, boards, statuses, posts, phase, falls, settled>>
    BY DEF PostBegin, Arrive
<1>3. boards[b].moderate \in BOOLEAN /\ boards[b].revision \in Nat
    BY RevisionsAreNumbers DEF SetInv, KeptBoard
<1>4. Informed(call)'
    BY <1>2, <1>3 DEF Informed, ReceiptRead, Unmoved
<1> QED BY <1>1, <1>2, <1>4, PostsStay, CallKeeps

LEMMA PostCheckStep ==
    ASSUME SetInv, NEW c \in Callers, PostCheck(c)
    PROVE  SetInv'
<1> PICK mode : mode = boards[caller[c].board].moderate
    OBVIOUS
<1>1. caller[c].at = "post_check" /\ phase = "up"
    BY Running DEF PostCheck, Resume
<1>2. UNCHANGED <<workspace, boards, statuses, posts, phase, falls, settled>>
    BY DEF PostCheck
<1>3. \/ Turn(c, [at |-> "post_insert", call |-> caller[c], moderate |-> mode])
      \/ Turn(c, Quiet)
    BY DEF PostCheck
<1>4. /\ ReceiptRead(caller[c]) /\ (Unmoved(caller[c]) => caller[c].receipt = mode)
      /\ mode \in BOOLEAN
    BY <1>1, RevisionsAreNumbers DEF SetInv, Informed, ReceiptRead, KeptBoard
<1>5. PICK old : old = caller[c]
    OBVIOUS
<1>6. Informed([at |-> "post_insert", call |-> old, moderate |-> mode])'
    <2>1. UNCHANGED boards /\ ReceiptRead(old) /\ (Unmoved(old) => old.receipt = mode)
        BY <1>2, <1>4, <1>5
    <2>2. ReceiptRead(old)' /\ (Unmoved(old)' => old.receipt = mode)
        BY <2>1 DEF ReceiptRead, Unmoved
    <2> DEFINE next == [at |-> "post_insert", call |-> old, moderate |-> mode]
    <2>3. next.at = "post_insert" /\ next.call = old /\ next.moderate = mode
        OBVIOUS
    <2> QED BY <1>4, <2>2 DEF Informed
<1>7. Turn(c, [at |-> "post_insert", call |-> old, moderate |-> mode]) \/ Turn(c, Quiet)
    BY <1>3, <1>5
<1> QED BY <1>1, <1>2, <1>6, <1>7, PostsStay, QuietIsInformed, CallKeeps

LEMMA PostInsertStep ==
    ASSUME SetInv, NEW c \in Callers, PostInsert(c)
    PROVE  SetInv'
<1>1. caller[c].at = "post_insert" /\ phase = "up"
    BY Running DEF PostInsert, Resume
<1>2. UNCHANGED <<workspace, boards, statuses, phase, falls, settled>>
    BY DEF PostInsert
<1>3. PICK old : old = caller[c].call
    OBVIOUS
<1>4. PICK mode : mode = caller[c].moderate
    OBVIOUS
<1>5. /\ ReceiptRead(old) /\ mode \in BOOLEAN /\ (Unmoved(old) => mode = old.receipt)
    BY <1>1, <1>3, <1>4 DEF SetInv, Informed
<1>6. PICK p \in Posts \ DOMAIN posts :
          /\ posts' = [x \in DOMAIN posts \cup {p} |->
                  IF x = p THEN [board |-> old.board, status |-> Head(Codes), pending |-> mode,
                                 revision |-> 0] ELSE posts[x]]
          /\ Turn(c, [at |-> "post_answer", call |-> old, post |-> p, moderate |-> mode])
    BY <1>3, <1>4 DEF PostInsert, Held
<1> DEFINE row == [board |-> old.board, status |-> Head(Codes), pending |-> mode, revision |-> 0]
           call == [at |-> "post_answer", call |-> old, post |-> p, moderate |-> mode]
<1>7. row \in KeptPost /\ row.pending = mode
    BY <1>5, CodesAre DEF KeptPost, ReceiptRead
<1>8. /\ posts' \in [DOMAIN posts' -> KeptPost] /\ PostsMove /\ posts'[p] = row /\ p \in DOMAIN posts'
      /\ KeptPost' = KeptPost
    <2>1. KeptPost' = KeptPost
        BY <1>2 DEF KeptPost
    <2>2. posts' \in [DOMAIN posts' -> KeptPost] /\ posts'[p] = row /\ p \in DOMAIN posts'
        BY <1>6, <1>7 DEF SetInv, SetTyped
    <2>3. PostsMove
        BY <1>6 DEF PostsMove
    <2> QED BY <2>1, <2>2, <2>3
<1>9. IsFiniteSet(DOMAIN posts')
    <2>1. DOMAIN posts' = DOMAIN posts \cup {p}
        BY <1>6
    <2> QED BY <2>1, FS_AddElement DEF SetInv, SetTyped
<1>10. Informed(call)'
    <2>1. ReceiptRead(old)' /\ (Unmoved(old)' => mode = old.receipt)
        BY <1>2, <1>5 DEF ReceiptRead, Unmoved
    <2> QED BY <1>7, <1>8, <2>1 DEF Informed
<1> QED BY <1>1, <1>2, <1>6, <1>8, <1>9, <1>10, CallKeeps

LEMMA PostAnswerStep ==
    ASSUME SetInv, NEW c \in Callers, PostAnswer(c)
    PROVE  SetInv'
<1>1. caller[c].at = "post_answer" /\ phase = "up"
    BY Running DEF PostAnswer, Resume
<1>2. UNCHANGED <<workspace, boards, statuses, posts, phase, falls, settled>>
    BY DEF PostAnswer
<1>3. PICK old, p : old = caller[c].call /\ p = caller[c].post
    OBVIOUS
<1>4. Turn(c, [at |-> "posted", call |-> old, post |-> p]) \/ Turn(c, Quiet)
    BY <1>3 DEF PostAnswer
<1>5. Informed([at |-> "posted", call |-> old, post |-> p])'
    BY DEF Informed
<1> QED BY <1>1, <1>2, <1>4, <1>5, PostsStay, QuietIsInformed, CallKeeps

LEMMA PatchPostBeginStep ==
    ASSUME SetInv, NEW c \in Callers, PatchPostBegin(c)
    PROVE  SetInv'
<1>1. /\ phase = "up" /\ UNCHANGED <<workspace, boards, statuses, posts, phase, falls, settled>>
    BY DEF PatchPostBegin, Arrive
<1>2. PICK p \in DOMAIN posts, code \in Range(Codes) \cup {OtherCode}, hidden \in BOOLEAN :
          IF code \in statuses[posts[p].board]
          THEN Turn(c, [at |-> "status_write", post |-> p, code |-> code, pending |-> hidden,
                        revision |-> posts[p].revision])
          ELSE UNCHANGED caller
    BY DEF PatchPostBegin, IsStatus
<1>3. CASE UNCHANGED caller
    <2>1. UNCHANGED <<workspace, boards, statuses, posts, phase, caller, falls, settled>>
        BY <1>1, <1>3
    <2> QED BY <2>1 DEF SetInv, SetTyped, SetPhases, KeptPost, Informed, ReceiptRead, Unmoved,
                        BoardsFollow, BoardsWhole
<1>4. CASE code \in statuses[posts[p].board]
    <2> PICK rev : rev = posts[p].revision
        OBVIOUS
    <2> DEFINE call == [at |-> "status_write", post |-> p, code |-> code, pending |-> hidden,
                        revision |-> rev]
    <2>1. code \in Range(Codes)
        BY <1>4 DEF SetInv, SetTyped, KeptPost
    <2>2. Turn(c, call)
        BY <1>2, <1>4
    <2>3. Informed(call)'
        BY <1>1, <2>1 DEF Informed
    <2> QED BY <1>1, <2>2, <2>3, PostsStay, CallKeeps
<1> QED BY <1>2, <1>3, <1>4

LEMMA PostEdited ==
    ASSUME NEW B, NEW S, NEW r \in [board : B, status : S, pending : BOOLEAN, revision : Nat],
           NEW code \in S, NEW hidden \in BOOLEAN, NEW rev \in Nat
    PROVE  LET e == [r EXCEPT !.status = code, !.pending = hidden, !.revision = rev]
           IN  e \in [board : B, status : S, pending : BOOLEAN, revision : Nat] /\ e.revision = rev
OBVIOUS

LEMMA PatchPostWriteStep ==
    ASSUME SetInv, NEW c \in Callers, PatchPostWrite(c)
    PROVE  SetInv'
<1>1. caller[c].at = "status_write" /\ phase = "up"
    BY Running DEF PatchPostWrite, Resume
<1>2. UNCHANGED <<workspace, boards, statuses, phase, falls, settled>> /\ Turn(c, Quiet)
    BY DEF PatchPostWrite
<1>3. PICK call : call = caller[c]
    OBVIOUS
<1>4. call.post \in DOMAIN posts /\ call.code \in Range(Codes) /\ call.pending \in BOOLEAN
    BY <1>1, <1>3 DEF SetInv, Informed
<1>5. KeptPost' = KeptPost
    BY <1>2 DEF KeptPost
<1>6. CASE UNCHANGED posts
    BY <1>1, <1>2, <1>6, PostsStay, QuietIsInformed, CallKeeps
<1>7. CASE posts[call.post].revision = call.revision
    <2> DEFINE p == call.post
    <2> PICK old : old = posts[p]
        OBVIOUS
    <2> DEFINE row == [old EXCEPT !.status = call.code, !.pending = call.pending,
                                  !.revision = old.revision + 1]
    <2>1. posts[p] \in KeptPost /\ posts[p].revision \in Nat /\ old \in KeptPost
        BY <1>4, RevisionsAreNumbers DEF SetInv
    <2>2. row \in KeptPost /\ row.revision = posts[p].revision + 1
        <3>1. old.revision + 1 \in Nat
            BY <2>1
        <3>2. old \in [board : DOMAIN boards, status : Range(Codes), pending : BOOLEAN, revision : Nat]
            BY <2>1 DEF KeptPost
        <3> QED BY <1>4, <3>1, <3>2, PostEdited DEF KeptPost
    <2>3. posts' = [posts EXCEPT ![p] = row]
        <3>1. posts' = [posts EXCEPT ![call.post].status = call.code, ![call.post].pending = call.pending,
                                     ![call.post].revision = @ + 1]
            BY <1>3, <1>7 DEF PatchPostWrite
        <3> QED BY <1>4, <2>1, <3>1 DEF SetInv, SetTyped, KeptPost
    <2> HIDE DEF row
    <2>4. posts' \in [DOMAIN posts' -> KeptPost] /\ DOMAIN posts' = DOMAIN posts /\ PostsMove
        BY <1>4, <2>1, <2>2, <2>3 DEF SetInv, SetTyped, PostsMove
    <2>5. IsFiniteSet(DOMAIN posts')
        BY <2>4 DEF SetInv, SetTyped
    <2> QED BY <1>1, <1>2, <1>5, <2>4, <2>5, QuietIsInformed, CallKeeps
<1> QED BY <1>3, <1>6, <1>7 DEF PatchPostWrite

LEMMA ListStep ==
    ASSUME SetInv, NEW c \in Callers, ListBegin(c) \/ ListStatuses(c) \/ ListRows(c) \/ Answered(c)
    PROVE  SetInv'
<1>1. UNCHANGED <<workspace, boards, statuses, posts, phase, falls, settled>>
    BY DEF ListBegin, ListStatuses, ListRows, Answered
<1>2. phase = "up"
    BY Running DEF ListBegin, Arrive, ListStatuses, ListRows, Answered, Resume
<1>3. CASE ListBegin(c)
    <2>1. PICK b \in DOMAIN boards : Turn(c, [at |-> "list_statuses", board |-> b])
        BY <1>3 DEF ListBegin, BoardBySlug
    <2>2. Informed([at |-> "list_statuses", board |-> b])'
        BY <1>1 DEF Informed
    <2> QED BY <1>1, <1>2, <2>1, <2>2, PostsStay, CallKeeps
<1>4. CASE ListStatuses(c)
    <2>1. PICK b : b = caller[c].board
        OBVIOUS
    <2>2. PICK codes : codes = statuses[b]
        OBVIOUS
    <2>3. b \in DOMAIN boards /\ Turn(c, [at |-> "list_rows", board |-> b, codes |-> codes])
        BY <1>4, <2>1, <2>2 DEF ListStatuses, Resume, SetInv, Informed
    <2>4. Informed([at |-> "list_rows", board |-> b, codes |-> codes])'
        BY <1>1, <2>2, <2>3 DEF Informed
    <2> QED BY <1>1, <1>2, <2>3, <2>4, PostsStay, CallKeeps
<1>5. CASE ListRows(c)
    <2>1. PICK b, rows : Turn(c, [at |-> "listed", board |-> b, rows |-> rows])
        BY <1>5 DEF ListRows
    <2>2. Informed([at |-> "listed", board |-> b, rows |-> rows])'
        BY DEF Informed
    <2> QED BY <1>1, <1>2, <2>1, <2>2, PostsStay, CallKeeps
<1>6. CASE Answered(c)
    BY <1>1, <1>2, <1>6, PostsStay, QuietIsInformed, CallKeeps DEF Answered
<1> QED BY <1>3, <1>4, <1>5, <1>6

----------------------------------------------------------------------------
(* The boards                                                              *)

\* A step that changes boards leaves every call informed.
LEMMA BoardsKeep ==
    ASSUME SetInv, SetTyped', SetPhases', BoardsMove, UNCHANGED posts,
           UNCHANGED caller \/ (\E c \in Callers : Turn(c, Quiet)),
           BoardsFollow', BoardsWhole'
    PROVE  SetInv'
<1>1. PostsMove
    BY DEF PostsMove
<1>2. ASSUME NEW d \in Callers PROVE Informed(caller[d])'
    <2>1. caller'[d] = caller[d] \/ caller'[d] = Quiet
        BY DEF Turn, SetInv, SetTyped
    <2>2. CASE caller'[d] = Quiet
        BY <2>2 DEF Informed, Quiet
    <2>3. CASE caller'[d] = caller[d]
        BY <1>1, <2>3, OthersStayInformed DEF SetInv
    <2> QED BY <2>1, <2>2, <2>3
<1> QED BY <1>2 DEF SetInv

\* An edited row is of the same kind, one revision on.
LEMMA EditedIs ==
    ASSUME NEW row, row \in KeptBoard \/ row \in SettingRow, NEW patch \in SettingPatch
    PROVE  /\ row \in KeptBoard =>
                  /\ Edited(row, patch) \in KeptBoard
                  /\ Edited(row, patch).revision = row.revision + 1
           /\ row \in SettingRow => Edited(row, patch) \in SettingRow
           /\ patch.moderate = Unnamed => Edited(row, patch).moderate = row.moderate
           /\ patch.moderate # Unnamed => Edited(row, patch).moderate = patch.moderate
<1>1. PICK g, m, rev : /\ g = Named(patch.guest, row.guest)
                       /\ m = Named(patch.moderate, row.moderate)
                       /\ rev = row.revision + 1
    OBVIOUS
<1>2. row.guest \in BOOLEAN /\ row.moderate \in BOOLEAN /\ row.revision \in Nat
    BY DEF KeptBoard, SettingRow
<1>3. patch.guest \in BOOLEAN \cup {Unnamed} /\ patch.moderate \in BOOLEAN \cup {Unnamed}
    BY DEF SettingPatch
<1>4. g \in BOOLEAN /\ m \in BOOLEAN
    BY <1>1, <1>2, <1>3 DEF Named
<1>5. rev \in Nat
    BY <1>1, <1>2
<1>6. Edited(row, patch) = [row EXCEPT !.guest = g, !.moderate = m, !.revision = rev]
    BY <1>1 DEF Edited
<1>7. /\ row \in KeptBoard =>
             Edited(row, patch) \in KeptBoard /\ Edited(row, patch).revision = rev
      /\ row \in SettingRow => Edited(row, patch) \in SettingRow
      /\ Edited(row, patch).moderate = m
    BY <1>4, <1>5, <1>6 DEF KeptBoard, SettingRow
<1>8. /\ patch.moderate = Unnamed => m = row.moderate
      /\ patch.moderate # Unnamed => m = patch.moderate
    BY <1>1 DEF Named
<1> QED BY <1>1, <1>7, <1>8

LEMMA FollowedBoard ==
    ASSUME NEW row \in KeptBoard, NEW moderate \in BOOLEAN
    PROVE  /\ Followed(row, moderate) \in KeptBoard /\ Followed(row, moderate).moderate = moderate
           /\ Followed(row, moderate) = row \/ Followed(row, moderate).revision > row.revision
<1>1. CASE row.moderate = moderate
    BY <1>1 DEF Followed
<1>2. CASE row.moderate # moderate
    <2>1. PICK rev : rev = row.revision + 1
        OBVIOUS
    <2>2. row.revision \in Nat /\ rev \in Nat /\ rev > row.revision
        BY <2>1 DEF KeptBoard
    <2> DEFINE next == [row EXCEPT !.moderate = moderate, !.revision = rev]
    <2>3. next \in KeptBoard /\ next.moderate = moderate /\ next.revision = rev
        BY <2>2 DEF KeptBoard
    <2>4. Followed(row, moderate) = next
        BY <1>2, <2>1 DEF Followed
    <2> HIDE DEF next
    <2> QED BY <2>2, <2>3, <2>4
<1> QED BY <1>1, <1>2

LEMMA PatchWorkspaceStep ==
    ASSUME SetInv, NEW c \in Callers, PatchWorkspace(c)
    PROVE  SetInv'
<1>1. /\ phase = "up" /\ UNCHANGED <<statuses, posts, phase, caller, falls>>
      /\ workspace \in SettingRow /\ MainBoard \in DOMAIN boards
    BY DEF PatchWorkspace, Arrive, SetInv, SetPhases
<1>2. PICK patch \in SettingPatch :
          \/ UNCHANGED <<workspace, boards, settled>>
          \/ /\ workspace' = Edited(workspace, patch)
             /\ IF patch.moderate = Unnamed THEN UNCHANGED <<boards, settled>>
                ELSE /\ boards' = [b \in DOMAIN boards |-> Followed(boards[b], patch.moderate)]
                     /\ settled' = DOMAIN boards
    BY DEF PatchWorkspace
<1>3. workspace' \in SettingRow
    BY <1>1, <1>2, EditedIs
<1>4. CASE UNCHANGED <<boards, settled>> /\ workspace'.moderate = workspace.moderate
    <2>1. SetTyped' /\ SetPhases' /\ BoardsMove /\ BoardsFollow' /\ BoardsWhole'
        BY <1>1, <1>3, <1>4 DEF SetInv, SetTyped, SetPhases, KeptPost, BoardsMove, BoardsFollow,
                                BoardsWhole
    <2> QED BY <1>1, <2>1, BoardsKeep
<1>5. CASE /\ patch.moderate # Unnamed /\ workspace'.moderate = patch.moderate
           /\ boards' = [b \in DOMAIN boards |-> Followed(boards[b], patch.moderate)]
           /\ settled' = DOMAIN boards
    <2>1. patch.moderate \in BOOLEAN /\ DOMAIN boards' = DOMAIN boards
        BY <1>5 DEF SettingPatch
    <2>2. ASSUME NEW b \in DOMAIN boards
          PROVE  /\ boards'[b] \in KeptBoard /\ boards'[b].moderate = patch.moderate
                 /\ boards'[b] = boards[b] \/ boards'[b].revision > boards[b].revision
        <3>1. boards[b] \in KeptBoard
            BY RevisionsAreNumbers DEF SetInv
        <3> QED BY <1>5, <2>1, <3>1, FollowedBoard
    <2>3. SetTyped'
        BY <1>1, <1>3, <1>5, <2>1, <2>2 DEF SetInv, SetTyped, KeptPost
    <2>4. SetPhases' /\ BoardsMove /\ BoardsFollow' /\ BoardsWhole'
        BY <1>1, <1>3, <1>5, <2>1, <2>2 DEF SetInv, SetPhases, BoardsMove, BoardsFollow, BoardsWhole
    <2> QED BY <1>1, <2>3, <2>4, BoardsKeep
<1>6. \/ UNCHANGED <<boards, settled>> /\ workspace'.moderate = workspace.moderate
      \/ /\ patch.moderate # Unnamed /\ workspace'.moderate = patch.moderate
         /\ boards' = [b \in DOMAIN boards |-> Followed(boards[b], patch.moderate)]
         /\ settled' = DOMAIN boards
    BY <1>1, <1>2, EditedIs
<1> QED BY <1>4, <1>5, <1>6

LEMMA PatchBoardWriteStep ==
    ASSUME SetInv, NEW c \in Callers, PatchBoardWrite(c)
    PROVE  SetInv'
<1>1. caller[c].at = "board_write" /\ phase = "up"
    BY Running DEF PatchBoardWrite, Resume
<1>2. UNCHANGED <<workspace, statuses, posts, phase, falls>> /\ Turn(c, Quiet)
    BY DEF PatchBoardWrite
<1>3. PICK call : call = caller[c]
    OBVIOUS
<1> DEFINE b == call.board
<1>4. /\ b \in DOMAIN boards /\ call.row \in KeptBoard /\ call.patch \in SettingPatch
      /\ call.row.revision = boards[b].revision => call.row = boards[b]
    BY <1>1, <1>3 DEF SetInv, Informed
<1>5. CASE UNCHANGED <<boards, settled>>
    <2>1. SetTyped' /\ SetPhases' /\ BoardsMove /\ BoardsFollow' /\ BoardsWhole'
        BY <1>1, <1>2, <1>5 DEF SetInv, SetTyped, SetPhases, KeptPost, BoardsMove, BoardsFollow,
                                BoardsWhole, Turn
    <2> QED BY <1>2, <2>1, BoardsKeep
<1>6. CASE /\ boards[b].revision = call.row.revision
           /\ boards' = [boards EXCEPT ![b] = Edited(call.row, call.patch)]
           /\ settled' = IF call.patch.moderate = Unnamed THEN settled ELSE settled \ {b}
    <2>1. /\ call.row = boards[b] /\ boards[b].revision \in Nat
          /\ DOMAIN boards' = DOMAIN boards
          /\ \A d \in DOMAIN boards : d # b => boards'[d] = boards[d]
          /\ boards'[b] \in KeptBoard /\ boards'[b].revision = boards[b].revision + 1
          /\ call.patch.moderate = Unnamed => boards'[b].moderate = boards[b].moderate
        BY <1>4, <1>6, EditedIs, RevisionsAreNumbers DEF SetInv, SetTyped
    <2>2. boards' \in [DOMAIN boards' -> KeptBoard]
        BY <1>6, <2>1, RevisionsAreNumbers DEF SetInv, SetTyped
    <2>3. settled' \subseteq settled
        BY <1>6
    <2>4. SetTyped'
        BY <1>2, <2>1, <2>2, <2>3 DEF SetInv, SetTyped, KeptPost, Turn
    <2>5. SetPhases'
        BY <1>1, <1>2, <2>1, <2>3 DEF SetInv, SetPhases
    <2>6. BoardsMove
        BY <1>2, <2>1 DEF BoardsMove
    <2>7. BoardsFollow'
        BY <1>2, <1>6, <2>1, <2>3 DEF SetInv, SetTyped, BoardsFollow
    <2>8. BoardsWhole'
        BY <1>2, <2>1 DEF SetInv, BoardsWhole
    <2> QED BY <1>2, <2>4, <2>5, <2>6, <2>7, <2>8, BoardsKeep
<1> QED BY <1>3, <1>5, <1>6 DEF PatchBoardWrite, StillAt

\* A board that is there with its first statuses, whatever they were.
LEMMA WithBoardIs ==
    ASSUME SetInv, NEW b, NEW slug \in Slugs, NEW n \in 0..Len(Codes), BoardRows(b, slug, n),
           b \notin DOMAIN boards
    PROVE  /\ DOMAIN boards' = DOMAIN boards \cup {b} /\ DOMAIN statuses' = DOMAIN boards'
           /\ boards' \in [DOMAIN boards' -> KeptBoard] /\ BoardsMove
           /\ statuses'[b] = FirstCodes(n)
           /\ \A d \in DOMAIN boards' : statuses'[d] \subseteq Range(Codes)
           /\ b \notin settled
<1>1. /\ boards' = [x \in DOMAIN boards \cup {b} |-> IF x = b THEN NewBoard(slug) ELSE boards[x]]
      /\ statuses' = [x \in DOMAIN statuses \cup {b} |-> IF x = b THEN FirstCodes(n) ELSE statuses[x]]
    BY DEF BoardRows, WithBoard, WithStatuses
<1>2. NewBoard(slug) \in KeptBoard
    BY DEF NewBoard, KeptBoard
<1>3. FirstCodes(n) \subseteq Range(Codes)
    BY CodesAre
<1> QED BY <1>1, <1>2, <1>3 DEF SetInv, SetTyped, BoardsMove

LEMMA CreateBoardStep ==
    ASSUME SetInv, NEW c \in Callers, CreateBoard(c)
    PROVE  SetInv'
<1>1. phase = "up" /\ UNCHANGED <<workspace, posts, phase, caller, falls, settled>>
    BY DEF CreateBoard, Arrive
<1>2. PICK b \in NewBoards \ DOMAIN boards, slug \in Slugs :
          BoardRows(b, slug, Len(Codes)) \/ UNCHANGED <<boards, statuses>>
    BY DEF CreateBoard
<1>3. CASE UNCHANGED <<boards, statuses>>
    <2>1. SetTyped' /\ SetPhases' /\ BoardsMove /\ BoardsFollow' /\ BoardsWhole'
        BY <1>1, <1>3 DEF SetInv, SetTyped, SetPhases, KeptPost, BoardsMove, BoardsFollow, BoardsWhole
    <2> QED BY <1>1, <2>1, BoardsKeep
<1>4. CASE BoardRows(b, slug, Len(Codes))
    <2>1. Len(Codes) \in 0..Len(Codes) /\ FirstCodes(Len(Codes)) = Range(Codes)
        BY CodesAre
    <2>2. /\ DOMAIN boards' = DOMAIN boards \cup {b} /\ DOMAIN statuses' = DOMAIN boards'
          /\ boards' \in [DOMAIN boards' -> KeptBoard] /\ BoardsMove
          /\ statuses'[b] = Range(Codes)
          /\ \A d \in DOMAIN boards' : statuses'[d] \subseteq Range(Codes)
          /\ b \notin settled
        BY <1>2, <1>4, <2>1, WithBoardIs
    <2>3. posts' \in [DOMAIN posts' -> KeptPost']
        BY <1>1, <2>2 DEF SetInv, SetTyped, KeptPost
    <2>4. SetTyped'
        BY <1>1, <2>2, <2>3 DEF SetInv, SetTyped
    <2>5. SetPhases'
        BY <1>1, <2>2 DEF SetInv, SetPhases
    <2>6. BoardsFollow'
        <3>1. \A d \in settled : d \in DOMAIN boards /\ boards'[d] = boards[d]
            BY <1>2, <1>4 DEF SetInv, SetTyped, BoardRows, WithBoard
        <3> QED BY <1>1, <3>1 DEF SetInv, BoardsFollow
    <2>7. BoardsWhole'
        BY <1>1, <2>2 DEF SetInv, SetPhases, BoardsWhole, BoardsMove
    <2> QED BY <1>1, <2>2, <2>4, <2>5, <2>6, <2>7, BoardsKeep
<1> QED BY <1>2, <1>3, <1>4

----------------------------------------------------------------------------
(* Starts and kills                                                        *)

NewWorkspace == [guest |-> TRUE, moderate |-> FALSE, revision |-> 0]

LEMMA WorkspaceIsKept ==
    ASSUME SetInv, workspace' = IF workspace = Unnamed THEN NewWorkspace ELSE workspace
    PROVE  /\ workspace' \in SettingRow
           /\ workspace' = workspace \/ (workspace = Unnamed /\ ~workspace'.moderate)
           /\ workspace \in SettingRow => workspace' = workspace
<1>1. NewWorkspace \in SettingRow /\ ~NewWorkspace.moderate
    BY DEF NewWorkspace, SettingRow
<1>2. Unnamed \notin SettingRow
    BY SettingsAssumption DEF SettingRow
<1> QED BY <1>1, <1>2 DEF SetInv, SetTyped

LEMMA QuietKeeps ==
    ASSUME SetTyped', SetPhases', BoardsFollow', BoardsWhole', \A c \in Callers : caller'[c] = Quiet
    PROVE  SetInv'
<1>1. \A c \in Callers : Informed(caller[c])'
    BY DEF Informed, Quiet
<1> QED BY <1>1 DEF SetInv

\* The default board is there, and its statuses as far as the start got.
LEMMA DefaultRowsAre ==
    ASSUME SetInv, NEW n \in 0..Len(Codes), DefaultRows(n), UNCHANGED posts,
           workspace' = IF workspace = Unnamed THEN NewWorkspace ELSE workspace
    PROVE  /\ DOMAIN boards' = DOMAIN boards \cup {MainBoard} /\ DOMAIN statuses' = DOMAIN boards'
           /\ boards' \in [DOMAIN boards' -> KeptBoard]
           /\ posts' \in [DOMAIN posts' -> KeptPost'] /\ IsFiniteSet(DOMAIN posts')
           /\ \A d \in DOMAIN boards' : statuses'[d] \subseteq Range(Codes)
           /\ settled' \subseteq DOMAIN boards' /\ BoardsFollow'
           /\ n = Len(Codes) => statuses'[MainBoard] = Range(Codes)
           /\ \A d \in DOMAIN boards' : d # MainBoard => d \in DOMAIN boards /\ statuses'[d] = statuses[d]
<1>1. FirstCodes(n) \subseteq Range(Codes) /\ FirstCodes(Len(Codes)) = Range(Codes)
    BY CodesAre
<1>2. Restored(n) \subseteq Range(Codes) /\ (n = Len(Codes) => Restored(n) = Range(Codes))
    BY <1>1 DEF Restored, SetInv, SetTyped
<1>3. statuses' = [x \in DOMAIN statuses \cup {MainBoard} |->
                      IF x = MainBoard THEN Restored(n) ELSE statuses[x]]
    BY DEF DefaultRows, WithStatuses
<1>4. /\ DOMAIN boards' = DOMAIN boards \cup {MainBoard}
      /\ boards' \in [DOMAIN boards' -> KeptBoard]
      /\ settled' \subseteq DOMAIN boards' /\ BoardsFollow'
    <2>1. CASE MainBoard \in DOMAIN boards
        <3>1. UNCHANGED <<boards, settled>> /\ (settled # {} => workspace' = workspace)
            BY <2>1, WorkspaceIsKept DEF DefaultRows, SetInv, SetPhases
        <3> QED BY <2>1, <3>1 DEF SetInv, SetTyped, BoardsFollow
    <2>2. CASE MainBoard \notin DOMAIN boards
        <3>1. /\ boards' = [x \in DOMAIN boards \cup {MainBoard} |->
                               IF x = MainBoard THEN NewBoard(MainSlug) ELSE boards[x]]
              /\ settled' = {MainBoard}
            BY <2>2 DEF DefaultRows, WithBoard
        <3>2. NewBoard(MainSlug) \in KeptBoard /\ ~NewBoard(MainSlug).moderate
            BY SettingsAssumption DEF NewBoard, KeptBoard
        <3>3. ~workspace'.moderate /\ workspace' \in SettingRow
            <4>1. workspace' \in SettingRow
                BY WorkspaceIsKept
            <4>2. CASE workspace = Unnamed
                <5>1. workspace' = NewWorkspace
                    BY <4>2
                <5> QED BY <4>1, <5>1 DEF NewWorkspace
            <4>3. CASE workspace # Unnamed
                <5>1. workspace' = workspace
                    BY <4>3
                <5>2. ~workspace.moderate
                    BY <2>2, <4>3 DEF SetInv, SetPhases
                <5> QED BY <4>1, <5>1, <5>2
            <4> QED BY <4>2, <4>3
        <3>4. boards'[MainBoard].moderate = FALSE /\ workspace'.moderate = FALSE
            BY <3>1, <3>2, <3>3 DEF NewBoard, SettingRow
        <3>5. BoardsFollow'
            BY <3>1, <3>4 DEF BoardsFollow
        <3> QED BY <3>1, <3>2, <3>5 DEF SetInv, SetTyped
    <2> QED BY <2>1, <2>2
<1>5. posts' \in [DOMAIN posts' -> KeptPost'] /\ IsFiniteSet(DOMAIN posts')
    BY <1>4 DEF SetInv, SetTyped, KeptPost
<1> QED BY <1>2, <1>3, <1>4, <1>5 DEF SetInv, SetTyped

LEMMA StartStep ==
    ASSUME SetInv, Start
    PROVE  SetInv'
<1>1. /\ phase = "down" /\ phase' = "up" /\ UNCHANGED <<posts, caller, falls>>
      /\ DefaultRows(Len(Codes)) /\ Len(Codes) \in 0..Len(Codes)
      /\ workspace' = IF workspace = Unnamed THEN NewWorkspace ELSE workspace
    BY CodesAre DEF Start, NewWorkspace
<1>2. /\ DOMAIN boards' = DOMAIN boards \cup {MainBoard} /\ DOMAIN statuses' = DOMAIN boards'
      /\ boards' \in [DOMAIN boards' -> KeptBoard]
      /\ posts' \in [DOMAIN posts' -> KeptPost'] /\ IsFiniteSet(DOMAIN posts')
      /\ \A d \in DOMAIN boards' : statuses'[d] \subseteq Range(Codes)
      /\ settled' \subseteq DOMAIN boards' /\ BoardsFollow'
      /\ statuses'[MainBoard] = Range(Codes)
      /\ \A d \in DOMAIN boards' : d # MainBoard => d \in DOMAIN boards /\ statuses'[d] = statuses[d]
    BY <1>1, DefaultRowsAre
<1>3. workspace' \in SettingRow
    BY <1>1, WorkspaceIsKept
<1>4. SetTyped' /\ SetPhases'
    BY <1>1, <1>2, <1>3 DEF SetInv, SetTyped, SetPhases
<1>5. BoardsWhole'
    BY <1>1, <1>2 DEF SetInv, BoardsWhole
<1>6. \A c \in Callers : caller'[c] = Quiet
    BY <1>1 DEF SetInv, SetPhases
<1> QED BY <1>2, <1>4, <1>5, <1>6, QuietKeeps

LEMMA FallStep ==
    ASSUME SetInv, Fall
    PROVE  SetInv'
<1>1. /\ phase' = "down" /\ caller' = [c \in Callers |-> Quiet] /\ UNCHANGED posts
      /\ falls' = falls + 1 /\ falls \in Nat /\ phase \in {"down", "up"}
      /\ workspace' = IF workspace = Unnamed THEN NewWorkspace ELSE workspace
    BY DEF Fall, NewWorkspace, SetInv, SetTyped
<1>2. /\ workspace' \in SettingRow
      /\ workspace' = workspace \/ (workspace = Unnamed /\ ~workspace'.moderate)
      /\ workspace \in SettingRow => workspace' = workspace
    BY <1>1, WorkspaceIsKept
<1>3. (\A c \in Callers : caller'[c] = Quiet) /\ DOMAIN caller' = Callers /\ falls' \in Nat
    BY <1>1
<1>4. BoardsWhole'
    BY <1>1 DEF BoardsWhole
<1>5. CASE UNCHANGED <<boards, statuses, settled>>
    <2>1. SetTyped' /\ SetPhases'
        BY <1>1, <1>2, <1>3, <1>5 DEF SetInv, SetTyped, SetPhases, KeptPost
    <2>2. BoardsFollow'
        BY <1>2, <1>5 DEF SetInv, SetPhases, BoardsFollow
    <2> QED BY <1>3, <1>4, <2>1, <2>2, QuietKeeps
<1>6. ASSUME phase = "up", UNCHANGED settled, NEW b \in NewBoards \ DOMAIN boards, NEW slug \in Slugs,
             NEW n \in 0..(Len(Codes) - 1), BoardRows(b, slug, n)
      PROVE  SetInv'
    <2>1. n \in 0..Len(Codes)
        BY CodesAre
    <2>2. /\ DOMAIN boards' = DOMAIN boards \cup {b} /\ DOMAIN statuses' = DOMAIN boards'
          /\ boards' \in [DOMAIN boards' -> KeptBoard] /\ BoardsMove
          /\ \A d \in DOMAIN boards' : statuses'[d] \subseteq Range(Codes)
        BY <1>6, <2>1, WithBoardIs
    <2>3. posts' \in [DOMAIN posts' -> KeptPost']
        BY <1>1, <2>2 DEF SetInv, SetTyped, KeptPost
    <2>4. SetTyped'
        BY <1>1, <1>2, <1>3, <1>6, <2>2, <2>3 DEF SetInv, SetTyped
    <2>5. SetPhases'
        BY <1>1, <1>2, <1>3, <1>6, <2>2 DEF SetInv, SetPhases
    <2>6. BoardsFollow'
        <3>1. \A d \in settled : d \in DOMAIN boards /\ boards'[d] = boards[d]
            BY <1>6 DEF SetInv, SetTyped, BoardRows, WithBoard
        <3> QED BY <1>2, <1>6, <3>1 DEF SetInv, SetPhases, BoardsFollow
    <2> QED BY <1>3, <1>4, <2>4, <2>5, <2>6, QuietKeeps
<1>7. ASSUME NEW n \in 0..(Len(Codes) - 1), DefaultRows(n) PROVE SetInv'
    <2>1. n \in 0..Len(Codes)
        BY CodesAre
    <2>2. /\ DOMAIN boards' = DOMAIN boards \cup {MainBoard} /\ DOMAIN statuses' = DOMAIN boards'
          /\ boards' \in [DOMAIN boards' -> KeptBoard]
          /\ posts' \in [DOMAIN posts' -> KeptPost'] /\ IsFiniteSet(DOMAIN posts')
          /\ \A d \in DOMAIN boards' : statuses'[d] \subseteq Range(Codes)
          /\ settled' \subseteq DOMAIN boards' /\ BoardsFollow'
        BY <1>1, <1>7, <2>1, DefaultRowsAre
    <2>3. SetTyped' /\ SetPhases'
        BY <1>1, <1>2, <1>3, <2>2 DEF SetInv, SetTyped, SetPhases
    <2> QED BY <1>3, <1>4, <2>2, <2>3, QuietKeeps
<1> QED BY <1>5, <1>6, <1>7 DEF Fall

LEMMA SetInitInv == SetInit => SetInv
<1> SUFFICES ASSUME SetInit PROVE SetInv
    OBVIOUS
<1>1. DOMAIN boards = {} /\ DOMAIN statuses = {} /\ DOMAIN posts = {} /\ IsFiniteSet({})
    BY FS_EmptySet DEF SetInit
<1>2. SetTyped /\ SetPhases
    BY <1>1 DEF SetInit, SetTyped, SetPhases
<1>3. \A c \in Callers : Informed(caller[c])
    BY DEF SetInit, Informed, Quiet
<1>4. BoardsFollow /\ BoardsWhole
    BY <1>1 DEF SetInit, BoardsFollow, BoardsWhole
<1> QED BY <1>2, <1>3, <1>4 DEF SetInv

LEMMA SetNextInv == SetInv /\ [SetNext]_setVars => SetInv'
<1> SUFFICES ASSUME SetInv, [SetNext]_setVars PROVE SetInv'
    OBVIOUS
<1>1. CASE SetNext
    BY <1>1, StartStep, FallStep, PatchWorkspaceStep, PatchBoardBeginStep, PatchBoardWriteStep,
       CreateBoardStep, PostBeginStep, PostCheckStep, PostInsertStep, PostAnswerStep,
       PatchPostBeginStep, PatchPostWriteStep, ListStep DEF SetNext
<1>2. CASE UNCHANGED setVars
    BY <1>2 DEF setVars, SetInv, SetTyped, SetPhases, KeptPost, Informed, ReceiptRead, Unmoved,
                BoardsFollow, BoardsWhole
<1> QED BY <1>1, <1>2

LEMMA SetInvariance == SetSpec => []SetInv
BY SetInitInv, SetNextInv, PTL DEF SetSpec

\* A board whose moderation was not patched apart moderates as the workspace does, whatever
\* edits of boards were in flight when the workspace's was patched (patch_workspace,
\* patch_board).
THEOREM BoardsAlwaysFollow == SetSpec => []BoardsFollow
<1>1. SetInv => BoardsFollow
    BY DEF SetInv
<1> QED BY <1>1, SetInvariance, PTL

\* The default board has every status whenever the sidecar serves, wherever earlier starts
\* were cut, and without kills every board has (ensure_default_workspace, create_board).
THEOREM BoardsStayWhole == SetSpec => []BoardsWhole
<1>1. SetInv => BoardsWhole
    BY DEF SetInv
<1> QED BY <1>1, SetInvariance, PTL

----------------------------------------------------------------------------
(* What callers are told                                                   *)

Answers(c) == caller[c].at \in {"listed", "posted"}

LEMMA TurnAnswersNobody ==
    ASSUME SetTyped, NEW d, NEW call, Turn(d, call), call.at \notin {"listed", "posted"},
           NEW c \in Callers, Answers(c)'
    PROVE  caller'[c] = caller[c]
BY DEF SetTyped, Turn, Answers

\* Only two steps answer.
LEMMA WhoAnswers ==
    ASSUME SetInv, [SetNext]_setVars, NEW c \in Callers, Answers(c)', caller'[c] # caller[c]
    PROVE  ListRows(c) \/ PostAnswer(c)
<1>1. SetTyped /\ Quiet.at = "quiet" /\ DOMAIN caller = Callers
    BY DEF SetInv, SetTyped, Quiet
<1>2. ~UNCHANGED caller
    OBVIOUS
<1>3. CASE Start \/ Fall
    BY <1>1, <1>2, <1>3 DEF Start, Fall, Answers
<1>4. ASSUME NEW d \in Callers, PatchWorkspace(d) \/ CreateBoard(d) PROVE FALSE
    BY <1>2, <1>4 DEF PatchWorkspace, CreateBoard
<1>5. ASSUME NEW d \in Callers,
             PatchBoardWrite(d) \/ PatchPostWrite(d) \/ Answered(d)
      PROVE FALSE
    BY <1>1, <1>5, TurnAnswersNobody DEF PatchBoardWrite, PatchPostWrite, Answered
<1>6. ASSUME NEW d \in Callers, PatchBoardBegin(d) PROVE FALSE
    BY <1>1, <1>6, TurnAnswersNobody DEF PatchBoardBegin
<1>7. ASSUME NEW d \in Callers, PostBegin(d) PROVE FALSE
    BY <1>1, <1>7, TurnAnswersNobody DEF PostBegin
<1>8. ASSUME NEW d \in Callers, PostCheck(d) PROVE FALSE
    BY <1>1, <1>8, TurnAnswersNobody DEF PostCheck
<1>9. ASSUME NEW d \in Callers, PostInsert(d) PROVE FALSE
    BY <1>1, <1>9, TurnAnswersNobody DEF PostInsert
<1>10. ASSUME NEW d \in Callers, PatchPostBegin(d) PROVE FALSE
    BY <1>1, <1>2, <1>10, TurnAnswersNobody DEF PatchPostBegin
<1>11. ASSUME NEW d \in Callers, ListBegin(d) \/ ListStatuses(d) PROVE FALSE
    BY <1>1, <1>11, TurnAnswersNobody DEF ListBegin, ListStatuses
<1>12. ASSUME NEW d \in Callers, ListRows(d) \/ PostAnswer(d) PROVE d = c
    <2>1. \E call : Turn(d, call)
        BY <1>12 DEF ListRows, PostAnswer
    <2> QED BY <1>1, <2>1 DEF Turn
<1>13. CASE UNCHANGED setVars
    BY <1>2, <1>13 DEF setVars
<1> QED BY <1>3, <1>4, <1>5, <1>6, <1>7, <1>8, <1>9, <1>10, <1>11, <1>12, <1>13 DEF SetNext

LEMMA ListsAreHonest ==
    ASSUME SetInv, NEW c \in Callers, ListRows(c)
    PROVE  caller'[c].at = "listed" /\ ListHonest(caller[c], caller'[c])
<1> PICK b : b = caller[c].board
    OBVIOUS
<1>1. PICK page \in Pages(b) :
          caller' = [caller EXCEPT ![c] =
              [at |-> "listed", board |-> b,
               rows |-> {p \in page : posts[p].status \in caller[c].codes}]]
    BY DEF ListRows, Turn
<1>2. /\ caller'[c].at = "listed"
      /\ caller'[c].rows = {p \in page : posts[p].status \in caller[c].codes}
    BY <1>1 DEF SetInv, SetTyped
<1>3. caller[c].codes = statuses[b] /\ b \in DOMAIN boards
    BY DEF ListRows, Resume, SetInv, Informed
<1>4. IsFiniteSet(PublicPosts(b)) /\ PublicPosts(b) \subseteq DOMAIN posts
    BY FS_Subset DEF PublicPosts, SetInv, SetTyped
<1> DEFINE n == Cardinality(PublicPosts(b))
<1>5. /\ page \subseteq PublicPosts(b)
      /\ Cardinality(page) = IF n < Page THEN n ELSE Page
    BY <1>1 DEF Pages, kSubset
<1>6. page = PublicPosts(b) \/ Cardinality(page) = Page
    BY <1>4, <1>5, FS_Subset
<1>7. statuses[b] = Range(Codes) => caller'[c].rows = page
    <2>1. \A p \in page : posts[p].status \in Range(Codes)
        BY <1>4, <1>5 DEF SetInv, SetTyped, KeptPost
    <2> QED BY <1>2, <1>3, <2>1
<1> QED BY <1>2, <1>6, <1>7 DEF ListHonest

LEMMA ReceiptsAreHonest ==
    ASSUME SetInv, NEW c \in Callers, PostAnswer(c), caller'[c].at = "posted"
    PROVE  ReceiptHonest(caller'[c])
<1>1. PICK old, p : old = caller[c].call /\ p = caller[c].post
    OBVIOUS
<1>2. /\ ReceiptRead(old) /\ p \in DOMAIN posts
      /\ Unmoved(old) /\ posts[p].revision = 0 => posts[p].pending = old.receipt
    BY <1>1 DEF PostAnswer, Resume, SetInv, Informed
<1>3. caller'[c] = [at |-> "posted", call |-> old, post |-> p]
    BY <1>1 DEF PostAnswer, Turn, SetInv, SetTyped, Quiet
<1>4. caller'[c].call = old /\ caller'[c].post = p
    BY <1>3
<1>5. /\ old.revision \in Nat /\ boards[old.board].revision \in Nat /\ posts[p].revision \in Nat
      /\ old.revision <= boards[old.board].revision
    BY <1>2, RevisionsAreNumbers DEF SetInv, ReceiptRead
<1>6. CASE Unmoved(old) /\ posts[p].revision = 0
    BY <1>2, <1>4, <1>6 DEF ReceiptHonest
<1>7. CASE ~Unmoved(old)
    <2>1. boards[old.board].revision > old.revision
        BY <1>5, <1>7 DEF Unmoved
    <2> QED BY <1>4, <2>1 DEF ReceiptHonest
<1>8. CASE posts[p].revision # 0
    <2>1. posts[p].revision > 0
        BY <1>5, <1>8
    <2> QED BY <1>4, <2>1 DEF ReceiptHonest
<1> QED BY <1>6, <1>7, <1>8

\* A list leaves out no public request of a whole board unless its page is full, and a
\* receipt tells whether the request awaits review unless the board or the request was edited
\* meanwhile, though each answer is put together from reads under locks of their own
\* (public.rs over list_requests and create_guest_request of store.rs).
THEOREM AnswersStayHonest == SetSpec => AnswersHonest
<1>1. ASSUME SetInv, [SetNext]_setVars, NEW c \in Callers
      PROVE  /\ caller[c].at # "listed" /\ caller'[c].at = "listed" => ListHonest(caller[c], caller'[c])
             /\ caller[c].at # "posted" /\ caller'[c].at = "posted" => ReceiptHonest(caller'[c])
    <2>1. CASE caller'[c] = caller[c]
        BY <2>1
    <2>2. CASE Answers(c)' /\ caller'[c] # caller[c]
        <3>1. ListRows(c) \/ PostAnswer(c)
            BY <1>1, <2>2, WhoAnswers
        <3>2. PostAnswer(c) => caller'[c].at # "listed"
            BY <1>1 DEF PostAnswer, Turn, SetInv, SetTyped, Quiet
        <3> QED BY <1>1, <3>1, <3>2, ListsAreHonest, ReceiptsAreHonest
    <2>3. CASE ~Answers(c)'
        BY <2>3 DEF Answers
    <2> QED BY <2>1, <2>2, <2>3
<1>2. SetInv /\ [SetNext]_setVars =>
          [\A c \in Callers :
              /\ caller[c].at # "listed" /\ caller'[c].at = "listed" => ListHonest(caller[c], caller'[c])
              /\ caller[c].at # "posted" /\ caller'[c].at = "posted" => ReceiptHonest(caller'[c])]_setVars
    BY <1>1
<1> QED BY <1>2, SetInvariance, PTL DEF SetSpec, AnswersHonest

----------------------------------------------------------------------------
(* The handoff: the inductive invariant                                    *)

HandTyped ==
    /\ handoff \in [port : Ports, token : RunIds] \cup {NoHandoff}
    /\ life \in [RunIds -> Stages]
    /\ port \in [RunIds -> Ports \cup {NoHandoff}]
    /\ \A r \in RunIds : life[r] \in {"temp", "up"} => port[r] \in Ports

\* While a run is about to remove the file, a run that is up and published last did so after
\* that run had looked.
UpUnderWithdrawal ==
    \A r, s \in RunIds :
        life[s] = "withdrawing" /\ r = latest /\ life[r] = "up" => r \in overtaken

HandInv == HandTyped /\ UpUnderWithdrawal /\ UpIsPublished

----------------------------------------------------------------------------
(* Its invariant is inductive                                              *)

LEMMA HandInitInv == HandInit => HandInv
<1> SUFFICES ASSUME HandInit PROVE HandInv
    OBVIOUS
<1>1. HandTyped
    BY DEF HandInit, HandTyped, Stages
<1>2. UpUnderWithdrawal /\ UpIsPublished
    BY DEF HandInit, UpUnderWithdrawal, UpIsPublished
<1> QED BY <1>1, <1>2 DEF HandInv

\* Only the client's side changes.
LEMMA ClientStep ==
    ASSUME HandInv, ClientProceeds \/ AnswerTooLate
    PROVE  HandInv'
<1>1. UNCHANGED <<handoff, life, port, latest, overtaken>>
    BY DEF ClientProceeds, AnswerTooLate, LoadHandoff, FallBack, ProbeAnswered, CallAnswered,
           CallFails, CallDone
<1> QED BY <1>1 DEF HandInv, HandTyped, UpUnderWithdrawal, UpIsPublished

\* A run takes a port, is told to stop, or is killed: the file stays, and no run comes up
\* or begins to withdraw.
LEMMA LifeStep ==
    ASSUME HandInv, NEW r \in RunIds, BindPort(r) \/ Signal(r) \/ KillRun(r)
    PROVE  HandInv'
<1> USE DEF HandInv
<1>1. CASE BindPort(r)
    <2>1. PICK p \in Ports : port' = [port EXCEPT ![r] = p]
        BY <1>1 DEF BindPort
    <2>2. /\ life[r] = "new" /\ life' = [life EXCEPT ![r] = "temp"]
          /\ UNCHANGED <<handoff, latest, overtaken>>
        BY <1>1 DEF BindPort
    <2>3. HandTyped'
        BY <2>1, <2>2 DEF HandTyped, Stages
    <2>4. UpUnderWithdrawal' /\ UpIsPublished'
        BY <2>1, <2>2 DEF HandTyped, UpUnderWithdrawal, UpIsPublished
    <2> QED BY <2>3, <2>4
<1>2. CASE Signal(r) \/ KillRun(r)
    <2>1. /\ life' = [life EXCEPT ![r] = "stopping"] \/ life' = [life EXCEPT ![r] = "dead"]
          /\ UNCHANGED <<handoff, port, latest, overtaken>>
        BY <1>2 DEF Signal, KillRun
    <2>2. HandTyped'
        BY <2>1 DEF HandTyped, Stages
    <2>3. UpUnderWithdrawal' /\ UpIsPublished'
        BY <2>1 DEF HandTyped, UpUnderWithdrawal, UpIsPublished
    <2> QED BY <2>2, <2>3
<1> QED BY <1>1, <1>2

\* A run that publishes while another withdraws is noted as overtaken.
LEMMA PublishStep ==
    ASSUME HandInv, NEW r \in RunIds, Publish(r)
    PROVE  HandInv'
<1>1. /\ life[r] = "temp" /\ life' = [life EXCEPT ![r] = "up"]
      /\ handoff' = [port |-> port[r], token |-> r] /\ latest' = r /\ port' = port
      /\ (\E s \in RunIds : life[s] = "withdrawing") => r \in overtaken'
    BY DEF Publish, InPlace
<1>2. HandTyped'
    BY <1>1 DEF HandInv, HandTyped, Stages
<1>3. UpUnderWithdrawal'
    BY <1>1 DEF HandInv, HandTyped, UpUnderWithdrawal
<1>4. UpIsPublished'
    BY <1>1 DEF UpIsPublished
<1> QED BY <1>2, <1>3, <1>4 DEF HandInv

\* The run found its own token in the file, so whoever published last and is up, if it is
\* not overtaken already, is this run, which is up no more.
LEMMA LookStep ==
    ASSUME HandInv, NEW r \in RunIds, LookBeforeWithdraw(r)
    PROVE  HandInv'
<1>1. /\ life[r] = "stopping"
      /\ \/ life' = [life EXCEPT ![r] = "withdrawing"] /\ handoff # NoHandoff /\ handoff.token = r
         \/ life' = [life EXCEPT ![r] = "dead"]
      /\ UNCHANGED <<handoff, port, latest, overtaken>>
    BY DEF LookBeforeWithdraw, Owns
<1>2. HandTyped'
    BY <1>1 DEF HandInv, HandTyped, Stages
<1>3. UpIsPublished'
    BY <1>1 DEF HandInv, HandTyped, UpIsPublished
<1>4. ASSUME NEW q \in RunIds, NEW s \in RunIds,
             life'[s] = "withdrawing", q = latest', life'[q] = "up"
      PROVE  q \in overtaken'
    <2>1. q = latest /\ life[q] = "up" /\ q # r
        BY <1>1, <1>4 DEF HandInv, HandTyped
    <2>2. CASE life[s] = "withdrawing"
        BY <1>1, <2>1, <2>2 DEF HandInv, UpUnderWithdrawal
    <2>3. CASE life[s] # "withdrawing"
        <3>1. handoff # NoHandoff /\ handoff.token = r
            BY <1>1, <1>4, <2>3 DEF HandInv, HandTyped
        <3> QED BY <1>1, <2>1, <3>1 DEF HandInv, UpIsPublished
    <2> QED BY <2>2, <2>3
<1>5. UpUnderWithdrawal'
    BY <1>4 DEF UpUnderWithdrawal
<1> QED BY <1>2, <1>3, <1>5 DEF HandInv

\* The file goes, and a run that is up and published last is overtaken.
LEMMA WithdrawStep ==
    ASSUME HandInv, NEW r \in RunIds, Withdraw(r)
    PROVE  HandInv'
<1>1. /\ life[r] = "withdrawing" /\ life' = [life EXCEPT ![r] = "dead"]
      /\ handoff' = NoHandoff /\ UNCHANGED <<port, latest, overtaken>>
    BY DEF Withdraw
<1>2. HandTyped' /\ UpUnderWithdrawal'
    BY <1>1 DEF HandInv, HandTyped, Stages, UpUnderWithdrawal
<1>3. ASSUME NEW s \in RunIds, s = latest', life'[s] = "up"
      PROVE  s \in overtaken' /\ handoff' = NoHandoff
    BY <1>1, <1>3 DEF HandInv, HandTyped, UpUnderWithdrawal
<1>4. UpIsPublished'
    BY <1>3 DEF UpIsPublished
<1> QED BY <1>2, <1>4 DEF HandInv

LEMMA HandNextInv == HandInv /\ [HandNext]_handVars => HandInv'
<1> SUFFICES ASSUME HandInv, [HandNext]_handVars PROVE HandInv'
    OBVIOUS
<1>1. CASE HandNext
    BY <1>1, ClientStep, LifeStep, PublishStep, LookStep, WithdrawStep DEF HandNext, RunProceeds
<1>2. CASE UNCHANGED handVars
    BY <1>2 DEF handVars, HandInv, HandTyped, UpUnderWithdrawal, UpIsPublished
<1> QED BY <1>1, <1>2

\* The run that published last is the one the file names for as long as it is up, whatever
\* runs start, stop and are killed beside it; only a run that published between another's
\* look at the file and its removal may find the file gone (handoff.rs, withdraw).
THEOREM UpStaysPublished == HandSpec => []UpIsPublished
<1>1. HandInv => UpIsPublished
    BY DEF HandInv
<1> QED BY HandInitInv, HandNextInv, <1>1, PTL DEF HandSpec

----------------------------------------------------------------------------
(* The proof of the token: the inductive invariant                         *)

Request ==
    [at : {"unsent", "stale", "probing", "answered", "proven", "unproven", "sending"},
     origin : Origins \cup {Nothing}, token : Bearers \cup {Nothing}, since : Nat]
Note == [asked : Nat, at : Nat]

ProofTyped ==
    /\ clock \in Nat
    /\ sender \in [Senders -> Request]
    /\ proven \in [Origins -> [Bearers -> Nat \cup {Nothing}]]
    /\ noted \in [Origins -> [Bearers -> Note \cup {Nothing}]]
    /\ \A c \in Senders :
           sender[c].at # "unsent" => sender[c].origin \in Origins /\ sender[c].token \in Bearers

\* What is remembered of an origin and a token was proved after it was asked for.
NotesProven ==
    \A o \in Origins, t \in Bearers :
        /\ proven[o][t] # Nothing => proven[o][t] <= clock
        /\ noted[o][t] # Nothing =>
               /\ noted[o][t].at <= clock
               /\ proven[o][t] # Nothing /\ proven[o][t] >= noted[o][t].asked

\* A sender with an answer has one given after it asked.
AnswersProven ==
    \A c \in Senders :
        /\ sender[c].since <= clock
        /\ sender[c].at \in {"answered", "proven"} =>
               LET when == proven[sender[c].origin][sender[c].token]
               IN when # Nothing /\ when >= sender[c].since

\* The cache holds what was remembered last of its origin and token, or before that.
CacheNoted ==
    cache # Nothing =>
        /\ cache.origin \in Origins /\ cache.token \in Bearers /\ cache.at \in Nat
        /\ noted[cache.origin][cache.token] # Nothing
        /\ noted[cache.origin][cache.token].at >= cache.at

SentNoted ==
    \A c \in Senders :
        sender[c].at = "sending" =>
            LET note == noted[sender[c].origin][sender[c].token]
            IN note # Nothing /\ note.at + Ttl > sender[c].since

ProofInv == ProofTyped /\ NotesProven /\ AnswersProven /\ CacheNoted /\ SentNoted

LEMMA InvSends == ProofInv => SentWhereProven
BY DEF ProofInv, ProofTyped, NotesProven, SentNoted, SentWhereProven

LEMMA ProofInitInv == ProofInit => ProofInv
<1> SUFFICES ASSUME ProofInit PROVE ProofInv
    OBVIOUS
<1> USE DEF ProofInit, Unsent
<1>1. ProofTyped
    BY DEF ProofTyped, Request
<1>2. NotesProven /\ AnswersProven /\ CacheNoted /\ SentNoted
    BY DEF NotesProven, AnswersProven, CacheNoted, SentNoted
<1> QED BY <1>1, <1>2 DEF ProofInv

----------------------------------------------------------------------------
(* It is inductive                                                         *)

LEMMA BeginStep ==
    ASSUME ProofInv, NEW c \in Senders, SendBegin(c)
    PROVE  ProofInv'
<1>1. PICK o \in Origins, t \in Bearers :
          sender' = [sender EXCEPT ![c] =
                        [at |-> IF IsFresh(o, t) THEN "sending" ELSE "stale",
                         origin |-> o, token |-> t, since |-> clock]]
    BY DEF SendBegin
<1>2. UNCHANGED <<clock, cache, proven, noted>> /\ clock \in Nat
    BY DEF SendBegin, ProofInv, ProofTyped
<1> DEFINE r == [at |-> IF IsFresh(o, t) THEN "sending" ELSE "stale",
                 origin |-> o, token |-> t, since |-> clock]
<1>3. /\ r \in Request /\ r.origin = o /\ r.token = t /\ r.since = clock
      /\ r.at \in {"sending", "stale"} /\ (r.at = "sending" => IsFresh(o, t))
    BY <1>2 DEF Request
<1> HIDE DEF r
<1>4. sender' = [sender EXCEPT ![c] = r]
    BY <1>1 DEF r
<1>5. ProofTyped'
    BY <1>2, <1>3, <1>4 DEF ProofInv, ProofTyped
<1>6. NotesProven' /\ CacheNoted'
    BY <1>2 DEF ProofInv, NotesProven, CacheNoted
<1>7. AnswersProven'
    BY <1>2, <1>3, <1>4 DEF ProofInv, ProofTyped, AnswersProven
<1>8. IsFresh(o, t) => noted[o][t] # Nothing /\ noted[o][t].at + Ttl > clock
    BY <1>2, ProofAssumption DEF IsFresh, ProofInv, CacheNoted, ProofTyped, Note
<1>9. SentNoted'
    BY <1>2, <1>3, <1>4, <1>8 DEF ProofInv, ProofTyped, SentNoted
<1> QED BY <1>5, <1>6, <1>7, <1>9 DEF ProofInv

\* The sender asks, takes the answer, or gives up: only its own state changes, and only an
\* answer that came is taken for a proof.
LEMMA SenderStep ==
    ASSUME ProofInv, NEW c \in Senders, Ask(c) \/ Receive(c) \/ ProbeFails(c)
    PROVE  ProofInv'
<1>1. /\ UNCHANGED <<clock, cache, proven, noted>> /\ clock \in Nat
      /\ sender[c].at \in {"stale", "probing", "answered"}
      /\ sender[c] \in Request
    BY DEF Ask, Receive, ProbeFails, ProofInv, ProofTyped
<1>2. sender[c].since \in Nat /\ sender[c].since <= clock
    BY <1>1 DEF ProofInv, AnswersProven, Request
<1>3. /\ sender'[c].at \in {"probing", "proven", "unproven"}
      /\ sender'[c].at = "proven" => sender[c].at = "answered" /\ sender'[c].since = sender[c].since
      /\ sender'[c].since \in Nat /\ sender'[c].since <= clock
      /\ sender'[c].origin = sender[c].origin /\ sender'[c].token = sender[c].token
      /\ \A b \in Senders : b # c => sender'[b] = sender[b]
      /\ sender' \in [Senders -> Request]
    <2>1. CASE Ask(c)
        <3> DEFINE asking == [sender[c] EXCEPT !.at = "probing", !.since = clock]
        <3>1. /\ asking \in Request /\ asking.at = "probing" /\ asking.since = clock
              /\ asking.origin = sender[c].origin /\ asking.token = sender[c].token
            BY <1>1 DEF Request
        <3>2. sender' = [sender EXCEPT ![c] = asking] /\ sender \in [Senders -> Request]
            BY <2>1 DEF Ask, ProofInv, ProofTyped
        <3> HIDE DEF asking
        <3> QED BY <1>1, <3>1, <3>2
    <2>2. CASE Receive(c)
        BY <1>1, <1>2, <2>2 DEF Receive, ProofInv, ProofTyped, Request
    <2>3. CASE ProbeFails(c)
        BY <1>1, <1>2, <2>3 DEF ProbeFails, ProofInv, ProofTyped, Request
    <2> QED BY <2>1, <2>2, <2>3
<1>4. ProofTyped'
    BY <1>1, <1>3 DEF ProofInv, ProofTyped
<1>5. NotesProven' /\ CacheNoted'
    BY <1>1 DEF ProofInv, NotesProven, CacheNoted
<1>6. AnswersProven'
    BY <1>1, <1>3 DEF ProofInv, AnswersProven
<1>7. SentNoted'
    BY <1>1, <1>3 DEF ProofInv, SentNoted
<1> QED BY <1>4, <1>5, <1>6, <1>7 DEF ProofInv

\* A proof given now is later than any probe sent.
LEMMA AnswerStep ==
    ASSUME ProofInv, NEW c \in Senders, ServerAnswers(c)
    PROVE  ProofInv'
<1> DEFINE o == sender[c].origin
           t == sender[c].token
<1>1. /\ sender[c].at = "probing" /\ UNCHANGED <<clock, cache, noted>> /\ clock \in Nat
      /\ o \in Origins /\ t \in Bearers
    BY DEF ServerAnswers, ProofInv, ProofTyped
<1>2. PICK at \in {"answered", "unproven"} :
          /\ sender' = [sender EXCEPT ![c].at = at]
          /\ proven' = proven \/ proven' = [proven EXCEPT ![o][t] = clock]
          /\ at = "answered" => proven' = [proven EXCEPT ![o][t] = clock]
    <2>1. CASE Proves(o, t)
        BY <2>1 DEF ServerAnswers, Proves
    <2>2. CASE ~Proves(o, t)
        BY <2>2 DEF ServerAnswers, Proves
    <2> QED BY <2>1, <2>2
<1>3. /\ \A p \in Origins, u \in Bearers :
             proven'[p][u] = proven[p][u] \/ proven'[p][u] = clock
      /\ at = "answered" => proven'[o][t] = clock
      /\ proven' \in [Origins -> [Bearers -> Nat \cup {Nothing}]]
    <2> HIDE DEF o, t
    <2>1. proven \in [Origins -> [Bearers -> Nat \cup {Nothing}]]
        BY DEF ProofInv, ProofTyped
    <2>2. CASE proven' = proven /\ at # "answered"
        BY <2>1, <2>2
    <2>3. CASE proven' = [proven EXCEPT ![o][t] = clock]
        BY <1>1, <2>1, <2>3
    <2> QED BY <1>2, <2>2, <2>3
<1>4. /\ sender'[c].at = at /\ sender'[c].origin = o /\ sender'[c].token = t
      /\ sender'[c].since = sender[c].since /\ sender'[c] \in Request
      /\ \A b \in Senders : b # c => sender'[b] = sender[b]
      /\ sender' \in [Senders -> Request]
    BY <1>2 DEF ProofInv, ProofTyped, Request
<1>5. clock # Nothing
    BY <1>1, ProofAssumption
<1>6. \A p \in Origins, u \in Bearers :
          proven[p][u] # Nothing =>
              proven'[p][u] # Nothing /\ proven'[p][u] >= proven[p][u] /\ proven'[p][u] <= clock
    BY <1>1, <1>3, <1>5 DEF ProofInv, ProofTyped, NotesProven
<1>7. ProofTyped'
    BY <1>1, <1>3, <1>4 DEF ProofInv, ProofTyped
<1>8. NotesProven'
    <2> SUFFICES ASSUME NEW p \in Origins, NEW u \in Bearers
                 PROVE  /\ proven'[p][u] # Nothing => proven'[p][u] <= clock
                        /\ noted[p][u] # Nothing =>
                               /\ noted[p][u].at <= clock
                               /\ proven'[p][u] # Nothing /\ proven'[p][u] >= noted[p][u].asked
        BY <1>1 DEF NotesProven
    <2>1. noted[p][u] # Nothing =>
              /\ noted[p][u].at <= clock /\ noted[p][u].asked \in Nat
              /\ proven[p][u] # Nothing /\ proven[p][u] \in Nat /\ proven[p][u] >= noted[p][u].asked
        BY DEF ProofInv, ProofTyped, NotesProven, Note
    <2>2. proven'[p][u] \in Nat \cup {Nothing}
        BY <1>3
    <2>3. proven'[p][u] # Nothing => proven'[p][u] <= clock
        BY <1>1, <1>3 DEF ProofInv, NotesProven
    <2> QED BY <1>6, <2>1, <2>2, <2>3
<1>9. AnswersProven'
    <2> SUFFICES ASSUME NEW b \in Senders
                 PROVE  /\ sender'[b].since <= clock
                        /\ sender'[b].at \in {"answered", "proven"} =>
                               LET when == proven'[sender'[b].origin][sender'[b].token]
                               IN when # Nothing /\ when >= sender'[b].since
        BY <1>1 DEF AnswersProven
    <2>1. CASE b = c
        BY <1>1, <1>3, <1>4, <1>5, <2>1 DEF ProofInv, AnswersProven
    <2>2. CASE b # c
        <3> DEFINE p == sender[b].origin
                   u == sender[b].token
        <3>1. sender'[b] = sender[b] /\ sender[b].since <= clock /\ sender[b].since \in Nat
            BY <1>4, <2>2 DEF ProofInv, ProofTyped, AnswersProven, Request
        <3>2. ASSUME sender[b].at \in {"answered", "proven"}
              PROVE  proven'[p][u] # Nothing /\ proven'[p][u] >= sender[b].since
            <4>1. /\ p \in Origins /\ u \in Bearers
                  /\ proven[p][u] # Nothing /\ proven[p][u] >= sender[b].since
                BY <3>2 DEF ProofInv, ProofTyped, AnswersProven
            <4> QED BY <1>1, <1>3, <1>5, <3>1, <4>1
        <3> QED BY <3>1, <3>2
    <2> QED BY <2>1, <2>2
<1>10. CacheNoted' /\ SentNoted'
    BY <1>1, <1>4 DEF ProofInv, CacheNoted, SentNoted
<1> QED BY <1>7, <1>8, <1>9, <1>10 DEF ProofInv

LEMMA RememberStep ==
    ASSUME ProofInv, NEW c \in Senders, Remember(c)
    PROVE  ProofInv'
<1> DEFINE o == sender[c].origin
           t == sender[c].token
           note == [asked |-> sender[c].since, at |-> clock]
<1>1. /\ sender[c].at = "proven" /\ UNCHANGED <<clock, proven>> /\ clock \in Nat
      /\ o \in Origins /\ t \in Bearers
      /\ cache' = [origin |-> o, token |-> t, at |-> clock]
      /\ noted' = [noted EXCEPT ![o][t] = note]
      /\ sender' = [sender EXCEPT ![c].at = "sending"]
    BY DEF Remember, ProofInv, ProofTyped
<1>2. /\ sender'[c].at = "sending" /\ sender'[c].origin = o
      /\ sender'[c].token = t /\ sender'[c].since = sender[c].since
      /\ \A b \in Senders : b # c => sender'[b] = sender[b]
      /\ sender' \in [Senders -> Request]
    BY <1>1 DEF ProofInv, ProofTyped, Request
<1>3. /\ sender[c].since \in Nat /\ sender[c].since <= clock
      /\ proven[o][t] # Nothing /\ proven[o][t] >= sender[c].since
    BY <1>1 DEF ProofInv, AnswersProven, ProofTyped, Request
<1>4. note \in Note /\ note # Nothing /\ note.asked = sender[c].since /\ note.at = clock
    BY <1>1, <1>3, NothingAssumption DEF Note
<1> HIDE DEF note
<1>5. /\ noted'[o][t] = note
      /\ \A p \in Origins, u \in Bearers : <<p, u>> # <<o, t>> => noted'[p][u] = noted[p][u]
      /\ noted' \in [Origins -> [Bearers -> Note \cup {Nothing}]]
    BY <1>1, <1>4 DEF ProofInv, ProofTyped
<1>6. ProofTyped'
    BY <1>1, <1>2, <1>5 DEF ProofInv, ProofTyped
<1>7. NotesProven'
    <2> SUFFICES ASSUME NEW p \in Origins, NEW u \in Bearers
                 PROVE  /\ proven[p][u] # Nothing => proven[p][u] <= clock
                        /\ noted'[p][u] # Nothing =>
                               /\ noted'[p][u].at <= clock
                               /\ proven[p][u] # Nothing /\ proven[p][u] >= noted'[p][u].asked
        BY <1>1 DEF NotesProven
    <2>1. CASE <<p, u>> = <<o, t>>
        BY <1>1, <1>3, <1>4, <1>5, <2>1 DEF ProofInv, NotesProven
    <2>2. CASE <<p, u>> # <<o, t>>
        BY <1>5, <2>2 DEF ProofInv, NotesProven
    <2> QED BY <2>1, <2>2
<1>8. AnswersProven'
    BY <1>1, <1>2, <1>3 DEF ProofInv, AnswersProven
<1>9. CacheNoted'
    BY <1>1, <1>4, <1>5 DEF CacheNoted
<1>10. SentNoted'
    <2> SUFFICES ASSUME NEW b \in Senders, sender'[b].at = "sending"
                 PROVE  LET new == noted'[sender'[b].origin][sender'[b].token]
                        IN new # Nothing /\ new.at + Ttl > sender'[b].since
        BY DEF SentNoted
    <2> DEFINE p == sender'[b].origin
               u == sender'[b].token
    <2>1. CASE <<p, u>> = <<o, t>>
        <3>1. sender'[b].since \in Nat /\ sender'[b].since <= clock
            BY <1>2, <1>3 DEF ProofInv, ProofTyped, AnswersProven, Request
        <3> QED BY <1>1, <1>4, <1>5, <2>1, <3>1, ProofAssumption
    <2>2. CASE <<p, u>> # <<o, t>>
        <3>1. b # c
            BY <1>2, <2>2
        <3>2. sender'[b] = sender[b] /\ p \in Origins /\ u \in Bearers
            BY <1>2, <3>1 DEF ProofInv, ProofTyped
        <3>3. noted'[p][u] = noted[p][u]
            BY <1>5, <2>2, <3>2
        <3> QED BY <3>2, <3>3 DEF ProofInv, SentNoted
    <2> QED BY <2>1, <2>2
<1> QED BY <1>6, <1>7, <1>8, <1>9, <1>10 DEF ProofInv

LEMMA EndStep ==
    ASSUME ProofInv, NEW c \in Senders, Forget(c) \/ Send(c)
    PROVE  ProofInv'
<1>1. /\ UNCHANGED <<clock, proven, noted>> /\ clock \in Nat
      /\ cache' = cache \/ cache' = Nothing
      /\ sender' = [sender EXCEPT ![c] = Unsent]
    BY DEF Forget, Send, ProofInv, ProofTyped
<1>2. Unsent \in Request /\ Unsent.at = "unsent" /\ Unsent.since = 0
    BY DEF Unsent, Request
<1>3. ProofTyped'
    BY <1>1, <1>2 DEF ProofInv, ProofTyped
<1>4. NotesProven' /\ CacheNoted'
    BY <1>1 DEF ProofInv, NotesProven, CacheNoted
<1>5. AnswersProven' /\ SentNoted'
    BY <1>1, <1>2 DEF ProofInv, ProofTyped, AnswersProven, SentNoted
<1> QED BY <1>3, <1>4, <1>5 DEF ProofInv

LEMMA ClockStep ==
    ASSUME ProofInv, Tick \/ ServerChanges
    PROVE  ProofInv'
<1>1. /\ UNCHANGED <<cache, sender, proven, noted>>
      /\ clock \in Nat /\ clock' \in Nat /\ clock <= clock'
    BY DEF Tick, ServerChanges, ProofInv, ProofTyped
<1>2. ProofTyped' /\ CacheNoted' /\ SentNoted'
    BY <1>1 DEF ProofInv, ProofTyped, CacheNoted, SentNoted
<1>3. NotesProven'
    BY <1>1 DEF ProofInv, ProofTyped, NotesProven, Note
<1>4. AnswersProven'
    BY <1>1 DEF ProofInv, ProofTyped, AnswersProven, Request
<1> QED BY <1>2, <1>3, <1>4 DEF ProofInv

LEMMA ProofNextInv == ProofInv /\ [ProofNext]_proofVars => ProofInv'
<1> SUFFICES ASSUME ProofInv, [ProofNext]_proofVars PROVE ProofInv'
    OBVIOUS
<1>1. CASE ProofNext
    BY <1>1, ClockStep, BeginStep, SenderStep, AnswerStep, RememberStep, EndStep DEF ProofNext
<1>2. CASE UNCHANGED proofVars
    BY <1>2 DEF proofVars, ProofInv, ProofTyped, NotesProven, AnswersProven, CacheNoted, SentNoted
<1> QED BY <1>1, <1>2

\* The bearer goes only to an origin that proved that token to a probe sent before: one whose
\* success was remembered less than a proof's time before the request looked at the cache, or
\* since, by whichever sender asked (send_with_verified_bearer, ProofCache::is_fresh).  How
\* long before that the origin answered is not bounded by the time a proof lasts.
THEOREM BearerGoesWhereProven == ProofSpec => []SentWhereProven
BY ProofInitInv, ProofNextInv, InvSends, PTL DEF ProofSpec
=============================================================================
