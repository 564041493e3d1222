----------------------------- MODULE VoterTokens -----------------------------
(***************************************************************************)
(* The signed voter cookie (voter.rs, public.rs vote_request): each run of *)
(* the sidecar loads the signing key from the board's database, or makes   *)
(* it there once.  A sidecar started twice loads it twice: the second one  *)
(* fails only when it binds the port.  HMAC is a signature: only a holder  *)
(* of a key signs under it.  Whether a visitor may have a new identity is  *)
(* VoterIssuance's, and not decided here.                                  *)
(***************************************************************************)
EXTENDS Naturals, FiniteSets

CONSTANTS
    Sidecars,     \* runs of the sidecar that may overlap
    SigningKeys,  \* keys they may generate
    ForeignKey,   \* a key no run has
    NoKey,
    Nonces,       \* identities, each with its nonce
    Visitors,
    NoToken,
    MaxRuns       \* bound: starts of the sidecar

ASSUME TokenAssumption ==
    /\ NoKey \notin SigningKeys
    /\ ForeignKey \notin SigningKeys \cup {NoKey}

VARIABLES
    secret,    \* app_secret's signing key
    sidecar,   \* each run: where it is, the key it made, the key it signs with
    made,      \* keys generated
    minted,    \* nonces issued, each with its visitor
    cookie,    \* each visitor's cookie
    voted,     \* request_vote: voter keys, with the visitor behind each vote
    runs

tokenVars == <<secret, sidecar, made, minted, cookie, voted, runs>>

Down == [at |-> "down", made |-> NoKey, signing |-> NoKey]
Serving == {s \in Sidecars : sidecar[s].at = "up"}

\* A visitor sends no cookie or one of another shape, a cookie signed elsewhere, its own,
\* or its own with another nonce under its signature.
Token(nonce, key, signed) == [shape |-> TRUE, nonce |-> nonce, key |-> key, signed |-> signed]
Malformed == [shape |-> FALSE, nonce |-> NoToken, key |-> NoKey, signed |-> NoToken]
Presented(v) ==
    {Malformed} \cup {Token(n, ForeignKey, n) : n \in Nonces}
    \cup (IF cookie[v] = NoToken THEN {}
          ELSE {Token(n, cookie[v].key, cookie[v].signed) : n \in Nonces})

---------------------------------------------------------------------------
\* VoterTokens::load -> secret_or_insert: two statements, no transaction.
Launch(s) ==
    /\ sidecar[s] = Down /\ runs < MaxRuns
    /\ \E key \in SigningKeys \ made :
           /\ made' = made \cup {key}
           /\ sidecar' = [sidecar EXCEPT ![s] = [at |-> "insert", made |-> key, signing |-> NoKey]]
    /\ runs' = runs + 1
    /\ UNCHANGED <<secret, minted, cookie, voted>>

\* Mutant: the key of this run replaces the one that is there.
SecretReplaced(key) == key
SecretKept(key) == IF secret = NoKey THEN key ELSE secret

InsertSecret(s) ==
    /\ sidecar[s].at = "insert"
    /\ secret' = SecretKept(sidecar[s].made)
    /\ sidecar' = [sidecar EXCEPT ![s].at = "select"]
    /\ UNCHANGED <<made, minted, cookie, voted, runs>>

SelectSecret(s) ==
    /\ sidecar[s].at = "select"
    /\ sidecar' = [sidecar EXCEPT ![s].at = "bind", ![s].signing = secret]
    /\ UNCHANGED <<secret, made, minted, cookie, voted, runs>>

\* The port is one run's at a time: a second run exits.
Bind(s) ==
    /\ sidecar[s].at = "bind"
    /\ sidecar' = [sidecar EXCEPT ![s] = IF Serving = {} THEN [@ EXCEPT !.at = "up"] ELSE Down]
    /\ UNCHANGED <<secret, made, minted, cookie, voted, runs>>

Exit(s) ==
    /\ sidecar[s] # Down
    /\ sidecar' = [sidecar EXCEPT ![s] = Down]
    /\ UNCHANGED <<secret, made, minted, cookie, voted, runs>>

---------------------------------------------------------------------------
\* VoterTokens::verify.
VerifiesToken(s, token) ==
    token.shape /\ token.key = sidecar[s].signing /\ token.signed = token.nonce

CountVote(v, nonce) == voted' = voted \cup {<<nonce, v>>}

\* vote_request: a cookie that verifies names the voter; any other caller is issued one, if
\* the issuance bounds allow.  The response may be lost.
VoteWith(s, v, token) ==
    /\ VerifiesToken(s, token)
    /\ CountVote(v, token.nonce)
    /\ UNCHANGED <<secret, sidecar, made, minted, cookie, runs>>

VoteAfresh(s, v, token) ==
    /\ ~VerifiesToken(s, token)
    /\ \E n \in Nonces \ {m[1] : m \in minted} :
           LET key == sidecar[s].signing IN
           /\ minted' = minted \cup {<<n, v>>}
           /\ CountVote(v, n)
           /\ \/ cookie' = [cookie EXCEPT ![v] = Token(n, key, n)]
              \/ UNCHANGED cookie
    /\ UNCHANGED <<secret, sidecar, made, runs>>

VisitorVotes(s) ==
    /\ sidecar[s].at = "up"
    /\ \E v \in Visitors : \E token \in Presented(v) :
           VoteWith(s, v, token) \/ VoteAfresh(s, v, token)

TokenInit ==
    /\ secret = NoKey /\ sidecar = [s \in Sidecars |-> Down]
    /\ made = {} /\ minted = {} /\ voted = {} /\ runs = 0
    /\ cookie = [v \in Visitors |-> NoToken]

TokenNext ==
    \E s \in Sidecars :
        \/ Launch(s) \/ InsertSecret(s) \/ SelectSecret(s) \/ Bind(s) \/ Exit(s)
        \/ VisitorVotes(s)

TokenSpec == TokenInit /\ [][TokenNext]_tokenVars

---------------------------------------------------------------------------
\* Every state the variables may be in.
TokenTypeOK ==
    /\ secret \in SigningKeys \cup {NoKey} /\ made \subseteq SigningKeys
    /\ \A s \in Sidecars : sidecar[s].at \in {"down", "insert", "select", "bind", "up"}
    /\ Cardinality(Serving) <= 1
    /\ \A v \in Visitors : cookie[v] # NoToken => <<cookie[v].nonce, v>> \in minted

\* A visitor who keeps the cookie stays the same voter: whichever run serves, after restarts
\* and overlapping starts, the cookie verifies to the identity it was issued with, and every
\* vote counted is under an identity issued to the visitor who casts it.
CookiesLast ==
    /\ \A s \in Serving, v \in Visitors : cookie[v] # NoToken => VerifiesToken(s, cookie[v])
    /\ voted \subseteq minted
==============================================================================
