------------------------------ MODULE PeerProof ------------------------------
(***************************************************************************)
(* The proof a client asks of a loopback listener before it sends it the   *)
(* shared bearer (crates/core/sidecar-runtime/src/peer_proof.rs): a fresh  *)
(* challenge answered under the token, remembered for a while in a cache   *)
(* that concurrent senders share.  Challenges never repeat, and HMAC is a  *)
(* proof of the token.  Which servers come and go is not under src/.       *)
(***************************************************************************)
EXTENDS Naturals

CONSTANTS
    Origins,   \* the base URLs called, `localhost` pinned to 127.0.0.1
    Bearers,   \* tokens: a server restarted may hold another
    Nothing,
    Senders,   \* senders at once
    Ttl,       \* how long a proof stays fresh
    Patience,  \* how long the probe waits for the whole of its answer
    MaxTime,   \* bound: clock ticks
    MaxSends   \* bound: requests sent

ASSUME ProofAssumption ==
    Ttl \in Nat \ {0} /\ Patience \in Nat /\ MaxTime \in Nat /\ Nothing \notin Nat
ASSUME NothingAssumption == Nothing \notin [asked : Nat, at : Nat]

VARIABLES
    clock,
    server,    \* at each origin, the server there: the token it holds, or none
    cache,     \* the one cached proof
    sender,    \* each sender's request; `since`: when the cache was looked at or the probe sent
    proven,    \* history: when each origin last proved each token
    noted,     \* history: when a proof of it was last remembered, and its probe sent
    sends      \* requests begun

proofVars == <<clock, server, cache, sender, proven, noted, sends>>

\* A server with no token, or of an older version, answers the health route without a proof.
Tokenless == [listens |-> TRUE, token |-> Nothing]
NoServer == [listens |-> FALSE, token |-> Nothing]
Holder(t) == [listens |-> TRUE, token |-> t]
Servers == {NoServer, Tokenless} \cup {Holder(t) : t \in Bearers}
Unsent == [at |-> "unsent", origin |-> Nothing, token |-> Nothing, since |-> 0]

Tick ==
    /\ clock < MaxTime
    /\ clock' = clock + 1
    /\ UNCHANGED <<server, cache, sender, proven, noted, sends>>

ServerChanges ==
    /\ \E o \in Origins, next \in Servers : server[o] # next /\ server' = [server EXCEPT ![o] = next]
    /\ UNCHANGED <<clock, cache, sender, proven, noted, sends>>

---------------------------------------------------------------------------
\* ProofCache::is_fresh.
\* Mutant: the digest of the token is not compared.
IsFreshForUrl(o, t) == cache # Nothing /\ cache.origin = o /\ clock - cache.at < Ttl
IsFresh(o, t) ==
    cache # Nothing /\ cache.origin = o /\ cache.token = t /\ clock - cache.at < Ttl

\* send_with_verified_bearer -> peer_holds_token.
SendBegin(c) ==
    /\ sender[c] = Unsent /\ sends < MaxSends
    /\ \E o \in Origins, t \in Bearers :
           sender' = [sender EXCEPT ![c] =
                         [at |-> IF IsFresh(o, t) THEN "sending" ELSE "stale",
                          origin |-> o, token |-> t, since |-> clock]]
    /\ sends' = sends + 1
    /\ UNCHANGED <<clock, server, cache, proven, noted>>

\* probe, with a fresh challenge.
Ask(c) ==
    /\ sender[c].at = "stale"
    /\ sender' = [sender EXCEPT ![c] = [@ EXCEPT !.at = "probing", !.since = clock]]
    /\ UNCHANGED <<clock, server, cache, proven, noted, sends>>

\* The server there now proves the token to the challenge, or answers without a proof.
Proves(o, t) == server[o] = Holder(t)

ServerAnswers(c) ==
    /\ sender[c].at = "probing"
    /\ LET o == sender[c].origin
           t == sender[c].token
       IN /\ sender' = [sender EXCEPT ![c].at = IF Proves(o, t) THEN "answered" ELSE "unproven"]
          /\ proven' = IF server[o] = Holder(t) THEN [proven EXCEPT ![o][t] = clock] ELSE proven
    /\ UNCHANGED <<clock, server, cache, noted, sends>>

\* The answer arrives in time, and verifies.
Receive(c) ==
    /\ sender[c].at = "answered" /\ clock <= sender[c].since + Patience
    /\ sender' = [sender EXCEPT ![c].at = "proven"]
    /\ UNCHANGED <<clock, server, cache, proven, noted, sends>>

\* It does not: probe_client's timeout, or a broken connection.
ProbeFails(c) ==
    /\ sender[c].at \in {"probing", "answered"}
    /\ sender' = [sender EXCEPT ![c].at = "unproven"]
    /\ UNCHANGED <<clock, server, cache, proven, noted, sends>>

\* The proof is stamped when it is remembered, not when it was given.
Remember(c) ==
    /\ sender[c].at = "proven"
    /\ LET o == sender[c].origin
           t == sender[c].token
       IN /\ cache' = [origin |-> o, token |-> t, at |-> clock]
          /\ noted' = [noted EXCEPT ![o][t] = [asked |-> sender[c].since, at |-> clock]]
    /\ sender' = [sender EXCEPT ![c].at = "sending"]
    /\ UNCHANGED <<clock, server, proven, sends>>

\* Unverified: neither the token nor the request is sent.
Forget(c) ==
    /\ sender[c].at = "unproven"
    /\ cache' = Nothing
    /\ sender' = [sender EXCEPT ![c] = Unsent]
    /\ UNCHANGED <<clock, server, proven, noted, sends>>

Send(c) ==
    /\ sender[c].at = "sending"
    /\ sender' = [sender EXCEPT ![c] = Unsent]
    /\ UNCHANGED <<clock, server, cache, proven, noted, sends>>

---------------------------------------------------------------------------
ProofInit ==
    /\ clock = 0 /\ cache = Nothing /\ sends = 0
    /\ proven = [o \in Origins |-> [t \in Bearers |-> Nothing]]
    /\ noted = proven
    /\ server \in [Origins -> Servers]
    /\ sender = [c \in Senders |-> Unsent]

ProofNext ==
    \/ Tick \/ ServerChanges
    \/ \E c \in Senders :
           \/ SendBegin(c) \/ Ask(c) \/ ServerAnswers(c) \/ Receive(c) \/ ProbeFails(c)
           \/ Remember(c) \/ Forget(c) \/ Send(c)

ProofSpec == ProofInit /\ [][ProofNext]_proofVars

---------------------------------------------------------------------------
\* Every state the variables may be in.
ProofTypeOK ==
    /\ clock \in 0..MaxTime /\ sends \in 0..MaxSends
    /\ server \in [Origins -> Servers]
    /\ cache # Nothing => cache \in [origin : Origins, token : Bearers, at : 0..clock]
    /\ \A c \in Senders :
           sender[c].at \in {"unsent", "stale", "probing", "answered", "proven", "unproven", "sending"}

\* A bearer is on its way only to an origin that proved that very token, to a probe whose
\* success was remembered less than Ttl before this request looked at the cache, or since:
\* by this sender, or by another that shares the cache.  The origin proved it after that
\* probe was sent.
SentWhereProven ==
    \A c \in Senders :
        sender[c].at = "sending" =>
            LET note == noted[sender[c].origin][sender[c].token]
                when == proven[sender[c].origin][sender[c].token]
            IN /\ note # Nothing /\ note.at + Ttl > sender[c].since
               /\ when # Nothing /\ when >= note.asked
==============================================================================
